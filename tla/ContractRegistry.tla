-------------------------- MODULE ContractRegistry --------------------------
(***************************************************************************)
(* What the PXE knows of contracts: the ContractStore over the key-value   *)
(* store, the wallet's and the PXE's register calls that fill it, and the  *)
(* real_proof_metadata_cache that prove_tx reads through.  One register    *)
(* call and one prove_tx run concurrently; each write of a register call   *)
(* is a step, and the process may stop between two of them.                *)
(***************************************************************************)
EXTENDS Naturals, Sequences, FiniteSets

CONSTANTS
    Address,        \* contract addresses
    Class,          \* contract class ids
    Artifact,       \* contract artifacts
    ClassOf,        \* compute_contract_class_id_from_artifact
    None

VARIABLES
    chain,          \* the node's instances: address -> current class
    instances,      \* contract:instance:<address>
    artifacts,      \* contract:artifact:<class>
    addrCache,      \* contract_address_preimages of the current anchor block
    classCache,     \* contract_class_preimages, function_membership_witnesses
    op,             \* the register call in progress: its remaining writes
    proof,          \* the metadata lookup of prove_tx in progress
    returned,       \* the last register_contract that returned Ok
    replaced,       \* classes whose artifact update_contract replaced
    torn,           \* contracts whose registration was cut before its artifact
    raced           \* a lookup cached what a register call had replaced

vars == <<chain, instances, artifacts, addrCache, classCache,
          op, proof, returned, replaced, torn, raced>>

Idle == [todo |-> <<>>, registers |-> None]
NoLookup == [at |-> "no"]

Init ==
    /\ chain = [a \in Address |-> None]
    /\ instances = [a \in Address |-> None]
    /\ artifacts = [c \in Class |-> None]
    /\ addrCache = [a \in Address |-> None]
    /\ classCache = [c \in Class |-> None]
    /\ op = Idle /\ proof = NoLookup
    /\ returned = None /\ replaced = {} /\ torn = {} /\ raced = FALSE

(* Embedded PXE get_contract_instance: the local store, then the node. *)
get_contract_instance(a) == IF instances[a] # None THEN instances[a] ELSE chain[a]

PutInstance(a, c) == [put |-> "instance", key |-> a, value |-> c]
PutArtifact(c, art) == [put |-> "artifact", key |-> c, value |-> art]
ClearCache == [put |-> "clear"]

(* Mutant: an instance is stored whether or not its class is known. *)
RegisterWithoutArtifact(a, c, art) ==
    IF art = None \/ ClassOf[art] = c THEN <<PutInstance(a, c), ClearCache>> ELSE <<>>

(* PXE register_contract: the artifact must hash to the instance's class; an
   instance without one needs the class to be known.  <<>> is an error. *)
register_contract(a, c, art) ==
    IF art # None
    THEN IF ClassOf[art] = c
         THEN <<PutInstance(a, c), PutArtifact(c, art), ClearCache>>
         ELSE <<>>
    ELSE IF artifacts[c] # None
         THEN <<PutInstance(a, c), ClearCache>>
         ELSE <<>>

(* Mutant: the cache is cleared before the artifact is replaced. *)
UpdateContractClearsFirst(a, art) ==
    IF instances[a] = None THEN <<>>
    ELSE <<ClearCache, PutArtifact(instances[a], art)>>

(* PXE update_contract: the artifact replaces the one of the class the local
   instance names; the instance keeps its class. *)
update_contract(a, art) ==
    IF instances[a] = None THEN <<>>
    ELSE <<PutArtifact(instances[a], art), ClearCache>>

RegisterClass(art) ==
    /\ op = Idle
    /\ op' = [Idle EXCEPT !.todo = <<PutArtifact(ClassOf[art], art), ClearCache>>]
    /\ UNCHANGED <<chain, instances, artifacts, addrCache,
                   classCache, proof, returned, replaced, torn, raced>>

Started(a, writes) ==
    IF writes = <<>> THEN Idle
    ELSE [todo |-> writes, registers |-> [addr |-> a, onChain |-> chain[a] # None]]

(* A direct PXE register_contract. *)
RegisterContract(a, c, art) ==
    /\ op = Idle
    /\ op' = Started(a, register_contract(a, c, art))
    /\ UNCHANGED <<chain, instances, artifacts, addrCache,
                   classCache, proof, returned, replaced, torn, raced>>

(* BaseWallet register_contract: what get_contract_instance returns decides.
   A known contract of another class is updated, a known one is left alone,
   an unknown one is registered with the given or the known artifact. *)
WalletRegister(a, c, art) ==
    LET existing == get_contract_instance(a)
        use == IF art # None THEN art ELSE artifacts[c]
    IN  /\ op = Idle
        /\ \/ /\ existing # None /\ existing # c /\ art # None
              /\ op' = Started(a, update_contract(a, art))
              /\ replaced' = IF instances[a] = None \/ ClassOf[art] = instances[a]
                             THEN replaced ELSE replaced \cup {instances[a]}
              /\ UNCHANGED returned
           \/ /\ existing # None /\ (existing = c \/ art = None)
              /\ returned' = [addr |-> a, onChain |-> chain[a] # None]
              /\ UNCHANGED <<op, replaced>>
           \/ /\ existing = None /\ use # None
              /\ op' = Started(a, register_contract(a, c, use))
              /\ UNCHANGED <<returned, replaced, torn>>
        /\ UNCHANGED <<chain, instances, artifacts, addrCache,
                       classCache, proof, torn, raced>>

(* One write of the register call; the last one returns Ok. *)
Write ==
    /\ op.todo # <<>>
    /\ LET w == Head(op.todo)
       IN  /\ instances' = IF w.put = "instance"
                           THEN [instances EXCEPT ![w.key] = w.value] ELSE instances
           /\ artifacts' = IF w.put = "artifact"
                           THEN [artifacts EXCEPT ![w.key] = w.value] ELSE artifacts
           /\ IF w.put = "clear"
              THEN /\ addrCache' = [a \in Address |-> None]
                   /\ classCache' = [c \in Class |-> None]
              ELSE UNCHANGED <<addrCache, classCache>>
    /\ IF Len(op.todo) = 1
       THEN /\ op' = Idle
            /\ returned' = IF op.registers # None THEN op.registers ELSE returned
       ELSE /\ op' = [op EXCEPT !.todo = Tail(@)]
            /\ UNCHANGED returned
    /\ UNCHANGED <<chain, proof, replaced, torn, raced>>

(***************************************************************************)
(* prove_tx collects the metadata of a call: class of the address, then    *)
(* preimage and membership witness of the class, each looked up in the     *)
(* cache, else read (an await) and then inserted.                          *)
(***************************************************************************)
LookupAddress(a) ==
    /\ proof.at = "no"
    /\ get_contract_instance(a) # None
    /\ proof' = IF addrCache[a] # None
                THEN [at |-> "class", class |-> addrCache[a]]
                ELSE [at |-> "addr", addr |-> a, class |-> get_contract_instance(a)]
    /\ UNCHANGED <<chain, instances, artifacts, addrCache,
                   classCache, op, returned, replaced, torn, raced>>

WillClear == \E i \in DOMAIN op.todo : op.todo[i].put = "clear"

InsertAddress ==
    /\ proof.at = "addr"
    /\ addrCache' = [addrCache EXCEPT ![proof.addr] = proof.class]
    /\ raced' = (raced \/ (proof.class # get_contract_instance(proof.addr) /\ ~WillClear))
    /\ proof' = [at |-> "class", class |-> proof.class]
    /\ UNCHANGED <<chain, instances, artifacts, classCache, op,
                   returned, replaced, torn>>

LookupClass ==
    /\ proof.at = "class"
    /\ proof' = IF classCache[proof.class] # None \/ artifacts[proof.class] = None
                THEN NoLookup
                ELSE [at |-> "insert", class |-> proof.class,
                      artifact |-> artifacts[proof.class]]
    /\ UNCHANGED <<chain, instances, artifacts, addrCache,
                   classCache, op, returned, replaced, torn, raced>>

InsertClass ==
    /\ proof.at = "insert"
    /\ classCache' = [classCache EXCEPT ![proof.class] = proof.artifact]
    /\ raced' = (raced \/ (proof.artifact # artifacts[proof.class] /\ ~WillClear))
    /\ proof' = NoLookup
    /\ UNCHANGED <<chain, instances, artifacts, addrCache, op,
                   returned, replaced, torn>>

(* Others publish a contract or upgrade it; the address cache is keyed by the
   anchor block, so a new block starts with none of its entries. *)
ChainMoves(a, c) ==
    /\ chain[a] # c
    /\ chain' = [chain EXCEPT ![a] = c]
    /\ addrCache' = [b \in Address |-> None]
    /\ proof' = IF proof.at = "addr" THEN [at |-> "class", class |-> proof.class] ELSE proof
    /\ UNCHANGED <<instances, artifacts, classCache, op,
                   returned, replaced, torn, raced>>

Crash ==
    /\ op # Idle \/ proof # NoLookup
    /\ op' = Idle /\ proof' = NoLookup
    /\ addrCache' = [a \in Address |-> None]
    /\ classCache' = [c \in Class |-> None]
    /\ returned' = None /\ raced' = FALSE
    /\ torn' = torn \cup {a \in Address : instances[a] # None /\ artifacts[instances[a]] = None}
    /\ UNCHANGED <<chain, instances, artifacts, replaced>>

Next ==
    \/ \E art \in Artifact : RegisterClass(art)
    \/ \E a \in Address, c \in Class, art \in Artifact \cup {None} :
        RegisterContract(a, c, art) \/ WalletRegister(a, c, art)
    \/ Write
    \/ \E a \in Address : LookupAddress(a)
    \/ InsertAddress \/ LookupClass \/ InsertClass
    \/ \E a \in Address, c \in Class : ChainMoves(a, c)
    \/ Crash

Spec == Init /\ [][Next]_vars

TypeOK ==
    /\ chain \in [Address -> Class \cup {None}]
    /\ instances \in [Address -> Class \cup {None}]
    /\ artifacts \in [Class -> Artifact \cup {None}]
    /\ addrCache \in [Address -> Class \cup {None}]
    /\ classCache \in [Class -> Artifact \cup {None}]
    /\ Len(op.todo) <= 3 /\ proof.at \in {"no", "addr", "class", "insert"}
    /\ replaced \subseteq Class /\ torn \subseteq Address /\ raced \in BOOLEAN

(* Between register calls, what prove_tx finds in the metadata cache is what
   the stores hold, through any interleaving of lookups, registrations and
   updates - unless a lookup inserted a value it had read before an update
   that has already cleared the cache: such an entry stays. *)
CacheCurrent ==
    (op = Idle /\ ~raced) =>
        /\ \A c \in Class : classCache[c] \in {None, artifacts[c]}
        /\ \A a \in Address : addrCache[a] \in {None, get_contract_instance(a)}

(* A contract whose registration returned Ok can be executed: its instance and
   the artifact of its class are stored, and an artifact hashes to the class it
   is stored under unless update_contract put it there.  Not claimed: contracts
   the node already knew, and registrations cut between their two writes. *)
RunnableIfUnpublished ==
    /\ (returned # None /\ op = Idle) =>
        LET a == returned.addr
        IN  ~returned.onChain /\ a \notin torn =>
                instances[a] # None /\ artifacts[instances[a]] # None
    /\ \A c \in Class \ replaced : artifacts[c] # None => ClassOf[artifacts[c]] = c

(* docs/src/architecture/wallet-layer.md: register_contract persists the
   instance and its artifact into the PXE stores so the wallet can simulate the
   contract.  It does not hold of a wallet registration without an artifact
   for a contract the node knows: that one stores nothing. *)
RegisteredIsRunnable ==
    (returned # None /\ op = Idle) =>
        instances[returned.addr] # None /\ artifacts[instances[returned.addr]] # None
=============================================================================
