----------------------------- MODULE StoreProofs -----------------------------
(***************************************************************************)
(* Two stores of the PXE, for any contents. ContractRegistry: the metadata *)
(* that prove_tx caches agrees with the contract store, and a registered   *)
(* contract can be executed. PrivateEventStore (Events): a rollback that   *)
(* completes leaves no event above its target, however often the process   *)
(* stopped before. The components of this module have nothing to do with   *)
(* one another: a theorem is about the specification it names, and a       *)
(* constant or variable that two of them use is universally quantified in  *)
(* each.                                                                   *)
(***************************************************************************)
EXTENDS ContractRegistry, TLAPS

(* None is no class and no artifact, and every artifact has a class.     *)
RegistryBounds ==
    None \notin Class \cup Artifact /\ ClassOf \in [Artifact -> Class]

(* The writes a register call may still have to make: an instance is written
   only when the artifact of its class is there or comes next, an artifact
   belongs to its class unless update_contract replaces it, and the cache is
   cleared last. *)
Fits(c, art) == ClassOf[art] = c \/ c \in replaced

Writes(s) ==
    \/ s = <<ClearCache>>
    \/ \E c \in Class, art \in Artifact : s = <<PutArtifact(c, art), ClearCache>> /\ Fits(c, art)
    \/ \E a \in Address, c \in Class : s = <<PutInstance(a, c), ClearCache>> /\ artifacts[c] # None
    \/ \E a \in Address, c \in Class, art \in Artifact :
          s = <<PutInstance(a, c), PutArtifact(c, art), ClearCache>> /\ Fits(c, art)

(* A register_contract, and whether its instance is published.           *)
Registration == [addr : Address, onChain : BOOLEAN]

Op == \/ op = Idle
      \/ op = [todo |-> op.todo, registers |-> op.registers] /\ Writes(op.todo)
         /\ op.registers \in Registration \cup {None}

Lookup ==
    \/ proof = NoLookup
    \/ \E a \in Address, c \in Class : proof = [at |-> "addr", addr |-> a, class |-> c]
    \/ \E c \in Class : proof = [at |-> "class", class |-> c]
    \/ \E c \in Class, art \in Artifact : proof = [at |-> "insert", class |-> c, artifact |-> art]

(* The stores, the caches of prove_tx and the history variables.         *)
Stores ==
    /\ chain \in [Address -> Class \cup {None}]
    /\ instances \in [Address -> Class \cup {None}]
    /\ artifacts \in [Class -> Artifact \cup {None}]
    /\ addrCache \in [Address -> Class \cup {None}]
    /\ classCache \in [Class -> Artifact \cup {None}]
    /\ replaced \subseteq Class /\ torn \subseteq Address /\ raced \in BOOLEAN
    /\ returned \in Registration \cup {None}

(* An instance whose artifact is missing was torn, or its artifact is the
   next write. *)
Coming(c) == \E art \in Artifact : op.todo = <<PutArtifact(c, art), ClearCache>>

Backed ==
    /\ \A a \in Address \ torn : instances[a] # None => artifacts[instances[a]] # None \/ Coming(instances[a])
    /\ \A c \in Class : artifacts[c] # None => Fits(c, artifacts[c])

(* A registration that has returned, or is past the write of its instance. *)
Stored(r) == r # None /\ ~r.onChain => instances[r.addr] # None

Told == Stored(returned) /\ (Stored(op.registers) \/ \E c \in Class : Head(op.todo) = PutInstance(op.registers.addr, c))

(* Between two register calls the caches agree with the stores.          *)
Fresh ==
    op = Idle /\ ~raced =>
        /\ \A c \in Class : classCache[c] \in {None, artifacts[c]}
        /\ \A a \in Address : addrCache[a] \in {None, get_contract_instance(a)}

RegistryInv == Stores /\ Op /\ Lookup /\ Backed /\ Told /\ Fresh
-----------------------------------------------------------------------------
(* What a register call sets out to do, and its first write. *)
LEMMA RegisterWrites ==
  ASSUME RegistryBounds, Stores, NEW a \in Address, NEW c \in Class, NEW art \in Artifact \cup {None},
         register_contract(a, c, art) # <<>>
  PROVE  Writes(register_contract(a, c, art)) /\ Head(register_contract(a, c, art)) = PutInstance(a, c)
<1>1. CASE art # None
  <2>1. art \in Artifact /\ ClassOf[art] = c
    BY <1>1 DEF register_contract
  <2>2. register_contract(a, c, art) = <<PutInstance(a, c), PutArtifact(c, art), ClearCache>>
    BY Zenon, <1>1, <2>1 DEF register_contract
  <2> QED BY <2>1, <2>2 DEF Writes, Fits
<1>2. CASE art = None
  <2>1. artifacts[c] # None /\ register_contract(a, c, art) = <<PutInstance(a, c), ClearCache>>
    BY <1>2 DEF register_contract
  <2> QED BY <2>1 DEF Writes
<1> QED BY <1>1, <1>2

LEMMA UpdateWrites ==
  ASSUME RegistryBounds, Stores, NEW a \in Address, NEW art \in Artifact, instances[a] # None
  PROVE  /\ instances[a] \in Class
         /\ update_contract(a, art) = <<PutArtifact(instances[a], art), ClearCache>>
  BY DEF Stores, update_contract

(* One write: what it is, and the writes that are left. *)
Puts(a, c) == /\ instances' = [instances EXCEPT ![a] = c] /\ UNCHANGED <<artifacts, addrCache, classCache, returned>>
              /\ Head(op.todo) = PutInstance(a, c)
              /\ op' = [todo |-> Tail(op.todo), registers |-> op.registers]
PutsArtifact(c, art) ==
              /\ artifacts' = [artifacts EXCEPT ![c] = art] /\ UNCHANGED <<instances, addrCache, classCache, returned>>
              /\ op.todo = <<PutArtifact(c, art), ClearCache>> /\ Fits(c, art)
              /\ op' = [todo |-> <<ClearCache>>, registers |-> op.registers]
Clears ==     /\ UNCHANGED <<instances, artifacts>> /\ op.todo = <<ClearCache>> /\ op' = Idle
              /\ addrCache' = [a \in Address |-> None] /\ classCache' = [c \in Class |-> None]
              /\ returned' = IF op.registers # None THEN op.registers ELSE returned

LEMMA WriteIs ==
  ASSUME Op, Write
  PROVE  /\ UNCHANGED <<chain, proof, replaced, torn, raced>> /\ Writes(op.todo)
         /\ op.registers \in Registration \cup {None}
         /\ op = [todo |-> op.todo, registers |-> op.registers]
         /\ \/ Clears
            \/ \E c \in Class, art \in Artifact : PutsArtifact(c, art)
            \/ \E a \in Address, c \in Class : /\ Puts(a, c) 
                 /\ \/ op'.todo = <<ClearCache>> /\ artifacts[c] # None
                    \/ \E art \in Artifact : op'.todo = <<PutArtifact(c, art), ClearCache>> /\ Fits(c, art)
<1>1. op.todo # <<>> /\ op # Idle
  BY DEF Write, Idle
<1>2. /\ op = [todo |-> op.todo, registers |-> op.registers] /\ Writes(op.todo)
      /\ op.registers \in Registration \cup {None}
  BY <1>1 DEF Op
<1>3. UNCHANGED <<chain, proof, replaced, torn, raced>>
  BY DEF Write
<1>4. CASE op.todo = <<ClearCache>>
  <2>1. Head(op.todo) = ClearCache /\ Len(op.todo) = 1
    BY <1>4
  <2>2. Clears
    BY <1>4, <2>1 DEF Write, Clears, ClearCache
  <2> QED BY <1>2, <1>3, <2>2
<1>5. ASSUME NEW c \in Class, NEW art \in Artifact, op.todo = <<PutArtifact(c, art), ClearCache>>, Fits(c, art)
      PROVE  PutsArtifact(c, art)
  <2>1. Head(op.todo) = PutArtifact(c, art) /\ Len(op.todo) = 2 /\ Tail(op.todo) = <<ClearCache>>
    BY <1>5
  <2>2. op' = [todo |-> Tail(op.todo), registers |-> op.registers] /\ returned' = returned
    BY <1>2, <2>1 DEF Write
  <2>3. Head(op.todo).put = "artifact" /\ Head(op.todo).key = c /\ Head(op.todo).value = art
    BY <2>1 DEF PutArtifact
  <2>4. artifacts' = [artifacts EXCEPT ![c] = art] /\ UNCHANGED <<instances, addrCache, classCache>>
    BY Zenon, <2>3 DEF Write
  <2> QED BY <1>5, <2>1, <2>2, <2>4 DEF PutsArtifact
<1>6. ASSUME NEW a \in Address, NEW c \in Class, op.todo = <<PutInstance(a, c), ClearCache>>, artifacts[c] # None
      PROVE  Puts(a, c) /\ op'.todo = <<ClearCache>>
  <2>1. Head(op.todo) = PutInstance(a, c) /\ Len(op.todo) = 2 /\ Tail(op.todo) = <<ClearCache>>
    BY <1>6
  <2>2. op' = [todo |-> Tail(op.todo), registers |-> op.registers] /\ returned' = returned
    BY <1>2, <2>1 DEF Write
  <2>3. Head(op.todo).put = "instance" /\ Head(op.todo).key = a /\ Head(op.todo).value = c
    BY <2>1 DEF PutInstance
  <2>4. instances' = [instances EXCEPT ![a] = c] /\ UNCHANGED <<artifacts, addrCache, classCache>>
    BY Zenon, <2>3 DEF Write
  <2> QED BY <2>1, <2>2, <2>4 DEF Puts
<1>7. ASSUME NEW a \in Address, NEW c \in Class, NEW art \in Artifact,
             op.todo = <<PutInstance(a, c), PutArtifact(c, art), ClearCache>>, Fits(c, art)
      PROVE  Puts(a, c) /\ op'.todo = <<PutArtifact(c, art), ClearCache>>
  <2>1. /\ Head(op.todo) = PutInstance(a, c) /\ Len(op.todo) = 3
        /\ Tail(op.todo) = <<PutArtifact(c, art), ClearCache>>
    BY <1>7
  <2>2. op' = [todo |-> Tail(op.todo), registers |-> op.registers] /\ returned' = returned
    BY <1>2, <2>1 DEF Write
  <2>3. Head(op.todo).put = "instance" /\ Head(op.todo).key = a /\ Head(op.todo).value = c
    BY <2>1 DEF PutInstance
  <2>4. instances' = [instances EXCEPT ![a] = c] /\ UNCHANGED <<artifacts, addrCache, classCache>>
    BY Zenon, <2>3 DEF Write
  <2> QED BY <2>1, <2>2, <2>4 DEF Puts
<1> QED BY <1>2, <1>3, <1>4, <1>5, <1>6, <1>7 DEF Writes

(* A register call that begins leaves the stores alone; it has writes to make,
   or it is over at once. *)
Rest == UNCHANGED <<chain, instances, artifacts, addrCache, classCache, proof, torn, raced>> /\ op = Idle

Begins ==
    /\ Rest /\ UNCHANGED returned /\ replaced \subseteq replaced' /\ replaced' \subseteq Class
    /\ op' # Idle /\ Op'
    /\ \/ Stored(op'.registers)
       \/ \E c \in Class : Head(op'.todo) = PutInstance(op'.registers.addr, c)

Skips ==
    /\ Rest /\ UNCHANGED <<op, replaced>>
    /\ \/ UNCHANGED returned
       \/ \E a \in Address : /\ get_contract_instance(a) # None
                             /\ returned' = [addr |-> a, onChain |-> chain[a] # None]

LEMMA StartedIs ==
  ASSUME NEW a \in Address, NEW s, s # <<>>, op' = Started(a, s)
  PROVE  /\ op' = [todo |-> op'.todo, registers |-> op'.registers] /\ op'.todo = s
         /\ op'.registers \in Registration /\ op'.registers.addr = a
<1> DEFINE onChain == chain[a] # None
<1>1. onChain \in BOOLEAN
  BY Zenon
<1>2. op' = [todo |-> s, registers |-> [addr |-> a, onChain |-> onChain]]
  BY Zenon DEF Started
<1> HIDE DEF onChain
<1> QED BY <1>1, <1>2 DEF Registration

LEMMA BegunOp ==
  ASSUME NEW a \in Address, NEW s, s # <<>>, op' = Started(a, s), Writes(op.todo)'
  PROVE  Op' /\ op' # Idle
<1>1. /\ op' = [todo |-> op'.todo, registers |-> op'.registers] /\ op'.todo = s
      /\ op'.registers \in Registration
  BY StartedIs
<1>2. op' # Idle
  BY <1>1 DEF Idle
<1>3. Op'
  BY <1>1 DEF Op
<1> QED BY <1>2, <1>3

LEMMA KeptWrites ==
  ASSUME NEW s, Writes(s), op'.todo = s, UNCHANGED <<artifacts, replaced>> PROVE Writes(op.todo)'
  BY DEF Writes, Fits, PutInstance, PutArtifact, ClearCache

(* The same for the two ways a call comes to register_contract. *)
LEMMA RegisterBegins ==
  ASSUME RegistryBounds, Stores, NEW a \in Address, NEW c \in Class, NEW art \in Artifact \cup {None},
         Rest, op' = Started(a, register_contract(a, c, art)), UNCHANGED <<returned, replaced>>
  PROVE  Begins \/ Skips
<1>1. CASE register_contract(a, c, art) = <<>>
  BY <1>1 DEF Skips, Started, Rest
<1>2. CASE register_contract(a, c, art) # <<>>
  <2>1. Writes(register_contract(a, c, art)) /\ Head(register_contract(a, c, art)) = PutInstance(a, c)
    BY <1>2, RegisterWrites
  <2>2. op'.todo = register_contract(a, c, art) /\ op'.registers.addr = a
    BY <1>2, StartedIs
  <2>3. Writes(op.todo)'
    BY <2>1, <2>2, KeptWrites DEF Rest
  <2>4. Op' /\ op' # Idle
    BY <1>2, <2>3, BegunOp
  <2>5. \E d \in Class : Head(op'.todo) = PutInstance(op'.registers.addr, d)
    BY <2>1, <2>2
  <2> QED BY <2>4, <2>5 DEF Begins, Stores
<1> QED BY <1>1, <1>2

LEMMA BeginIs ==
  ASSUME RegistryBounds, Stores, NEW a \in Address, NEW c \in Class, NEW art \in Artifact \cup {None},
         RegisterContract(a, c, art) \/ WalletRegister(a, c, art)
  PROVE  Begins \/ Skips
<1>1. CASE RegisterContract(a, c, art)
  <2>1. Rest /\ op' = Started(a, register_contract(a, c, art)) /\ UNCHANGED <<returned, replaced>>
    BY <1>1 DEF RegisterContract, Rest
  <2> QED BY <2>1, RegisterBegins
<1>2. CASE WalletRegister(a, c, art)
  <2> DEFINE existing == get_contract_instance(a)
             use == IF art # None THEN art ELSE artifacts[c]
  <2>0. Rest
    BY <1>2 DEF WalletRegister, Rest
  <2>1. CASE /\ existing # None /\ existing # c /\ art # None
             /\ op' = Started(a, update_contract(a, art))
             /\ replaced' = IF instances[a] = None \/ ClassOf[art] = instances[a]
                            THEN replaced ELSE replaced \cup {instances[a]}
             /\ UNCHANGED returned
    <3>1. CASE instances[a] = None
      BY <2>0, <2>1, <3>1 DEF Skips, Started, update_contract, Rest
    <3>2. CASE instances[a] # None
      <4>1. instances[a] \in Class /\ art \in Artifact
        BY <2>1, <3>2, UpdateWrites
      <4>2. op' = Started(a, <<PutArtifact(instances[a], art), ClearCache>>)
        BY <2>1, <3>2, <4>1, UpdateWrites
      <4>3. op'.todo = <<PutArtifact(instances[a], art), ClearCache>>
        BY <4>2, StartedIs
      <4>4. ClassOf[art] = instances[a] \/ instances[a] \in replaced'
        BY <2>1, <3>2
      <4>5. Writes(op.todo)'
        BY <4>1, <4>3, <4>4 DEF Writes, Fits
      <4>8. Op' /\ op' # Idle
        BY Zenon, <4>2, <4>5, BegunOp
      <4>6. replaced \subseteq replaced' /\ replaced' \subseteq Class
        BY <2>1, <4>1 DEF Stores
      <4>7. Stored(op'.registers)
        BY <3>2, <4>2, StartedIs DEF Stored
      <4> QED BY <2>0, <2>1, <4>6, <4>7, <4>8 DEF Begins
    <3> QED BY <3>1, <3>2
  <2>2. CASE /\ existing # None
             /\ returned' = [addr |-> a, onChain |-> chain[a] # None]
             /\ UNCHANGED <<op, replaced>>
    BY <2>0, <2>2 DEF Skips
  <2>3. CASE use # None /\ op' = Started(a, register_contract(a, c, use)) /\ UNCHANGED <<returned, replaced>>
    <3>1. use \in Artifact
      BY <2>3 DEF Stores
    <3> HIDE DEF use
    <3> QED BY <2>0, <2>3, <3>1, RegisterBegins
  <2> QED BY Zenon, <1>2, <2>1, <2>2, <2>3 DEF WalletRegister
<1> QED BY <1>1, <1>2

LEMMA ClassBegins ==
  ASSUME RegistryBounds, Stores, NEW art \in Artifact, RegisterClass(art) PROVE Begins
<1>1. ClassOf[art] \in Class /\ art \in Artifact
  BY DEF RegistryBounds
<1>2. /\ Rest /\ UNCHANGED <<returned, replaced>>
      /\ op' = [todo |-> <<PutArtifact(ClassOf[art], art), ClearCache>>, registers |-> None]
  BY DEF RegisterClass, Rest, Idle
<1>3. op'.todo = <<PutArtifact(ClassOf[art], art), ClearCache>> /\ op'.registers = None
  BY <1>2
<1>4. Writes(op.todo)'
  BY <1>1, <1>3 DEF Writes, Fits
<1>5. Op' /\ op' # Idle
  BY <1>2, <1>3, <1>4 DEF Op, Idle
<1>6. Stored(op'.registers)
  BY <1>3 DEF Stored
<1> QED BY <1>2, <1>5, <1>6 DEF Begins, Stores

-----------------------------------------------------------------------------
(* A step that leaves the stores and the register call alone. *)
LEMMA StoresAlone ==
  ASSUME Op, Backed, Told, UNCHANGED <<instances, artifacts, op, replaced, torn, returned>>
  PROVE  Op' /\ Backed' /\ Told'
<1>1. Op'
  BY Zenon DEF Op, Writes, Fits, PutInstance, PutArtifact, ClearCache
<1>2. Backed'
  BY DEF Backed, Coming, Fits, PutArtifact, ClearCache
<1>3. Told'
  BY DEF Told, Stored, PutInstance
<1> QED BY <1>1, <1>2, <1>3

LEMMA NoneComing ==
  ASSUME op = Idle \/ op.todo = <<ClearCache>> \/ \E a, c : Head(op.todo) = PutInstance(a, c)
  PROVE  \A c : ~Coming(c)
<1> SUFFICES ASSUME NEW c, NEW art \in Artifact, op.todo = <<PutArtifact(c, art), ClearCache>> PROVE FALSE
  BY DEF Coming
<1>1. Head(op.todo) = PutArtifact(c, art) /\ Len(op.todo) = 2
  OBVIOUS
<1>2. Head(op.todo).put = "artifact"
  BY <1>1 DEF PutArtifact
<1> QED BY <1>1, <1>2 DEF PutInstance, Idle

(* A call that begins writes nothing yet.                                *)
LEMMA BeginStep ==
  ASSUME RegistryBounds, RegistryInv, Begins \/ Skips PROVE RegistryInv'
<1> USE DEF RegistryInv
<1>1. CASE Begins
  <2>1. Stores'
    BY <1>1 DEF Begins, Rest, Stores
  <2>2. Lookup'
    BY <1>1 DEF Begins, Rest, Lookup, NoLookup
  <2>3. Backed'
    <3>1. \A c : ~Coming(c)
      BY <1>1, NoneComing DEF Begins, Rest
    <3> QED BY <1>1, <3>1 DEF Begins, Rest, Backed, Fits
  <2>4. Told'
    BY <1>1 DEF Begins, Rest, Told, Stored, PutInstance
  <2>5. Fresh'
    BY <1>1 DEF Begins, Fresh, Idle
  <2> QED BY <1>1, <2>1, <2>2, <2>3, <2>4, <2>5 DEF Begins
<1>2. CASE Skips
  <2>1. CASE UNCHANGED returned
    <3>1. Op' /\ Backed' /\ Told'
      BY <1>2, <2>1, StoresAlone DEF Skips, Rest
    <3>2. Stores' /\ Lookup' /\ Fresh'
      BY <1>2, <2>1 DEF Skips, Rest, Stores, Lookup, NoLookup, Fresh, Idle, get_contract_instance
    <3> QED BY <3>1, <3>2
  <2>2. ASSUME NEW a \in Address, get_contract_instance(a) # None,
               returned' = [addr |-> a, onChain |-> chain[a] # None]
        PROVE  RegistryInv'
    <3> DEFINE onChain == chain[a] # None
    <3>1. onChain \in BOOLEAN /\ returned' = [addr |-> a, onChain |-> onChain]
      BY Zenon, <2>2
    <3>2. onChain \/ instances[a] # None
      BY <2>2 DEF get_contract_instance
    <3> HIDE DEF onChain
    <3>3. Stores'
      BY <1>2, <3>1 DEF Skips, Rest, Stores, Registration
    <3>4. Op' /\ Lookup' /\ Fresh'
      BY <1>2 DEF Skips, Rest, Op, Lookup, NoLookup, Fresh, Idle, get_contract_instance
    <3>5. Backed'
      BY <1>2 DEF Skips, Rest, Backed, Coming, Fits, PutArtifact, ClearCache
    <3>6. Told'
      BY <1>2, <3>1, <3>2 DEF Skips, Rest, Told, Stored, Idle
    <3> QED BY <3>3, <3>4, <3>5, <3>6
  <2> QED BY <1>2, <2>1, <2>2 DEF Skips
<1> QED BY <1>1, <1>2

LEMMA PutsDiffer == \A a, c : PutInstance(a, c).put = "instance"
  BY DEF PutInstance

(* One write of a register call: an instance, an artifact, the clearing  *)
(* of the caches at the end.                                             *)
LEMMA WriteStep ==
  ASSUME RegistryBounds, RegistryInv, Write PROVE RegistryInv'
<1> USE DEF RegistryInv
<1>1. UNCHANGED <<chain, proof, replaced, torn, raced>> /\ op.registers \in Registration \cup {None}
  BY WriteIs
<1>2. Lookup'
  BY <1>1 DEF Lookup, NoLookup
<1>3. CASE Clears
  <2>1. Stores'
    BY <1>1, <1>3 DEF Clears, Stores
  <2>2. Op'
    BY <1>3 DEF Clears, Op, Idle
  <2>3. Backed'
    BY <1>1, <1>3, NoneComing DEF Clears, Backed, Fits
  <2>4. Head(op.todo).put = "clear"
    BY <1>3 DEF Clears, ClearCache
  <2>5. Told'
    <3>1. Stored(op.registers)
      BY <2>4, PutsDiffer DEF Told
    <3> QED BY <1>3, <3>1 DEF Clears, Told, Stored, Idle
  <2>6. Fresh'
    BY <1>3 DEF Clears, Fresh
  <2> QED BY <1>2, <2>1, <2>2, <2>3, <2>5, <2>6
<1>4. ASSUME NEW c \in Class, NEW art \in Artifact, PutsArtifact(c, art) PROVE RegistryInv'
  <2>1. Stores'
    BY <1>1, <1>4 DEF PutsArtifact, Stores
  <2>2. Op' /\ op' # Idle
    BY <1>1, <1>4 DEF PutsArtifact, Op, Idle, Writes
  <2>3. artifacts'[c] = art /\ art # None /\ \A d \in Class \ {c} : artifacts'[d] = artifacts[d]
    BY <1>4 DEF PutsArtifact, Stores, RegistryBounds
  <2>4. \A d \in Class : Coming(d) => d = c
    <3>1. Head(op.todo).key = c
      BY <1>4 DEF PutsArtifact, PutArtifact
    <3> QED BY <3>1 DEF Coming, PutArtifact
  <2>5. Backed'
    BY <1>1, <1>4, <2>3, <2>4 DEF PutsArtifact, Backed, Fits, Stores
  <2>6. Told'
    <3>1. Head(op.todo).put = "artifact"
      BY <1>4 DEF PutsArtifact, PutArtifact
    <3>2. Stored(op.registers)
      BY <3>1, PutsDiffer DEF Told
    <3> QED BY <1>4, <3>2 DEF PutsArtifact, Told, Stored
  <2> QED BY <1>2, <2>1, <2>2, <2>5, <2>6 DEF Fresh
<1>5. ASSUME NEW a \in Address, NEW c \in Class, Puts(a, c),
             \/ op'.todo = <<ClearCache>> /\ artifacts[c] # None
             \/ \E art \in Artifact : op'.todo = <<PutArtifact(c, art), ClearCache>> /\ Fits(c, art)
      PROVE  RegistryInv'
  <2>1. Stores'
    BY <1>1, <1>5 DEF Puts, Stores
  <2>2. op'.todo # <<>> /\ op' = [todo |-> op'.todo, registers |-> op'.registers] /\ op'.registers = op.registers
    BY <1>5 DEF Puts
  <2>3. Writes(op.todo)'
    BY Zenon, <1>1, <1>5 DEF Puts, Writes, Fits, PutArtifact, ClearCache
  <2>4. Op' /\ op' # Idle
    BY <1>1, <2>2, <2>3 DEF Op, Idle
  <2>5. instances'[a] = c /\ c # None /\ \A b \in Address \ {a} : instances'[b] = instances[b]
    BY <1>5 DEF Puts, Stores, RegistryBounds
  <2>6. Backed'
    <3>1. \A d : ~Coming(d)
      BY <1>5, NoneComing DEF Puts
    <3>2. artifacts[c] # None \/ Coming(c)'
      BY <1>5 DEF Coming, PutArtifact, ClearCache
    <3>3. UNCHANGED <<artifacts, torn, replaced>>
      BY <1>1, <1>5 DEF Puts
    <3>4. \A b \in Address \ torn : instances'[b] # None => artifacts[instances'[b]] # None \/ Coming(instances[b])'
      BY <2>5, <3>1, <3>2 DEF Backed
    <3>5. \A d \in Class : artifacts[d] # None => Fits(d, artifacts[d])'
      BY <3>3 DEF Backed, Fits
    <3> QED BY Zenon, <3>3, <3>4, <3>5 DEF Backed
  <2>7. Told'
    <3>1. \A r \in Registration \cup {None} : Stored(r) => Stored(r)'
      BY <2>5 DEF Stored, Registration
    <3>2. Stored(op.registers)'
      <4>1. CASE Stored(op.registers)
        BY <1>1, <2>2, <3>1, <4>1
      <4>2. ASSUME NEW d \in Class, Head(op.todo) = PutInstance(op.registers.addr, d) PROVE Stored(op.registers)'
        BY <1>5, <2>2, <2>5, <4>2 DEF Puts, PutInstance, Stored
      <4> QED BY <4>1, <4>2 DEF Told
    <3> QED BY <1>5, <3>1, <3>2 DEF Told, Puts, Stores
  <2> QED BY <1>2, <2>1, <2>4, <2>6, <2>7 DEF Fresh
<1> QED BY <1>3, <1>4, <1>5, WriteIs

(* The lookups of prove_tx, and what goes on around them. *)
LEMMA LookupStep ==
  ASSUME RegistryBounds, RegistryInv, LookupClass \/ \E a \in Address : LookupAddress(a) PROVE RegistryInv'
<1> USE DEF RegistryInv
<1>1. UNCHANGED <<chain, instances, artifacts, addrCache, classCache, op, returned, replaced, torn, raced>>
  BY DEF LookupClass, LookupAddress
<1>2. Op' /\ Backed' /\ Told'
  BY <1>1, StoresAlone
<1>3. Stores' /\ Fresh'
  BY <1>1 DEF Stores, Fresh, get_contract_instance
<1>4. ASSUME NEW a \in Address, LookupAddress(a) PROVE Lookup'
  <2>1. get_contract_instance(a) \in Class
    BY <1>4 DEF LookupAddress, get_contract_instance, Stores
  <2>2. CASE addrCache[a] # None
    <3>1. addrCache[a] \in Class /\ proof' = [at |-> "class", class |-> addrCache[a]]
      BY <1>4, <2>2 DEF LookupAddress, Stores
    <3> QED BY <3>1 DEF Lookup
  <2>3. CASE addrCache[a] = None
    BY <1>4, <2>1, <2>3 DEF LookupAddress, Lookup
  <2> QED BY <2>2, <2>3
<1>5. ASSUME LookupClass PROVE Lookup'
  <2>1. PICK c \in Class : proof = [at |-> "class", class |-> c]
    BY <1>5 DEF LookupClass, Lookup, NoLookup
  <2>2. CASE proof' = NoLookup
    BY <2>2 DEF Lookup
  <2>3. CASE proof' # NoLookup
    <3>1. proof.class = c
      BY <2>1
    <3>2. artifacts[c] \in Artifact /\ proof' = [at |-> "insert", class |-> c, artifact |-> artifacts[c]]
      BY <1>5, <2>3, <3>1 DEF LookupClass, Stores
    <3> QED BY <3>2 DEF Lookup
  <2> QED BY <2>2, <2>3
<1> QED BY <1>2, <1>3, <1>4, <1>5

LEMMA InsertAddressStep ==
  ASSUME RegistryBounds, RegistryInv, InsertAddress PROVE RegistryInv'
<1> USE DEF RegistryInv
<1>1. PICK a \in Address, c \in Class : proof = [at |-> "addr", addr |-> a, class |-> c]
  BY DEF InsertAddress, Lookup, NoLookup
<1>2. proof.addr = a /\ proof.class = c
  BY <1>1
<1>3. /\ UNCHANGED <<chain, instances, artifacts, classCache, op, returned, replaced, torn>>
      /\ addrCache' = [addrCache EXCEPT ![a] = c] /\ proof' = [at |-> "class", class |-> c]
      /\ raced' = (raced \/ (c # get_contract_instance(a) /\ ~WillClear))
  BY <1>2 DEF InsertAddress
<1>4. Op' /\ Backed' /\ Told'
  BY <1>3, StoresAlone
<1>5. Stores'
  BY <1>3 DEF Stores
<1>6. Lookup'
  BY <1>3 DEF Lookup
<1>7. Fresh'
  <2> SUFFICES ASSUME op = Idle, ~raced' PROVE Fresh'
    BY <1>3 DEF Fresh
  <2>1. ~WillClear
    BY DEF WillClear, Idle
  <2>2. ~raced /\ c = get_contract_instance(a)
    BY Zenon, <1>3, <2>1
  <2>3. \A d \in Class : classCache'[d] \in {None, artifacts'[d]}
    BY Zenon, <1>3, <2>2 DEF Fresh
  <2>4. \A b \in Address : get_contract_instance(b)' = get_contract_instance(b)
    BY Zenon, <1>3 DEF get_contract_instance
  <2>5. \A b \in Address : addrCache'[b] \in {None, get_contract_instance(b)}
    BY <1>3, <2>2 DEF Fresh, Stores
  <2> QED BY Zenon, <2>3, <2>4, <2>5 DEF Fresh
<1> QED BY Zenon, <1>4, <1>5, <1>6, <1>7

LEMMA InsertClassStep ==
  ASSUME RegistryBounds, RegistryInv, InsertClass PROVE RegistryInv'
<1> USE DEF RegistryInv
<1>1. PICK c \in Class, art \in Artifact : proof = [at |-> "insert", class |-> c, artifact |-> art]
  BY DEF InsertClass, Lookup, NoLookup
<1>2. proof.class = c /\ proof.artifact = art
  BY <1>1
<1>3. /\ UNCHANGED <<chain, instances, artifacts, addrCache, op, returned, replaced, torn>>
      /\ classCache' = [classCache EXCEPT ![c] = art] /\ proof' = NoLookup
      /\ raced' = (raced \/ (art # artifacts[c] /\ ~WillClear))
  BY <1>2 DEF InsertClass
<1>4. Op' /\ Backed' /\ Told'
  BY <1>3, StoresAlone
<1>5. Stores'
  BY <1>3 DEF Stores
<1>6. Lookup'
  BY <1>3 DEF Lookup
<1>7. Fresh'
  <2> SUFFICES ASSUME op = Idle, ~raced' PROVE Fresh'
    BY <1>3 DEF Fresh
  <2>1. ~WillClear
    BY DEF WillClear, Idle
  <2>2. ~raced /\ art = artifacts[c]
    BY Zenon, <1>3, <2>1
  <2>3. \A d \in Class : classCache'[d] \in {None, artifacts'[d]}
    BY <1>3, <2>2 DEF Fresh, Stores
  <2>4. \A b \in Address : addrCache'[b] \in {None, get_contract_instance(b)'}
    BY Zenon, <1>3, <2>2 DEF Fresh, get_contract_instance
  <2> QED BY Zenon, <2>3, <2>4 DEF Fresh
<1> QED BY Zenon, <1>4, <1>5, <1>6, <1>7

LEMMA AroundStep ==
  ASSUME RegistryBounds, RegistryInv, Crash \/ \E a \in Address, c \in Class : ChainMoves(a, c)
  PROVE  RegistryInv'
<1> USE DEF RegistryInv
<1>1. CASE Crash
  <2>1. Op' /\ Lookup' /\ Fresh'
    BY Zenon, <1>1 DEF Crash, Op, Lookup, Fresh
  <2>4. Stores'
    BY Zenon, <1>1 DEF Crash, Stores
  <2>2. Backed'
    BY <1>1 DEF Crash, Backed, Fits
  <2>3. Told'
    BY <1>1 DEF Crash, Told, Stored, Idle
  <2> QED BY Zenon, <2>1, <2>2, <2>3, <2>4
<1>2. ASSUME NEW a \in Address, NEW c \in Class, ChainMoves(a, c) PROVE RegistryInv'
  <2>1. Op' /\ Backed' /\ Told'
    BY <1>2, StoresAlone DEF ChainMoves
  <2>2. Stores' /\ Fresh'
    BY <1>2 DEF ChainMoves, Stores, Fresh
  <2>3. Lookup'
    BY <1>2 DEF ChainMoves, Lookup, NoLookup
  <2> QED BY <2>1, <2>2, <2>3
<1> QED BY <1>1, <1>2

LEMMA RegistryInit == ASSUME Init PROVE RegistryInv
<1> USE DEF Init
<1>1. Stores /\ Op /\ Lookup
  BY Zenon DEF Stores, Op, Lookup
<1>2. Backed /\ Told /\ Fresh
  BY DEF Backed, Told, Stored, Fresh, Idle
<1> QED BY <1>1, <1>2 DEF RegistryInv

(* One case per action.                                                  *)
LEMMA RegistryStep == ASSUME RegistryBounds, RegistryInv, [Next]_vars PROVE RegistryInv'
<1>1. ASSUME NEW art \in Artifact, RegisterClass(art) PROVE RegistryInv'
  BY <1>1, ClassBegins, BeginStep DEF RegistryInv
<1>2. ASSUME NEW a \in Address, NEW c \in Class, NEW art \in Artifact \cup {None},
             RegisterContract(a, c, art) \/ WalletRegister(a, c, art)
      PROVE  RegistryInv'
  BY <1>2, BeginIs, BeginStep DEF RegistryInv
<1>3. CASE UNCHANGED vars
  BY Zenon, <1>3, StoresAlone DEF vars, RegistryInv, Stores, Lookup, NoLookup, Fresh, get_contract_instance
<1> QED BY Zenon, <1>1, <1>2, <1>3, WriteStep, LookupStep, InsertAddressStep, InsertClassStep, AroundStep DEF Next

(* The stores, the caches and the calls in progress keep their types.    *)
THEOREM RegistryTypeCorrect == ASSUME RegistryBounds PROVE Spec => []TypeOK
<1>1. ASSUME RegistryInv PROVE TypeOK
  <2>1. proof.at \in {"no", "addr", "class", "insert"}
    BY <1>1 DEF RegistryInv, Lookup, NoLookup
  <2>2. Len(op.todo) <= 3
    <3>1. CASE op = Idle
      BY <3>1 DEF Idle
    <3>2. CASE Writes(op.todo)
      <4>1. \A x, y, z : Len(<<x>>) = 1 /\ Len(<<x, y>>) = 2 /\ Len(<<x, y, z>>) = 3
        OBVIOUS
      <4>2. Len(op.todo) \in 1..3
        BY <3>2, <4>1 DEF Writes
      <4>3. \A n \in 1..3 : n <= 3
        OBVIOUS
      <4> QED BY Zenon, <4>2, <4>3
    <3> QED BY <1>1, <3>1, <3>2 DEF RegistryInv, Op
  <2> QED BY <1>1, <2>1, <2>2 DEF RegistryInv, Stores, TypeOK
<1> QED BY <1>1, RegistryInit, RegistryStep, PTL DEF Spec

(* What prove_tx has cached of a contract or of its class is what the    *)
(* stores hold, whenever no register_contract, register_contract_class   *)
(* or update_contract is under way, unless a lookup inserted what it had *)
(* read before an update that has cleared the cache already (each of     *)
(* them clears it as its last write).                                    *)
THEOREM CacheStaysCurrent == ASSUME RegistryBounds PROVE Spec => []CacheCurrent
<1>1. ASSUME RegistryInv PROVE CacheCurrent
  BY <1>1 DEF RegistryInv, Fresh, CacheCurrent
<1> QED BY <1>1, RegistryInit, RegistryStep, PTL DEF Spec

(* A contract that register_contract has returned for and that is not    *)
(* published has its instance and an artifact of its class stored,       *)
(* whatever calls and crashes came before, unless a crash fell between   *)
(* the two writes of its own registration; a class whose artifact        *)
(* update_contract did not replace has an artifact that hashes to it.    *)
THEOREM RegisteredRunnable == ASSUME RegistryBounds PROVE Spec => []RunnableIfUnpublished
<1>1. ASSUME RegistryInv PROVE RunnableIfUnpublished
  <2>1. \A c \in Class \ replaced : artifacts[c] # None => ClassOf[artifacts[c]] = c
    BY <1>1 DEF RegistryInv, Backed, Fits
  <2>2. ASSUME returned # None, op = Idle, ~returned.onChain, returned.addr \notin torn
        PROVE  instances[returned.addr] # None /\ artifacts[instances[returned.addr]] # None
    <3>1. returned.addr \in Address
      BY <1>1, <2>2 DEF RegistryInv, Stores, Registration
    <3>2. instances[returned.addr] # None
      BY <1>1, <2>2 DEF RegistryInv, Told, Stored
    <3> QED BY <1>1, <2>2, <3>1, <3>2, NoneComing DEF RegistryInv, Backed
  <2> QED BY <2>1, <2>2 DEF RunnableIfUnpublished
<1> QED BY <1>1, RegistryInit, RegistryStep, PTL DEF Spec

-----------------------------------------------------------------------------
(* PrivateEventStore. *)
CONSTANTS Event, Scope, KeyOf, TxOf, IndexOf, Committed, MaxBlock
VARIABLES events, keyIdx, blockIdx, cut, hidden, rolledTo
Events == INSTANCE PrivateEventStore

(* Block numbers are naturals.                                           *)
EventBounds == MaxBlock \in Nat

(* The calls in progress. *)
Storing ==
    \E e \in Event, b \in Events!Block, s \in Scope, l \in {"put", "key", "block"} :
        op = [at |-> l, event |-> e, block |-> b, scope |-> s]

Todo(todo, target) == \E B \in SUBSET Events!Above(target) : todo \in [B -> Seq(Event)]

Walking ==
    \E target \in 0..MaxBlock :
        \/ op = [at |-> "walk", target |-> target, todo |-> op.todo] /\ Todo(op.todo, target)
        \/ \E e \in Event, l \in {"unindex", "delete"} :
              op = [at |-> l, event |-> e, target |-> target, todo |-> op.todo] /\ Todo(op.todo, target)

Calls == op = Events!Idle \/ Storing \/ Walking

(* What the variables of the store hold.                                 *)
Kinds ==
    /\ events \in [Event -> [block : 0..MaxBlock, scopes : SUBSET Scope]]
    /\ blockIdx \in [Events!Block -> Seq(Event)]
    /\ rolledTo \in 0..MaxBlock /\ cut \subseteq Event

(* A stored event is in the list of its block, unless its store was cut short
   or has not come to that write. *)
Indexed ==
    \A e \in Event : events[e].block # 0 =>
        \/ e \in Events!ToSet(blockIdx[events[e].block]) \/ e \in cut
        \/ op.at \in {"key", "block"} /\ op.event = e /\ op.block = events[e].block

(* What a rollback has still to delete is in the lists it has read, or is the
   event it is at. *)
Remaining ==
    op.at \in {"walk", "unindex", "delete"} =>
        \A e \in Event : events[e].block > op.target =>
            \/ e \in cut
            \/ events[e].block \in DOMAIN op.todo /\ e \in Events!ToSet(op.todo[events[e].block])
            \/ op.at # "walk" /\ op.event = e

(* The property: nothing above the last rollback.                        *)
Gone == \A e \in Event : events[e].block > rolledTo => e \in cut

EventInv == Kinds /\ Calls /\ Indexed /\ Remaining /\ Gone
-----------------------------------------------------------------------------
(* Sequences. *)
LEMMA ListedHolds ==
  ASSUME NEW S, NEW s \in Seq(S), NEW x \in S
  PROVE  Events!Listed(s, x) \in Seq(S) /\ x \in Events!ToSet(Events!Listed(s, x)) /\ \A y \in Events!ToSet(s) : y \in Events!ToSet(Events!Listed(s, x))
<1>1. CASE x \in Events!ToSet(s)
  BY <1>1 DEF Events!Listed
<1>2. CASE x \notin Events!ToSet(s)
  <2>1. Append(s, x) \in Seq(S) /\ Len(Append(s, x)) = Len(s) + 1 /\ Append(s, x)[Len(s) + 1] = x
    OBVIOUS
  <2>2. \A i \in 1..Len(s) : Append(s, x)[i] = s[i]
    OBVIOUS
  <2>3. DOMAIN s = 1..Len(s) /\ DOMAIN Append(s, x) = 1..(Len(s) + 1) /\ Len(s) \in Nat
    BY <2>1
  <2>4. x \in Events!ToSet(Append(s, x))
    BY <2>1, <2>3 DEF Events!ToSet
  <2>5. \A y \in Events!ToSet(s) : y \in Events!ToSet(Append(s, x))
    BY <2>2, <2>3 DEF Events!ToSet
  <2> QED BY <1>2, <2>1, <2>4, <2>5 DEF Events!Listed
<1> QED BY <1>1, <1>2

(* What is in a list is its head or in its tail.                         *)
LEMMA HeadOrTail ==
  ASSUME NEW S, NEW s \in Seq(S), s # <<>>
  PROVE  Head(s) \in S /\ Tail(s) \in Seq(S) /\ \A y \in Events!ToSet(s) : y = Head(s) \/ y \in Events!ToSet(Tail(s))
<1>1. Head(s) \in S /\ Head(s) = s[1] /\ Tail(s) \in Seq(S) /\ Len(Tail(s)) = Len(s) - 1 /\ Len(s) \in Nat \ {0}
  OBVIOUS
<1>2. DOMAIN s = 1..Len(s) /\ DOMAIN Tail(s) = 1..(Len(s) - 1)
  BY <1>1
<1>3. \A i \in 1..(Len(s) - 1) : Tail(s)[i] = s[i + 1]
  OBVIOUS
<1>4. ASSUME NEW y \in Events!ToSet(s) PROVE y = Head(s) \/ y \in Events!ToSet(Tail(s))
  <2>1. PICK i \in 1..Len(s) : y = s[i]
    BY <1>2 DEF Events!ToSet
  <2>2. CASE i = 1
    BY <1>1, <2>1, <2>2
  <2>3. CASE i # 1
    <3>1. i - 1 \in 1..(Len(s) - 1) /\ Tail(s)[i - 1] = s[i]
      BY <1>1, <1>3, <2>3
    <3> QED BY Zenon, <1>2, <2>1, <3>1 DEF Events!ToSet
  <2> QED BY <2>2, <2>3
<1> QED BY <1>1, <1>4

LEMMA NoneListed == Events!ToSet(<<>>) = {}
  BY DEF Events!ToSet

(* The call in progress, by what it is about to do. *)
LEMMA StoringAt ==
  ASSUME Calls, op.at \in {"put", "key", "block"}
  PROVE  op.event \in Event /\ op.block \in Events!Block /\ op.scope \in Scope
         /\ op = [at |-> op.at, event |-> op.event, block |-> op.block, scope |-> op.scope]
<1>1. Storing
  BY DEF Calls, Events!Idle, Walking
<1> QED BY <1>1 DEF Storing

LEMMA WalkingAt ==
  ASSUME Calls, op.at \in {"walk", "unindex", "delete"}
  PROVE  /\ op.target \in 0..MaxBlock /\ Todo(op.todo, op.target)
         /\ op.at = "walk" => op = [at |-> "walk", target |-> op.target, todo |-> op.todo]
         /\ op.at # "walk" =>
               op.event \in Event /\ op = [at |-> op.at, event |-> op.event, target |-> op.target, todo |-> op.todo]
<1>1. Walking
  BY DEF Calls, Events!Idle, Storing
<1>2. PICK target \in 0..MaxBlock :
        \/ op = [at |-> "walk", target |-> target, todo |-> op.todo] /\ Todo(op.todo, target)
        \/ \E e \in Event, l \in {"unindex", "delete"} :
              op = [at |-> l, event |-> e, target |-> target, todo |-> op.todo] /\ Todo(op.todo, target)
  BY <1>1 DEF Walking
<1>3. CASE op = [at |-> "walk", target |-> target, todo |-> op.todo] /\ Todo(op.todo, target)
  <2>1. op.at = "walk" /\ op.target = target
    BY <1>3
  <2> QED BY <1>3, <2>1
<1>4. ASSUME NEW e \in Event, NEW l \in {"unindex", "delete"},
             op = [at |-> l, event |-> e, target |-> target, todo |-> op.todo], Todo(op.todo, target)
      PROVE  /\ op.target \in 0..MaxBlock /\ Todo(op.todo, op.target) /\ op.at # "walk"
             /\ op.event \in Event /\ op = [at |-> op.at, event |-> op.event, target |-> op.target, todo |-> op.todo]
  <2>1. op.at = l /\ op.event = e /\ op.target = target
    BY <1>4
  <2> QED BY <1>4, <2>1
<1> QED BY <1>2, <1>3, <1>4

(* The store of an event. *)
LEMMA StoreStep ==
  ASSUME EventBounds, EventInv,
         \/ \E e \in Event, b \in Events!Block, s \in Scope : Events!StoreEvent(e, b, s)
         \/ Events!MergeScope \/ Events!PutEvent \/ Events!PutKeyIndex \/ Events!PutBlockIndex
  PROVE  EventInv'
<1> USE DEF EventInv
<1>1. ASSUME NEW e \in Event, NEW b \in Events!Block, NEW s \in Scope, Events!StoreEvent(e, b, s) PROVE EventInv'
  <2>1. op' = [at |-> "put", event |-> e, block |-> b, scope |-> s] /\ op = Events!Idle
        /\ UNCHANGED <<events, blockIdx, cut, rolledTo>>
    BY <1>1 DEF Events!StoreEvent
  <2>2. Kinds' /\ Gone'
    BY <2>1 DEF Kinds, Gone
  <2>3. Calls'
    BY <2>1 DEF Calls, Storing
  <2>4. Indexed' /\ Remaining'
    BY <2>1 DEF Indexed, Remaining, Events!Idle
  <2> QED BY <2>2, <2>3, <2>4
<1>2. CASE Events!MergeScope
  <2>1. op.event \in Event /\ op.scope \in Scope
    BY <1>2, StoringAt DEF Events!MergeScope
  <2>2. op' = Events!Idle /\ UNCHANGED <<blockIdx, cut, rolledTo>>
    BY <1>2 DEF Events!MergeScope
  <2>3. /\ events' \in [Event -> [block : 0..MaxBlock, scopes : SUBSET Scope]]
        /\ \A e \in Event : events'[e].block = events[e].block
    BY <1>2, <2>1 DEF Events!MergeScope, Kinds
  <2>4. Kinds' /\ Gone'
    BY <2>2, <2>3 DEF Kinds, Gone
  <2>5. Calls'
    BY <2>2 DEF Calls
  <2>6. Indexed' /\ Remaining'
    BY <1>2, <2>2, <2>3 DEF Events!MergeScope, Indexed, Remaining, Events!Idle
  <2> QED BY <2>4, <2>5, <2>6
<1>3. CASE Events!PutEvent
  <2>1. /\ op.event \in Event /\ op.block \in Events!Block /\ op.scope \in Scope
        /\ op = [at |-> op.at, event |-> op.event, block |-> op.block, scope |-> op.scope]
    BY <1>3, StoringAt DEF Events!PutEvent
  <2>2. /\ op' = [at |-> "key", event |-> op.event, block |-> op.block, scope |-> op.scope]
        /\ UNCHANGED <<blockIdx, cut>> /\ rolledTo' = MaxBlock
        /\ events' = [events EXCEPT ![op.event] = [block |-> op.block, scopes |-> {op.scope}]]
    BY <1>3, <2>1 DEF Events!PutEvent
  <2>3. /\ events' \in [Event -> [block : 0..MaxBlock, scopes : SUBSET Scope]]
        /\ events'[op.event].block = op.block
        /\ \A e \in Event \ {op.event} : events'[e] = events[e]
    BY <2>1, <2>2 DEF Kinds, Events!Block, EventBounds
  <2>4. Kinds' /\ Gone'
    BY <2>2, <2>3 DEF Kinds, Gone, EventBounds
  <2>5. Calls'
    BY <2>1, <2>2 DEF Calls, Storing
  <2>6. Indexed' /\ Remaining'
    BY <1>3, <2>2, <2>3 DEF Events!PutEvent, Indexed, Remaining
  <2> QED BY <2>4, <2>5, <2>6
<1>4. CASE Events!PutKeyIndex
  <2>1. /\ op.event \in Event /\ op.block \in Events!Block /\ op.scope \in Scope
        /\ op = [at |-> op.at, event |-> op.event, block |-> op.block, scope |-> op.scope]
    BY <1>4, StoringAt DEF Events!PutKeyIndex
  <2>2. /\ op' = [at |-> "block", event |-> op.event, block |-> op.block, scope |-> op.scope]
        /\ UNCHANGED <<events, blockIdx, cut, rolledTo>>
    BY <1>4, <2>1 DEF Events!PutKeyIndex
  <2>3. Kinds' /\ Gone'
    BY <2>2 DEF Kinds, Gone
  <2>4. Calls'
    BY <2>1, <2>2 DEF Calls, Storing
  <2>5. Indexed' /\ Remaining'
    BY <2>2 DEF Indexed, Remaining
  <2> QED BY <2>3, <2>4, <2>5
<1>5. CASE Events!PutBlockIndex
  <2>1. op.event \in Event /\ op.block \in Events!Block
    BY <1>5, StoringAt DEF Events!PutBlockIndex
  <2>2. /\ op' = Events!Idle /\ UNCHANGED <<events, cut, rolledTo>>
        /\ blockIdx' = [blockIdx EXCEPT ![op.block] = Events!Listed(blockIdx[op.block], op.event)]
    BY <1>5 DEF Events!PutBlockIndex
  <2> DEFINE list == Events!Listed(blockIdx[op.block], op.event)
  <2>3. list \in Seq(Event) /\ op.event \in Events!ToSet(list) /\ \A y \in Events!ToSet(blockIdx[op.block]) : y \in Events!ToSet(list)
    BY Zenon, <2>1, ListedHolds DEF Kinds
  <2> HIDE DEF list
  <2>4. blockIdx' = [blockIdx EXCEPT ![op.block] = list]
    BY <2>2 DEF list
  <2>5. Kinds' /\ Gone'
    BY <2>1, <2>2, <2>3, <2>4 DEF Kinds, Gone
  <2>6. Calls' /\ Remaining'
    BY <2>2 DEF Calls, Remaining, Events!Idle
  <2>7. Indexed'
    <3>1. blockIdx'[op.block] = list /\ \A b \in Events!Block \ {op.block} : blockIdx'[b] = blockIdx[b]
      BY <2>1, <2>4 DEF Kinds
    <3> SUFFICES ASSUME NEW e \in Event, events[e].block # 0
                 PROVE  e \in Events!ToSet(blockIdx'[events[e].block]) \/ e \in cut
      BY <2>2 DEF Indexed
    <3>2. events[e].block \in Events!Block
      BY DEF Kinds, Events!Block, EventBounds
    <3> QED BY <2>3, <3>1, <3>2 DEF Indexed
  <2> QED BY <2>5, <2>6, <2>7
<1> QED BY <1>1, <1>2, <1>3, <1>4, <1>5

(* The rollback of the store. *)
LEMMA RollbackStep ==
  ASSUME EventBounds, EventInv, NEW target \in 0..MaxBlock, Events!Rollback(target)
  PROVE  EventInv'
<1> USE DEF EventInv
<1> DEFINE keys == {b \in Events!Above(target) : blockIdx[b] # <<>>}
           lists == [b \in keys |-> blockIdx[b]]
<1>1. /\ op = Events!Idle /\ op' = [at |-> "walk", target |-> target, todo |-> lists]
      /\ UNCHANGED <<events, blockIdx, cut, rolledTo>>
  BY DEF Events!Rollback
<1>2. Todo(lists, target)
  <2>1. \A b \in keys : blockIdx[b] \in Seq(Event)
    BY DEF Kinds, Events!Above
  <2>2. keys \in SUBSET Events!Above(target) /\ lists \in [keys -> Seq(Event)]
    BY <2>1
  <2> QED BY Zenon, <2>2 DEF Todo
<1>3. op'.at = "walk" /\ op'.target = target /\ op'.todo = lists
  BY <1>1
<1>4. Kinds' /\ Gone'
  BY <1>1, Zenon DEF Kinds, Gone
<1>5. Calls'
  <2>1. op' = [at |-> "walk", target |-> target, todo |-> op'.todo] /\ Todo(op'.todo, target)
    BY <1>1, <1>2, <1>3
  <2> QED BY <2>1 DEF Calls, Walking
<1>6. Indexed'
  BY <1>1 DEF Indexed, Events!Idle
<1>7. Remaining'
  <2> SUFFICES ASSUME NEW e \in Event, events[e].block > target, e \notin cut
               PROVE  events[e].block \in DOMAIN lists /\ e \in Events!ToSet(lists[events[e].block])
    BY <1>1, <1>3 DEF Remaining
  <2>1. events[e].block \in Events!Block /\ events[e].block # 0
    BY DEF Kinds, Events!Block, EventBounds
  <2>2. e \in Events!ToSet(blockIdx[events[e].block])
    BY <1>1, <2>1 DEF Indexed, Events!Idle
  <2>3. blockIdx[events[e].block] # <<>>
    BY <2>2, NoneListed
  <2>4. events[e].block \in keys
    BY <2>1, <2>3 DEF Events!Above
  <2> QED BY <2>2, <2>4
<1> QED BY <1>4, <1>5, <1>6, <1>7

(* The walk of a rollback, one event after the other, ...                *)
LEMMA NextEventStep ==
  ASSUME EventBounds, EventInv, NEW b \in Events!Block, Events!NextEvent(b)
  PROVE  EventInv'
<1> USE DEF EventInv
<1>1. /\ op.target \in 0..MaxBlock /\ Todo(op.todo, op.target) /\ op.at = "walk"
      /\ b \in DOMAIN op.todo /\ op.todo[b] # <<>>
  BY WalkingAt DEF Events!NextEvent
<1>2. PICK B \in SUBSET Events!Above(op.target) : op.todo \in [B -> Seq(Event)]
  BY Zenon, <1>1 DEF Todo
<1> DEFINE h == Head(op.todo[b])
           rest == [op.todo EXCEPT ![b] = Tail(op.todo[b])]
           l == IF events[h] = Events!None THEN "delete" ELSE "unindex"
<1>3. /\ op' = [at |-> l, event |-> h, target |-> op.target, todo |-> rest]
      /\ UNCHANGED <<events, blockIdx, cut, rolledTo>>
  BY DEF Events!NextEvent
<1>4. l \in {"unindex", "delete"}
  OBVIOUS
<1>5. h \in Event /\ Tail(op.todo[b]) \in Seq(Event)
      /\ \A y \in Events!ToSet(op.todo[b]) : y = h \/ y \in Events!ToSet(Tail(op.todo[b]))
  BY <1>1, <1>2, HeadOrTail
<1>6. /\ rest \in [B -> Seq(Event)] /\ DOMAIN rest = DOMAIN op.todo
      /\ rest[b] = Tail(op.todo[b]) /\ \A c \in DOMAIN op.todo \ {b} : rest[c] = op.todo[c]
  BY <1>1, <1>2, <1>5
<1> HIDE DEF h, rest, l
<1>7. op'.at = l /\ op'.event = h /\ op'.target = op.target /\ op'.todo = rest
  BY <1>3
<1>8. Kinds' /\ Gone'
  BY <1>3, Zenon DEF Kinds, Gone
<1>9. Calls'
  <2>1. op' = [at |-> l, event |-> h, target |-> op.target, todo |-> op'.todo] /\ Todo(op'.todo, op.target)
    BY <1>2, <1>3, <1>6, <1>7 DEF Todo
  <2> QED BY <1>1, <1>4, <1>5, <2>1 DEF Calls, Walking
<1>10. Indexed'
  BY <1>1, <1>3 DEF Indexed
<1>11. Remaining'
  <2> SUFFICES ASSUME NEW e \in Event, events[e].block > op.target, e \notin cut, e # h
               PROVE  events[e].block \in DOMAIN rest /\ e \in Events!ToSet(rest[events[e].block])
    BY <1>3, <1>4, <1>7 DEF Remaining
  <2>1. events[e].block \in DOMAIN op.todo /\ e \in Events!ToSet(op.todo[events[e].block])
    BY <1>1 DEF Remaining
  <2> QED BY <1>5, <1>6, <2>1
<1> QED BY <1>8, <1>9, <1>10, <1>11

(* ... the two writes that delete it, ...                                *)
LEMMA DeletingStep ==
  ASSUME EventBounds, EventInv, Events!Unindex \/ Events!DeleteEvent
  PROVE  EventInv'
<1> USE DEF EventInv
<1>1. /\ op.target \in 0..MaxBlock /\ Todo(op.todo, op.target) /\ op.at \in {"unindex", "delete"}
      /\ op.event \in Event
      /\ op = [at |-> op.at, event |-> op.event, target |-> op.target, todo |-> op.todo]
  BY WalkingAt DEF Events!Unindex, Events!DeleteEvent
<1>2. CASE Events!Unindex
  <2>1. /\ op' = [at |-> "delete", event |-> op.event, target |-> op.target, todo |-> op.todo]
        /\ UNCHANGED <<events, blockIdx, cut, rolledTo>>
    BY <1>1, <1>2 DEF Events!Unindex
  <2>2. op'.at = "delete" /\ op'.event = op.event /\ op'.target = op.target /\ op'.todo = op.todo
    BY <2>1
  <2>3. Kinds' /\ Gone'
    BY <2>1, Zenon DEF Kinds, Gone
  <2>4. Calls'
    BY <1>1, <2>1, <2>2 DEF Calls, Walking
  <2>5. Indexed'
    BY <1>1, <2>1, <2>2 DEF Indexed
  <2>6. Remaining'
    BY <1>1, <2>1, <2>2 DEF Remaining
  <2> QED BY <2>3, <2>4, <2>5, <2>6
<1>3. CASE Events!DeleteEvent
  <2>1. /\ op' = [at |-> "walk", target |-> op.target, todo |-> op.todo]
        /\ events' = [events EXCEPT ![op.event] = Events!None] /\ cut' = cut \ {op.event}
        /\ UNCHANGED <<blockIdx, rolledTo>>
    BY <1>3 DEF Events!DeleteEvent
  <2>2. op'.at = "walk" /\ op'.target = op.target /\ op'.todo = op.todo
    BY <2>1
  <2>3. /\ events' \in [Event -> [block : 0..MaxBlock, scopes : SUBSET Scope]]
        /\ events'[op.event].block = 0
        /\ \A e \in Event \ {op.event} : events'[e] = events[e]
    BY <1>1, <2>1 DEF Kinds, Events!None, EventBounds
  <2>4. Kinds' /\ Gone'
    BY <2>1, <2>3 DEF Kinds, Gone
  <2>5. Calls'
    BY <1>1, <2>1, <2>2 DEF Calls, Walking
  <2>6. Indexed'
    BY <1>1, <2>1, <2>2, <2>3 DEF Indexed
  <2>7. Remaining'
    <3> SUFFICES ASSUME NEW e \in Event, events'[e].block > op.target, e \notin cut'
                 PROVE  events'[e].block \in DOMAIN op.todo /\ e \in Events!ToSet(op.todo[events'[e].block])
      BY <2>1, <2>2 DEF Remaining
    <3>1. e # op.event /\ events'[e] = events[e] /\ e \notin cut
      BY <1>1, <2>1, <2>3
    <3> QED BY <1>1, <3>1 DEF Remaining
  <2> QED BY <2>4, <2>5, <2>6, <2>7
<1> QED BY <1>2, <1>3

(* ... and the key of a block once its list is through.                  *)
LEMMA BlockDone ==
  ASSUME EventBounds, EventInv, NEW b \in Events!Block, Events!DeleteBlockKey(b)
  PROVE  EventInv'
<1> USE DEF EventInv
<1>1. /\ op.target \in 0..MaxBlock /\ Todo(op.todo, op.target) /\ op.at = "walk"
      /\ op = [at |-> "walk", target |-> op.target, todo |-> op.todo]
      /\ b \in DOMAIN op.todo /\ op.todo[b] = <<>>
  BY WalkingAt DEF Events!DeleteBlockKey
<1>2. PICK B \in SUBSET Events!Above(op.target) : op.todo \in [B -> Seq(Event)]
  BY <1>1 DEF Todo
<1> DEFINE rest == Events!Restrict(op.todo, DOMAIN op.todo \ {b})
<1>3. /\ op' = [at |-> "walk", target |-> op.target, todo |-> rest]
      /\ blockIdx' = [blockIdx EXCEPT ![b] = <<>>]
      /\ UNCHANGED <<events, cut, rolledTo>>
  BY <1>1 DEF Events!DeleteBlockKey
<1>4. /\ rest \in [B \ {b} -> Seq(Event)] /\ B \ {b} \in SUBSET Events!Above(op.target)
      /\ DOMAIN rest = DOMAIN op.todo \ {b} /\ \A c \in DOMAIN rest : rest[c] = op.todo[c]
  BY <1>2 DEF Events!Restrict
<1> HIDE DEF rest
<1>5. op'.at = "walk" /\ op'.target = op.target /\ op'.todo = rest
  BY <1>3
<1>6. /\ blockIdx' \in [Events!Block -> Seq(Event)]
      /\ \A c \in Events!Block \ {b} : blockIdx'[c] = blockIdx[c]
  BY <1>3 DEF Kinds
<1>7. Kinds' /\ Gone'
  BY <1>3, <1>6 DEF Kinds, Gone
<1>8. Calls'
  <2>1. op' = [at |-> "walk", target |-> op.target, todo |-> op'.todo] /\ Todo(op'.todo, op.target)
    BY Zenon, <1>3, <1>4, <1>5 DEF Todo
  <2> QED BY <1>1, <2>1 DEF Calls, Walking
<1>9. ASSUME NEW e \in Event, events[e].block > op.target, e \notin cut
      PROVE  events[e].block \in DOMAIN rest /\ e \in Events!ToSet(rest[events[e].block])
  <2>1. events[e].block \in DOMAIN op.todo /\ e \in Events!ToSet(op.todo[events[e].block])
    BY <1>1, <1>9 DEF Remaining
  <2>2. events[e].block # b
    BY <1>1, <2>1, NoneListed
  <2> QED BY <1>4, <2>1, <2>2
<1>10. Remaining'
  BY <1>3, <1>5, <1>9 DEF Remaining
<1>11. Indexed'
  <2> SUFFICES ASSUME NEW e \in Event, events[e].block # 0, e \notin cut
               PROVE  e \in Events!ToSet(blockIdx'[events[e].block])
    BY <1>3 DEF Indexed
  <2>1. e \in Events!ToSet(blockIdx[events[e].block]) /\ events[e].block \in Events!Block
    BY <1>1 DEF Indexed, Kinds, Events!Block, EventBounds
  <2>2. events[e].block # b
    <3>1. b > op.target
      BY <1>1, <1>2 DEF Events!Above
    <3> QED BY <1>4, <1>9, <3>1
  <2> QED BY <1>6, <2>1, <2>2
<1> QED BY <1>7, <1>8, <1>10, <1>11

(* A rollback that is done, or a crash in any call.                      *)
LEMMA CallEnds ==
  ASSUME EventBounds, EventInv, Events!FinishRollback \/ Events!Crash
  PROVE  EventInv'
<1> USE DEF EventInv
<1>1. op' = Events!Idle /\ UNCHANGED <<events, blockIdx>> /\ cut \subseteq cut'
  BY DEF Events!FinishRollback, Events!Crash
<1>2. op'.at = "idle"
  BY <1>1 DEF Events!Idle
<1>3. Calls' /\ Remaining'
  BY <1>1, <1>2 DEF Calls, Remaining
<1>4. CASE Events!FinishRollback
  <2>1. op.at = "walk" /\ DOMAIN op.todo = {} /\ rolledTo' = op.target /\ op.target \in 0..MaxBlock /\ cut' = cut
    BY <1>4, WalkingAt DEF Events!FinishRollback
  <2>2. Kinds'
    BY <1>1, <2>1 DEF Kinds
  <2>3. Gone'
    BY <1>1, <2>1 DEF Gone, Remaining
  <2>4. Indexed'
    BY <1>1, <2>1 DEF Indexed
  <2> QED BY <1>3, <2>2, <2>3, <2>4
<1>5. CASE Events!Crash
  <2>1. rolledTo' = rolledTo /\ (op.at \in {"key", "block"} => op.event \in cut')
    BY <1>5 DEF Events!Crash
  <2>2. cut' \subseteq Event
    <3>1. CASE op.at \in {"key", "block"}
      BY <1>5, <3>1, StoringAt DEF Events!Crash, Kinds
    <3>2. CASE op.at \notin {"key", "block"}
      BY <1>5, <3>2 DEF Events!Crash, Kinds
    <3> QED BY <3>1, <3>2
  <2>3. Kinds' /\ Gone'
    BY <1>1, <2>1, <2>2 DEF Kinds, Gone
  <2>4. Indexed'
    BY <1>1, <2>1 DEF Indexed
  <2> QED BY <1>3, <2>3, <2>4
<1> QED BY <1>4, <1>5

LEMMA EventInit ==
  ASSUME EventBounds, Events!Init
  PROVE  EventInv
<1>1. events = [e \in Event |-> Events!None] /\ blockIdx = [b \in Events!Block |-> <<>>] /\ op = Events!Idle /\ cut = {} /\ rolledTo = MaxBlock
  BY DEF Events!Init
<1>2. events \in [Event -> [block : 0..MaxBlock, scopes : SUBSET Scope]] /\ \A e \in Event : events[e].block = 0
  BY <1>1 DEF Events!None, EventBounds
<1>3. Kinds
  BY <1>1, <1>2 DEF Kinds, EventBounds
<1>4. Gone
  BY <1>1, <1>2 DEF Gone, EventBounds
<1>5. Calls /\ Indexed /\ Remaining
  BY <1>1, <1>2 DEF Calls, Indexed, Remaining, Events!Idle
<1> QED BY <1>3, <1>4, <1>5 DEF EventInv

(* One case per action.                                                  *)
LEMMA EventStep ==
  ASSUME EventBounds, EventInv, [Events!Next]_(Events!vars)
  PROVE  EventInv'
<1>1. CASE UNCHANGED Events!vars
  BY <1>1, Zenon DEF Events!vars, EventInv, Kinds, Calls, Storing, Walking, Indexed, Remaining, Gone
<1>2. CASE Events!Next
  BY <1>2, StoreStep, RollbackStep, NextEventStep, DeletingStep, BlockDone, CallEnds DEF Events!Next
<1> QED BY <1>1, <1>2

(* After a rollback that completed no event above its target is stored,  *)
(* whatever calls and crashes came before, except events whose own store *)
(* was cut short by a crash (store_private_event_log, rollback: the      *)
(* events are found by the list of their block, written last).           *)
THEOREM RolledBack ==
  ASSUME EventBounds
  PROVE  Events!Spec => []Events!RollbackLeavesNone
<1>1. Events!Init => EventInv
  BY EventInit
<1>2. EventInv /\ [Events!Next]_(Events!vars) => EventInv'
  BY EventStep
<1>3. EventInv => Events!RollbackLeavesNone
  BY DEF EventInv, Gone, Events!RollbackLeavesNone
<1> QED BY <1>1, <1>2, <1>3, PTL DEF Events!Spec
=============================================================================
