----------------------------- MODULE MCContracts -----------------------------
(* The wallet's stores and registries, and the life of a contract. *)
EXTENDS MCRegisters, Naturals, Sequences, TLC

CONSTANTS alice, bob, caller1, caller2, app, \* accounts, callers, a contract
          s1, s2, x1, x2, zero,         \* tagging secrets, transactions
          e1, e2,                       \* events
          Absent, Torn, unset, zeroFr, Denied, Err, off

(* Nothing tells two callers, two accounts, two tagging secrets or two of     *)
(* their transactions apart, and no other component uses them.                *)
ContractSymmetry ==
    Permutations({caller1, caller2}) \union Permutations({alice, bob})
        \union Permutations({s1, s2}) \union Permutations({x1, x2})

-----------------------------------------------------------------------------
(* One contract, two callers, three anchors with a hash of their own. *)
Sync == INSTANCE ContractSync WITH
    Caller <- {caller1, caller2}, Contract <- {app}, Scope <- {alice, bob}, HashOf <- <<"a", "b", "c">>,
    anchor <- r1, changed <- r2, cachedHash <- r3, synced <- r4, registered <- r5,
    ranAt <- r6, pc <- r7, loc <- r8, calm <- r9

(* One task: a second is the subject of a run of its own. *)
Tags == INSTANCE SenderTaggingStore WITH
    Task <- {caller1}, Secret <- {s1, s2}, Tx <- {x1, x2}, ZeroTx <- zero, WindowLen <- 2,
    MaxIndex <- 3, finalized <- r1, pending <- r2, issued <- r3, read <- r4

(* Two events of one contract and selector, the second earlier in its block. *)
Events == INSTANCE PrivateEventStore WITH
    Event <- {e1, e2}, Scope <- {"a", "b"}, KeyOf <- e1 :> "k" @@ e2 :> "k",
    TxOf <- e1 :> "x" @@ e2 :> "y", IndexOf <- e1 :> 1 @@ e2 :> 0,
    Committed <- {e1, e2}, MaxBlock <- 2,
    events <- r1, keyIdx <- r2, blockIdx <- r3, op <- r4, cut <- r5, hidden <- r6, rolledTo <- r7

(* An array of two entries, and copies that overlap or not, within a machine  *)
(* word and of a slot beyond it.                                              *)
Capsules == INSTANCE CapsuleStore WITH
    Modulus <- 8, Word <- 6, ArrayBase <- 3, Value <- {1, 2}, MaxLen <- 2,
    Plain <- {0, 1, 2, 7}, MaxCopy <- 2, db <- r1, op <- r2, torn <- r3

(* One contract that may change from one class to the other. *)
Registry == INSTANCE ContractRegistry WITH
    None <- unset,
    Address <- {app}, Class <- {"c1", "c2"}, Artifact <- {"x1", "x2"},
    ClassOf <- ("x1" :> "c1" @@ "x2" :> "c2"),
    chain <- r1, instances <- r2, artifacts <- r3, addrCache <- r4, classCache <- r5,
    op <- r6, proof <- r7, returned <- r8, replaced <- r9, torn <- r10, raced <- r11

(* The curve is the cyclic group of order 11.  Both signs of the address      *)
(* point and of the tagging key occur, and two accounts share a preaddress.   *)
Accounts == INSTANCE AccountRegistry WITH
    Order <- 11, Positive <- {1, 9, 3, 7, 5}, Secret <- {"s1", "s2"}, Partial <- {"p1", "p2"},
    Master <- ("s1" :> [nullifier |-> 1, incoming |-> 3, outgoing |-> 4, tagging |-> 9])
           @@ ("s2" :> [nullifier |-> 2, incoming |-> 5, outgoing |-> 8, tagging |-> 7]),
    Preaddress <- ("s1" :> [p1 |-> 1, p2 |-> 8]) @@ ("s2" :> [p1 |-> 1, p2 |-> 4]),
    App <- {"app"}, OffCurve <- off, Zero <- zeroFr,
    keys <- r1, addresses <- r2, senders <- r3, account <- r4, sender <- r5, known <- r6

(* Two deployments of one class and salt, plain, universal, with another      *)
(* deployer, without the class and without the instance.                      *)
DeployOption(from, universal, skip_class, skip_instance) ==
    [class |-> "c", salt |-> "s", from |-> from, universal |-> universal,
     skip_class |-> skip_class, skip_instance |-> skip_instance,
     skip_registration |-> skip_instance, skip_initialization |-> skip_class]

DeployOptions ==
    {DeployOption("none", FALSE, FALSE, FALSE), DeployOption("none", TRUE, FALSE, FALSE),
     DeployOption("a1", FALSE, FALSE, FALSE), DeployOption("none", FALSE, TRUE, FALSE),
     DeployOption("none", TRUE, FALSE, TRUE)}

Deploy == INSTANCE Deployment WITH
    Task <- {"t1", "t2"}, Account <- {"a1", "a2"}, Options <- DeployOptions,
    Zero <- "zero", NoOne <- "none", MaxPolls <- 1, MaxFaults <- 1, MaxPrunes <- 1,
    calls <- r1, chain <- r2, shown <- r3, known <- r4, faults <- r5, prunes <- r6

(* Two bridging calls at once. *)
Bridge == INSTANCE L1Bridge WITH
    Bridge <- {"b1", "b2"}, Message <- {}, MaxBlocks <- 3, MaxPolls <- 1, MaxFaults <- 1,
    calls <- r1, mempool <- r2, receipts <- r3, balance <- r4, allowance <- r5,
    inbox <- r6, blocks <- r7, faults <- r8

-----------------------------------------------------------------------------
(* Artifacts of up to three functions, in every order. *)
Classes == INSTANCE ClassHashes WITH FUNCTION_TREE_HEIGHT <- 2, ChunkSize <- 2

ArtifactFunction(type, name, selector, vk, code) ==
    [type |-> type, unconstrained |-> type = "utility", name |-> name, selector |-> selector,
     vk |-> vk, returns |-> "r", code |-> code]
Hex(bytes) == <<[form |-> "hex", bytes |-> bytes]>>
Text(bytes) == <<[form |-> "text", bytes |-> bytes]>>

ArtifactFunctions ==
    {ArtifactFunction("private", "p", 2, <<<<7>>>>, Hex(<<1>>)),
     ArtifactFunction("private", "q", 1, <<>>, <<>>),
     ArtifactFunction("private", "r", 3, <<<<8>>>>, Hex(<<1, 0>>)),
     ArtifactFunction("utility", "u", 4, <<>>, Hex(<<1>>)),
     ArtifactFunction("public", "public_dispatch", 5, <<>>, Hex(<<1, 0>>)),
     ArtifactFunction("public", "public_dispatch", 5, <<>>, Hex(<<1>>)),
     ArtifactFunction("public", "public_dispatch", 5, <<>>, Text(<<1, 2, 3>>))}

Artifacts ==
    {[name |-> "A", functions |-> fs] :
        fs \in {s \in UNION {[1..n -> ArtifactFunctions] : n \in 0..3} :
                    \A i, j \in DOMAIN s : i # j => s[i].selector # s[j].selector}}

(* Account contracts with no initializer, with one and with two, named or not,*)
(* and wrongly named; and pairs of Schnorr accounts.                          *)
Manager == INSTANCE AccountManager

Named(name) == Manager!Term(name, <<>>)
Function(name, init, params) ==
    [name |-> name, init |-> init, params |-> params, selector |-> <<>>]
Calls(name, n) == <<[name |-> name, args |-> [i \in 1..n |-> Named("v")]]>>

AccountContracts ==
    {Manager!SchnorrNew(Named("s1")), Manager!new_with_signing_key(Named("k1"))}
    \union {[artifact |-> a, spec |-> s] :
        a \in {[name |-> "None", functions |-> <<Function("entrypoint", FALSE, 3)>>],
               [name |-> "One", functions |-> <<Function("init_b", TRUE, 1)>>],
               [name |-> "Two", functions |-> <<Function("init_a", TRUE, 0),
                                                Function("init_b", TRUE, 1)>>]},
        s \in {<<>>, Calls("init_a", 0), Calls("init_b", 1), Calls("init_b", 0),
               Calls("entrypoint", 3)}}

Pairs == {Named("k1"), Named("k2")} \X {Named("s1"), Named("s2")} \X {Named("a1"), Named("a2")}

(* The inputs are tried one by one. *)
Nothing == [kind |-> "none"]

FeedClass ==
    /\ focus = "classes" /\ r1 = Nothing
    /\ r1' \in {[kind |-> "artifact", artifact |-> a] : a \in Artifacts}
    /\ Keep2

FeedAccount ==
    /\ focus = "manager" /\ r1 = Nothing
    /\ r1' \in [kind : {"account"}, contract : AccountContracts,
                secret : {Named("s1"), Named("s2")}, salt : {Named("a1"), Named("a2")},
                real : BOOLEAN]
            \union [kind : {"pair"}, one : Pairs, other : Pairs, real : BOOLEAN]
    /\ Keep2

-----------------------------------------------------------------------------
Init ==
    \/ focus = "sync" /\ Sync!Init /\ Off10
    \/ focus = "tags" /\ Tags!Init /\ Off5
    \/ focus = "events" /\ Events!Init /\ Off8
    \/ focus = "capsules" /\ Capsules!Init /\ Off4
    \/ focus = "registry" /\ Registry!Init /\ Off12
    \/ focus = "accounts" /\ Accounts!Init /\ Off7
    \/ focus = "deploy" /\ Deploy!Init /\ Off7
    \/ focus = "bridge" /\ Bridge!Init /\ Off9
    \/ focus \in {"classes", "manager"} /\ r1 = Nothing /\ Off2

Next ==
    \/ focus = "sync" /\ Sync!Next /\ Keep10
    \/ focus = "tags" /\ Tags!Next /\ Keep5
    \/ focus = "events" /\ Events!Next /\ Keep8
    \/ focus = "capsules" /\ Capsules!Next /\ Keep4
    \/ focus = "registry" /\ Registry!Next /\ Keep12
    \/ focus = "accounts" /\ Accounts!Next /\ Keep7
    \/ focus = "deploy" /\ Deploy!Next /\ Keep7
    \/ focus = "bridge" /\ Bridge!Next /\ Keep9
    \/ FeedClass
    \/ FeedAccount

Spec == Init /\ [][Next]_vars

TypeOK ==
    CASE focus = "sync" -> Sync!TypeOK
      [] focus = "tags" -> Tags!TypeOK
      [] focus = "events" -> Events!TypeOK
      [] focus = "capsules" -> Capsules!TypeOK
      [] focus = "registry" -> Registry!TypeOK
      [] focus = "accounts" -> Accounts!TypeOK
      [] focus = "deploy" -> Deploy!TypeOK
      [] focus = "bridge" -> Bridge!TypeOK
      [] OTHER -> r1.kind \in {"none", "artifact", "account", "pair"}

-----------------------------------------------------------------------------
(* ensure_contract_synced lets a call go on only after sync_state has run for *)
(* every scope of the call at the call's anchor, also when calls overlap and  *)
(* syncs fail, as long as contracts are registered before they are used and   *)
(* the anchor moves while no other call is running.                           *)
SyncedForAnchorIfCalm == focus = "sync" => Sync!SyncedForAnchorIfCalm

(* get_next_index never returns an index of a secret twice, and a             *)
(* transaction's pending index is never replaced by another, whatever is      *)
(* stored, dropped and finalized between the calls.                           *)
IndexesStable == [][focus = "tags" => Tags!IssuedOnceStep /\ Tags!TxKeepsIndexStep]_vars

(* A query of private events returns, in block order, exactly the stored      *)
(* events of its range and scopes, and a completed rollback leaves none above *)
(* its target, through stores, rollbacks and stops at any write.              *)
EventsExact == focus = "events" => Events!QueryExact /\ Events!RollbackLeavesNone

(* The array users of the capsule store see changes as CapsuleArray says,     *)
(* through appends, replacements, other writes and stops at any write.        *)
ArraySpec ==
    /\ focus = "capsules" => Capsules!Array!Init
    /\ [][focus = "capsules" => Capsules!ArrayStep]_vars

(* copy_capsule leaves in the target what the source held when it began, also *)
(* when the two overlap, for slots that fit a machine word.                   *)
CopyExactInWord == [][focus = "capsules" => Capsules!CopyExactInWordStep]_vars

(* A contract whose registration returned Ok can be executed, and the class   *)
(* metadata the prover has cached is what the stores hold, through any        *)
(* interleaving of registrations, updates, lookups and stops, but for the     *)
(* cases the two parts name.                                                  *)
RegistryCurrent == focus = "registry" => Registry!RunnableIfUnpublished /\ Registry!CacheCurrent

(* A recipient finds every message of a known sender, under one tagging       *)
(* secret, opens it with the secret it was sealed with, and gets its key      *)
(* requests answered, wherever register_account was cut.                      *)
AccountsServed == focus = "accounts" => Accounts!MessagesFound /\ Accounts!KeyRequestsAnswered

(* The instance that DeployMethod::send returns is the one that is published, *)
(* and the node shows it when send says it is deployed.                       *)
DeployedAsReturned == focus = "deploy" => Deploy!PublishedIsReturned /\ Deploy!DeployedIsVisible

(* A claim that is reported ready is the caller's own and can be used, and a  *)
(* deposit is lost only to another call that spent the shared allowance.      *)
ClaimsKept == focus = "bridge" => Bridge!ClaimUsable /\ Bridge!AloneLosesNothing

(* The witnesses and preimages the kernel oracle gives for a class lead to    *)
(* the class id the deployment used, distinct classes have distinct ids, and  *)
(* published bytecode reads back.  An account's address is the same wherever  *)
(* it is computed, and distinct accounts have distinct addresses.             *)
IdentitiesAgree ==
    CASE focus \notin {"classes", "manager"} \/ r1.kind = "none" -> TRUE
      [] r1.kind = "artifact" ->
           LET a == r1.artifact n == Len(a.functions) IN
           /\ Classes!FunctionWitnessProves(a)
           /\ Classes!PreimageOfClass(a)
           /\ Classes!KeyWitnessProves([i \in 1..2^(n + 1) |-> <<i>>])
           /\ \A b \in Artifacts : Classes!ClassIdBinds(a, b)
           /\ \A bytes \in [1..n -> 0..1], target \in 0..4 : Classes!BufferRoundTrips(bytes, target)
      [] r1.kind = "account" -> Manager!AddressesAgree(r1.contract, r1.secret, r1.salt, r1.real)
      [] r1.kind = "pair" ->
           Manager!AddressesDiffer(r1.one[1], r1.one[2], r1.one[3],
                                   r1.other[1], r1.other[2], r1.other[3], r1.real)
=============================================================================
