--------------------------- MODULE TaggingProofs ---------------------------
(***************************************************************************)
(* The tagging indexes, for any secrets, transactions, window and bounds.  *)
(* The sender's side (SenderTaggingStore): a transaction keeps its index,  *)
(* and a single task never gets an index twice.  The recipient's           *)
(* (LogService): no tagged log is skipped, for any number of concurrent    *)
(* fetchers, and one fetcher never lowers the stored index.                *)
(***************************************************************************)
EXTENDS SenderTaggingStore, WellFoundedInduction, TLAPS

CONSTANTS Fetcher, MaxUsed
VARIABLES used, flight, logs, array, pc, loc, missed, dropped
Logs == INSTANCE LogService

Bounds == MaxIndex \in Nat /\ WindowLen \in Nat /\ ZeroTx \notin Tx

Placeholder(i) == [index |-> i, tx |-> ZeroTx]
Owned(entries) == {e \in entries : e.tx # ZeroTx}

(* A transaction has one pending index of a secret at most, and what a call  *)
(* has read of it is still so: the other operations wait for the call.       *)
OneEach == \A s \in Secret : \A e, d \in Owned(pending[s]) : e.tx = d.tx => e.index = d.index
Fresh == \A t \in Task : read[t] # Nothing => Owned(read[t].list) = Owned(pending[read[t].secret])

(* What was issued is finalized or still pending under the placeholder. *)
Used == \A s \in Secret : \A i \in issued[s] : i <= finalized[s] \/ Placeholder(i) \in pending[s]

(* What a single task has read is the state of the store. *)
Current ==
    \A t \in Task : read[t] # Nothing =>
        LET s == read[t].secret IN
        /\ read[t].list = pending[s] /\ read[t].next > finalized[s]
        /\ \A e \in pending[s] : e.index < read[t].next

KeepInv == TypeOK /\ OneEach /\ Fresh
OnceInv == TypeOK /\ Used /\ Current

-----------------------------------------------------------------------------
LEMMA MaxIs ==
  ASSUME NEW n \in Nat, NEW S \in SUBSET (0..n), S # {}
  PROVE  Max(S) \in S /\ \A y \in S : Max(S) >= y
<1> DEFINE T == {n - i : i \in S}
<1>0. \A i \in S : i \in Nat /\ n - i \in Nat
  OBVIOUS
<1>1. T \subseteq Nat /\ T # {}
  BY Zenon, <1>0
<1>2. PICK x \in T : \A y \in T : ~ (<<y, x>> \in OpToRel(<, Nat))
  BY <1>1, NatLessThanWellFounded, WFMin, Zenon
<1>3. ASSUME NEW y \in T PROVE x <= y
  <2>1. x \in Nat /\ y \in Nat /\ ~(<<y, x>> \in OpToRel(<, Nat))
    BY Zenon, <1>1, <1>2
  <2> HIDE DEF T
  <2> QED BY <2>1 DEF OpToRel
<1>4. PICK i \in S : x = n - i
  BY Zenon
<1>5. ASSUME NEW y \in S PROVE i >= y
  <2>1. n - y \in T
    BY Zenon
  <2>2. x <= n - y
    BY Zenon, <1>3, <2>1
  <2> HIDE DEF T
  <2> QED BY <1>0, <1>4, <2>2
<1> QED BY Zenon, <1>5 DEF Max

(* The last used index is not below any that is finalized or pending. *)
LEMMA LastUsed ==
  ASSUME Bounds, TypeOK, NEW s \in Secret
  PROVE  /\ LastUsedIndex(s) \in 0..MaxIndex /\ LastUsedIndex(s) >= finalized[s]
         /\ \A e \in pending[s] : e.index <= LastUsedIndex(s)
<1> DEFINE S == Indexes(pending[s]) \union {finalized[s]}
<1>1. \A e \in pending[s] : e.index \in Index
  BY DEF TypeOK, PendingTagIndex
<1>2. S \in SUBSET (0..MaxIndex) /\ S # {} /\ MaxIndex \in Nat
  BY <1>1 DEF Indexes, Index, TypeOK, Bounds
<1>3. Max(S) \in S /\ \A y \in S : Max(S) >= y
  <2> HIDE DEF S
  <2> QED BY Zenon, <1>2, MaxIs
<1>4. LastUsedIndex(s) = Max(S)
  BY DEF LastUsedIndex
<1>5. \A e \in pending[s] : e.index \in S
  BY DEF Indexes
<1> HIDE DEF S
<1>6. finalized[s] \in S
  BY DEF S
<1> QED BY Zenon, <1>1, <1>2, <1>3, <1>4, <1>5, <1>6 DEF Index

(* A call that has read holds a reading of the store. *)
LEMMA ReadTyped ==
  ASSUME Bounds, TypeOK, NEW t \in Task, read[t] # Nothing
  PROVE  /\ read[t].secret \in Secret /\ read[t].next \in Index /\ read[t].list \subseteq PendingTagIndex
<1>1. read[t] \in Reading
  BY DEF TypeOK
<1> QED BY <1>1 DEF Reading

LEMMA GetTyped ==
  ASSUME Bounds, TypeOK, NEW t \in Task, NEW s \in Secret, GetNextIndex(t, s)
  PROVE  /\ TypeOK' /\ UNCHANGED <<finalized, pending, issued>>
         /\ read'[t].secret = s /\ read'[t].list = pending[s] /\ read'[t].next = LastUsedIndex(s) + 1
         /\ \A u \in Task \ {t} : read'[u] = read[u]
<1> DEFINE r == [secret |-> s, next |-> LastUsedIndex(s) + 1, list |-> pending[s]]
<1>1. LastUsedIndex(s) + 1 \in Index
  BY LastUsed DEF GetNextIndex, Index, Bounds
<1>2. r \in Reading
  BY <1>1 DEF Reading, TypeOK
<1>3. read' = [read EXCEPT ![t] = r] /\ UNCHANGED <<finalized, pending, issued>>
  BY Zenon DEF GetNextIndex
<1>4. r.secret = s /\ r.list = pending[s] /\ r.next = LastUsedIndex(s) + 1
  OBVIOUS
<1> HIDE DEF r
<1> QED BY <1>2, <1>3, <1>4 DEF TypeOK

LEMMA PutTyped ==
  ASSUME Bounds, TypeOK, NEW t \in Task, PutNextIndex(t)
  PROVE  LET s == read[t].secret IN
         /\ TypeOK' /\ UNCHANGED finalized /\ read[t] # Nothing /\ read'[t] = Nothing
         /\ pending'[s] = read[t].list \union {Placeholder(read[t].next)}
         /\ issued'[s] = issued[s] \union {read[t].next}
         /\ \A u \in Secret \ {s} : pending'[u] = pending[u] /\ issued'[u] = issued[u]
         /\ \A u \in Task \ {t} : read'[u] = read[u]
<1> DEFINE s == read[t].secret
<1>1. s \in Secret /\ read[t].next \in Index /\ read[t].list \subseteq PendingTagIndex /\ read[t] # Nothing
  BY ReadTyped DEF PutNextIndex
<1>2. Placeholder(read[t].next) \in PendingTagIndex
  BY <1>1 DEF Placeholder, PendingTagIndex
<1>3. /\ pending' = [pending EXCEPT ![s] = read[t].list \union {Placeholder(read[t].next)}]
      /\ issued' = [issued EXCEPT ![s] = issued[s] \union {read[t].next}]
      /\ read' = [read EXCEPT ![t] = Nothing] /\ UNCHANGED finalized
  BY DEF PutNextIndex, Placeholder
<1> HIDE DEF s
<1>4. TypeOK'
  BY <1>1, <1>2, <1>3 DEF TypeOK
<1> QED BY <1>1, <1>3, <1>4 DEF TypeOK, s

(* The operations that follow a transaction's fate. *)
Others ==
    \/ \E D \in SUBSET Secret \ {{}}, x \in Tx : \E tags \in [D -> Index] : StorePendingIndexes(tags, x)
    \/ \E txs \in SUBSET Tx \ {{}} : DropPendingIndexes(txs)
    \/ \E s \in Secret, i \in Index : FinalizePendingIndexes(s, i)

(* What they do to the entries of a secret. *)
Stores(s) ==
    \E x \in Tx, i \in Index :
        /\ \A e \in pending[s] : e.tx = x => e.index = i
        /\ pending'[s] = {e \in pending[s] : e.tx # x} \union {[index |-> i, tx |-> x]}
        /\ finalized'[s] = finalized[s]
Drops(s) ==
    \E txs \in SUBSET Tx : pending'[s] = {e \in pending[s] : e.tx \notin txs} /\ finalized'[s] = finalized[s]
Finalizes(s) ==
    \E i \in Index : /\ pending'[s] = {e \in pending[s] : e.index > i}
                    /\ finalized'[s] = IF i > finalized[s] THEN i ELSE finalized[s]

LEMMA OthersDo ==
  ASSUME Bounds, TypeOK, Others
  PROVE  /\ TypeOK' /\ UNCHANGED <<issued, read>>
         /\ \A s \in Secret : Stores(s) \/ Drops(s) \/ Finalizes(s)
<1>t. DOMAIN pending = Secret /\ DOMAIN finalized = Secret /\ \A s \in Secret : pending[s] \subseteq PendingTagIndex
  BY DEF TypeOK
<1>n. ASSUME NEW s \in Secret, pending'[s] = pending[s], finalized'[s] = finalized[s] PROVE Drops(s)
  <2>1. pending'[s] = {e \in pending[s] : e.tx \notin {}} /\ {} \in SUBSET Tx
    BY Zenon, <1>n
  <2> QED BY Zenon, <1>n, <2>1 DEF Drops
<1>1. ASSUME NEW D \in SUBSET Secret, NEW x \in Tx, NEW tags \in [D -> Index], StorePendingIndexes(tags, x)
      PROVE  /\ TypeOK' /\ UNCHANGED <<issued, read>>
             /\ \A s \in Secret : Stores(s) \/ Drops(s) \/ Finalizes(s)
  <2>1. PICK done \in SUBSET D :
           /\ \A s \in done : Acceptable(s, tags[s], x)
           /\ pending' = [s \in Secret |->
                            IF s \in done
                            THEN {e \in pending[s] : e.tx # x} \union {[index |-> tags[s], tx |-> x]}
                            ELSE pending[s]]
    BY Zenon, <1>1 DEF StorePendingIndexes
  <2>2. UNCHANGED <<finalized, issued, read>>
    BY <1>1 DEF StorePendingIndexes
  <2>3. \A s \in done : tags[s] \in Index /\ [index |-> tags[s], tx |-> x] \in PendingTagIndex
    BY DEF PendingTagIndex
  <2>4. TypeOK'
    BY <1>t, <2>1, <2>2, <2>3 DEF TypeOK
  <2>5. ASSUME NEW s \in done PROVE Stores(s)
    BY <2>1, <2>2, <2>3, <2>5 DEF Stores, Acceptable
  <2>6. ASSUME NEW s \in Secret \ done PROVE Drops(s)
    BY Zenon, <1>n, <2>1, <2>2, <2>6
  <2> QED BY <2>2, <2>4, <2>5, <2>6
<1>2. ASSUME NEW txs \in SUBSET Tx, DropPendingIndexes(txs)
      PROVE  /\ TypeOK' /\ UNCHANGED <<issued, read>>
             /\ \A s \in Secret : Stores(s) \/ Drops(s) \/ Finalizes(s)
  <2>1. TypeOK' /\ UNCHANGED <<issued, read>>
    BY <1>2, <1>t DEF DropPendingIndexes, TypeOK
  <2>2. ASSUME NEW s \in Secret PROVE Drops(s)
    BY <1>2 DEF DropPendingIndexes, Drops
  <2> QED BY <2>1, <2>2
<1>3. ASSUME NEW s \in Secret, NEW i \in Index, FinalizePendingIndexes(s, i)
      PROVE  /\ TypeOK' /\ UNCHANGED <<issued, read>>
             /\ \A u \in Secret : Stores(u) \/ Drops(u) \/ Finalizes(u)
  <2>1. TypeOK' /\ UNCHANGED <<issued, read>>
    BY <1>3, <1>t DEF FinalizePendingIndexes, TypeOK, Index, Bounds
  <2>2. Finalizes(s)
    BY <1>3, <1>t DEF FinalizePendingIndexes, Finalizes
  <2>3. ASSUME NEW u \in Secret \ {s} PROVE Drops(u)
    BY <1>3, <1>t, <1>n DEF FinalizePendingIndexes
  <2> QED BY <2>1, <2>2, <2>3
<1> QED BY Zenon, <1>1, <1>2, <1>3 DEF Others

LEMMA Steps ==
  ASSUME Next
  PROVE  \/ \E t \in Task, s \in Secret : GetNextIndex(t, s)
         \/ \E t \in Task : PutNextIndex(t)
         \/ (\A t \in Task : read[t] = Nothing) /\ Others
  BY Zenon DEF Next, Others

LEMMA TypeInit == ASSUME Bounds, Init PROVE TypeOK
  BY DEF Bounds, Init, TypeOK, Index

LEMMA TypeStep == ASSUME Bounds, TypeOK, [Next]_vars PROVE TypeOK'
<1>1. CASE UNCHANGED vars
  BY <1>1 DEF vars, TypeOK
<1> QED BY Zenon, <1>1, Steps, GetTyped, PutTyped, OthersDo

-----------------------------------------------------------------------------
LEMMA OwnedOf ==
  ASSUME NEW entries, NEW i
  PROVE  Owned(entries \union {Placeholder(i)}) = Owned(entries)
  BY DEF Owned, Placeholder

LEMMA KeepStep ==
  ASSUME Bounds, KeepInv, Next
  PROVE  OneEach' /\ Fresh' /\ TxKeepsIndexStep
<1>s. ASSUME \A s \in Secret : Owned(pending'[s]) = Owned(pending[s])
      PROVE  OneEach' /\ TxKeepsIndexStep
  <2>1. OneEach'
    BY Zenon, <1>s DEF KeepInv, OneEach
  <2>2. ASSUME NEW s \in Secret, NEW e \in pending[s], e.tx # ZeroTx, NEW d \in pending'[s], d.tx = e.tx
        PROVE  d.index = e.index
    <3>1. e \in Owned(pending[s]) /\ d \in Owned(pending[s])
      BY Zenon, <1>s, <2>2 DEF Owned
    <3> QED BY Zenon, <2>2, <3>1 DEF KeepInv, OneEach
  <2> QED BY <2>1, <2>2 DEF TxKeepsIndexStep
<1>1. ASSUME NEW t \in Task, NEW s \in Secret, GetNextIndex(t, s) PROVE OneEach' /\ Fresh' /\ TxKeepsIndexStep
  <2>1. UNCHANGED pending
    BY <1>1, GetTyped DEF KeepInv
  <2>2. Fresh'
    BY Zenon, <1>1, GetTyped DEF KeepInv, Fresh
  <2> QED BY Zenon, <1>s, <2>1, <2>2
<1>2. ASSUME NEW t \in Task, PutNextIndex(t) PROVE OneEach' /\ Fresh' /\ TxKeepsIndexStep
  <2> DEFINE s == read[t].secret
  <2>1. \A u \in Secret : Owned(pending'[u]) = Owned(pending[u])
    <3>1. Owned(pending'[s]) = Owned(read[t].list)
      <4>1. pending'[s] = read[t].list \union {Placeholder(read[t].next)}
        BY Zenon, <1>2, PutTyped DEF KeepInv
      <4> HIDE DEF s
      <4> QED BY <4>1, OwnedOf
    <3>2. Owned(read[t].list) = Owned(pending[s])
      BY Zenon, <1>2, PutTyped DEF KeepInv, Fresh
    <3> QED BY Zenon, <1>2, <3>1, <3>2, PutTyped DEF KeepInv
  <2>2. Fresh'
    <3>1. ASSUME NEW u \in Task, read'[u] # Nothing PROVE Owned(read'[u].list) = Owned(pending'[read'[u].secret])
      <4>1. u # t /\ read'[u] = read[u]
        BY Zenon, <1>2, <3>1, PutTyped DEF KeepInv
      <4>2. read[u].secret \in Secret
        BY Zenon, <3>1, <4>1, ReadTyped DEF KeepInv
      <4> QED BY Zenon, <2>1, <3>1, <4>1, <4>2 DEF KeepInv, Fresh
    <3> QED BY Zenon, <3>1 DEF Fresh
  <2> QED BY <1>s, <2>1, <2>2
<1>3. ASSUME \A t \in Task : read[t] = Nothing, Others PROVE OneEach' /\ Fresh' /\ TxKeepsIndexStep
  <2>1. \A s \in Secret : Stores(s) \/ Drops(s) \/ Finalizes(s)
    BY <1>3, OthersDo DEF KeepInv
  <2>2. Fresh'
    BY Zenon, <1>3, OthersDo DEF KeepInv, Fresh
  <2>3. ASSUME NEW s \in Secret, NEW d \in pending'[s], d.tx # ZeroTx
        PROVE  \A e \in pending[s] \union pending'[s] : e.tx = d.tx => e.index = d.index
    <3>1. \A e \in pending[s] : e.tx = d.tx /\ d \in pending[s] => e.index = d.index
      BY Zenon, <2>3 DEF KeepInv, OneEach, Owned
    <3>2. CASE Drops(s) \/ Finalizes(s)
      BY <2>3, <3>1, <3>2 DEF Drops, Finalizes
    <3>3. CASE Stores(s)
      BY <2>3, <3>1, <3>3 DEF Stores
    <3> QED BY <2>1, <3>2, <3>3
  <2>4. OneEach'
    BY Zenon, <2>3 DEF OneEach, Owned
  <2>5. TxKeepsIndexStep
    BY <2>3 DEF TxKeepsIndexStep
  <2> QED BY <2>2, <2>4, <2>5
<1> QED BY Zenon, <1>1, <1>2, <1>3, Steps

LEMMA OnceStep ==
  ASSUME Bounds, \E t : Task = {t}, OnceInv, Next
  PROVE  Used' /\ Current' /\ IssuedOnceStep
<1>0. PICK t : Task = {t}
  OBVIOUS
<1>t. /\ \A s \in Secret : finalized[s] \in Nat /\ (\A i \in issued[s] : i \in Nat) /\ \A e \in pending[s] : e.index \in Nat
  BY DEF OnceInv, TypeOK, PendingTagIndex, Index, Bounds
<1>1. ASSUME NEW s \in Secret, GetNextIndex(t, s) PROVE Used' /\ Current' /\ IssuedOnceStep
  <2>1. /\ UNCHANGED <<finalized, pending, issued>> /\ read'[t].secret = s /\ read'[t].list = pending[s]
        /\ read'[t].next = LastUsedIndex(s) + 1
    BY Zenon, <1>0, <1>1, GetTyped DEF OnceInv
  <2>2. Used'
    BY Zenon, <2>1 DEF OnceInv, Used
  <2>3. /\ LastUsedIndex(s) + 1 > finalized[s]
        /\ \A e \in pending[s] : e.index < LastUsedIndex(s) + 1
    BY <1>t, LastUsed DEF OnceInv
  <2>4. Current'
    BY Zenon, <1>0, <2>1, <2>3 DEF Current
  <2>5. ~PutNextIndex(t)
    BY <1>1 DEF GetNextIndex, PutNextIndex
  <2> QED BY Zenon, <1>0, <2>2, <2>4, <2>5 DEF IssuedOnceStep
<1>2. ASSUME PutNextIndex(t) PROVE Used' /\ Current' /\ IssuedOnceStep
  <2> DEFINE s == read[t].secret
             next == read[t].next
  <2>1. /\ UNCHANGED finalized /\ read[t] # Nothing /\ read'[t] = Nothing
        /\ pending'[s] = read[t].list \union {Placeholder(next)} /\ issued'[s] = issued[s] \union {next}
        /\ \A u \in Secret \ {s} : pending'[u] = pending[u] /\ issued'[u] = issued[u]
    BY Zenon, <1>0, <1>2, PutTyped DEF OnceInv
  <2>2. s \in Secret /\ next \in Nat
    BY <1>0, <2>1, ReadTyped DEF OnceInv, Index, Bounds
  <2>3. read[t].list = pending[s] /\ next > finalized[s] /\ \A e \in pending[s] : e.index < next
    BY Zenon, <1>0, <2>1 DEF OnceInv, Current
  <2>4. next \notin issued[s]
    <3>1. ASSUME NEW i \in issued[s] PROVE i < next
      <4>1. CASE i <= finalized[s]
        BY <1>t, <2>2, <2>3, <4>1
      <4>2. CASE Placeholder(i) \in pending[s]
        BY <2>3, <4>2 DEF Placeholder
      <4> QED BY Zenon, <2>2, <4>1, <4>2 DEF OnceInv, Used
    <3> HIDE DEF s, next
    <3> QED BY <2>2, <3>1
  <2>5. Used'
    BY Zenon, <2>1, <2>2, <2>3 DEF OnceInv, Used
  <2>6. Current'
    BY Zenon, <1>0, <2>1 DEF Current
  <2> QED BY Zenon, <1>0, <2>4, <2>5, <2>6 DEF IssuedOnceStep
<1>3. ASSUME read[t] = Nothing, Others PROVE Used' /\ Current' /\ IssuedOnceStep
  <2>1. UNCHANGED <<issued, read>> /\ \A s \in Secret : Stores(s) \/ Drops(s) \/ Finalizes(s)
    BY <1>3, OthersDo DEF OnceInv
  <2>2. ASSUME NEW s \in Secret, NEW i \in issued[s] PROVE i <= finalized'[s] \/ Placeholder(i) \in pending'[s]
    <3>1. Placeholder(i).tx = ZeroTx /\ Placeholder(i).index = i
      BY DEF Placeholder
    <3>2. i <= finalized[s] \/ Placeholder(i) \in pending[s]
      BY Zenon DEF OnceInv, Used
    <3>3. CASE Stores(s) \/ Drops(s)
      BY <3>1, <3>2, <3>3 DEF Stores, Drops, Bounds
    <3>4. CASE Finalizes(s)
      BY <1>t, <3>1, <3>2, <3>4 DEF Finalizes, Index, Bounds
    <3> QED BY <2>1, <3>3, <3>4
  <2>3. Used'
    BY Zenon, <2>1, <2>2 DEF Used
  <2> QED BY Zenon, <1>0, <1>3, <2>1, <2>3 DEF Current, IssuedOnceStep, PutNextIndex
<1> QED BY Zenon, <1>0, <1>1, <1>2, <1>3, Steps

(* Every reachable state of the store is of its type, for any number of tasks. *)
THEOREM TypeCorrect == ASSUME Bounds PROVE Spec => []TypeOK
  BY TypeInit, TypeStep, PTL DEF Spec

(* However often and whatever pre-tags are stored, dropped and finalized, and  *)
(* however many tasks take indexes, a transaction's pending index of a secret  *)
(* is never replaced by another (store_pending_indexes).                       *)
THEOREM TxKeepsIndex == ASSUME Bounds PROVE Spec => [][TxKeepsIndexStep]_vars
<1>1. Init => KeepInv
  BY TypeInit DEF Init, KeepInv, OneEach, Fresh, Owned
<1>2. ASSUME KeepInv, [Next]_vars PROVE KeepInv' /\ [TxKeepsIndexStep]_vars
  <2>1. CASE UNCHANGED vars
    BY Zenon, <1>2, <2>1, TypeStep DEF vars, KeepInv, OneEach, Fresh, Owned
  <2> QED BY Zenon, <1>2, <2>1, TypeStep, KeepStep DEF KeepInv
<1> QED BY <1>1, <1>2, PTL DEF Spec

(* A single task never gets an index of a secret twice from get_next_index,    *)
(* whatever happens to the transactions that used the earlier ones.            *)
THEOREM NeverIssuedTwice == ASSUME Bounds, \E t : Task = {t} PROVE Spec => IssuedOnce
<1>1. Init => OnceInv
  BY TypeInit DEF Init, OnceInv, Used, Current
<1>2. ASSUME OnceInv, [Next]_vars PROVE OnceInv' /\ [IssuedOnceStep]_vars
  <2>1. CASE UNCHANGED vars
    BY Zenon, <1>2, <2>1, TypeStep DEF vars, OnceInv, Used, Current
  <2> QED BY Zenon, <1>2, <2>1, TypeStep, OnceStep DEF OnceInv
<1> QED BY <1>1, <1>2, PTL DEF Spec, IssuedOnce

(* With a single task taking indexes, an index given out is not given out      *)
(* again and an index stored for a transaction is not replaced.                *)
THEOREM IndexesAreStable == ASSUME Bounds, \E t : Task = {t} PROVE Spec => IndexesStable
<1>1. Spec => [][TxKeepsIndexStep]_vars
  BY TxKeepsIndex
<1>2. Spec => [][IssuedOnceStep]_vars
  BY NeverIssuedTwice DEF IssuedOnce
<1> QED BY <1>1, <1>2, PTL DEF IndexesStable

-----------------------------------------------------------------------------
(* The discovery of tagged logs (LogService). *)

LogBounds == /\ MaxIndex \in Nat /\ WindowLen \in Nat /\ Secret # {}
          /\ MaxUsed \in [Secret -> 0..MaxIndex]

(* What was handed on, is about to be, or is known to be lost. *)
Accounted == array \union missed \union dropped \union UNION {loc[f].held : f \in Fetcher}

Below(s, n) == {<<s, i>> : i \in 1..n}

(* Everything below the index of a call, stored or not, is accounted for. *)
Covered ==
    /\ \A s \in Secret : Below(s, finalized[s]) \subseteq Accounted
    /\ \A f \in Fetcher :
          /\ pc[f] = "load" => Below(loc[f].secret, loc[f].base) \subseteq Accounted
          /\ pc[f] \in {"compare", "put"} => Below(loc[f].secret, loc[f].found) \subseteq Accounted

(* The index a single call is about to store is higher than the stored one. *)
Raises == \A f \in Fetcher : pc[f] = "put" => loc[f].found > finalized[loc[f].secret]

(* A fetcher that is not in a call holds nothing. *)
Empty == \A f \in Fetcher : pc[f] = "idle" => loc[f].held = {}

LogInv == Logs!TypeOK /\ Empty /\ Covered

-----------------------------------------------------------------------------
(* The fetchers' variables after a step of one of them. *)
LEMMA NoLocalsType == ASSUME LogBounds PROVE Logs!NoLocals \in Logs!Locals /\ Logs!AnySecret \in Secret
<1>1. Logs!AnySecret \in Secret
  BY DEF LogBounds, Logs!AnySecret
<1> QED BY <1>1 DEF LogBounds, Logs!NoLocals, Logs!Locals

LEMMA NextSecretIs ==
  ASSUME LogBounds, Logs!TypeOK, NEW f \in Fetcher, Logs!NextSecret(f)
  PROVE  /\ loc' \in [Fetcher -> Logs!Locals] /\ pc' \in [Fetcher -> {"idle", "next", "load", "compare", "put"}]
         /\ pc'[f] = "next" /\ loc'[f].held = loc[f].held
         /\ \A g \in Fetcher \ {f} : pc'[g] = pc[g] /\ loc'[g] = loc[g]
<1>1. loc[f] \in Logs!Locals
  BY DEF Logs!TypeOK
<1>2. [Logs!NoLocals EXCEPT !.todo = loc[f].todo, !.held = loc[f].held] \in Logs!Locals
  BY Zenon, <1>1, NoLocalsType DEF Logs!Locals, Logs!NoLocals, LogBounds
<1> QED BY <1>2 DEF Logs!NextSecret, Logs!TypeOK, Logs!NoLocals

(* Where a fetcher goes, and what becomes of the logs it holds. *)
Keeps(f) == /\ UNCHANGED <<array, missed, dropped>> /\ loc'[f].held = loc[f].held
Starts(f) == pc[f] = "idle" /\ pc'[f] = "next" /\ UNCHANGED <<finalized, array, missed, dropped>>
Reads(f) == /\ pc[f] = "next" /\ pc'[f] = "load" /\ Keeps(f) /\ UNCHANGED finalized
            /\ loc'[f].secret \in Secret /\ loc'[f].base = finalized[loc'[f].secret]
Goes(f) == pc[f] # "idle" /\ pc'[f] = "next" /\ Keeps(f) /\ UNCHANGED finalized
Finds(f) == /\ pc[f] = "load" /\ pc'[f] = "compare" /\ UNCHANGED <<finalized, array, dropped>>
            /\ loc'[f].secret = loc[f].secret /\ loc[f].held \subseteq loc'[f].held /\ missed \subseteq missed'
            /\ \A i \in 1..loc'[f].found : i <= loc[f].base \/ <<loc[f].secret, i>> \in loc'[f].held \union missed'
Compares(f) == /\ pc[f] = "compare" /\ pc'[f] = "put" /\ Keeps(f) /\ UNCHANGED finalized
               /\ loc'[f] = loc[f] /\ loc[f].found > finalized[loc[f].secret]
Puts(f) == /\ pc[f] = "put" /\ pc'[f] = "next" /\ Keeps(f)
           /\ finalized' = [finalized EXCEPT ![loc[f].secret] = loc[f].found]
Ends(f) == /\ pc'[f] = "idle" /\ loc'[f].held = {} /\ UNCHANGED <<finalized, missed>>
           /\ array \subseteq array' /\ dropped \subseteq dropped'
           /\ loc[f].held \subseteq array' \union dropped'
Move(f) == Starts(f) \/ Reads(f) \/ Goes(f) \/ Finds(f) \/ Compares(f) \/ Puts(f) \/ Ends(f)

Types == /\ loc \in [Fetcher -> Logs!Locals] /\ pc \in [Fetcher -> {"idle", "next", "load", "compare", "put"}]
         /\ array \subseteq Logs!Log /\ missed \subseteq Logs!Log /\ dropped \subseteq Logs!Log

LEMMA FetcherMoves ==
  ASSUME LogBounds, Logs!TypeOK, NEW f \in Fetcher, Logs!FetchStep(f)
  PROVE  /\ Types' /\ Move(f)
         /\ UNCHANGED <<used, flight, logs>>
         /\ \A g \in Fetcher \ {f} : pc'[g] = pc[g] /\ loc'[g] = loc[g]
<1>t. /\ loc[f] \in Logs!Locals /\ loc \in [Fetcher -> Logs!Locals] /\ pc \in [Fetcher -> {"idle", "next", "load", "compare", "put"}]
      /\ loc[f].held \subseteq Logs!Log /\ Types
  BY DEF Logs!TypeOK, Logs!Locals, Types
<1>n. Logs!NoLocals \in Logs!Locals /\ Logs!NoLocals.held = {}
  BY NoLocalsType DEF Logs!NoLocals
<1>1. CASE Logs!Fetch(f)
  <2>1. [Logs!NoLocals EXCEPT !.todo = Secret] \in Logs!Locals
    BY <1>n DEF Logs!Locals
  <2> QED BY <1>1, <1>t, <2>1 DEF Logs!Fetch, Logs!sender, Logs!ghost, Types, Move, Starts
<1>2. ASSUME NEW s \in Secret, Logs!ReadFinalized(f, s)
      PROVE  /\ Types' /\ Move(f)
             /\ UNCHANGED <<used, flight, logs>>
             /\ \A g \in Fetcher \ {f} : pc'[g] = pc[g] /\ loc'[g] = loc[g]
  <2> DEFINE r == [loc[f] EXCEPT !.todo = loc[f].todo \ {s}, !.secret = s, !.base = finalized[s]]
  <2>1. r \in Logs!Locals /\ r.secret = s /\ r.base = finalized[s] /\ r.held = loc[f].held
    BY Zenon, <1>t DEF Logs!Locals, Logs!TypeOK
  <2>2. loc' = [loc EXCEPT ![f] = r]
    BY Zenon, <1>2, <1>t DEF Logs!ReadFinalized
  <2> HIDE DEF r
  <2>3. loc' \in [Fetcher -> Logs!Locals] /\ loc'[f] = r /\ \A g \in Fetcher \ {f} : loc'[g] = loc[g]
    BY <1>t, <2>1, <2>2
  <2>4. /\ UNCHANGED <<used, flight, logs, finalized, array, missed, dropped>> /\ pc[f] = "next"
        /\ pc' = [pc EXCEPT ![f] = "load"]
    BY Zenon, <1>2 DEF Logs!ReadFinalized, Logs!sender, Logs!ghost
  <2>5. pc'[f] = "load" /\ Types' /\ \A g \in Fetcher \ {f} : pc'[g] = pc[g]
    BY <1>t, <2>3, <2>4 DEF Types
  <2> QED BY Zenon, <2>1, <2>3, <2>4, <2>5 DEF Move, Reads, Keeps
<1>3. CASE Logs!FailRpc(f)
  BY <1>3, <1>t, <1>n DEF Logs!FailRpc, Logs!sender, Types, Move, Ends
<1>4. CASE Logs!AppendLogs(f)
  BY <1>4, <1>t, <1>n DEF Logs!AppendLogs, Logs!sender, Logs!ghost, Types, Move, Ends
<1>5. CASE Logs!CompareFinalized(f)
  <2>1. CASE Logs!NextSecret(f)
    BY <1>5, <1>t, <2>1, NextSecretIs DEF Logs!CompareFinalized, Logs!sender, Logs!ghost, Types, Move, Goes, Keeps
  <2>2. CASE ~Logs!NextSecret(f)
    BY <1>5, <1>t, <2>2 DEF Logs!CompareFinalized, Logs!sender, Logs!ghost, Types, Move, Compares, Keeps
  <2> QED BY <2>1, <2>2
<1>6. CASE Logs!PutFinalized(f)
  BY <1>6, <1>t, NextSecretIs DEF Logs!PutFinalized, Logs!sender, Logs!ghost, Types, Move, Puts, Keeps
<1>7. CASE Logs!LoadLogs(f)
  <2> DEFINE s == loc[f].secret
             found == {i \in Logs!Window(loc[f].base) : <<s, i>> \in logs}
             passed == Logs!Passed(s, loc[f].base)
  <2>0. /\ pc[f] = "load" /\ UNCHANGED <<used, flight, logs, finalized, array, dropped>> /\ missed' = missed \union passed
    BY Zenon, <1>7 DEF Logs!LoadLogs, Logs!sender
  <2>b. s \in Secret /\ loc[f].base \in 0..MaxIndex /\ MaxIndex \in Nat /\ WindowLen \in Nat
    BY <1>t DEF Logs!Locals, LogBounds
  <2>f. found \subseteq Logs!Index /\ found \subseteq 0..MaxIndex
    BY <2>b DEF Logs!TypeOK, Logs!Log, Logs!Index
  <2>p. passed \subseteq Logs!Log
    <3> SUFFICES ASSUME NEW i \in Logs!Window(loc[f].base), NEW j \in Logs!Window(loc[f].base), j > i, <<s, j>> \in logs
                 PROVE  <<s, i>> \in Logs!Log
      BY Zenon DEF Logs!Passed
    <3>1. i \in Nat /\ j \in Nat /\ i > 0
      BY <2>b DEF Logs!Window
    <3>2. j \in found
      OBVIOUS
    <3> QED BY <2>b, <2>f, <3>1, <3>2 DEF Logs!Log, Logs!Index
  <2>1. CASE found = {}
    <3>1. Logs!NextSecret(f)
      BY <1>7, <2>1 DEF Logs!LoadLogs
    <3>2. passed = {}
      BY Zenon, <2>1 DEF Logs!Passed
    <3> QED BY <1>t, <2>0, <3>1, <3>2, NextSecretIs DEF Types, Move, Goes, Keeps
  <2>2. CASE found # {}
    <3>m. Logs!Max(found) = Max(found)
      BY Zenon DEF Max, Logs!Max
    <3> DEFINE r == [loc[f] EXCEPT !.held = loc[f].held \union ({s} \X found), !.found = Max(found)]
    <3>1. Max(found) \in found /\ \A y \in found : Max(found) >= y
      BY Zenon, <2>b, <2>f, <2>2, MaxIs
    <3>2. r \in Logs!Locals
      BY Zenon, <1>t, <2>b, <2>f, <3>1 DEF Logs!Locals, Logs!Log, Logs!Index
    <3>3. /\ loc' = [loc EXCEPT ![f] = r] /\ pc' = [pc EXCEPT ![f] = "compare"]
      BY Zenon, <1>7, <1>t, <2>2, <3>m DEF Logs!LoadLogs
    <3>4. loc'[f] = r /\ loc' \in [Fetcher -> Logs!Locals] /\ \A g \in Fetcher \ {f} : loc'[g] = loc[g]
      BY <1>t, <3>2, <3>3
    <3>5. /\ loc'[f].secret = s /\ loc'[f].found = Max(found)
          /\ loc'[f].held = loc[f].held \union ({s} \X found)
      BY <1>t, <3>4 DEF Logs!Locals
    <3>6. ASSUME NEW i \in 1..Max(found), i > loc[f].base PROVE <<s, i>> \in loc'[f].held \union missed'
      <4>1. i \in Logs!Window(loc[f].base) /\ Max(found) \in Logs!Window(loc[f].base) /\ (i = Max(found) \/ Max(found) > i)
        BY <2>b, <2>f, <3>1, <3>6 DEF Logs!Window, Logs!Index
      <4>2. CASE <<s, i>> \in logs
        BY <3>5, <4>1, <4>2
      <4>3. CASE <<s, i>> \notin logs
        BY Zenon, <2>0, <3>1, <4>1, <4>3 DEF Logs!Passed
      <4> QED BY <4>2, <4>3
    <3>7. pc'[f] = "compare" /\ Types' /\ \A g \in Fetcher \ {f} : pc'[g] = pc[g]
      BY <1>t, <2>0, <2>p, <3>3, <3>4 DEF Types
    <3>8. \A i \in 1..loc'[f].found : i <= loc[f].base \/ <<s, i>> \in loc'[f].held \union missed'
      BY <2>b, <2>f, <3>1, <3>5, <3>6
    <3>9. Finds(f)
      BY <2>0, <3>5, <3>7, <3>8 DEF Finds
    <3> QED BY Zenon, <2>0, <3>4, <3>7, <3>9 DEF Move
  <2> QED BY <2>1, <2>2
<1> QED BY <1>1, <1>2, <1>3, <1>4, <1>5, <1>6, <1>7 DEF Logs!FetchStep

LEMMA Senders ==
  ASSUME Logs!TypeOK, LogBounds, \/ \E s \in Secret : Logs!Tag(s)
                         \/ \E s \in Secret, i \in Logs!Index : Logs!Include(s, i) \/ Logs!Prune(s, i) \/ Logs!Abandon(s, i)
  PROVE  Logs!TypeOK' /\ UNCHANGED <<finalized, array, pc, loc, missed, dropped>>
<1>1. ASSUME NEW s \in Secret, Logs!Tag(s) PROVE Logs!TypeOK' /\ UNCHANGED <<finalized, array, pc, loc, missed, dropped>>
  <2>1. used[s] + 1 \in Logs!Index
    BY <1>1 DEF Logs!Tag, Logs!TypeOK, LogBounds, Logs!Index
  <2> QED BY <1>1, <2>1 DEF Logs!Tag, Logs!ghost, Logs!TypeOK, Logs!Log, Logs!Index
<1>2. ASSUME NEW s \in Secret, NEW i \in Logs!Index, Logs!Include(s, i) \/ Logs!Prune(s, i) \/ Logs!Abandon(s, i)
      PROVE  Logs!TypeOK' /\ UNCHANGED <<finalized, array, pc, loc, missed, dropped>>
  BY <1>2 DEF Logs!Include, Logs!Prune, Logs!Abandon, Logs!ghost, Logs!TypeOK, Logs!Log
<1> QED BY <1>1, <1>2

LEMMA LogTypeStep == ASSUME LogBounds, Logs!TypeOK, [Logs!Next]_(Logs!vars) PROVE Logs!TypeOK'
<1>1. ASSUME NEW f \in Fetcher, Logs!FetchStep(f) PROVE Logs!TypeOK'
  <2>1. loc[f] \in Logs!Locals
    BY DEF Logs!TypeOK
  <2>2. finalized' \in [Secret -> 0..MaxIndex]
    BY <1>1, <2>1, FetcherMoves DEF Move, Starts, Reads, Goes, Finds, Compares, Puts, Ends, Logs!TypeOK, Logs!Locals
  <2> QED BY <1>1, <2>2, FetcherMoves DEF Types, Logs!TypeOK
<1>2. CASE UNCHANGED Logs!vars
  BY <1>2 DEF Logs!vars, Logs!TypeOK
<1> QED BY <1>1, <1>2, Senders DEF Logs!Next

(* What is accounted for stays so. *)
LEMMA Accounting ==
  ASSUME LogBounds, Logs!TypeOK, Empty, NEW f \in Fetcher, Logs!FetchStep(f)
  PROVE  Accounted \subseteq Accounted'
<1>m. Move(f) /\ \A g \in Fetcher \ {f} : pc'[g] = pc[g] /\ loc'[g] = loc[g]
  BY FetcherMoves
<1>1. array \subseteq array' /\ missed \subseteq missed' /\ dropped \subseteq dropped'
  BY <1>m DEF Move, Starts, Reads, Goes, Finds, Compares, Puts, Ends, Keeps
<1>2. loc[f].held \subseteq loc'[f].held \union array' \union dropped'
  BY <1>m DEF Move, Starts, Reads, Goes, Finds, Compares, Puts, Ends, Keeps, Empty
<1>3. \A g \in Fetcher : loc[g].held \subseteq Accounted'
  BY Zenon, <1>m, <1>2 DEF Accounted
<1> QED BY Zenon, <1>1, <1>3 DEF Accounted

LEMMA CoveredStep ==
  ASSUME LogBounds, LogInv, NEW f \in Fetcher, Logs!FetchStep(f)
  PROVE  Empty' /\ Covered'
<1>m. Move(f) /\ \A g \in Fetcher \ {f} : pc'[g] = pc[g] /\ loc'[g] = loc[g]
  BY FetcherMoves DEF LogInv
<1>a. Accounted \subseteq Accounted'
  BY Accounting DEF LogInv
<1>t. /\ loc[f].secret \in Secret /\ loc[f].found \in Nat /\ loc[f].base \in Nat
      /\ DOMAIN finalized = Secret
  BY DEF LogInv, Logs!TypeOK, Logs!Locals
<1>1. Empty'
  BY <1>m DEF LogInv, Empty, Move, Starts, Reads, Goes, Finds, Compares, Puts, Ends
<1>2. ASSUME NEW s \in Secret PROVE Below(s, finalized'[s]) \subseteq Accounted'
  <2>1. finalized'[s] = finalized[s] \/ (pc[f] = "put" /\ s = loc[f].secret /\ finalized'[s] = loc[f].found)
    BY <1>m, <1>t DEF Move, Starts, Reads, Goes, Finds, Compares, Puts, Ends, Keeps
  <2> QED BY Zenon, <1>a, <2>1 DEF LogInv, Covered
<1>3. ASSUME NEW g \in Fetcher \ {f}
      PROVE  /\ pc'[g] = "load" => Below(loc'[g].secret, loc'[g].base) \subseteq Accounted'
             /\ pc'[g] \in {"compare", "put"} => Below(loc'[g].secret, loc'[g].found) \subseteq Accounted'
  BY Zenon, <1>m, <1>a DEF LogInv, Covered
<1>4. pc'[f] = "load" => Below(loc'[f].secret, loc'[f].base) \subseteq Accounted'
  <2>1. pc'[f] = "load" => Reads(f)
    BY <1>m DEF Move, Starts, Reads, Goes, Finds, Compares, Puts, Ends
  <2> QED BY Zenon, <1>a, <2>1 DEF LogInv, Covered, Reads
<1>5. ASSUME pc'[f] \in {"compare", "put"}
      PROVE  Below(loc'[f].secret, loc'[f].found) \subseteq Accounted'
  <2>1. Finds(f) \/ Compares(f)
    BY <1>m, <1>5 DEF Move, Starts, Reads, Goes, Finds, Compares, Puts, Ends
  <2>2. CASE Compares(f)
    BY Zenon, <1>a, <2>2 DEF LogInv, Covered, Compares
  <2>3. CASE Finds(f)
    <3> DEFINE s == loc[f].secret
    <3>1. ASSUME NEW i \in 1..loc'[f].found PROVE <<s, i>> \in Accounted'
      <4>1. CASE i <= loc[f].base
        <5>1. <<s, i>> \in Below(s, loc[f].base)
          BY <1>t, <4>1 DEF Below
        <5> QED BY Zenon, <1>a, <2>3, <5>1 DEF LogInv, Covered, Finds
      <4>2. CASE <<s, i>> \in loc'[f].held \union missed'
        BY Zenon, <4>2 DEF Accounted
      <4> QED BY Zenon, <2>3, <4>1, <4>2 DEF Finds
    <3> QED BY Zenon, <2>3, <3>1 DEF Finds, Below
  <2> QED BY <2>1, <2>2, <2>3
<1> QED BY Zenon, <1>1, <1>2, <1>3, <1>4, <1>5 DEF Covered

LEMMA LogStep == ASSUME LogBounds, LogInv, [Logs!Next]_(Logs!vars) PROVE LogInv'
<1>1. ASSUME UNCHANGED <<finalized, array, pc, loc, missed, dropped>> PROVE Empty' /\ Covered'
  <2>1. Accounted' = Accounted
    BY Zenon, <1>1 DEF Accounted
  <2> QED BY <1>1, <2>1 DEF LogInv, Empty, Covered
<1>2. CASE UNCHANGED Logs!vars
  BY Zenon, <1>1, <1>2, LogTypeStep DEF Logs!vars, LogInv
<1>3. CASE Logs!Next
  BY Zenon, <1>1, <1>3, LogTypeStep, Senders, CoveredStep DEF Logs!Next, LogInv
<1> QED BY <1>2, <1>3

LEMMA LogInit == ASSUME LogBounds, Logs!Init PROVE LogInv
<1>1. Logs!TypeOK
  BY NoLocalsType DEF Logs!Init, Logs!TypeOK, LogBounds
<1>2. Empty
  BY DEF Logs!Init, Empty, Logs!NoLocals
<1>3. Covered
  <2>1. \A s \in Secret : Below(s, finalized[s]) = {}
    BY DEF Logs!Init, Below
  <2> QED BY <2>1 DEF Logs!Init, Covered
<1> QED BY <1>1, <1>2, <1>3 DEF LogInv

(* Every reachable state of the discovery of logs is of its type. *)
THEOREM LogTypeCorrect == ASSUME LogBounds PROVE Logs!Spec => []Logs!TypeOK
<1>1. LogInv => Logs!TypeOK
  BY DEF LogInv
<1> QED BY <1>1, LogInit, LogStep, PTL DEF Logs!Spec

(* A log on the chain whose index is not above the stored one has been handed *)
(* on or is held by a call, unless it was not on the chain when a higher one  *)
(* was found or a call that held it failed: whatever the number of calls      *)
(* (load_logs_for_range, update_highest_finalized_index).                     *)
THEOREM NoneSkipped == ASSUME LogBounds PROVE Logs!Spec => []Logs!NoLogSkipped
<1>1. LogInv => Logs!NoLogSkipped
  <2> SUFFICES ASSUME LogInv, NEW l \in logs, l[2] <= finalized[l[1]]
               PROVE  l \in array \union missed \union dropped \/ \E f \in Fetcher : l \in loc[f].held
    BY DEF Logs!NoLogSkipped
  <2>1. PICK s \in Secret, i \in Logs!Index : l = <<s, i>>
    BY DEF LogInv, Logs!TypeOK, Logs!Log
  <2>2. l \in Below(s, finalized[s])
    BY <2>1 DEF LogInv, Logs!TypeOK, Below, Logs!Index
  <2> QED BY Zenon, <2>1, <2>2 DEF LogInv, Covered, Accounted
<1> QED BY <1>1, LogInit, LogStep, PTL DEF Logs!Spec

OneFetcher == \E f : Fetcher = {f}

(* One fetcher never lowers the stored index of a secret                      *)
(* (update_highest_finalized_index).                                          *)
THEOREM NeverLowered == ASSUME LogBounds, OneFetcher PROVE Logs!Spec => Logs!FinalizedNeverLowered
<1>t. ASSUME Logs!TypeOK
      PROVE  /\ \A s \in Secret : finalized[s] \in Nat
             /\ \A f \in Fetcher : loc[f].found \in Nat /\ loc[f].secret \in Secret
  BY <1>t DEF Logs!TypeOK, Logs!Locals, LogBounds
<1>1. Logs!Init => Logs!TypeOK /\ Raises
  BY LogInit DEF Logs!Init, LogInv, Raises
<1>2. ASSUME Logs!TypeOK, Raises, [Logs!Next]_(Logs!vars) PROVE Logs!TypeOK' /\ Raises'
  <2>1. CASE UNCHANGED <<finalized, pc, loc>>
    BY <1>2, <2>1, LogTypeStep DEF Raises
  <2>2. ASSUME NEW f \in Fetcher, Logs!FetchStep(f) PROVE Raises'
    <3>1. Move(f) /\ Fetcher = {f}
      BY <1>2, <2>2, FetcherMoves DEF OneFetcher
    <3>2. pc'[f] = "put" => Compares(f)
      BY <3>1 DEF Move, Starts, Reads, Goes, Finds, Compares, Puts, Ends
    <3> QED BY <3>1, <3>2 DEF Raises, Compares
  <2> QED BY Zenon, <1>2, <2>1, <2>2, LogTypeStep, Senders DEF Logs!Next, Logs!vars
<1>3. ASSUME Logs!TypeOK, Raises, [Logs!Next]_(Logs!vars) PROVE Logs!FinalizedStep
  <2>1. CASE UNCHANGED finalized
    BY <1>3, <1>t, <2>1 DEF Logs!FinalizedStep
  <2>2. ASSUME NEW f \in Fetcher, Logs!FetchStep(f) PROVE Logs!FinalizedStep
    <3>1. UNCHANGED finalized \/ Puts(f)
      BY <1>3, <2>2, FetcherMoves DEF Move, Starts, Reads, Goes, Finds, Compares, Ends
    <3>2. ASSUME Puts(f), NEW s \in Secret PROVE finalized'[s] >= finalized[s]
      BY <1>3, <1>t, <3>2 DEF Raises, Puts, Logs!TypeOK
    <3> QED BY <2>1, <3>1, <3>2 DEF Logs!FinalizedStep
  <2> QED BY Zenon, <1>3, <2>1, <2>2, Senders DEF Logs!Next, Logs!vars
<1> QED BY <1>1, <1>2, <1>3, PTL DEF Logs!Spec, Logs!FinalizedNeverLowered
=============================================================================
