--------------------------- MODULE NoteStoreProofs ---------------------------
(***************************************************************************)
(* Theorems about the note store, for any sets of nullifiers, contracts,   *)
(* accounts and block numbers.                                             *)
(***************************************************************************)
EXTENDS NoteStore, TLAPS

-----------------------------------------------------------------------------
(* Every step keeps every key and the operation in flight well formed. *)
LEMMA TypeStep == TypeOK /\ [Next]_vars => TypeOK'
<1> SUFFICES ASSUME TypeOK, [Next]_vars PROVE TypeOK'
  OBVIOUS
<1> USE BlockAssumption, ContractAssumption DEF TypeOK, NoBlock, Stored, kv
<1>1. ASSUME NEW n \in Nullifier, NEW s \in Scope, MergeScope(n, s) PROVE TypeOK'
  <2>1. notes[n] \in Note
    BY <1>1 DEF MergeScope
  <2>2. [notes[n] EXCEPT !.scopes = @ \union {s}] \in Note
    BY <2>1 DEF Note
  <2> QED BY <1>1, <2>2 DEF MergeScope
<1>2. ASSUME NEW n \in Nullifier, NEW s \in Scope, NEW b \in Block \union {NoBlock},
             NEW spent \in BOOLEAN, PutNote(n, b, spent, s)
      PROVE TypeOK'
  <2>1. op' \in Op
    BY <1>2 DEF PutNote, Op
  <2>2. [block |-> b, nullified |-> spent, nblock |-> IF spent THEN 0 ELSE NoBlock,
         scopes |-> {s}] \in Note
    BY DEF Note
  <2> QED BY <1>2, <2>1, <2>2 DEF PutNote
<1>3. CASE AddToContractIndex
  <2>1. op.note \in Nullifier
    BY <1>3 DEF AddToContractIndex, Op, Walk, Idle
  <2>2. op' \in Op
    BY <1>3, <2>1 DEF AddToContractIndex, Op, Idle
  <2> QED BY <1>3, <2>1, <2>2 DEF AddToContractIndex
<1>4. CASE AddToBlockIndex
  <2>1. op.note \in Nullifier
    BY <1>4 DEF AddToBlockIndex, Op, Walk, Idle
  <2> QED BY <1>4, <2>1 DEF AddToBlockIndex, Op
<1>5. ASSUME NEW n \in Nullifier, NEW b \in Block, ApplyNullifier(n, b) PROVE TypeOK'
  <2>1. op' \in Op
    BY <1>5 DEF ApplyNullifier, Op
  <2>2. notes[n] \in Note
    BY <1>5 DEF ApplyNullifier
  <2>3. [notes[n] EXCEPT !.nullified = TRUE, !.nblock = b] \in Note
    BY <2>2 DEF Note
  <2> QED BY <1>5, <2>1, <2>3 DEF ApplyNullifier
<1>6. CASE AddToNullificationBlockIndex
  <2>1. op.note \in Nullifier
    BY <1>6 DEF AddToNullificationBlockIndex, Op, Walk, Idle
  <2> QED BY <1>6, <2>1 DEF AddToNullificationBlockIndex, Op
<1>7. ASSUME NEW t \in Block, Rollback(t) PROVE TypeOK'
  <2>1. op' \in Op
    BY <1>7 DEF Rollback, Op, Walk
  <2> QED BY <1>7, <2>1 DEF Rollback
<1>8. ASSUME op.kind \in {"unnullify", "delete"} PROVE op \in Walk
  BY <1>8 DEF Op, Idle
<1>9. ASSUME NEW b \in Block, OpenNullifyKey(b) PROVE TypeOK'
  <2>1. op' \in Walk
    BY <1>8, <1>9 DEF OpenNullifyKey, Walk
  <2> QED BY <1>9, <2>1 DEF OpenNullifyKey, Op
<1>10. ASSUME NEW n \in Nullifier, UnNullify(n) PROVE TypeOK'
  <2>1. op' \in Walk
    BY <1>8, <1>10 DEF UnNullify, Walk
  <2>2. notes' \in [Nullifier -> Note \union {Absent}]
    <3>1. CASE Stored(n)
      <4>1. [notes[n] EXCEPT !.nullified = FALSE, !.nblock = NoBlock] \in Note
        BY <3>1 DEF Note
      <4> QED BY <1>10, <3>1, <4>1 DEF UnNullify
    <3>2. CASE ~Stored(n)
      BY <1>10, <3>2 DEF UnNullify
    <3> QED BY <3>1, <3>2
  <2> QED BY <1>10, <2>1, <2>2 DEF UnNullify, Op
<1>11. CASE DropNullifyKey
  <2>1. op' \in Walk
    BY <1>8, <1>11 DEF DropNullifyKey, Walk
  <2> QED BY <1>11, <2>1 DEF DropNullifyKey, Op
<1>12. CASE StartDeleting
  <2>1. op' \in Walk
    BY <1>8, <1>12 DEF StartDeleting, Walk
  <2> QED BY <1>12, <2>1 DEF StartDeleting, Op
<1>13. ASSUME NEW b \in Block, OpenBlockKey(b) PROVE TypeOK'
  <2>1. op' \in Walk
    BY <1>8, <1>13 DEF OpenBlockKey, Walk
  <2> QED BY <1>13, <2>1 DEF OpenBlockKey, Op
<1>14. ASSUME NEW n \in Nullifier, RemoveFromContractIndex(n) PROVE TypeOK'
  <2>1. op' \in Op
    BY <1>8, <1>14 DEF RemoveFromContractIndex, Walk, Op
  <2>2. contractIdx' \in [Contract -> SUBSET Nullifier]
    BY <1>14 DEF RemoveFromContractIndex
  <2> QED BY <1>14, <2>1, <2>2 DEF RemoveFromContractIndex
<1>15. CASE DeleteNote
  <2>1. op.note \in Nullifier /\ op.target \in Block /\ op.key \in Block /\ op.todo \in SUBSET Nullifier
    BY <1>15 DEF DeleteNote, Op, Walk, Idle
  <2>2. op' \in Walk
    BY <1>15, <2>1 DEF DeleteNote, Walk
  <2> QED BY <1>15, <2>1, <2>2 DEF DeleteNote, Op
<1>16. CASE DropBlockKey
  <2>1. op' \in Walk
    BY <1>8, <1>16 DEF DropBlockKey, Walk
  <2> QED BY <1>16, <2>1 DEF DropBlockKey, Op
<1>17. CASE FinishRollback
  BY <1>17 DEF FinishRollback, Op
<1>18. CASE CrashInRollback
  <2>1. op.target \in Block
    BY <1>18 DEF CrashInRollback, RollingBack, Op, Walk, Idle
  <2>2. op' \in Op
    BY <1>18, <2>1 DEF CrashInRollback, Op
  <2> QED BY <1>18, <2>2 DEF CrashInRollback
<1>19. CASE CrashInWrite
  <2>1. op.note \in Nullifier
    BY <1>19 DEF CrashInWrite, Op, Walk, Idle
  <2> QED BY <1>19, <2>1 DEF CrashInWrite, Op
<1>20. CASE UNCHANGED vars
  BY <1>20 DEF vars
<1> QED
  BY <1>1, <1>2, <1>3, <1>4, <1>5, <1>6, <1>7, <1>9, <1>10, <1>11, <1>12, <1>13, <1>14,
     <1>15, <1>16, <1>17, <1>18, <1>19, <1>20 DEF Next, NullifyNote, SpendBlocks

LEMMA TypeInit == Init => TypeOK
  BY DEF Init, TypeOK, Op

(* Keys and operation stay well formed in every reachable state. *)
THEOREM TypeCorrect == Spec => []TypeOK
<1> QED BY TypeInit, TypeStep, PTL DEF Spec
-----------------------------------------------------------------------------
(* ContractIndexSound needs two facts about the operation in flight: a note  *)
(* about to enter its contract's index is stored, and one about to be deleted *)
(* has left it.                                                               *)
InFlight ==
    /\ op.kind = "addContract" => Stored(op.note)
    /\ op.kind = "deleteNote" => op.note \notin contractIdx[ContractOf[op.note]]

IndexInv == TypeOK /\ ContractIndexSound /\ InFlight

(* No step lists a nullifier that has no note. *)
LEMMA IndexStep == IndexInv /\ [Next]_vars => IndexInv'
<1> SUFFICES ASSUME IndexInv, [Next]_vars PROVE (ContractIndexSound /\ InFlight)'
  BY TypeStep DEF IndexInv
<1>0. TypeOK'
  BY TypeStep DEF IndexInv
<1> USE BlockAssumption, ContractAssumption DEF IndexInv
<1>a. ASSUME op' = Idle \/ op'.kind \notin {"addContract", "deleteNote"} PROVE InFlight'
  BY <1>a DEF InFlight, Idle
<1>b. ASSUME \A n \in Nullifier : Stored(n) => Stored(n)', UNCHANGED contractIdx
      PROVE  ContractIndexSound'
  BY <1>b DEF ContractIndexSound, TypeOK
<1>c. ASSUME UNCHANGED notes PROVE \A n \in Nullifier : Stored(n) => Stored(n)'
  BY <1>c DEF Stored
<1>1. ASSUME NEW n \in Nullifier, NEW s \in Scope, MergeScope(n, s)
      PROVE (ContractIndexSound /\ InFlight)'
  <2>1. \A m \in Nullifier : Stored(m) => Stored(m)'
    BY <1>1, AbsentAssumption, <1>0 DEF MergeScope, Stored, TypeOK, Note
  <2> QED BY <1>a, <1>b, <1>1, <2>1 DEF MergeScope
<1>2. ASSUME NEW n \in Nullifier, NEW s \in Scope, NEW b \in Block \union {NoBlock},
             NEW spent \in BOOLEAN, PutNote(n, b, spent, s)
      PROVE (ContractIndexSound /\ InFlight)'
  <2>1. Stored(n)'
    <3>1. notes'[n] \in Note
      BY <1>2 DEF PutNote, TypeOK, Note, NoBlock
    <3> QED BY <3>1, AbsentAssumption DEF Stored
  <2>2. \A m \in Nullifier : Stored(m) => Stored(m)'
    BY <1>2, <2>1 DEF PutNote, Stored, TypeOK
  <2>3. op' = [kind |-> "addContract", note |-> n] /\ UNCHANGED contractIdx
    BY <1>2 DEF PutNote
  <2> QED BY <1>b, <2>1, <2>2, <2>3 DEF InFlight
<1>3. CASE AddToContractIndex
  <2>1. op.note \in Nullifier /\ Stored(op.note)
    BY <1>3 DEF AddToContractIndex, Op, Walk, Idle, TypeOK, InFlight
  <2>2. ContractIndexSound'
    BY <1>3, <2>1 DEF AddToContractIndex, ContractIndexSound, TypeOK, Stored
  <2>3. op' = Idle \/ op'.kind = "addBlock"
    BY <1>3 DEF AddToContractIndex
  <2> QED BY <1>a, <2>2, <2>3
<1>5. ASSUME NEW n \in Nullifier, NEW b \in Block, ApplyNullifier(n, b)
      PROVE (ContractIndexSound /\ InFlight)'
  <2>1. notes[n] \in Note
    BY <1>5 DEF ApplyNullifier, TypeOK, Stored
  <2>2. Stored(n)'
    BY <1>5, <2>1, AbsentAssumption DEF ApplyNullifier, Stored, TypeOK, Note
  <2>3. \A m \in Nullifier : Stored(m) => Stored(m)'
    BY <1>5, <2>2 DEF ApplyNullifier, Stored, TypeOK
  <2>4. op'.kind = "addNullify" /\ UNCHANGED contractIdx
    BY <1>5 DEF ApplyNullifier
  <2> QED BY <1>a, <1>b, <2>3, <2>4
<1>10. ASSUME NEW n \in Nullifier, UnNullify(n) PROVE (ContractIndexSound /\ InFlight)'
  <2>1. \A m \in Nullifier : Stored(m) => Stored(m)'
    <3>1. CASE Stored(n)
      <4>1. notes[n] \in Note
        BY <3>1 DEF TypeOK, Stored
      <4>2. notes'[n] \in Note
        BY <1>10, <3>1, <4>1 DEF UnNullify, TypeOK, Note, NoBlock
      <4> QED BY <1>10, <4>2, <3>1, AbsentAssumption DEF UnNullify, Stored, TypeOK
    <3>2. CASE ~Stored(n)
      BY <1>10, <3>2, <1>c DEF UnNullify
    <3> QED BY <3>1, <3>2
  <2>2. op'.kind = "unnullify" /\ UNCHANGED contractIdx
    BY <1>10 DEF UnNullify, TypeOK, Op, Walk, Idle
  <2> QED BY <1>a, <1>b, <2>1, <2>2
<1>14. ASSUME NEW n \in Nullifier, RemoveFromContractIndex(n)
       PROVE (ContractIndexSound /\ InFlight)'
  <2>1. ContractIndexSound'
    BY <1>14 DEF RemoveFromContractIndex, ContractIndexSound, TypeOK, Stored
  <2>2. n \notin contractIdx'[ContractOf[n]]
    BY <1>14 DEF RemoveFromContractIndex, ContractIndexSound, TypeOK, Stored
  <2>3. op'.kind = "deleteNote" /\ op'.note = n
    BY <1>14 DEF RemoveFromContractIndex
  <2> QED BY <2>1, <2>2, <2>3 DEF InFlight
<1>15. CASE DeleteNote
  <2>1. op.note \in Nullifier /\ op.note \notin contractIdx[ContractOf[op.note]]
    BY <1>15 DEF DeleteNote, Op, Walk, Idle, TypeOK, InFlight
  <2>2. ContractIndexSound'
    BY <1>15, <2>1 DEF DeleteNote, ContractIndexSound, TypeOK, Stored
  <2>3. op'.kind = "delete"
    BY <1>15 DEF DeleteNote
  <2> QED BY <1>a, <2>2, <2>3
<1>16. ASSUME UNCHANGED <<notes, contractIdx>>,
              op' = Idle \/ op'.kind \notin {"addContract", "deleteNote"}
       PROVE (ContractIndexSound /\ InFlight)'
  BY <1>a, <1>b, <1>c, <1>16
<1>17. CASE AddToBlockIndex \/ AddToNullificationBlockIndex \/ FinishRollback \/ CrashInWrite
  BY <1>16, <1>17 DEF AddToBlockIndex, AddToNullificationBlockIndex, FinishRollback, CrashInWrite, kv
<1>18. CASE (\E b \in Block : Rollback(b)) \/ CrashInRollback
  BY <1>16, <1>18 DEF Rollback, CrashInRollback, kv
<1>19. CASE \/ \E b \in Block : OpenNullifyKey(b) \/ OpenBlockKey(b)
            \/ DropNullifyKey \/ StartDeleting \/ DropBlockKey
  <2>1. op'.kind \in {"unnullify", "delete"}
    BY <1>19 DEF OpenNullifyKey, OpenBlockKey, DropNullifyKey, StartDeleting, DropBlockKey,
                 TypeOK, Op, Walk, Idle
  <2>2. UNCHANGED <<notes, contractIdx>>
    BY <1>19 DEF OpenNullifyKey, OpenBlockKey, DropNullifyKey, StartDeleting, DropBlockKey, kv
  <2> QED BY <1>16, <2>1, <2>2
<1>20. CASE UNCHANGED vars
  BY <1>20 DEF vars, InFlight, ContractIndexSound, Stored
<1> QED
  BY <1>1, <1>2, <1>3, <1>5, <1>10, <1>14, <1>15, <1>17, <1>18, <1>19, <1>20
     DEF Next, NullifyNote, SpendBlocks

(* A contract's index lists stored notes of that contract only, wherever the *)
(* process stops: the order of the writes in add_notes and rollback is safe. *)
THEOREM ContractIndexAlwaysSound == Spec => []ContractIndexSound
<1>1. Init => IndexInv
  BY TypeInit DEF Init, IndexInv, ContractIndexSound, InFlight, Idle
<1>2. IndexInv => ContractIndexSound
  BY DEF IndexInv
<1> QED BY <1>1, <1>2, IndexStep, PTL DEF Spec
-----------------------------------------------------------------------------
(* What rollback relies on.  Every note with a creation block, and every     *)
(* note spent at a known block, is listed under it, or the operation in      *)
(* flight is about to list it, or a stop has torn it.                        *)
BlockListed ==
    \A n \in Nullifier \ torn :
        Stored(n) /\ notes[n].block # NoBlock => n \in blockIdx[notes[n].block] \/ Adding(n)

SpendListed ==
    \A n \in Nullifier \ torn :
        Stored(n) /\ notes[n].nblock > 0 =>
            n \in nullifyIdx[notes[n].nblock] \/ (op.kind = "addNullify" /\ op.note = n)

(* How far the walk of a rollback has come. *)
Pending ==
    /\ op.kind = "addContract" => Stored(op.note)
    /\ op.kind = "addBlock" => Stored(op.note) /\ notes[op.note].block # NoBlock
    /\ op.kind = "addNullify" => Stored(op.note) /\ notes[op.note].nblock \in Block

Walked ==
    /\ op.kind = "unnullify" /\ op.key # NoBlock =>
          \A n \in nullifyIdx[op.key] : n \in op.todo \/ (Stored(n) => notes[n].nblock = NoBlock)
    /\ op.kind \in {"delete", "deleteNote"} =>
          \A b \in Block : b > op.target => nullifyIdx[b] = {}
    /\ op.kind = "delete" /\ op.key # NoBlock =>
          \A n \in blockIdx[op.key] : n \in op.todo \/ ~Stored(n)
    /\ op.kind = "deleteNote" =>
          \A n \in blockIdx[op.key] : n \in op.todo \/ n = op.note \/ ~Stored(n)

RollbackInv == TypeOK /\ BlockListed /\ SpendListed /\ Pending /\ Walked

(* A stop inside add_notes or apply_nullifiers takes one note out. *)
LEMMA RollbackStop == RollbackInv /\ CrashInWrite => RollbackInv'
<1> SUFFICES ASSUME RollbackInv, CrashInWrite PROVE RollbackInv'
  OBVIOUS
<1>1. TypeOK'
  BY TypeStep DEF RollbackInv, Next
<1>2. /\ op.kind \in {"addContract", "addBlock", "addNullify"}
      /\ op' = Idle /\ torn' = torn \union {op.note}
      /\ UNCHANGED <<notes, blockIdx, nullifyIdx>>
  BY DEF CrashInWrite, kv
<1>3. BlockListed' /\ SpendListed'
  BY <1>2 DEF RollbackInv, BlockListed, SpendListed, Adding, Stored
<1> QED BY <1>1, <1>2, <1>3 DEF RollbackInv, Pending, Walked, Idle

(* Every step keeps what rollback relies on. *)
LEMMA RollbackStep == RollbackInv /\ [Next]_vars => RollbackInv'
<1> SUFFICES ASSUME RollbackInv, [Next]_vars, ~CrashInWrite PROVE RollbackInv'
  BY RollbackStop
<1>k. torn' = torn
  BY DEF Next, MergeScope, PutNote, AddToContractIndex, AddToBlockIndex, ApplyNullifier, NullifyNote,
         AddToNullificationBlockIndex, Rollback, OpenNullifyKey, UnNullify, DropNullifyKey, StartDeleting,
         OpenBlockKey, RemoveFromContractIndex, DeleteNote, DropBlockKey, FinishRollback, CrashInRollback,
         vars
<1>0. TypeOK'
  BY TypeStep DEF RollbackInv
<1>t. TypeOK
  BY DEF RollbackInv
<1> USE BlockAssumption, ContractAssumption, <1>t, <1>k DEF NoBlock
<1> DEFINE Goal == BlockListed /\ SpendListed /\ Pending /\ Walked
<1>u. Goal
  BY DEF RollbackInv
<1> SUFFICES Goal'
  BY <1>0 DEF RollbackInv
<1>w. ASSUME op.kind \in {"unnullify", "delete"} PROVE op \in Walk
  BY <1>w DEF Op, Idle, TypeOK
<1> HIDE DEF Goal
<1>1. ASSUME NEW n \in Nullifier, NEW s \in Scope, MergeScope(n, s) PROVE Goal'
  <2>1. notes[n] \in Note /\ op = Idle /\ UNCHANGED <<blockIdx, nullifyIdx, op>>
    BY <1>1 DEF MergeScope, TypeOK, Stored
  <2>2. \A m \in Nullifier : Stored(m)' => /\ Stored(m)
                                          /\ notes'[m].block = notes[m].block
                                          /\ notes'[m].nblock = notes[m].nblock
    BY <1>1, <2>1 DEF MergeScope, TypeOK, Stored, Note
  <2>3. BlockListed' /\ SpendListed'
    BY <1>u, <2>1, <2>2 DEF Goal, BlockListed, SpendListed, Adding, Idle
  <2> QED BY <2>1, <2>3 DEF Goal, Pending, Walked, Idle
<1>2. ASSUME NEW n \in Nullifier, NEW s \in Scope, NEW b \in Block \union {NoBlock},
             NEW spent \in BOOLEAN, PutNote(n, b, spent, s)
      PROVE Goal'
  <2>1. /\ op = Idle /\ op' = [kind |-> "addContract", note |-> n]
        /\ UNCHANGED <<blockIdx, nullifyIdx>>
    BY <1>2 DEF PutNote
  <2>2. notes'[n].nblock \in {0, NoBlock}
    BY <1>2 DEF PutNote, TypeOK
  <2>3. \A m \in Nullifier \ {n} : notes'[m] = notes[m]
    BY <1>2 DEF PutNote, TypeOK
  <2>4. BlockListed'
    BY <1>u, <2>1, <2>3 DEF Goal, BlockListed, Adding, Idle, Stored
  <2>5. SpendListed'
    BY <1>u, <2>1, <2>2, <2>3 DEF Goal, SpendListed, Idle, Stored
  <2>6. notes'[n] \in Note
    BY <1>2 DEF PutNote, TypeOK, Note
  <2> QED BY <2>1, <2>4, <2>5, <2>6, AbsentAssumption DEF Goal, Pending, Walked, Stored
<1>3. CASE AddToContractIndex
  <2>1. /\ op.kind = "addContract" /\ op.note \in Nullifier
        /\ UNCHANGED <<notes, blockIdx, nullifyIdx>>
    BY <1>3 DEF AddToContractIndex, TypeOK, Op, Walk, Idle
  <2>2. op' = IF notes[op.note].block = NoBlock THEN Idle
              ELSE [kind |-> "addBlock", note |-> op.note]
    BY <1>3 DEF AddToContractIndex
  <2>3. BlockListed'
    BY <1>u, <2>1, <2>2 DEF Goal, BlockListed, Adding, Stored
  <2>4. SpendListed'
    BY <1>u, <2>1, <2>2 DEF Goal, SpendListed, Stored
  <2>5. Pending'
    <3>1. Stored(op.note)
      BY <1>3, <1>u DEF Goal, Pending, AddToContractIndex
    <3> QED BY <2>1, <2>2, <3>1 DEF Pending, Stored, Idle
  <2> QED BY <2>2, <2>3, <2>4, <2>5 DEF Goal, Walked, Idle
<1>4. CASE AddToBlockIndex
  <2>1. /\ op.kind = "addBlock" /\ op.note \in Nullifier
        /\ op' = Idle /\ UNCHANGED <<notes, nullifyIdx>>
    BY <1>4 DEF AddToBlockIndex, TypeOK, Op, Walk, Idle
  <2>2. notes[op.note].block \in Block
    BY <1>u, <2>1 DEF Goal, Pending, Stored, TypeOK, Note
  <2>3. BlockListed'
    BY <1>4, <1>u, <2>1, <2>2 DEF AddToBlockIndex, Goal, BlockListed, Adding, Stored, TypeOK, Idle
  <2>4. SpendListed'
    BY <1>u, <2>1 DEF Goal, SpendListed, Stored, Idle
  <2> QED BY <2>1, <2>3, <2>4 DEF Goal, Pending, Walked, Idle
<1>5. ASSUME NEW n \in Nullifier, NEW b \in Block, ApplyNullifier(n, b) PROVE Goal'
  <2>1. /\ op = Idle /\ op' = [kind |-> "addNullify", note |-> n]
        /\ Stored(n) /\ notes[n] \in Note /\ UNCHANGED <<blockIdx, nullifyIdx>>
    BY <1>5 DEF ApplyNullifier, TypeOK, Stored
  <2>2. /\ \A m \in Nullifier \ {n} : notes'[m] = notes[m]
        /\ notes'[n].block = notes[n].block /\ notes'[n].nblock = b
        /\ notes'[n] \in Note
    BY <1>5, <2>1 DEF ApplyNullifier, TypeOK, Note
  <2>3. BlockListed'
    BY <1>u, <2>1, <2>2 DEF Goal, BlockListed, Adding, Idle, Stored
  <2>4. SpendListed'
    BY <1>u, <2>1, <2>2 DEF Goal, SpendListed, Idle, Stored
  <2>5. Pending'
    BY <2>1, <2>2, AbsentAssumption DEF Pending, Stored
  <2> QED BY <2>1, <2>3, <2>4, <2>5 DEF Goal, Walked
<1>6. CASE AddToNullificationBlockIndex
  <2>1. /\ op.kind = "addNullify" /\ op.note \in Nullifier
        /\ op' = Idle /\ UNCHANGED <<notes, blockIdx>>
    BY <1>6 DEF AddToNullificationBlockIndex, TypeOK, Op, Walk, Idle
  <2>2. notes[op.note].nblock \in Block
    BY <1>u, <2>1 DEF Goal, Pending
  <2>3. SpendListed'
    BY <1>6, <1>u, <2>1, <2>2
       DEF AddToNullificationBlockIndex, Goal, SpendListed, Stored, TypeOK, Idle
  <2>4. BlockListed'
    BY <1>u, <2>1 DEF Goal, BlockListed, Adding, Stored, Idle
  <2> QED BY <2>1, <2>3, <2>4 DEF Goal, Pending, Walked, Idle
<1>7. ASSUME NEW t \in Block, Rollback(t) PROVE Goal'
  <2>1. /\ op.kind \in {"idle", "recover"} /\ op'.kind = "unnullify" /\ op'.key = NoBlock
        /\ UNCHANGED <<notes, blockIdx, nullifyIdx>>
    BY <1>7 DEF Rollback, Idle, kv
  <2>2. BlockListed' /\ SpendListed'
    BY <1>u, <2>1 DEF Goal, BlockListed, SpendListed, Adding, Stored
  <2> QED BY <2>1, <2>2 DEF Goal, Pending, Walked
<1>8. ASSUME op.kind \in {"unnullify", "delete", "deleteNote"},
             op' = Idle \/ op'.kind \in {"unnullify", "delete", "deleteNote", "recover"},
             UNCHANGED <<notes, blockIdx, nullifyIdx>>
      PROVE  BlockListed' /\ SpendListed' /\ Pending'
  BY <1>u, <1>8 DEF Goal, BlockListed, SpendListed, Pending, Adding, Stored, Idle
<1>9. ASSUME NEW b \in Block, OpenNullifyKey(b) PROVE Goal'
  <2>1. /\ op'.kind = "unnullify" /\ op'.key = b /\ op'.todo = nullifyIdx[b]
        /\ UNCHANGED <<notes, blockIdx, nullifyIdx>>
    BY <1>9, <1>w DEF OpenNullifyKey, Walk, kv
  <2>2. BlockListed' /\ SpendListed' /\ Pending'
    BY <1>8, <1>9, <2>1 DEF OpenNullifyKey
  <2> QED BY <2>1, <2>2 DEF Goal, Walked
<1>10. ASSUME NEW n \in Nullifier, UnNullify(n) PROVE Goal'
  <2>1. /\ op.kind = "unnullify" /\ op.key # NoBlock /\ op \in Walk
        /\ op'.kind = "unnullify" /\ op'.key = op.key /\ op'.todo = op.todo \ {n}
        /\ UNCHANGED <<blockIdx, nullifyIdx>>
    BY <1>10, <1>w DEF UnNullify, Walk
  <2>2. /\ \A m \in Nullifier \ {n} : notes'[m] = notes[m]
        /\ Stored(n)' => Stored(n) /\ notes'[n].block = notes[n].block /\ notes'[n].nblock = NoBlock
    <3>1. CASE Stored(n)
      <4>1. notes[n] \in Note
        BY <3>1 DEF Stored, TypeOK
      <4> QED BY <1>10, <3>1, <4>1 DEF UnNullify, TypeOK, Note, Stored
    <3>2. CASE ~Stored(n)
      BY <1>10, <3>2 DEF UnNullify, Stored
    <3> QED BY <3>1, <3>2
  <2>3. BlockListed'
    BY <1>u, <2>1, <2>2 DEF Goal, BlockListed, Adding, Stored
  <2>4. SpendListed'
    BY <1>u, <2>1, <2>2 DEF Goal, SpendListed, Stored
  <2>5. Walked'
    <3> SUFFICES ASSUME NEW m \in nullifyIdx[op.key], m \notin op.todo \ {n}, Stored(m)'
                 PROVE  notes'[m].nblock = NoBlock
      BY <2>1 DEF Walked
    <3>1. m \in Nullifier
      BY <2>1 DEF TypeOK, Walk
    <3> QED BY <1>u, <2>1, <2>2, <3>1 DEF Goal, Walked, Stored
  <2> QED BY <2>1, <2>3, <2>4, <2>5 DEF Goal, Pending
<1>11. CASE DropNullifyKey
  <2>1. /\ op.kind = "unnullify" /\ op.key \in Block /\ op.todo = {}
        /\ op'.kind = "unnullify" /\ op'.key = NoBlock
        /\ UNCHANGED <<notes, blockIdx>>
        /\ nullifyIdx' = [nullifyIdx EXCEPT ![op.key] = {}]
    BY <1>11, <1>w DEF DropNullifyKey, Walk
  <2>2. BlockListed'
    BY <1>u, <2>1 DEF Goal, BlockListed, Adding, Stored
  <2>3. SpendListed'
    <3> SUFFICES ASSUME NEW n \in Nullifier \ torn, Stored(n), notes[n].nblock > 0
                 PROVE  n \in nullifyIdx'[notes[n].nblock]
      BY <2>1 DEF SpendListed, Stored
    <3>1. n \in nullifyIdx[notes[n].nblock]
      BY <1>u, <2>1 DEF Goal, SpendListed
    <3>2. notes[n].nblock # op.key
      BY <1>u, <2>1, <3>1 DEF Goal, Walked
    <3>3. notes[n].nblock \in Block
      BY DEF TypeOK, Note, Stored
    <3> QED BY <2>1, <3>1, <3>2, <3>3 DEF TypeOK
  <2> QED BY <2>1, <2>2, <2>3 DEF Goal, Pending, Walked
<1>12. CASE StartDeleting
  <2>1. /\ op.kind = "unnullify" /\ op.target \in Block /\ LaterKeys(nullifyIdx) = {}
        /\ op'.kind = "delete" /\ op'.key = NoBlock /\ op'.target = op.target
        /\ UNCHANGED <<notes, blockIdx, nullifyIdx>>
    BY <1>12, <1>w DEF StartDeleting, Walk, kv
  <2>2. BlockListed' /\ SpendListed' /\ Pending'
    BY <1>8, <2>1
  <2> QED BY <2>1, <2>2 DEF Goal, Walked, LaterKeys
<1>13. ASSUME NEW b \in Block, OpenBlockKey(b) PROVE Goal'
  <2>1. /\ op.kind = "delete" /\ op'.kind = "delete" /\ op'.key = b /\ op'.todo = blockIdx[b]
        /\ op'.target = op.target /\ UNCHANGED <<notes, blockIdx, nullifyIdx>>
    BY <1>13, <1>w DEF OpenBlockKey, Walk, kv
  <2>2. BlockListed' /\ SpendListed' /\ Pending'
    BY <1>8, <2>1
  <2> QED BY <1>u, <2>1, <2>2 DEF Goal, Walked
<1>14. ASSUME NEW n \in Nullifier, RemoveFromContractIndex(n) PROVE Goal'
  <2>1. /\ op.kind = "delete" /\ op.key # NoBlock /\ op'.kind = "deleteNote" /\ op'.key = op.key
        /\ op'.target = op.target /\ op'.note = n /\ op'.todo = op.todo \ {n}
        /\ UNCHANGED <<notes, blockIdx, nullifyIdx>>
    BY <1>14 DEF RemoveFromContractIndex
  <2>2. BlockListed' /\ SpendListed' /\ Pending'
    BY <1>8, <2>1
  <2>3. Walked'
    BY <1>u, <2>1 DEF Goal, Walked, Stored
  <2> QED BY <2>2, <2>3 DEF Goal
<1>15. CASE DeleteNote
  <2>1. /\ op.kind = "deleteNote" /\ op.note \in Nullifier /\ op.key \in Block
        /\ op'.kind = "delete" /\ op'.key = op.key /\ op'.target = op.target /\ op'.todo = op.todo
        /\ UNCHANGED <<blockIdx, nullifyIdx>>
    BY <1>15 DEF DeleteNote, TypeOK, Op, Walk, Idle
  <2>2. notes'[op.note] = Absent /\ \A m \in Nullifier \ {op.note} : notes'[m] = notes[m]
    BY <1>15, <2>1 DEF DeleteNote, TypeOK, Stored
  <2>3. BlockListed' /\ SpendListed'
    BY <1>u, <2>1, <2>2 DEF Goal, BlockListed, SpendListed, Adding, Stored
  <2>4. Walked'
    BY <1>u, <2>1, <2>2 DEF Goal, Walked, Stored, TypeOK
  <2> QED BY <2>1, <2>3, <2>4 DEF Goal, Pending
<1>16. CASE DropBlockKey
  <2>1. /\ op.kind = "delete" /\ op.key \in Block /\ op.todo = {}
        /\ op'.kind = "delete" /\ op'.key = NoBlock /\ op'.target = op.target
        /\ UNCHANGED <<notes, nullifyIdx>>
        /\ blockIdx' = [blockIdx EXCEPT ![op.key] = {}]
    BY <1>16, <1>w DEF DropBlockKey, Walk
  <2>2. BlockListed'
    <3> SUFFICES ASSUME NEW n \in Nullifier \ torn, Stored(n), notes[n].block # NoBlock
                 PROVE  n \in blockIdx'[notes[n].block]
      BY <2>1 DEF BlockListed, Stored
    <3>1. n \in blockIdx[notes[n].block]
      BY <1>u, <2>1 DEF Goal, BlockListed, Adding
    <3>2. notes[n].block # op.key
      BY <1>u, <2>1, <3>1 DEF Goal, Walked
    <3>3. notes[n].block \in Block
      BY DEF TypeOK, Note, Stored
    <3> QED BY <2>1, <3>1, <3>2, <3>3 DEF TypeOK
  <2>3. SpendListed'
    BY <1>u, <2>1 DEF Goal, SpendListed, Stored
  <2> QED BY <1>u, <2>1, <2>2, <2>3 DEF Goal, Pending, Walked
<1>17. CASE FinishRollback \/ CrashInRollback
  <2>1. /\ RollingBack /\ (op' = Idle \/ op'.kind = "recover")
        /\ UNCHANGED <<notes, blockIdx, nullifyIdx>>
    BY <1>17 DEF FinishRollback, CrashInRollback, RollingBack, kv
  <2>2. BlockListed' /\ SpendListed' /\ Pending'
    BY <1>8, <2>1 DEF RollingBack
  <2> QED BY <2>1, <2>2 DEF Goal, Walked, Idle
<1>20. CASE UNCHANGED vars
  BY <1>20, <1>u DEF vars, Goal, BlockListed, SpendListed, Pending, Walked, Adding, Stored
<1> QED
  BY <1>1, <1>2, <1>3, <1>4, <1>5, <1>6, <1>7, <1>9, <1>10, <1>11, <1>12, <1>13, <1>14,
     <1>15, <1>16, <1>17, <1>20 DEF Next, NullifyNote, SpendBlocks

(* A rollback ends with no later creation, or spending, in the store. *)
LEMMA FinishedUpTo ==
  ASSUME RollbackInv, FinishRollback
  PROVE  \A n \in Nullifier \ torn : UpTo(n, op.target)
<1> SUFFICES ASSUME NEW n \in Nullifier \ torn, Stored(n)
             PROVE  notes[n].block <= op.target /\ notes[n].nblock <= op.target
  BY DEF UpTo
<1>1. /\ op.kind = "delete" /\ op.target \in Block /\ LaterKeys(blockIdx) = {}
  <2>1. op \in Op /\ op.kind = "delete" /\ LaterKeys(blockIdx) = {}
    BY DEF FinishRollback, RollbackInv, TypeOK
  <2>2. op \in Walk
    BY <2>1 DEF Op, Idle
  <2> QED BY <2>1, <2>2 DEF Walk
<1>2. notes[n].block \in Block \union {NoBlock} /\ notes[n].nblock \in Block \union {NoBlock}
  BY DEF RollbackInv, TypeOK, Stored, Note
<1> DEFINE t == op.target
           b == notes[n].block
           nb == notes[n].nblock
<1>n. t \in Nat /\ b \in Nat \union {NoBlock} /\ nb \in Nat \union {NoBlock}
  BY <1>1, <1>2, BlockAssumption
<1>3. b <= t
  <2>1. ASSUME b > t PROVE FALSE
    <3>1. b \in Block /\ b # NoBlock
      BY <1>2, <1>n, <2>1 DEF NoBlock
    <3>2. n \in blockIdx[b]
      BY <1>1, <3>1 DEF RollbackInv, BlockListed, Adding
    <3>3. b \in LaterKeys(blockIdx)
      BY <2>1, <3>1, <3>2 DEF LaterKeys
    <3> QED BY <1>1, <3>3
  <2> HIDE DEF b, t
  <2> QED BY <1>n, <2>1 DEF NoBlock
<1>4. nb <= t
  <2>1. ASSUME nb > t PROVE FALSE
    <3>1. nb \in Block /\ nb > 0
      BY <1>2, <1>n, <2>1 DEF NoBlock
    <3>2. n \in nullifyIdx[nb]
      BY <1>1, <3>1 DEF RollbackInv, SpendListed
    <3>3. nullifyIdx[nb] = {}
      BY <1>1, <2>1, <3>1 DEF RollbackInv, Walked
    <3> QED BY <3>2, <3>3
  <2> HIDE DEF nb, t
  <2> QED BY <1>n, <2>1 DEF NoBlock
<1> QED BY <1>3, <1>4

(* When rollback(t) returns, nothing created or spent after t is left in the *)
(* store, wherever earlier operations and attempts of it were interrupted,   *)
(* except for the notes whose own writes were.                               *)
THEOREM RollbackIsComplete == Spec => RollbackComplete
<1>1. Init => RollbackInv
  BY TypeInit DEF Init, RollbackInv, BlockListed, SpendListed, Pending, Walked, Idle, Stored
<1>2. RollbackInv /\ [Next]_vars => RollbackInv'
  BY RollbackStep
<1>3. RollbackInv /\ [Next]_vars =>
        [FinishRollback => \A n \in Nullifier \ torn : UpTo(n, op.target)]_vars
  BY FinishedUpTo
<1> QED BY <1>1, <1>2, <1>3, PTL DEF Spec, RollbackComplete

-----------------------------------------------------------------------------
(***************************************************************************)
(* The indexes are exact, and the store implements one whose operations    *)
(* are atomic.                                                             *)
(***************************************************************************)

(* A listed note is stored with the block it is listed under, or a rollback  *)
(* that will clear the list is under way.  Until the list is cleared a note  *)
(* may be gone, or active again, but never be stored under another block.    *)
CreationsSound ==
    \A b \in Block : \A n \in blockIdx[b] :
        IF Stored(n) THEN notes[n].block = b ELSE Reverting(b)

SpendsSound ==
    \A b \in Block \ {0} : \A n \in nullifyIdx[b] :
        /\ Stored(n) => notes[n].nblock \in {b, NoBlock}
        /\ (Stored(n) /\ notes[n].nblock = b) \/ Reverting(b)

(* A note is nullified exactly when it has a nullification block, and not at *)
(* a known block before its creation.                                        *)
SpentWell ==
    \A n \in Nullifier :
        Stored(n) => /\ notes[n].nullified <=> (notes[n].nblock # NoBlock)
                     /\ notes[n].nblock > 0 => notes[n].block <= notes[n].nblock

(* What a rollback has left to do at a key is listed there, after the target. *)
WalkSound ==
    /\ op.kind = "unnullify" /\ op.key # NoBlock =>
          op.key > op.target /\ op.todo \subseteq nullifyIdx[op.key]
    /\ op.kind = "delete" /\ op.key # NoBlock =>
          op.key > op.target /\ op.todo \subseteq blockIdx[op.key]
    /\ op.kind = "deleteNote" =>
          op.key > op.target /\ op.todo \subseteq blockIdx[op.key] /\ op.note \in blockIdx[op.key]

(* A stored note is listed under its contract. *)
Listed ==
    \A n \in Nullifier \ torn :
        Stored(n) => \/ n \in contractIdx[ContractOf[n]]
                     \/ op.kind = "addContract" /\ op.note = n
                     \/ Reverting(notes[n].block)

Sound == CreationsSound /\ SpendsSound /\ SpentWell /\ WalkSound /\ Listed

ExactInv == RollbackInv /\ Sound

-----------------------------------------------------------------------------
(* The block a walk stands at, and its notes, are well formed. *)
LEMMA WalkTyped ==
  ASSUME TypeOK
  PROVE  /\ op.kind \in {"unnullify", "delete"} =>
               /\ op.target \in Block /\ op.key \in Block \union {NoBlock} /\ op.todo \subseteq Nullifier
               /\ op = [kind |-> op.kind, target |-> op.target, key |-> op.key, todo |-> op.todo]
         /\ op.kind = "deleteNote" =>
               /\ op.target \in Block /\ op.key \in Block /\ op.todo \subseteq Nullifier
               /\ op.note \in Nullifier
         /\ op.kind = "recover" => op.target \in Block
         /\ op.kind \in {"addContract", "addBlock", "addNullify"} => op.note \in Nullifier
<1>0. op \in Op
  BY DEF TypeOK
<1>1. ASSUME op.kind \in {"unnullify", "delete"} PROVE op \in Walk
  BY <1>0, <1>1 DEF Op, Idle
<1>2. op.kind \in {"unnullify", "delete"} =>
               /\ op.target \in Block /\ op.key \in Block \union {NoBlock} /\ op.todo \subseteq Nullifier
               /\ op = [kind |-> op.kind, target |-> op.target, key |-> op.key, todo |-> op.todo]
  BY <1>1 DEF Walk
<1>3. op.kind = "deleteNote" =>
               /\ op.target \in Block /\ op.key \in Block /\ op.todo \subseteq Nullifier
               /\ op.note \in Nullifier
  BY <1>0 DEF Op, Idle, Walk
<1>4. op.kind = "recover" => op.target \in Block
  BY <1>0 DEF Op, Idle, Walk
<1>5. op.kind \in {"addContract", "addBlock", "addNullify"} => op.note \in Nullifier
  BY <1>0 DEF Op, Idle, Walk
<1> QED BY <1>2, <1>3, <1>4, <1>5

(* The blocks of a stored note are block numbers or absent. *)
LEMMA NoteTyped ==
  ASSUME TypeOK, NEW n \in Nullifier, Stored(n)
  PROVE  /\ notes[n] \in Note
         /\ notes[n].block \in Block \union {NoBlock}
         /\ notes[n].nblock \in Block \union {NoBlock}
         /\ notes[n].nullified \in BOOLEAN
         /\ notes[n].block \in Int /\ notes[n].nblock \in Int
<1>1. notes[n] \in Note
  BY DEF TypeOK, Stored
<1>2. /\ notes[n].block \in Block \union {NoBlock}
      /\ notes[n].nblock \in Block \union {NoBlock}
  BY <1>1 DEF Note
<1>3. notes[n].nullified \in BOOLEAN
  BY <1>1 DEF Note
<1>4. Block \union {NoBlock} \subseteq Int
  BY BlockAssumption DEF NoBlock
<1> QED BY <1>1, <1>2, <1>3, <1>4

(* Blocks after another one are blocks, and not the first. *)
LEMMA LaterBlock ==
  ASSUME NEW t \in Block, NEW b \in Block \union {NoBlock}, b > t
  PROVE  /\ b \in Block /\ b # NoBlock /\ b # 0
         /\ \A c \in Block : b <= c => c > t
  BY BlockAssumption DEF NoBlock

(* No rollback is pending while another operation, or none, is in flight. *)
LEMMA NotReverting ==
  ASSUME op.kind \in {"idle", "addContract", "addBlock", "addNullify"}
  PROVE  \A b : ~Reverting(b)
  BY DEF Reverting, RollingBack

(* A step that writes no key keeps the indexes sound while what was being    *)
(* reverted still is.                                                        *)
LEMMA SoundKept ==
  ASSUME TypeOK, Sound, UNCHANGED kv, torn \subseteq torn',
         \A b \in Block \union {NoBlock} : Reverting(b) => Reverting(b)',
         \A n \in Nullifier \ torn' : ~(op.kind = "addContract" /\ op.note = n)
  PROVE  (CreationsSound /\ SpendsSound /\ SpentWell /\ Listed)'
<1>u. UNCHANGED <<notes, contractIdx, blockIdx, nullifyIdx>>
  BY DEF kv
<1>1. CreationsSound'
  BY <1>u DEF Sound, CreationsSound, Stored
<1>2. SpendsSound'
  BY <1>u DEF Sound, SpendsSound, Stored
<1>3. SpentWell'
  BY <1>u DEF Sound, SpentWell, Stored
<1>4. Listed'
  <2> SUFFICES ASSUME NEW n \in Nullifier \ torn', Stored(n)
               PROVE  n \in contractIdx[ContractOf[n]] \/ Reverting(notes[n].block)'
    BY <1>u DEF Listed, Stored
  <2>1. n \in contractIdx[ContractOf[n]] \/ Reverting(notes[n].block)
    BY DEF Sound, Listed
  <2>2. notes[n].block \in Block \union {NoBlock}
    BY NoteTyped
  <2>3. ASSUME NEW b \in Block \union {NoBlock}, Reverting(b), b = notes[n].block
        PROVE  Reverting(notes[n].block)'
    <3>1. Reverting(b)'
      BY <2>3
    <3> QED BY <3>1, <2>3, <1>u DEF Reverting
  <2> QED BY <2>1, <2>2, <2>3
<1> QED BY <1>1, <1>2, <1>3, <1>4

(* add_notes and apply_nullifiers keep the indexes sound. *)
LEMMA SoundWrite ==
  ASSUME ExactInv, TypeOK', UNCHANGED torn,
         \/ \E n \in Nullifier, s \in Scope :
               \/ MergeScope(n, s)
               \/ \E b \in Block \union {NoBlock}, spent \in BOOLEAN : PutNote(n, b, spent, s)
         \/ \E n \in Nullifier : \E b \in SpendBlocks(n) : ApplyNullifier(n, b)
         \/ \E n \in Nullifier : NullifyNote(n)
         \/ AddToContractIndex \/ AddToBlockIndex \/ AddToNullificationBlockIndex
  PROVE  Sound'
<1>t. TypeOK /\ Sound
  BY DEF ExactInv, RollbackInv
<1> USE <1>t, BlockAssumption, ContractAssumption
<1>r. ASSUME op = Idle \/ op.kind \in {"addContract", "addBlock", "addNullify"}
      PROVE  \A b : ~Reverting(b)
  BY <1>r, NotReverting DEF Idle
<1>w. ASSUME op' = Idle \/ op'.kind \in {"addContract", "addBlock", "addNullify"}
      PROVE  WalkSound'
  BY <1>w DEF WalkSound, Idle
<1>1. ASSUME NEW n \in Nullifier, NEW s \in Scope, MergeScope(n, s) PROVE Sound'
  <2>1. /\ op = Idle /\ op' = Idle /\ Stored(n)
        /\ UNCHANGED <<contractIdx, blockIdx, nullifyIdx>>
    BY <1>1 DEF MergeScope
  <2>2. notes[n] \in Note
    BY <2>1, NoteTyped
  <2>3. \A m \in Nullifier \ {n} : notes'[m] = notes[m]
    BY <1>1 DEF MergeScope, TypeOK
  <2>4. /\ notes'[n].block = notes[n].block /\ notes'[n].nblock = notes[n].nblock
        /\ notes'[n].nullified = notes[n].nullified
    BY <1>1, <2>2 DEF MergeScope, TypeOK, Note
  <2>5. \A m \in Nullifier : Stored(m)' => Stored(m)
    BY <2>1, <2>3 DEF Stored
  <2>6. notes'[n] \in Note
    <3>1. notes'[n] = [notes[n] EXCEPT !.scopes = notes[n].scopes \union {s}]
      BY <1>1 DEF MergeScope, TypeOK
    <3> QED BY <2>2, <3>1 DEF Note
  <2>7. \A m \in Nullifier : Stored(m) => Stored(m)'
    BY <2>3, <2>6, AbsentAssumption DEF Stored
  <2>8. \A m \in Nullifier : /\ Stored(m)' <=> Stored(m)
                             /\ notes'[m].block = notes[m].block /\ notes'[m].nblock = notes[m].nblock
                             /\ notes'[m].nullified = notes[m].nullified
    BY <2>3, <2>4, <2>5, <2>7
  <2>r. \A b : ~Reverting(b)
    BY <1>r, <2>1
  <2>9. CreationsSound'
    BY <2>1, <2>8, <2>r DEF Sound, CreationsSound, TypeOK
  <2>10. SpendsSound'
    BY <2>1, <2>8, <2>r DEF Sound, SpendsSound, TypeOK
  <2>11. SpentWell'
    BY <2>8 DEF Sound, SpentWell
  <2>12. Listed'
    BY <2>1, <2>8, <2>r DEF Sound, Listed, Idle
  <2> QED BY <1>w, <2>1, <2>9, <2>10, <2>11, <2>12 DEF Sound
<1>2. ASSUME NEW n \in Nullifier, NEW s \in Scope, NEW b \in Block \union {NoBlock},
             NEW spent \in BOOLEAN, PutNote(n, b, spent, s)
      PROVE Sound'
  <2>1. /\ op = Idle /\ op' = [kind |-> "addContract", note |-> n] /\ ~Stored(n)
        /\ UNCHANGED <<contractIdx, blockIdx, nullifyIdx>>
    BY <1>2 DEF PutNote
  <2>2. \A m \in Nullifier \ {n} : notes'[m] = notes[m]
    BY <1>2 DEF PutNote, TypeOK
  <2>3. notes'[n] = [block |-> b, nullified |-> spent, nblock |-> IF spent THEN 0 ELSE NoBlock,
                     scopes |-> {s}]
    BY <1>2 DEF PutNote, TypeOK
  <2>4. /\ notes'[n].nblock \in {0, NoBlock}
        /\ notes'[n].nullified <=> (notes'[n].nblock # NoBlock)
    BY <2>3 DEF NoBlock
  <2>r. \A x : ~Reverting(x)
    BY <1>r, <2>1
  <2>5. (\A x \in Block : n \notin blockIdx[x]) /\ (\A x \in Block \ {0} : n \notin nullifyIdx[x])
    BY <2>1, <2>r DEF Sound, CreationsSound, SpendsSound
  <2>9. CreationsSound'
    BY <2>1, <2>2, <2>5, <2>r DEF Sound, CreationsSound, TypeOK, Stored
  <2>10. SpendsSound'
    BY <2>1, <2>2, <2>5, <2>r DEF Sound, SpendsSound, TypeOK, Stored
  <2>11. SpentWell'
    BY <2>2, <2>4 DEF Sound, SpentWell, Stored, NoBlock
  <2>12. Listed'
    BY <2>1, <2>2, <2>r DEF Sound, Listed, Idle, Stored
  <2> QED BY <1>w, <2>1, <2>9, <2>10, <2>11, <2>12 DEF Sound
<1>3. ASSUME NEW n \in Nullifier, NEW b \in Block, ApplyNullifier(n, b), b = 0 \/ b >= notes[n].block
      PROVE Sound'
  <2>1. /\ op = Idle /\ op' = [kind |-> "addNullify", note |-> n] /\ Stored(n) /\ ~notes[n].nullified
        /\ UNCHANGED <<contractIdx, blockIdx, nullifyIdx>>
    BY Zenon, <1>3 DEF ApplyNullifier
  <2>2. notes[n] \in Note /\ notes[n].block \in Int
    BY <2>1, NoteTyped
  <2>3. \A m \in Nullifier \ {n} : notes'[m] = notes[m]
    BY Zenon, <1>3 DEF ApplyNullifier, TypeOK
  <2>4. notes'[n].block = notes[n].block /\ notes'[n].nblock = b /\ notes'[n].nullified
    BY Zenon, <1>3, <2>2 DEF ApplyNullifier, TypeOK, Note
  <2>r. \A x : ~Reverting(x)
    BY <1>r, <2>1
  <2>5. \A m \in Nullifier : Stored(m)' => Stored(m)
    BY <2>1, <2>3 DEF Stored
  <2>6. notes'[n] \in Note
    <3>1. notes'[n] = [notes[n] EXCEPT !.nullified = TRUE, !.nblock = b]
      BY Zenon, <1>3 DEF ApplyNullifier, TypeOK
    <3> QED BY Zenon, <2>2, <3>1 DEF Note
  <2>7. \A m \in Nullifier : Stored(m) <=> Stored(m)'
    BY <2>3, <2>5, <2>6, AbsentAssumption DEF Stored
  <2>8. notes[n].nblock = NoBlock
    BY <2>1 DEF Sound, SpentWell
  <2>8a. \A x \in Block \ {0} : n \notin nullifyIdx[x]
    BY <2>8, <2>r DEF Sound, SpendsSound, NoBlock
  <2>9. CreationsSound'
    BY <2>1, <2>3, <2>4, <2>7, <2>r DEF Sound, CreationsSound, TypeOK
  <2>10. SpendsSound'
    BY <2>1, <2>3, <2>8a, <2>r DEF Sound, SpendsSound, TypeOK, Stored
  <2>11. SpentWell'
    BY <1>3, <2>1, <2>2, <2>3, <2>4 DEF Sound, SpentWell, Stored, NoBlock
  <2>12. Listed'
    BY <2>1, <2>3, <2>7, <2>r DEF Sound, Listed, Idle
  <2> QED BY <1>w, <2>1, <2>9, <2>10, <2>11, <2>12 DEF Sound
<1>4. ASSUME NEW n \in Nullifier, NEW b \in SpendBlocks(n), ApplyNullifier(n, b) PROVE Sound'
  BY <1>3, <1>4 DEF SpendBlocks
<1>5. ASSUME NEW n \in Nullifier, NullifyNote(n) PROVE Sound'
  BY <1>3, <1>5 DEF NullifyNote
<1>6. CASE AddToContractIndex
  <2>1. /\ op.kind = "addContract" /\ op.note \in Nullifier /\ UNCHANGED <<notes, blockIdx, nullifyIdx>>
        /\ op' = Idle \/ op'.kind = "addBlock"
        /\ contractIdx' = [contractIdx EXCEPT ![ContractOf[op.note]] = @ \union {op.note}]
    BY <1>6, WalkTyped DEF AddToContractIndex
  <2>r. \A x : ~Reverting(x)
    BY <1>r, <2>1
  <2>9. CreationsSound' /\ SpendsSound' /\ SpentWell'
    BY <2>1, <2>r DEF Sound, CreationsSound, SpendsSound, SpentWell, Stored
  <2>12. Listed'
    <3> SUFFICES ASSUME NEW n \in Nullifier \ torn, Stored(n) PROVE n \in contractIdx'[ContractOf[n]]
      BY <2>1 DEF Listed, Stored
    <3>1. n \in contractIdx[ContractOf[n]] \/ n = op.note
      BY <2>r DEF Sound, Listed
    <3> QED BY <2>1, <3>1 DEF TypeOK
  <2> QED BY <1>w, <2>1, <2>9, <2>12 DEF Sound
<1>7. CASE AddToBlockIndex
  <2>1. /\ op.kind = "addBlock" /\ op.note \in Nullifier /\ UNCHANGED <<notes, contractIdx, nullifyIdx>>
        /\ op' = Idle
        /\ blockIdx' = [blockIdx EXCEPT ![notes[op.note].block] = @ \union {op.note}]
    BY <1>7, WalkTyped DEF AddToBlockIndex
  <2>2. Stored(op.note)
    BY <2>1 DEF ExactInv, RollbackInv, Pending
  <2>r. \A x : ~Reverting(x)
    BY <1>r, <2>1
  <2>8. CreationsSound'
    <3> SUFFICES ASSUME NEW b \in Block, NEW n \in blockIdx'[b]
                 PROVE  Stored(n) /\ notes[n].block = b
      BY <2>1 DEF CreationsSound, Stored
    <3>1. n \in blockIdx[b] \/ (n = op.note /\ b = notes[op.note].block)
      BY <2>1 DEF TypeOK
    <3> QED BY <2>2, <2>r, <3>1 DEF Sound, CreationsSound
  <2>9. SpendsSound' /\ SpentWell'
    BY <2>1, <2>r DEF Sound, SpendsSound, SpentWell, Stored
  <2>12. Listed'
    BY <2>1, <2>r DEF Sound, Listed, Stored
  <2> QED BY <1>w, <2>1, <2>8, <2>9, <2>12 DEF Sound
<1>8. CASE AddToNullificationBlockIndex
  <2>1. /\ op.kind = "addNullify" /\ op.note \in Nullifier /\ UNCHANGED <<notes, contractIdx, blockIdx>>
        /\ op' = Idle
        /\ nullifyIdx' = [nullifyIdx EXCEPT ![notes[op.note].nblock] = @ \union {op.note}]
    BY <1>8, WalkTyped DEF AddToNullificationBlockIndex
  <2>2. Stored(op.note)
    BY <2>1 DEF ExactInv, RollbackInv, Pending
  <2>r. \A x : ~Reverting(x)
    BY <1>r, <2>1
  <2>8. SpendsSound'
    <3> SUFFICES ASSUME NEW b \in Block \ {0}, NEW n \in nullifyIdx'[b]
                 PROVE  Stored(n) /\ notes[n].nblock = b
      BY <2>1 DEF SpendsSound, Stored
    <3>1. n \in nullifyIdx[b] \/ (n = op.note /\ b = notes[op.note].nblock)
      BY <2>1 DEF TypeOK
    <3> QED BY <2>2, <2>r, <3>1 DEF Sound, SpendsSound
  <2>9. CreationsSound' /\ SpentWell'
    BY <2>1, <2>r DEF Sound, CreationsSound, SpentWell, Stored
  <2>12. Listed'
    BY <2>1, <2>r DEF Sound, Listed, Stored
  <2> QED BY <1>w, <2>1, <2>8, <2>9, <2>12 DEF Sound
<1> QED BY <1>1, <1>2, <1>4, <1>5, <1>6, <1>7, <1>8

(* A note a rollback is about to reactivate, or delete, was last spent, or    *)
(* created, after the target.                                                 *)
LEMMA WalkedNote ==
  ASSUME ExactInv, NEW n \in Nullifier, Stored(n)
  PROVE  /\ op.kind = "unnullify" /\ op.key # NoBlock /\ n \in op.todo =>
               /\ op.key \in Block \ {0} /\ op.key > op.target /\ n \in nullifyIdx[op.key]
               /\ notes[n].nblock \in {op.key, NoBlock}
         /\ op.kind = "delete" /\ op.key # NoBlock /\ n \in op.todo =>
               op.key \in Block /\ notes[n].block = op.key /\ op.key > op.target
         /\ op.kind = "deleteNote" /\ n = op.note =>
               op.key \in Block /\ notes[n].block = op.key /\ op.key > op.target
<1>t. TypeOK /\ WalkSound /\ CreationsSound /\ SpendsSound
  BY DEF ExactInv, RollbackInv, Sound
<1>1. ASSUME op.kind = "unnullify", op.key # NoBlock, n \in op.todo
      PROVE  /\ op.key \in Block \ {0} /\ op.key > op.target /\ n \in nullifyIdx[op.key]
             /\ notes[n].nblock \in {op.key, NoBlock}
  <2>1. op.key \in Block /\ op.target \in Block /\ op.key > op.target /\ n \in nullifyIdx[op.key]
    BY <1>t, <1>1, WalkTyped DEF WalkSound
  <2>2. op.key # 0
    BY <2>1, LaterBlock
  <2> QED BY <1>t, <2>1, <2>2 DEF SpendsSound
<1>2. ASSUME op.kind = "delete", op.key # NoBlock, n \in op.todo
      PROVE  op.key \in Block /\ notes[n].block = op.key /\ op.key > op.target
  <2>1. op.key \in Block /\ op.key > op.target /\ n \in blockIdx[op.key]
    BY <1>t, <1>2, WalkTyped DEF WalkSound
  <2> QED BY <1>t, <2>1 DEF CreationsSound
<1>3. ASSUME op.kind = "deleteNote", n = op.note
      PROVE  op.key \in Block /\ notes[n].block = op.key /\ op.key > op.target
  <2>1. op.key \in Block /\ op.key > op.target /\ n \in blockIdx[op.key]
    BY <1>t, <1>3, WalkTyped DEF WalkSound
  <2> QED BY <1>t, <2>1 DEF CreationsSound
<1> QED BY <1>1, <1>2, <1>3

(* A rollback, its stops and its retries keep the indexes sound. *)
LEMMA SoundRollback ==
  ASSUME ExactInv, TypeOK',
         \/ \E n \in Nullifier : UnNullify(n) \/ RemoveFromContractIndex(n)
         \/ \E b \in Block : Rollback(b) \/ OpenNullifyKey(b) \/ OpenBlockKey(b)
         \/ DropNullifyKey \/ StartDeleting \/ DeleteNote \/ DropBlockKey \/ FinishRollback
         \/ CrashInRollback
  PROVE  Sound'
<1>t. TypeOK /\ Sound
  BY DEF ExactInv, RollbackInv
<1> USE <1>t, BlockAssumption, ContractAssumption
<1> DEFINE Target(t) == t \in Block /\ \A b \in Block \union {NoBlock} : Reverting(b) => b > t
<1>r. ASSUME op'.kind \in {"unnullify", "delete", "deleteNote", "recover"}, Target(op'.target)
      PROVE  \A b \in Block \union {NoBlock} : Reverting(b) => Reverting(b)'
  BY <1>r DEF Reverting, RollingBack
<1>s. ASSUME RollingBack, op'.target = op.target PROVE Target(op'.target)
  BY <1>s, WalkTyped DEF RollingBack, Reverting
<1>n. ASSUME op.kind \notin {"addContract"}
      PROVE  \A n \in Nullifier : ~(op.kind = "addContract" /\ op.note = n)
  BY <1>n
<1>1. ASSUME NEW t \in Block, Rollback(t) PROVE Sound'
  <2>1. /\ op = Idle \/ (op.kind = "recover" /\ t <= op.target)
        /\ op' = [kind |-> "unnullify", target |-> t, key |-> NoBlock, todo |-> {}]
        /\ UNCHANGED kv /\ UNCHANGED torn
    BY <1>1 DEF Rollback
  <2>2. Target(t)
    <3>1. CASE op = Idle
      BY <3>1 DEF Reverting, RollingBack, Idle
    <3>2. CASE op.kind = "recover" /\ t <= op.target
      BY <3>2, WalkTyped DEF Reverting, NoBlock
    <3> QED BY <2>1, <3>1, <3>2
  <2>3. WalkSound'
    BY <2>1 DEF WalkSound
  <2>4. op.kind # "addContract"
    BY <2>1 DEF Idle
  <2>5. \A b \in Block \union {NoBlock} : Reverting(b) => Reverting(b)'
    BY <1>r, <2>1, <2>2
  <2>6. (CreationsSound /\ SpendsSound /\ SpentWell /\ Listed)'
    BY <2>1, <2>4, <2>5, SoundKept
  <2> QED BY <2>3, <2>6 DEF Sound
<1>2. ASSUME \/ \E b \in Block : OpenNullifyKey(b) \/ OpenBlockKey(b)
             \/ StartDeleting \/ CrashInRollback
      PROVE  Sound'
  <2>1. UNCHANGED kv /\ UNCHANGED torn /\ RollingBack
    BY Zenon, <1>2 DEF OpenNullifyKey, OpenBlockKey, StartDeleting, CrashInRollback, RollingBack
  <2>2. op'.target = op.target /\ op'.kind \in {"unnullify", "delete", "recover"}
    <3>1. ASSUME NEW b \in Block, OpenNullifyKey(b) \/ OpenBlockKey(b) 
          PROVE  op'.target = op.target /\ op'.kind \in {"unnullify", "delete", "recover"}
      BY Zenon, <3>1, WalkTyped DEF OpenNullifyKey, OpenBlockKey
    <3>2. CASE StartDeleting
      BY <3>2, WalkTyped DEF StartDeleting
    <3>3. CASE CrashInRollback
      BY <3>3 DEF CrashInRollback
    <3> QED BY Zenon, <1>2, <3>1, <3>2, <3>3
  <2>3. WalkSound'
    <3>1. ASSUME NEW b \in Block, OpenNullifyKey(b) PROVE WalkSound'
      <4>1. /\ op'.kind = "unnullify" /\ op'.key = b /\ op'.todo = nullifyIdx[b] /\ b > op'.target
            /\ nullifyIdx' = nullifyIdx
        BY Zenon, <2>2, <3>1, WalkTyped DEF OpenNullifyKey, LaterKeys, kv
      <4> QED BY <4>1 DEF WalkSound
    <3>2. ASSUME NEW b \in Block, OpenBlockKey(b) PROVE WalkSound'
      <4>1. /\ op'.kind = "delete" /\ op'.key = b /\ op'.todo = blockIdx[b] /\ b > op'.target
            /\ blockIdx' = blockIdx
        BY Zenon, <2>2, <3>2, WalkTyped DEF OpenBlockKey, LaterKeys, kv
      <4> QED BY <4>1 DEF WalkSound
    <3>3. CASE StartDeleting
      <4>1. op'.kind = "delete" /\ op'.key = NoBlock
        BY <3>3, WalkTyped DEF StartDeleting
      <4> QED BY <4>1 DEF WalkSound
    <3>4. CASE CrashInRollback
      BY <3>4 DEF CrashInRollback, WalkSound
    <3> QED BY <1>2, <3>1, <3>2, <3>3, <3>4
  <2>4. op.kind # "addContract"
    BY <2>1 DEF RollingBack
  <2>5. \A b \in Block \union {NoBlock} : Reverting(b) => Reverting(b)'
    BY <1>r, <1>s, <2>1, <2>2
  <2>6. (CreationsSound /\ SpendsSound /\ SpentWell /\ Listed)'
    BY <2>1, <2>4, <2>5, SoundKept
  <2> QED BY <2>3, <2>6 DEF Sound
<1>3. ASSUME NEW n \in Nullifier, UnNullify(n) PROVE Sound'
  <2>1. /\ op.kind = "unnullify" /\ op.key # NoBlock /\ n \in op.todo
        /\ op'.kind = "unnullify" /\ op'.target = op.target /\ op'.key = op.key /\ op'.todo = op.todo \ {n}
        /\ UNCHANGED <<contractIdx, blockIdx, nullifyIdx>> /\ UNCHANGED torn
    BY Zenon, <1>3, WalkTyped DEF UnNullify
  <2>2. \A m \in Nullifier \ {n} : notes'[m] = notes[m]
    BY Zenon, <1>3 DEF UnNullify, TypeOK
  <2>3. Stored(n)' <=> Stored(n)
    <3>1. CASE Stored(n)
      <4>1. notes[n] \in Note
        BY <3>1, NoteTyped
      <4>2. notes'[n] = [notes[n] EXCEPT !.nullified = FALSE, !.nblock = NoBlock]
        BY Zenon, <1>3, <3>1 DEF UnNullify, TypeOK
      <4>3. notes'[n] \in Note
        BY Zenon, <4>1, <4>2 DEF Note
      <4> QED BY <3>1, <4>3, AbsentAssumption DEF Stored
    <3>2. CASE ~Stored(n)
      BY Zenon, <1>3, <3>2 DEF UnNullify, Stored
    <3> QED BY <3>1, <3>2
  <2>4. Stored(n) => /\ notes'[n].block = notes[n].block
                     /\ notes'[n].nblock = NoBlock /\ notes'[n].nullified = FALSE
    <3> SUFFICES ASSUME Stored(n) PROVE /\ notes'[n].block = notes[n].block
                                        /\ notes'[n].nblock = NoBlock /\ notes'[n].nullified = FALSE
      BY Zenon
    <3>1. notes[n] \in Note
      BY NoteTyped
    <3>2. notes'[n] = [notes[n] EXCEPT !.nullified = FALSE, !.nblock = NoBlock]
      BY Zenon, <1>3 DEF UnNullify, TypeOK
    <3> QED BY <3>1, <3>2 DEF Note
  <2>5. \A b \in Block \union {NoBlock} : Reverting(b) => Reverting(b)'
    BY <1>r, <1>s, <2>1 DEF RollingBack
  <2>6. \A m \in Nullifier : (Stored(m)' <=> Stored(m)) /\ (Stored(m) => notes'[m].block = notes[m].block)
    BY <2>2, <2>3, <2>4 DEF Stored
  <2>7. CreationsSound'
    BY <2>1, <2>5, <2>6 DEF Sound, CreationsSound, TypeOK
  <2>8. SpendsSound'
    <3> SUFFICES ASSUME NEW b \in Block \ {0}, NEW m \in nullifyIdx[b]
                 PROVE  /\ Stored(m)' => notes'[m].nblock \in {b, NoBlock}
                        /\ (Stored(m)' /\ notes'[m].nblock = b) \/ Reverting(b)'
      BY <2>1 DEF SpendsSound
    <3>0. m \in Nullifier
      BY DEF TypeOK
    <3>1. CASE m # n
      BY Zenon, <2>2, <2>5, <3>0, <3>1 DEF Sound, SpendsSound, Stored
    <3>2. CASE m = n /\ ~Stored(n)
      BY Zenon, <2>3, <2>5, <3>2 DEF Sound, SpendsSound
    <3>3. CASE m = n /\ Stored(n)
      <4>1. op.key \in Block /\ op.key > op.target /\ notes[n].nblock \in {op.key, NoBlock}
        BY <2>1, <3>3, WalkedNote
      <4>2. Reverting(op.key)
        BY <2>1, <4>1 DEF Reverting, RollingBack
      <4>3. Reverting(b)
        <5>1. notes[n].nblock = b => b = op.key
          BY <4>1 DEF NoBlock
        <5> QED BY <3>3, <4>2, <5>1 DEF Sound, SpendsSound
      <4> QED BY <2>4, <2>5, <3>3, <4>3
    <3> QED BY <3>1, <3>2, <3>3
  <2>9. SpentWell'
    BY <2>2, <2>3, <2>4 DEF Sound, SpentWell, Stored, NoBlock
  <2>10. WalkSound'
    BY <2>1 DEF Sound, WalkSound
  <2>11. Listed'
    <3> SUFFICES ASSUME NEW m \in Nullifier \ torn, Stored(m)
                 PROVE  m \in contractIdx[ContractOf[m]] \/ Reverting(notes[m].block)'
      BY <2>1, <2>6 DEF Listed, Reverting
    <3>1. m \in contractIdx[ContractOf[m]] \/ Reverting(notes[m].block)
      BY <2>1 DEF Sound, Listed
    <3> QED BY <2>1, <2>6, <3>1 DEF Reverting, RollingBack
  <2> QED BY <2>7, <2>8, <2>9, <2>10, <2>11 DEF Sound
<1>4. CASE DropNullifyKey
  <2>1. /\ op.kind = "unnullify" /\ op.key \in Block /\ op.todo = {}
        /\ op'.kind = "unnullify" /\ op'.target = op.target /\ op'.key = NoBlock
        /\ UNCHANGED <<notes, contractIdx, blockIdx>> /\ UNCHANGED torn
        /\ nullifyIdx' = [nullifyIdx EXCEPT ![op.key] = {}]
    BY <1>4, WalkTyped DEF DropNullifyKey
  <2>2. \A b \in Block \union {NoBlock} : Reverting(b) => Reverting(b)'
    BY <1>r, <1>s, <2>1 DEF RollingBack
  <2>3. CreationsSound' /\ SpentWell'
    BY <2>1, <2>2 DEF Sound, CreationsSound, SpentWell, Stored
  <2>4. SpendsSound'
    <3> SUFFICES ASSUME NEW b \in Block \ {0}, NEW m \in nullifyIdx'[b]
                 PROVE  /\ Stored(m) => notes[m].nblock \in {b, NoBlock}
                        /\ (Stored(m) /\ notes[m].nblock = b) \/ Reverting(b)'
      BY <2>1 DEF SpendsSound, Stored
    <3>1. m \in nullifyIdx[b]
      BY <2>1 DEF TypeOK
    <3> QED BY Zenon, <2>2, <3>1 DEF Sound, SpendsSound
  <2>5. WalkSound'
    BY <2>1 DEF WalkSound
  <2>6. Listed'
    <3> SUFFICES ASSUME NEW m \in Nullifier \ torn, Stored(m)
                 PROVE  m \in contractIdx[ContractOf[m]] \/ Reverting(notes[m].block)'
      BY <2>1 DEF Listed, Stored
    <3>1. m \in contractIdx[ContractOf[m]] \/ Reverting(notes[m].block)
      BY <2>1 DEF Sound, Listed
    <3> QED BY <2>1, <3>1 DEF Reverting, RollingBack
  <2> QED BY <2>3, <2>4, <2>5, <2>6 DEF Sound
<1>5. ASSUME NEW n \in Nullifier, RemoveFromContractIndex(n) PROVE Sound'
  <2>1. /\ op.kind = "delete" /\ op.key # NoBlock /\ n \in op.todo
        /\ op'.kind = "deleteNote" /\ op'.target = op.target /\ op'.key = op.key
        /\ op'.todo = op.todo \ {n} /\ op'.note = n
        /\ UNCHANGED <<notes, blockIdx, nullifyIdx>> /\ UNCHANGED torn
    BY <1>5 DEF RemoveFromContractIndex
  <2>2. \A b \in Block \union {NoBlock} : Reverting(b) => Reverting(b)'
    BY Zenon, <1>r, <1>s, <2>1 DEF RollingBack
  <2>3. CreationsSound' /\ SpendsSound' /\ SpentWell'
    BY <2>1, <2>2 DEF Sound, CreationsSound, SpendsSound, SpentWell, Stored
  <2>4. WalkSound'
    BY <2>1 DEF Sound, WalkSound
  <2>5. Listed'
    <3> SUFFICES ASSUME NEW m \in Nullifier \ torn, Stored(m)
                 PROVE  m \in contractIdx'[ContractOf[m]] \/ Reverting(notes[m].block)'
      BY <2>1 DEF Listed, Stored
    <3>1. CASE m = n
      <4>1. notes[n].block = op.key /\ op.key > op.target
        BY <2>1, <3>1, WalkedNote
      <4> QED BY <2>1, <3>1, <4>1 DEF Reverting, RollingBack
    <3>2. CASE m # n
      <4>1. m \in contractIdx[ContractOf[m]] \/ Reverting(notes[m].block)
        BY <2>1 DEF Sound, Listed
      <4>2. m \in contractIdx[ContractOf[m]] => m \in contractIdx'[ContractOf[m]]
        BY <1>5, <3>2 DEF RemoveFromContractIndex, TypeOK
      <4> QED BY <2>1, <4>1, <4>2 DEF Reverting, RollingBack
    <3> QED BY <3>1, <3>2
  <2> QED BY <2>3, <2>4, <2>5 DEF Sound
<1>6. ASSUME NEW d \in Nullifier, DeleteNote, d = op.note PROVE Sound'
  <2>1. /\ op.kind = "deleteNote" /\ op.note = d /\ op.target \in Block
        /\ op'.kind = "delete" /\ op'.target = op.target /\ op'.key = op.key /\ op'.todo = op.todo
        /\ UNCHANGED <<contractIdx, blockIdx, nullifyIdx>> /\ UNCHANGED torn
    BY <1>6, WalkTyped DEF DeleteNote
  <2>2. /\ \A m \in Nullifier \ {d} : notes'[m] = notes[m]
        /\ ~Stored(d)'
    BY <1>6, <2>1 DEF DeleteNote, TypeOK, Stored
  <2>3. \A b \in Block \union {NoBlock} : Reverting(b) => Reverting(b)'
    BY Zenon, <1>r, <1>s, <2>1 DEF RollingBack
  <2>4. Stored(d) => Reverting(notes[d].block) /\ notes[d].block \in Block
    BY <2>1, WalkedNote DEF Reverting, RollingBack
  <2>5. CreationsSound'
    <3> SUFFICES ASSUME NEW b \in Block, NEW m \in blockIdx[b]
                 PROVE  IF Stored(m)' THEN notes'[m].block = b ELSE Reverting(b)'
      BY <2>1 DEF CreationsSound
    <3>0. m \in Nullifier
      BY DEF TypeOK
    <3>1. CASE m = d
      <4>1. Reverting(b)
        BY <2>4, <3>1 DEF Sound, CreationsSound
      <4> QED BY Zenon, <2>2, <2>3, <3>1, <4>1
    <3>2. CASE m # d
      BY <2>2, <2>3, <3>0, <3>2 DEF Sound, CreationsSound, Stored
    <3> QED BY <3>1, <3>2
  <2>6. SpendsSound'
    <3> SUFFICES ASSUME NEW b \in Block \ {0}, NEW m \in nullifyIdx[b]
                 PROVE  /\ Stored(m)' => notes'[m].nblock \in {b, NoBlock}
                        /\ (Stored(m)' /\ notes'[m].nblock = b) \/ Reverting(b)'
      BY Zenon, <2>1 DEF SpendsSound
    <3>0. m \in Nullifier
      BY DEF TypeOK
    <3>1. CASE m = d
      <4>1. ASSUME Stored(m), notes[m].nblock = b PROVE Reverting(b)
        <5>1. notes[m].block \in Block /\ notes[m].block > op.target
          BY <2>4, <3>1, <4>1 DEF Reverting
        <5>2. notes[m].block <= b
          <6>1. b > 0
            OBVIOUS
          <6> QED BY <3>0, <4>1, <6>1 DEF Sound, SpentWell
        <5>3. b > op.target
          BY Zenon, <2>1, <5>1, <5>2, LaterBlock
        <5> QED BY <2>1, <5>3 DEF Reverting, RollingBack
      <4>2. Reverting(b)
        BY <4>1 DEF Sound, SpendsSound
      <4> QED BY <2>2, <2>3, <3>1, <4>2
    <3>2. CASE m # d
      BY Zenon, <2>2, <2>3, <3>0, <3>2 DEF Sound, SpendsSound, Stored
    <3> QED BY <3>1, <3>2
  <2>7. SpentWell'
    BY <2>1, <2>2 DEF Sound, SpentWell, Stored
  <2>8. WalkSound'
    BY <2>1 DEF Sound, WalkSound
  <2>9. Listed'
    <3> SUFFICES ASSUME NEW m \in Nullifier \ torn, m # d, Stored(m)
                 PROVE  m \in contractIdx[ContractOf[m]] \/ Reverting(notes[m].block)'
      BY <2>1, <2>2 DEF Listed, Stored
    <3>1. m \in contractIdx[ContractOf[m]] \/ Reverting(notes[m].block)
      BY <2>1 DEF Sound, Listed
    <3> QED BY <2>1, <2>2, <3>1 DEF Reverting, RollingBack
  <2> QED BY <2>5, <2>6, <2>7, <2>8, <2>9 DEF Sound
<1>7. CASE DropBlockKey
  <2>1. /\ op.kind = "delete" /\ op.key \in Block /\ op.todo = {}
        /\ op'.kind = "delete" /\ op'.target = op.target /\ op'.key = NoBlock
        /\ UNCHANGED <<notes, contractIdx, nullifyIdx>> /\ UNCHANGED torn
        /\ blockIdx' = [blockIdx EXCEPT ![op.key] = {}]
    BY <1>7, WalkTyped DEF DropBlockKey
  <2>2. \A b \in Block \union {NoBlock} : Reverting(b) => Reverting(b)'
    BY <1>r, <1>s, <2>1 DEF RollingBack
  <2>3. SpendsSound' /\ SpentWell'
    BY <2>1, <2>2 DEF Sound, SpendsSound, SpentWell, Stored
  <2>4. CreationsSound'
    <3> SUFFICES ASSUME NEW b \in Block, NEW m \in blockIdx'[b]
                 PROVE  IF Stored(m) THEN notes[m].block = b ELSE Reverting(b)'
      BY Zenon, <2>1 DEF CreationsSound, Stored
    <3>1. m \in blockIdx[b]
      BY <2>1 DEF TypeOK
    <3> QED BY Zenon, <2>2, <3>1 DEF Sound, CreationsSound
  <2>5. WalkSound'
    BY <2>1 DEF WalkSound
  <2>6. Listed'
    <3> SUFFICES ASSUME NEW m \in Nullifier \ torn, Stored(m)
                 PROVE  m \in contractIdx[ContractOf[m]] \/ Reverting(notes[m].block)'
      BY <2>1 DEF Listed, Stored
    <3>1. m \in contractIdx[ContractOf[m]] \/ Reverting(notes[m].block)
      BY <2>1 DEF Sound, Listed
    <3> QED BY <2>1, <3>1 DEF Reverting, RollingBack
  <2> QED BY <2>3, <2>4, <2>5, <2>6 DEF Sound
<1>8. CASE FinishRollback
  <2>1. /\ op.kind = "delete" /\ op.target \in Block /\ op' = Idle /\ LaterKeys(blockIdx) = {}
        /\ UNCHANGED <<notes, contractIdx, blockIdx, nullifyIdx>> /\ UNCHANGED torn
    BY <1>8, WalkTyped DEF FinishRollback, kv
  <2>2. \A b \in Block : Reverting(b) => blockIdx[b] = {} /\ nullifyIdx[b] = {}
    BY <2>1 DEF Reverting, LaterKeys, ExactInv, RollbackInv, Walked
  <2>3. CreationsSound'
    BY <2>1, <2>2 DEF Sound, CreationsSound, Stored
  <2>4. SpendsSound'
    BY <2>1, <2>2 DEF Sound, SpendsSound, Stored
  <2>5. SpentWell' /\ WalkSound'
    BY <2>1 DEF Sound, SpentWell, WalkSound, Stored, Idle
  <2>6. Listed'
    <3> SUFFICES ASSUME NEW m \in Nullifier \ torn, Stored(m), Reverting(notes[m].block) PROVE FALSE
      BY <2>1 DEF Sound, Listed, Stored
    <3>0. notes[m].block \in Block \union {NoBlock} /\ notes[m].block > op.target
      BY NoteTyped DEF Reverting
    <3>1. notes[m].block \in Block /\ notes[m].block # NoBlock
      BY Zenon, <2>1, <3>0, LaterBlock
    <3>2. m \in blockIdx[notes[m].block]
      BY <2>1, <3>1 DEF ExactInv, RollbackInv, BlockListed, Adding
    <3> QED BY Zenon, <2>2, <3>1, <3>2
  <2> QED BY <2>3, <2>4, <2>5, <2>6 DEF Sound
<1>9. CASE DeleteNote
  BY <1>6, <1>9, WalkTyped DEF DeleteNote
<1> QED BY <1>1, <1>2, <1>3, <1>4, <1>5, <1>7, <1>8, <1>9

(* Every step keeps the indexes exact. *)
LEMMA ExactStep == ExactInv /\ [Next]_vars => ExactInv'
<1> SUFFICES ASSUME ExactInv, [Next]_vars PROVE Sound'
  BY RollbackStep DEF ExactInv
<1>t. TypeOK /\ Sound /\ TypeOK'
  BY TypeStep DEF ExactInv, RollbackInv
<1>1. CASE \/ \E n \in Nullifier, s \in Scope :
               \/ MergeScope(n, s)
               \/ \E b \in Block \union {NoBlock}, spent \in BOOLEAN : PutNote(n, b, spent, s)
           \/ \E n \in Nullifier : \E b \in SpendBlocks(n) : ApplyNullifier(n, b)
           \/ \E n \in Nullifier : NullifyNote(n)
           \/ AddToContractIndex \/ AddToBlockIndex \/ AddToNullificationBlockIndex
  <2>1. UNCHANGED torn
    BY Zenon, <1>1 DEF MergeScope, PutNote, ApplyNullifier, NullifyNote, AddToContractIndex, AddToBlockIndex,
                AddToNullificationBlockIndex
  <2> QED BY <1>1, <1>t, <2>1, SoundWrite
<1>2. CASE \/ \E n \in Nullifier : UnNullify(n) \/ RemoveFromContractIndex(n)
           \/ \E b \in Block : Rollback(b) \/ OpenNullifyKey(b) \/ OpenBlockKey(b)
           \/ DropNullifyKey \/ StartDeleting \/ DeleteNote \/ DropBlockKey \/ FinishRollback
           \/ CrashInRollback
  BY <1>2, <1>t, SoundRollback
<1>3. CASE CrashInWrite
  <2>1. /\ op.kind \in {"addContract", "addBlock", "addNullify"} /\ op' = Idle
        /\ torn' = torn \union {op.note} /\ UNCHANGED kv
    BY <1>3 DEF CrashInWrite
  <2>2. \A b : ~Reverting(b)
    BY <2>1, NotReverting
  <2>3. (CreationsSound /\ SpendsSound /\ SpentWell /\ Listed)'
    BY <1>t, <2>1, <2>2, SoundKept
  <2> QED BY <2>1, <2>3 DEF Sound, WalkSound, Idle
<1>4. CASE UNCHANGED vars
  BY <1>4, <1>t DEF vars, Sound, CreationsSound, SpendsSound, SpentWell, WalkSound, Listed, Reverting,
                    RollingBack, Stored
<1> QED BY <1>1, <1>2, <1>3, <1>4 DEF Next

LEMMA ExactInit == Init => ExactInv
<1> SUFFICES ASSUME Init PROVE ExactInv
  OBVIOUS
<1>1. RollbackInv
  BY TypeInit DEF Init, RollbackInv, BlockListed, SpendListed, Pending, Walked, Idle, Stored
<1>2. Sound
  BY DEF Init, Sound, CreationsSound, SpendsSound, SpentWell, WalkSound, Listed, Idle, Stored
<1> QED BY <1>1, <1>2 DEF ExactInv

(* In every reachable state a stored note is found through its contract, and *)
(* the block indexes list exactly the notes created and spent at a block,    *)
(* but for the operation in flight and the notes a stop has torn.            *)
THEOREM IndexesAlwaysExact == Spec => []IndexesExact
<1>1. ExactInv => IndexesExact
  <2> SUFFICES ASSUME ExactInv PROVE IndexesExact
    OBVIOUS
  <2>t. TypeOK /\ BlockListed /\ SpendListed /\ Sound
    BY DEF ExactInv, RollbackInv
  <2>1. BlockIndexExact
    BY <2>t DEF BlockIndexExact, BlockListed, Sound, CreationsSound
  <2>2. NullifyIndexExact
    BY <2>t DEF NullifyIndexExact, SpendListed, Sound, SpendsSound
  <2>3. NotesFindable
    <3> SUFFICES ASSUME NEW n \in Nullifier \ torn, Stored(n), n \in contractIdx[ContractOf[n]],
                        NEW s \in notes[n].scopes
                 PROVE  n \in GetNotes(ContractOf[n], BOOLEAN, {s})
      BY <2>t DEF NotesFindable, Sound, Listed
    <3>1. notes[n].nullified \in BOOLEAN
      BY <2>t, NoteTyped
    <3> QED BY <3>1 DEF GetNotes, NotesForContract
  <2> QED BY <2>1, <2>2, <2>3 DEF IndexesExact
<1> QED BY <1>1, ExactInit, ExactStep, PTL DEF Spec

-----------------------------------------------------------------------------
(* add_notes and apply_nullifiers take effect with the write of the note. *)
LEMMA AtomicWrite ==
  ASSUME ExactInv,
         \/ \E n \in Nullifier, s \in Scope :
               \/ MergeScope(n, s)
               \/ \E b \in Block \union {NoBlock}, spent \in BOOLEAN : PutNote(n, b, spent, s)
         \/ \E n \in Nullifier : \E b \in SpendBlocks(n) : ApplyNullifier(n, b)
         \/ \E n \in Nullifier : NullifyNote(n)
         \/ AddToContractIndex \/ AddToBlockIndex \/ AddToNullificationBlockIndex
  PROVE  Atomic!Next \/ UNCHANGED Settled
<1>s. ASSUME op = Idle, op' = Idle \/ op'.kind \in {"addContract", "addNullify"}
      PROVE  Settled = notes /\ Settled' = notes'
  BY <1>s DEF Settled, RollingBack, Idle
<1>1. ASSUME NEW n \in Nullifier, NEW s \in Scope, MergeScope(n, s) PROVE Atomic!Next
  <2>1. Settled = notes /\ Settled' = notes'
    BY <1>1, <1>s DEF MergeScope
  <2>2. Atomic!AddScope(n, s)
    BY <1>1, <2>1 DEF MergeScope, Stored, Atomic!AddScope
  <2> QED BY <2>2 DEF Atomic!Next
<1>2. ASSUME NEW n \in Nullifier, NEW s \in Scope, NEW b \in Block \union {NoBlock},
             NEW spent \in BOOLEAN, PutNote(n, b, spent, s)
      PROVE Atomic!Next
  <2>1. Settled = notes /\ Settled' = notes'
    BY <1>2, <1>s DEF PutNote
  <2>2. Atomic!Add(n, b, spent, s)
    BY <1>2, <2>1 DEF PutNote, Stored, Atomic!Add, Atomic!None, NoBlock
  <2> QED BY <2>2 DEF Atomic!Next, Atomic!None, NoBlock
<1>3. ASSUME NEW n \in Nullifier, NEW b \in Block, ApplyNullifier(n, b) PROVE Atomic!Next
  <2>1. Settled = notes /\ Settled' = notes'
    BY Zenon, <1>3, <1>s DEF ApplyNullifier
  <2>2. Atomic!Nullify(n, b)
    BY Zenon, <1>3, <2>1 DEF ApplyNullifier, Stored, Atomic!Nullify
  <2> QED BY <2>2 DEF Atomic!Next
<1>4. CASE AddToContractIndex \/ AddToBlockIndex \/ AddToNullificationBlockIndex
  <2>1. /\ UNCHANGED notes /\ op.kind \in {"addContract", "addBlock", "addNullify"}
        /\ op' = Idle \/ op'.kind = "addBlock"
    <3>1. CASE AddToContractIndex
      BY <3>1 DEF AddToContractIndex
    <3>2. CASE AddToBlockIndex \/ AddToNullificationBlockIndex
      BY Zenon, <3>2 DEF AddToBlockIndex, AddToNullificationBlockIndex
    <3> QED BY <1>4, <3>1, <3>2
  <2> QED BY <2>1 DEF Settled, RollingBack, Idle
<1> QED BY <1>1, <1>2, <1>3, <1>4, BlockAssumption DEF SpendBlocks, NullifyNote

(* A rollback takes effect when it starts, and a retry at a lower block when *)
(* it starts; none of its writes shows.                                      *)
LEMMA AtomicRollback ==
  ASSUME ExactInv, torn = {},
         \/ \E n \in Nullifier : UnNullify(n) \/ RemoveFromContractIndex(n)
         \/ \E b \in Block : Rollback(b) \/ OpenNullifyKey(b) \/ OpenBlockKey(b)
         \/ DropNullifyKey \/ StartDeleting \/ DeleteNote \/ DropBlockKey \/ FinishRollback
         \/ CrashInRollback
  PROVE  Atomic!Next \/ UNCHANGED Settled
<1>t. TypeOK /\ RollbackInv /\ Sound
  BY DEF ExactInv, RollbackInv
<1> USE <1>t
<1>s. ASSUME RollingBack, op'.kind \in {"unnullify", "delete", "deleteNote", "recover"},
             op'.target = op.target,
             \A n \in Nullifier : RolledBack(notes, op.target)[n] = RolledBack(notes', op.target)[n]
      PROVE  UNCHANGED Settled
  <2>1. RolledBack(notes, op.target) = RolledBack(notes', op.target)
    BY Zenon, <1>s DEF RolledBack
  <2>2. Settled = RolledBack(notes, op.target)
    BY <1>s DEF Settled
  <2>3. Settled' = RolledBack(notes', op'.target)
    BY Zenon, <1>s DEF Settled, RollingBack, RolledBack
  <2> QED BY <1>s, <2>1, <2>2, <2>3
<1>1. ASSUME NEW t \in Block, Rollback(t) PROVE Atomic!Next
  <2>1. /\ op = Idle \/ (op.kind = "recover" /\ t <= op.target)
        /\ op'.kind = "unnullify" /\ op'.target = t /\ notes' = notes
    BY <1>1 DEF Rollback, kv
  <2>2. Settled' = RolledBack(notes, t)
    BY <2>1 DEF Settled, RollingBack, RolledBack
  <2>3. Settled' = RolledBack(Settled, t)
    <3>1. CASE op = Idle
      BY <2>2, <3>1 DEF Settled, RollingBack, Idle
    <3>2. CASE op.kind = "recover" /\ t <= op.target
      <4>1. op.target \in Block
        BY <3>2, WalkTyped
      <4>2. Settled = RolledBack(notes, op.target)
        BY <3>2 DEF Settled
      <4>3. ASSUME NEW n \in Nullifier
            PROVE  RolledBack(RolledBack(notes, op.target), t)[n] = RolledBack(notes, t)[n]
        <5> DEFINE T == op.target
                   f == RolledBack(notes, T)
        <5>0. T \in Nat /\ t \in Nat /\ t <= T
          BY Zenon, <3>2, <4>1, BlockAssumption
        <5>f. f[n] = IF notes[n] = Absent \/ notes[n].block > T THEN Absent
                     ELSE IF notes[n].nblock > T
                          THEN [notes[n] EXCEPT !.nullified = FALSE, !.nblock = NoBlock]
                     ELSE notes[n]
          BY DEF RolledBack
        <5>g. RolledBack(notes, t)[n] = IF notes[n] = Absent \/ notes[n].block > t THEN Absent
                     ELSE IF notes[n].nblock > t
                          THEN [notes[n] EXCEPT !.nullified = FALSE, !.nblock = NoBlock]
                     ELSE notes[n]
          BY DEF RolledBack
        <5>h. RolledBack(f, t)[n] = IF f[n] = Absent \/ f[n].block > t THEN Absent
                     ELSE IF f[n].nblock > t
                          THEN [f[n] EXCEPT !.nullified = FALSE, !.nblock = NoBlock]
                     ELSE f[n]
          BY DEF RolledBack
        <5> SUFFICES RolledBack(f, t)[n] = RolledBack(notes, t)[n]
          OBVIOUS
        <5> HIDE DEF f, T
        <5>1. CASE notes[n] = Absent
          BY <5>1, <5>f, <5>g, <5>h
        <5>2. CASE Stored(n)
          <6>1. notes[n] \in Note /\ notes[n].block \in Int /\ notes[n].nblock \in Int
            BY <5>2, NoteTyped
          <6>2. CASE notes[n].block > T
            BY <5>0, <5>f, <5>g, <5>h, <6>1, <6>2
          <6>3. CASE ~(notes[n].block > T) /\ notes[n].nblock > T
            <7>1. f[n] = [notes[n] EXCEPT !.nullified = FALSE, !.nblock = NoBlock]
              BY <5>2, <5>f, <6>3 DEF Stored
            <7>2. f[n] \in Note /\ f[n].block = notes[n].block /\ f[n].nblock = NoBlock
              BY Zenon, <6>1, <7>1 DEF Note
            <7>3. f[n] # Absent
              BY <7>2, AbsentAssumption
            <7>4. ~(f[n].nblock > t) /\ notes[n].nblock > t
              BY <5>0, <6>1, <6>3, <7>2 DEF NoBlock
            <7> QED BY <5>2, <5>g, <5>h, <7>1, <7>2, <7>3, <7>4 DEF Stored
          <6>4. CASE ~(notes[n].block > T) /\ ~(notes[n].nblock > T)
            <7>1. f[n] = notes[n]
              BY <5>2, <5>f, <6>4 DEF Stored
            <7> QED BY <5>g, <5>h, <7>1
          <6> QED BY <6>2, <6>3, <6>4
        <5> QED BY <5>1, <5>2 DEF Stored
      <4>4. RolledBack(RolledBack(notes, op.target), t) = RolledBack(notes, t)
        BY Zenon, <4>3 DEF RolledBack
      <4> QED BY <2>2, <4>2, <4>4
    <3> QED BY <2>1, <3>1, <3>2
  <2>4. Atomic!Rollback(t)
    BY Zenon, <2>3 DEF RolledBack, Atomic!Rollback, Atomic!None, NoBlock
  <2> QED BY <2>4 DEF Atomic!Next
<1>2. ASSUME \/ \E n \in Nullifier : RemoveFromContractIndex(n)
             \/ \E b \in Block : OpenNullifyKey(b) \/ OpenBlockKey(b)
             \/ DropNullifyKey \/ StartDeleting \/ DropBlockKey \/ CrashInRollback
      PROVE  UNCHANGED Settled
  <2>1. RollingBack /\ notes' = notes
    BY Zenon, <1>2 DEF RemoveFromContractIndex, OpenNullifyKey, OpenBlockKey, DropNullifyKey, StartDeleting,
                DropBlockKey, CrashInRollback, RollingBack, kv
  <2>2. op'.target = op.target /\ op'.kind \in {"unnullify", "delete", "deleteNote", "recover"}
    <3>1. CASE \/ \E b \in Block : OpenNullifyKey(b) \/ OpenBlockKey(b)
               \/ DropNullifyKey \/ StartDeleting \/ DropBlockKey
      BY Zenon, <3>1, WalkTyped DEF OpenNullifyKey, OpenBlockKey, DropNullifyKey, StartDeleting, DropBlockKey
    <3>2. CASE (\E n \in Nullifier : RemoveFromContractIndex(n)) \/ CrashInRollback
      BY <3>2 DEF RemoveFromContractIndex, CrashInRollback
    <3> QED BY <1>2, <3>1, <3>2
  <2> QED BY <1>s, <2>1, <2>2
<1>3. ASSUME NEW n \in Nullifier, UnNullify(n) PROVE UNCHANGED Settled
  <2>1. /\ op.kind = "unnullify" /\ op.key # NoBlock /\ n \in op.todo
        /\ op'.kind = "unnullify" /\ op'.target = op.target
    BY Zenon, <1>3, WalkTyped DEF UnNullify
  <2>2. \A m \in Nullifier \ {n} : notes'[m] = notes[m]
    BY Zenon, <1>3 DEF UnNullify, TypeOK
  <2>3. RolledBack(notes, op.target)[n] = RolledBack(notes', op.target)[n]
    <3>1. CASE ~Stored(n)
      BY Zenon, <1>3, <3>1 DEF UnNullify, RolledBack
    <3>2. CASE Stored(n)
      <4>1. notes[n] \in Note
        BY <3>2, NoteTyped
      <4>2. notes'[n] = [notes[n] EXCEPT !.nullified = FALSE, !.nblock = NoBlock]
        BY Zenon, <1>3, <3>2 DEF UnNullify, TypeOK
      <4>3. /\ notes'[n].block = notes[n].block /\ notes'[n].nblock = NoBlock
            /\ notes'[n] \in Note
        BY Zenon, <4>1, <4>2 DEF Note
      <4>4. op.key > op.target /\ notes[n].nblock \in {op.key, NoBlock} /\ op.target \in Block
        BY <2>1, <3>2, WalkedNote, WalkTyped
      <4>5. ~(NoBlock > op.target)
        BY <4>4, LaterBlock
      <4>6. notes[n].nblock = NoBlock => notes'[n] = notes[n]
        <5> SUFFICES ASSUME notes[n].nblock = NoBlock PROVE notes'[n] = notes[n]
          OBVIOUS
        <5>1. notes[n].nullified = FALSE
          <6>1. ~notes[n].nullified
            BY <3>2 DEF Sound, SpentWell
          <6>2. notes[n].nullified \in BOOLEAN
            BY <3>2, NoteTyped
          <6> QED BY <6>1, <6>2
        <5> QED BY Zenon, <4>1, <4>2, <5>1 DEF Note
      <4>7. notes[n] # Absent /\ notes'[n] # Absent
        BY <3>2, <4>3, AbsentAssumption DEF Stored
      <4> DEFINE r(x) == IF x = Absent \/ x.block > op.target THEN Absent
                         ELSE IF x.nblock > op.target
                              THEN [x EXCEPT !.nullified = FALSE, !.nblock = NoBlock]
                         ELSE x
      <4>8. RolledBack(notes, op.target)[n] = r(notes[n]) /\ RolledBack(notes', op.target)[n] = r(notes'[n])
        BY DEF RolledBack
      <4>9. r(notes[n]) = r(notes'[n])
        <5>1. CASE notes[n].nblock = NoBlock
          BY Zenon, <4>6, <5>1
        <5>2. CASE notes[n].nblock = op.key
          BY <4>2, <4>3, <4>4, <4>5, <4>7, <5>2
        <5> QED BY <4>4, <5>1, <5>2
      <4> QED BY <4>8, <4>9
    <3> QED BY <3>1, <3>2
  <2>4. \A m \in Nullifier : RolledBack(notes, op.target)[m] = RolledBack(notes', op.target)[m]
    BY Zenon, <2>2, <2>3 DEF RolledBack
  <2> QED BY <1>s, <2>1, <2>4 DEF RollingBack
<1>4. CASE DeleteNote
  <2>1. /\ op.kind = "deleteNote" /\ op.note \in Nullifier
        /\ op'.kind = "delete" /\ op'.target = op.target
        /\ notes' = [notes EXCEPT ![op.note] = Absent]
    BY <1>4, WalkTyped DEF DeleteNote
  <2>2. RolledBack(notes, op.target)[op.note] = Absent
    <3>1. CASE notes[op.note] = Absent
      BY Zenon, <2>1, <3>1 DEF RolledBack
    <3>2. CASE Stored(op.note)
      <4>1. notes[op.note].block > op.target
        BY <2>1, <3>2, WalkedNote
      <4> QED BY Zenon, <2>1, <4>1 DEF RolledBack
    <3> QED BY <3>1, <3>2 DEF Stored
  <2>3. \A m \in Nullifier : RolledBack(notes, op.target)[m] = RolledBack(notes', op.target)[m]
    BY Zenon, <2>1, <2>2 DEF RolledBack, TypeOK
  <2> QED BY Zenon, <1>s, <2>1, <2>3 DEF RollingBack
<1>5. CASE FinishRollback
  <2>1. op.kind = "delete" /\ op.target \in Block /\ op' = Idle /\ notes' = notes
    BY <1>5, WalkTyped DEF FinishRollback, kv
  <2>2. \A n \in Nullifier : UpTo(n, op.target)
    BY <1>5, FinishedUpTo
  <2>3. ASSUME NEW n \in Nullifier PROVE RolledBack(notes, op.target)[n] = notes[n]
    <3>1. CASE ~Stored(n)
      BY <3>1 DEF RolledBack, Stored
    <3>2. CASE Stored(n)
      <4>1. ~(notes[n].block > op.target) /\ ~(notes[n].nblock > op.target)
        <5> DEFINE b == notes[n].block
                   nb == notes[n].nblock
                   t == op.target
        <5>1. b \in Int /\ nb \in Int /\ t \in Int /\ b <= t /\ nb <= t
          <6>1. b \in Int /\ nb \in Int
            BY <3>2, NoteTyped
          <6>2. t \in Int
            <7>1. op.target \in Nat
              BY Zenon, <2>1, BlockAssumption
            <7> QED BY <7>1
          <6>3. b <= t /\ nb <= t
            BY <2>2, <3>2 DEF UpTo
          <6> QED BY <6>1, <6>2, <6>3
        <5> HIDE DEF b, nb, t
        <5>2. ~(b > t) /\ ~(nb > t)
          BY <5>1
        <5> QED BY <5>2 DEF b, nb, t
      <4> QED BY <3>2, <4>1 DEF RolledBack, Stored
    <3> QED BY <3>1, <3>2
  <2>4. RolledBack(notes, op.target) = notes
    BY Zenon, <2>3 DEF RolledBack, TypeOK
  <2>5. Settled = RolledBack(notes, op.target) /\ Settled' = notes
    BY <2>1 DEF Settled, RollingBack, Idle
  <2> QED BY <2>4, <2>5
<1> QED BY <1>1, <1>2, <1>3, <1>4, <1>5

(* The store implements the one whose operations are atomic: until a stop    *)
(* tears a note, every single-key write is an abstract operation or changes   *)
(* nothing a caller may rely on, stops inside a rollback included.            *)
THEOREM StoreIsAtomic == Spec => AtomicSpec
<1>1. Init => Atomic!Init
  BY DEF Init, Settled, RollingBack, Idle, Atomic!Init
<1>2. ExactInv /\ [Next]_vars => [torn' = {} => Atomic!Next \/ UNCHANGED Settled]_vars
  <2> SUFFICES ASSUME ExactInv, Next, torn' = {} PROVE Atomic!Next \/ UNCHANGED Settled
    OBVIOUS
  <2>1. torn = {}
    BY Zenon DEF Next, MergeScope, PutNote, AddToContractIndex, AddToBlockIndex, ApplyNullifier, NullifyNote,
           AddToNullificationBlockIndex, Rollback, OpenNullifyKey, UnNullify, DropNullifyKey, StartDeleting,
           OpenBlockKey, RemoveFromContractIndex, DeleteNote, DropBlockKey, FinishRollback, CrashInRollback,
           CrashInWrite
  <2>2. ~CrashInWrite
    BY DEF CrashInWrite
  <2> QED BY <2>1, <2>2, AtomicWrite, AtomicRollback DEF Next
<1> QED BY <1>1, <1>2, ExactInit, ExactStep, PTL DEF Spec, AtomicSpec
=============================================================================
