------------------------------ MODULE NoteStore ------------------------------
(***************************************************************************)
(* The PXE's store of discovered notes (crates/pxe/src/stores/             *)
(* note_store.rs) over a key-value store without transactions.             *)
(*                                                                         *)
(* A note lives under the key of its siloed nullifier; three indexes list  *)
(* nullifiers per contract, per creation block and per nullification       *)
(* block.  Every operation is a sequence of single-key writes, one action  *)
(* per write, and the process may stop between any two of them: the keys   *)
(* survive, the rest of the operation does not.  Operations run one after  *)
(* the other, as they do when the PXE is driven by one task.               *)
(***************************************************************************)
EXTENDS Integers, FiniteSets

CONSTANTS
    Nullifier,   \* siloed nullifiers, the primary keys
    Contract,    \* contract addresses
    ContractOf,  \* the contract a siloed nullifier was siloed with
    Scope,       \* accounts that may see a note
    Block,       \* block numbers
    Absent       \* no value under a key

NoBlock == -1   \* Option::None; sorts before every block number, as in Rust

Note == [block     : Block \union {NoBlock},
         nullified : BOOLEAN,
         nblock    : Block \union {NoBlock},
         scopes    : SUBSET Scope]

ASSUME ContractAssumption == ContractOf \in [Nullifier -> Contract]
ASSUME BlockAssumption == Block \subseteq Nat /\ 0 \in Block
ASSUME AbsentAssumption == Absent \notin Note

VARIABLES
    notes,        \* "note:<nullifier>"
    contractIdx,  \* "note_idx:contract:<address>"
    blockIdx,     \* "note_idx:block:<number>"
    nullifyIdx,   \* "note_idx:nullify_block:<number>"
    op,           \* the operation in flight: what it has left to write
    torn          \* notes a stop has cut off from one of their index entries

kv   == <<notes, contractIdx, blockIdx, nullifyIdx>>
vars == <<notes, contractIdx, blockIdx, nullifyIdx, op, torn>>

Idle == [kind |-> "idle"]

(* A rollback walks one index key at a time (key, NoBlock between two keys) *)
(* and holds the part of that key's list it has not reached (todo).         *)
Walk == [kind   : {"unnullify", "delete"},
         target : Block,
         key    : Block \union {NoBlock},
         todo   : SUBSET Nullifier]

Op == {Idle}
      \union [kind : {"addContract", "addBlock", "addNullify"}, note : Nullifier]
      \union Walk
      \union [kind : {"deleteNote"}, target : Block, key : Block,
              todo : SUBSET Nullifier, note : Nullifier]
      \union [kind : {"recover"}, target : Block]

TypeOK ==
    /\ notes \in [Nullifier -> Note \union {Absent}]
    /\ contractIdx \in [Contract -> SUBSET Nullifier]
    /\ blockIdx \in [Block -> SUBSET Nullifier]
    /\ nullifyIdx \in [Block -> SUBSET Nullifier]
    /\ op \in Op
    /\ torn \subseteq Nullifier

Stored(n) == notes[n] # Absent

Init ==
    /\ notes = [n \in Nullifier |-> Absent]
    /\ contractIdx = [c \in Contract |-> {}]
    /\ blockIdx = [b \in Block |-> {}]
    /\ nullifyIdx = [b \in Block |-> {}]
    /\ op = Idle
    /\ torn = {}

-----------------------------------------------------------------------------
(* add_notes, one note of the batch.  A known nullifier only gains the scope: *)
(* whatever else the new copy says of the note is dropped.                    *)

(* Mutant: the new scope replaces the ones already granted. *)
MergeScopeReplaces(n, s) ==
    /\ op = Idle
    /\ Stored(n)
    /\ notes' = [notes EXCEPT ![n] = [@ EXCEPT !.scopes = {s}]]
    /\ UNCHANGED <<contractIdx, blockIdx, nullifyIdx, op, torn>>

MergeScope(n, s) ==
    /\ op = Idle
    /\ Stored(n)
    /\ notes' = [notes EXCEPT ![n] = [@ EXCEPT !.scopes = notes[n].scopes \union {s}]]
    /\ UNCHANGED <<contractIdx, blockIdx, nullifyIdx, op, torn>>

(* A note found already spent is stored nullified "at block 0" and enters no *)
(* nullification index (NoteService::validate_and_store_note).               *)
PutNote(n, b, spent, s) ==
    /\ op = Idle
    /\ ~Stored(n)
    /\ notes' = [notes EXCEPT ![n] =
                    [block     |-> b,
                     nullified |-> spent,
                     nblock    |-> IF spent THEN 0 ELSE NoBlock,
                     scopes    |-> {s}]]
    /\ op' = [kind |-> "addContract", note |-> n]
    /\ UNCHANGED <<contractIdx, blockIdx, nullifyIdx, torn>>

(* Mutant: the block number is never indexed. *)
AddToContractIndexOnly ==
    /\ op.kind = "addContract"
    /\ contractIdx' = [contractIdx EXCEPT ![ContractOf[op.note]] = @ \union {op.note}]
    /\ op' = Idle
    /\ UNCHANGED <<notes, blockIdx, nullifyIdx, torn>>

AddToContractIndex ==
    /\ op.kind = "addContract"
    /\ contractIdx' = [contractIdx EXCEPT ![ContractOf[op.note]] = @ \union {op.note}]
    /\ op' = IF notes[op.note].block = NoBlock
             THEN Idle
             ELSE [kind |-> "addBlock", note |-> op.note]
    /\ UNCHANGED <<notes, blockIdx, nullifyIdx, torn>>

AddToBlockIndex ==
    /\ op.kind = "addBlock"
    /\ blockIdx' = [blockIdx EXCEPT ![notes[op.note].block] = @ \union {op.note}]
    /\ op' = Idle
    /\ UNCHANGED <<notes, contractIdx, nullifyIdx, torn>>

-----------------------------------------------------------------------------
(* apply_nullifiers, one pair of the batch: only an active note changes.     *)

(* Mutant: the block after the spending one is recorded. *)
ApplyNullifierLate(n, b) ==
    /\ op = Idle
    /\ Stored(n)
    /\ ~notes[n].nullified
    /\ notes' = [notes EXCEPT ![n] = [@ EXCEPT !.nullified = TRUE, !.nblock = b + 1]]
    /\ op' = [kind |-> "addNullify", note |-> n]
    /\ UNCHANGED <<contractIdx, blockIdx, nullifyIdx, torn>>

ApplyNullifier(n, b) ==
    /\ op = Idle
    /\ Stored(n)
    /\ ~notes[n].nullified
    /\ notes' = [notes EXCEPT ![n] = [@ EXCEPT !.nullified = TRUE, !.nblock = b]]
    /\ op' = [kind |-> "addNullify", note |-> n]
    /\ UNCHANGED <<contractIdx, blockIdx, nullifyIdx, torn>>

(* nullify_note finds the note through its contract's index and knows no block. *)
NullifyNote(n) ==
    /\ n \in contractIdx[ContractOf[n]]
    /\ ApplyNullifier(n, 0)

AddToNullificationBlockIndex ==
    /\ op.kind = "addNullify"
    /\ nullifyIdx' = [nullifyIdx EXCEPT ![notes[op.note].nblock] = @ \union {op.note}]
    /\ op' = Idle
    /\ UNCHANGED <<notes, contractIdx, blockIdx, torn>>

-----------------------------------------------------------------------------
(* rollback(block_number): un-nullify what was spent after the block, then   *)
(* delete what was created after it.  The keys come in the order of their    *)
(* decimal strings; the model takes them in any order.                       *)

Rollback(t) ==
    /\ \/ op = Idle
       \/ op.kind = "recover" /\ t <= op.target
    /\ op' = [kind |-> "unnullify", target |-> t, key |-> NoBlock, todo |-> {}]
    /\ UNCHANGED <<kv, torn>>

(* Mutant: the first block after the target is kept. *)
LaterKeysOffByOne(idx) == {b \in Block : b > op.target + 1 /\ idx[b] # {}}

LaterKeys(idx) == {b \in Block : b > op.target /\ idx[b] # {}}

OpenNullifyKey(b) ==
    /\ op.kind = "unnullify" /\ op.key = NoBlock
    /\ b \in LaterKeys(nullifyIdx)
    /\ op' = [op EXCEPT !.key = b, !.todo = nullifyIdx[b]]
    /\ UNCHANGED <<kv, torn>>

(* Mutant: the nullification block outlives the nullification. *)
UnNullifyKeepsBlock(n) ==
    /\ op.kind = "unnullify" /\ op.key # NoBlock
    /\ n \in op.todo
    /\ notes' = IF Stored(n) THEN [notes EXCEPT ![n] = [@ EXCEPT !.nullified = FALSE]] ELSE notes
    /\ op' = [op EXCEPT !.todo = @ \ {n}]
    /\ UNCHANGED <<contractIdx, blockIdx, nullifyIdx, torn>>

UnNullify(n) ==
    /\ op.kind = "unnullify" /\ op.key # NoBlock
    /\ n \in op.todo
    /\ notes' = IF Stored(n)
                THEN [notes EXCEPT ![n] = [@ EXCEPT !.nullified = FALSE, !.nblock = NoBlock]]
                ELSE notes
    /\ op' = [op EXCEPT !.todo = @ \ {n}]
    /\ UNCHANGED <<contractIdx, blockIdx, nullifyIdx, torn>>

DropNullifyKey ==
    /\ op.kind = "unnullify" /\ op.key # NoBlock
    /\ op.todo = {}
    /\ nullifyIdx' = [nullifyIdx EXCEPT ![op.key] = {}]
    /\ op' = [op EXCEPT !.key = NoBlock]
    /\ UNCHANGED <<notes, contractIdx, blockIdx, torn>>

StartDeleting ==
    /\ op.kind = "unnullify" /\ op.key = NoBlock
    /\ LaterKeys(nullifyIdx) = {}
    /\ op' = [op EXCEPT !.kind = "delete"]
    /\ UNCHANGED <<kv, torn>>

OpenBlockKey(b) ==
    /\ op.kind = "delete" /\ op.key = NoBlock
    /\ b \in LaterKeys(blockIdx)
    /\ op' = [op EXCEPT !.key = b, !.todo = blockIdx[b]]
    /\ UNCHANGED <<kv, torn>>

(* Mutant: the note is deleted without leaving its contract's index. *)
RemoveFromNoIndex(n) ==
    /\ op.kind = "delete" /\ op.key # NoBlock
    /\ n \in op.todo
    /\ op' = [kind |-> "deleteNote", target |-> op.target, key |-> op.key,
              todo |-> op.todo \ {n}, note |-> n]
    /\ UNCHANGED <<kv, torn>>

(* Mutant: the whole list of the contract goes. *)
RemoveContractIndex(n) ==
    /\ op.kind = "delete" /\ op.key # NoBlock
    /\ n \in op.todo
    /\ contractIdx' = IF Stored(n) THEN [contractIdx EXCEPT ![ContractOf[n]] = {}] ELSE contractIdx
    /\ op' = [kind |-> "deleteNote", target |-> op.target, key |-> op.key,
              todo |-> op.todo \ {n}, note |-> n]
    /\ UNCHANGED <<notes, blockIdx, nullifyIdx, torn>>

RemoveFromContractIndex(n) ==
    /\ op.kind = "delete" /\ op.key # NoBlock
    /\ n \in op.todo
    /\ contractIdx' = IF Stored(n)
                      THEN [contractIdx EXCEPT ![ContractOf[n]] = @ \ {n}]
                      ELSE contractIdx
    /\ op' = [kind |-> "deleteNote", target |-> op.target, key |-> op.key,
              todo |-> op.todo \ {n}, note |-> n]
    /\ UNCHANGED <<notes, blockIdx, nullifyIdx, torn>>

DeleteNote ==
    /\ op.kind = "deleteNote"
    /\ notes' = [notes EXCEPT ![op.note] = Absent]
    /\ op' = [kind |-> "delete", target |-> op.target, key |-> op.key, todo |-> op.todo]
    /\ UNCHANGED <<contractIdx, blockIdx, nullifyIdx, torn>>

DropBlockKey ==
    /\ op.kind = "delete" /\ op.key # NoBlock
    /\ op.todo = {}
    /\ blockIdx' = [blockIdx EXCEPT ![op.key] = {}]
    /\ op' = [op EXCEPT !.key = NoBlock]
    /\ UNCHANGED <<notes, contractIdx, nullifyIdx, torn>>

FinishRollback ==
    /\ op.kind = "delete" /\ op.key = NoBlock
    /\ LaterKeys(blockIdx) = {}
    /\ op' = Idle
    /\ UNCHANGED <<kv, torn>>

-----------------------------------------------------------------------------
RollingBack == op.kind \in {"unnullify", "delete", "deleteNote"}

(* The process stops inside an operation.  An interrupted rollback is tried  *)
(* again, at the same block or a lower one, before the store is used: the    *)
(* anchor is written only after the rollback returns, so the synchronizer    *)
(* meets the same reorg at its next run.                                     *)
CrashInRollback ==
    /\ RollingBack
    /\ op' = [kind |-> "recover", target |-> op.target]
    /\ UNCHANGED <<kv, torn>>

(* An interrupted add_notes or apply_nullifiers is not: its caller is gone. *)
CrashInWrite ==
    /\ op.kind \in {"addContract", "addBlock", "addNullify"}
    /\ op' = Idle
    /\ torn' = torn \union {op.note}
    /\ UNCHANGED kv

(* A note is spent at its creation block or later; callers that do not know *)
(* the block pass 0 (NoteService::sync_note_nullifiers).                     *)
SpendBlocks(n) ==
    {b \in Block : b = 0 \/ (Stored(n) /\ b >= notes[n].block)}

Next ==
    \/ \E n \in Nullifier, s \in Scope :
          \/ MergeScope(n, s)
          \/ \E b \in Block \union {NoBlock}, spent \in BOOLEAN : PutNote(n, b, spent, s)
    \/ \E n \in Nullifier : \E b \in SpendBlocks(n) : ApplyNullifier(n, b)
    \/ \E n \in Nullifier : NullifyNote(n) \/ UnNullify(n) \/ RemoveFromContractIndex(n)
    \/ AddToContractIndex \/ AddToBlockIndex \/ AddToNullificationBlockIndex
    \/ \E b \in Block : Rollback(b) \/ OpenNullifyKey(b) \/ OpenBlockKey(b)
    \/ DropNullifyKey \/ StartDeleting \/ DeleteNote \/ DropBlockKey \/ FinishRollback
    \/ CrashInRollback \/ CrashInWrite

Spec == Init /\ [][Next]_vars
-----------------------------------------------------------------------------
(* get_notes / get_notes_for_contract: what a query for a contract returns.  *)

NotesForContract(c) == {n \in contractIdx[c] : Stored(n)}

GetNotes(c, statuses, scopes) ==
    {n \in NotesForContract(c) :
        /\ notes[n].nullified \in statuses
        /\ scopes = {} \/ notes[n].scopes \intersect scopes # {}}

(* The operation in flight still owes the note one of its index entries. *)
Adding(n) == op.kind \in {"addContract", "addBlock"} /\ op.note = n

(* A rollback, or an interrupted one, is about to handle block b. *)
Reverting(b) == (RollingBack \/ op.kind = "recover") /\ b > op.target

(* A contract's index never lists a nullifier without a note behind it, nor  *)
(* another contract's: add_notes writes the note first, rollback deletes it  *)
(* last.  It holds between any two writes and after a stop at any of them.   *)
ContractIndexSound ==
    \A c \in Contract : \A n \in contractIdx[c] : Stored(n) /\ ContractOf[n] = c

(* No stored note is lost to queries: get_notes for its contract and any of  *)
(* its scopes returns it, except while it is being added or rolled back.     *)
(* A stop costs the note being written only.                                 *)
NotesFindable ==
    \A n \in Nullifier \ torn :
        Stored(n) =>
            \/ \A s \in notes[n].scopes : n \in GetNotes(ContractOf[n], BOOLEAN, {s})
            \/ op.kind = "addContract" /\ op.note = n
            \/ Reverting(notes[n].block)

(* The creation-block index lists exactly the notes stored with a block      *)
(* number, each under its own block: rollback finds what it must delete and  *)
(* deletes nothing else, however often a note came and went before.          *)
BlockIndexExact ==
    /\ \A n \in Nullifier \ torn :
          Stored(n) /\ notes[n].block # NoBlock =>
              n \in blockIdx[notes[n].block] \/ Adding(n)
    /\ \A b \in Block : \A n \in blockIdx[b] :
          (Stored(n) /\ notes[n].block = b) \/ Reverting(b)

(* The nullification index lists exactly the notes spent at a known block,   *)
(* so rollback reactivates these and leaves no note spent at a lost block.   *)
(* (Under block 0, "unknown", entries may outlive their note.)               *)
NullifyIndexExact ==
    /\ \A n \in Nullifier \ torn :
          Stored(n) /\ notes[n].nblock > 0 =>
              \/ n \in nullifyIdx[notes[n].nblock]
              \/ op.kind = "addNullify" /\ op.note = n
    /\ \A b \in Block \ {0} : \A n \in nullifyIdx[b] :
          (Stored(n) /\ notes[n].nblock = b) \/ Reverting(b)

(* Every stored note is found through its contract unless a stop cut off its *)
(* own writes, and the two block indexes say exactly which blocks created    *)
(* and nullified it: what rollback works from (add_notes, apply_nullifiers,  *)
(* nullify_note, rollback).                                                  *)
IndexesExact == NotesFindable /\ BlockIndexExact /\ NullifyIndexExact

(* After rollback(t) a note is not created, or nullified, after block t. *)
UpTo(n, t) == Stored(n) => notes[n].block <= t /\ notes[n].nblock <= t

(* When rollback(t) returns, no note created after t is stored and none is   *)
(* nullified at a block after t, although the process stopped in rollbacks   *)
(* before, and except for the notes whose own writes a stop cut short.       *)
RollbackComplete ==
    [][FinishRollback => \A n \in Nullifier \ torn : UpTo(n, op.target)]_vars

-----------------------------------------------------------------------------
(* The store implements one whose operations are atomic, until a stop tears  *)
(* a note.  A rollback takes effect when it starts; until it has finished,   *)
(* the abstract notes are the stored ones as the rollback will leave them.   *)

RolledBack(f, t) ==
    [n \in Nullifier |->
        IF f[n] = Absent \/ f[n].block > t THEN Absent
        ELSE IF f[n].nblock > t THEN [f[n] EXCEPT !.nullified = FALSE, !.nblock = NoBlock]
        ELSE f[n]]

Settled == IF RollingBack \/ op.kind = "recover" THEN RolledBack(notes, op.target) ELSE notes

Atomic == INSTANCE AtomicNoteStore WITH notes <- Settled

AtomicSpec == Atomic!Init /\ [][torn' = {} => Atomic!Next \/ UNCHANGED Settled]_vars
=============================================================================
