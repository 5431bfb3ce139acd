----------------------------- MODULE CapsuleStore -----------------------------
(***************************************************************************)
(* stores/capsule_store.rs: the slots of one contract, with an array at     *)
(* ArrayBase (its length there, its entries in the slots after it) and      *)
(* plain slots that are stored, deleted and copied.  A slot is a field      *)
(* element; arrays use field addition and copy_capsule machine words.       *)
(* Every write is a step, and the process may stop between two.             *)
(***************************************************************************)
EXTENDS Naturals, Sequences, SequencesExt

CONSTANTS
    Modulus,    \* bound: the field's modulus
    Word,       \* bound: to_usize is modulo this
    ArrayBase,
    Value,      \* contents, as naturals: an array's length is one too
    MaxLen,     \* bound: entries of the array
    Plain,      \* slots that hold no array
    MaxCopy,    \* bound: entries copied
    Absent,
    Torn        \* what an array reads as when its content is neither old nor new

VARIABLES
    db,         \* capsule_db:<contract>:<slot>
    op,         \* the call in progress: the writes it has still to make
    torn        \* a replacement of the array was cut short

vars == <<db, op, torn>>

Slot == 0..(Modulus - 1)
Idle == [kind |-> "idle", todo |-> <<>>]
Content == SeqOf(Value, MaxLen)

array_slot(i) == (ArrayBase + 1 + i) % Modulus
Length(d) == IF d[ArrayBase] = Absent THEN 0 ELSE d[ArrayBase]
Entry(d, i) == d[array_slot(i)]

(* read_capsule_array, which fails on an entry that is missing. *)
Readable(d) == \A i \in 0..(Length(d) - 1) : Entry(d, i) # Absent
ReadArray(d) == [i \in 1..Length(d) |-> Entry(d, i - 1)]

TypeOK ==
    /\ db \in [Slot -> Value \union 0..MaxLen \union {Absent}]
    /\ op.kind \in {"idle", "append", "replace", "copy"}
    /\ torn \in BOOLEAN

Init ==
    /\ db = [s \in Slot |-> Absent]
    /\ op = Idle
    /\ torn = FALSE

Put(s, v) == [slot |-> s, value |-> v]
Entries(first, c) == [i \in 1..Len(c) |-> Put(array_slot(first + i - 1), c[i])]

Start(kind, before, after, todo) ==
    /\ op = Idle
    /\ op' = [kind |-> kind, before |-> before, after |-> after, todo |-> todo]
    /\ UNCHANGED <<db, torn>>

(* Mutant: the length is written before the entries. *)
AppendWritesLengthFirst(c) ==
    <<Put(ArrayBase, Length(db) + Len(c))>> \o Entries(Length(db), c)

AppendWrites(c) ==
    Entries(Length(db), c) \o <<Put(ArrayBase, Length(db) + Len(c))>>

append_to_capsule_array(c) ==
    /\ Length(db) + Len(c) <= MaxLen
    /\ Start("append", <<>>, <<>>, AppendWrites(c))

(* The length comes first here, then the entries, then the deletions. *)
SetWrites(c) ==
    <<Put(ArrayBase, Len(c))>> \o Entries(0, c)
        \o [i \in 1..(IF Length(db) > Len(c) THEN Length(db) - Len(c) ELSE 0) |->
               Put(array_slot(Len(c) + i - 1), Absent)]

set_capsule_array(c) ==
    Start("replace", IF torn THEN Torn ELSE ReadArray(db), c, SetWrites(c))

store_capsule(s, v) ==
    /\ op = Idle /\ s \in Plain
    /\ db' = [db EXCEPT ![s] = v]
    /\ UNCHANGED <<op, torn>>

delete_capsule(s) ==
    /\ op = Idle /\ s \in Plain
    /\ db' = [db EXCEPT ![s] = Absent]
    /\ UNCHANGED <<op, torn>>

(* Fr::to_usize shifts the high bytes out. *)
to_usize(s) == s % Word

Region(s, n) == {s + i : i \in 0..(n - 1)}

(* Mutant: the entries are read in the order they are written, in place. *)
CopyWritesInPlace(src, dst, n) ==
    [i \in 1..n |-> Put(to_usize(dst) + i - 1,
         db[to_usize(src) + (IF src < dst /\ dst < src + n THEN (i - 1) % (dst - src) ELSE i - 1)])]

(* All entries are read first. *)
CopyWrites(src, dst, n) ==
    [i \in 1..n |-> Put(to_usize(dst) + i - 1, db[to_usize(src) + i - 1])]

(* An empty slot in the region to copy is an error. *)
copy_capsule(src, dst, n) ==
    /\ \A r \in {src, dst, to_usize(src), to_usize(dst)} : Region(r, n) \subseteq Plain
    /\ \A s \in Region(to_usize(src), n) : db[s] # Absent
    /\ Start("copy", <<src, dst, n>>, db, CopyWrites(src, dst, n))

(* The next write of the call; with the last one the call returns. *)
Write ==
    /\ op.todo # <<>>
    /\ db' = [db EXCEPT ![Head(op.todo).slot] = Head(op.todo).value]
    /\ op' = IF Len(op.todo) > 1 THEN [op EXCEPT !.todo = Tail(@)] ELSE Idle
    /\ torn' = (torn /\ (op.kind # "replace" \/ Len(op.todo) > 1))

(* A replacement that was cut is torn unless the array reads as one of the   *)
(* two contents.                                                             *)
Crash ==
    /\ op # Idle
    /\ op' = Idle
    /\ torn' = IF op.kind = "replace"
               THEN ~(Readable(db) /\ ReadArray(db) \in {op.before, op.after})
               ELSE torn
    /\ UNCHANGED db

Next ==
    \/ \E c \in Content : append_to_capsule_array(c) \/ set_capsule_array(c)
    \/ \E s \in Plain, v \in Value : store_capsule(s, v)
    \/ \E s \in Plain : delete_capsule(s)
    \/ \E src, dst \in Plain, n \in 1..MaxCopy : copy_capsule(src, dst, n)
    \/ Write
    \/ Crash

Spec == Init /\ [][Next]_vars

-----------------------------------------------------------------------------
(* Whatever writes are made and wherever the process stops, the array its    *)
(* users see changes as CapsuleArray says: the order of the writes in        *)
(* append_to_capsule_array and set_capsule_array.                            *)
View == IF torn THEN Torn ELSE IF op.kind = "replace" THEN op.before ELSE ReadArray(db)

Array == INSTANCE CapsuleArray WITH array <- View

ArrayStep == Array!Next \/ UNCHANGED View
ArraySpec == Array!Init /\ [][ArrayStep]_vars

(* A copy leaves in the target what the source held when it began, also when *)
(* the two regions overlap.                                                  *)
Moved(src, dst, n, old) == \A i \in 0..(n - 1) : db'[dst + i] = old[src + i]

CopyReturns == op.kind = "copy" /\ Len(op.todo) = 1 /\ Write

(* copy_capsule moves the region as it was, for slots that fit a word. *)
CopyExactInWordStep ==
    CopyReturns /\ op.before[1] + op.before[3] <= Word /\ op.before[2] + op.before[3] <= Word
        => Moved(op.before[1], op.before[2], op.before[3], op.after)

(* copy_capsule moves the region as it was, or fails: Fr::to_usize is said   *)
(* to panic on a slot that does not fit a word.  It does not hold: the high  *)
(* bytes are dropped, and another region is copied.                          *)
CopyExact == [][CopyReturns => Moved(op.before[1], op.before[2], op.before[3], op.after)]_vars
=============================================================================
