--------------------------- MODULE AtomicNoteStore ---------------------------
(***************************************************************************)
(* What the note store promises: a map from siloed nullifiers to notes     *)
(* whose operations take effect at once.                                   *)
(***************************************************************************)
EXTENDS Integers

CONSTANTS Nullifier, Scope, Block, Absent

VARIABLE notes

None == -1

Init == notes = [n \in Nullifier |-> Absent]

Add(n, b, spent, s) ==
    /\ notes[n] = Absent
    /\ notes' = [notes EXCEPT ![n] = [block     |-> b,
                                     nullified |-> spent,
                                     nblock    |-> IF spent THEN 0 ELSE None,
                                     scopes    |-> {s}]]

AddScope(n, s) ==
    /\ notes[n] # Absent
    /\ notes' = [notes EXCEPT ![n] = [@ EXCEPT !.scopes = notes[n].scopes \union {s}]]

Nullify(n, b) ==
    /\ notes[n] # Absent
    /\ ~notes[n].nullified
    /\ notes' = [notes EXCEPT ![n] = [@ EXCEPT !.nullified = TRUE, !.nblock = b]]

(* Everything that happened after block t is undone, and nothing else. *)
Rollback(t) ==
    notes' = [n \in Nullifier |->
                IF notes[n] = Absent \/ notes[n].block > t THEN Absent
                ELSE IF notes[n].nblock > t
                     THEN [notes[n] EXCEPT !.nullified = FALSE, !.nblock = None]
                     ELSE notes[n]]

Next ==
    \/ \E n \in Nullifier, s \in Scope :
          \/ AddScope(n, s)
          \/ \E b \in Block \union {None}, spent \in BOOLEAN : Add(n, b, spent, s)
    \/ \E n \in Nullifier, b \in Block : Nullify(n, b)
    \/ \E t \in Block : Rollback(t)

Spec == Init /\ [][Next]_notes
=============================================================================
