----------------------------- MODULE MCNoteStore -----------------------------
(* NoteStore with two notes of one contract and blocks 0..2. *)
EXTENDS NoteStore, TLC

CONSTANTS n1, n2, c1

SameContract == n1 :> c1 @@ n2 :> c1

(* Nothing tells two notes, or two accounts, apart. *)
NoteSymmetry == Permutations(Nullifier) \union Permutations(Scope)
=============================================================================
