----------------------------- MODULE CapsuleArray -----------------------------
(***************************************************************************)
(* What a capsule array promises its users (execution/utility_oracle.rs):   *)
(* appending is atomic, and so is emptying; replacing the content by a non- *)
(* empty one is atomic unless the process stops in the middle, which may    *)
(* leave the array torn until the next replacement.                         *)
(***************************************************************************)
EXTENDS Sequences

CONSTANTS Content, Torn

VARIABLE array

Init == array = <<>>

Extend(c) == array' = IF array = Torn THEN Torn ELSE array \o c

Replace(c) == array' = c

Tear(c) == c # <<>> /\ array' = Torn

Next == \E c \in Content : Extend(c) \/ Replace(c) \/ Tear(c)

Spec == Init /\ [][Next]_array
=============================================================================
