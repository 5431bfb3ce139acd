---------------------------- MODULE MCSenderTagging ----------------------------
(* Instances of SenderTaggingStore. *)
EXTENDS SenderTaggingStore, TLC

(* Nothing tells two secrets, two transactions or two tasks apart. *)
TagSymmetry == Permutations(Secret) \union Permutations(Tx) \union Permutations(Task)
=============================================================================
