-------------------------- MODULE MCPrivateExecution --------------------------
(* PrivateExecution with one contract, which may call itself. *)
EXTENDS PrivateExecution

(* One stored note. *)
OneStored == {[id |-> -1, contract |-> "token"]}
=============================================================================
