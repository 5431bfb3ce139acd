----------------------------- MODULE NodeClient -----------------------------
(***************************************************************************)
(* The HTTP client of the node: one JSON-RPC request, re-sent once when it  *)
(* could not be sent or its answer did not come, the reading of the body    *)
(* as the method needs it, and the two loops that poll the node: for it to  *)
(* be ready, and for a block to be proven.  A tick is one polling interval. *)
(***************************************************************************)
EXTENDS Naturals

CONSTANTS Timeout,      \* the deadline of a polling loop, in ticks
          ReceiptBlock, \* the block number of the receipt waited for
          MaxFaults     \* bound: failed requests, and times the node goes down

VARIABLES up, proven, taken,    \* the node: answering, proven block, the tx in its pool
          op, try, elapsed,     \* the client's call, its attempt, time in the loop
          result,
          rewritten, lost, faults   \* history: ReceiptBlock pruned; an answer lost; bound

vars == <<up, proven, taken, op, try, elapsed, result, rewritten, lost, faults>>
node == <<up, proven, taken>>

Ops == {"send_tx", "get_contract", "wait_for_node", "wait_for_proven"}
Ok(v) == [is |-> "ok", value |-> v]
NoResult == [is |-> "none"]
RpcError == [is |-> "rpc"]
InvalidData == [is |-> "invalid"]
Transport == [is |-> "transport"]
TimedOut == [is |-> "timeout"]

TypeOK ==
    /\ up \in BOOLEAN /\ proven \in 0..ReceiptBlock /\ taken \in BOOLEAN
    /\ op \in Ops \union {"none"} /\ try \in 0..2 /\ elapsed \in 0..Timeout
    /\ result \in {NoResult, RpcError, InvalidData, Transport, TimedOut}
           \union {Ok(v) : v \in 0..ReceiptBlock}
    /\ rewritten \in BOOLEAN /\ lost \in BOOLEAN /\ faults \in 0..MaxFaults

Init ==
    /\ up \in BOOLEAN /\ proven = 0 /\ taken = FALSE
    /\ op = "none" /\ try = 0 /\ elapsed = 0 /\ result = NoResult
    /\ rewritten = FALSE /\ lost = FALSE /\ faults = 0

-----------------------------------------------------------------------------
(* A body is an error, or has a result, a null one, or none at all. *)
Value(v) == [error |-> FALSE, result |-> "value", value |-> v]
Bare(r) == [error |-> FALSE, result |-> r]
ErrorBody == [error |-> TRUE]

(* call: a missing result is an error, and so is a null where a value is due. *)
call(body) ==
    IF body.error THEN RpcError
    ELSE IF body.result = "value" THEN Ok(body.value) ELSE InvalidData

(* call_optional: null and missing both say there is nothing (0 here). *)
call_optional(body) ==
    IF body.error THEN RpcError
    ELSE IF body.result = "value" THEN Ok(body.value) ELSE Ok(0)

CallVoidIgnoresError(body) == Ok(0)     \* mutant: the error object is not looked at

call_void(body) == IF body.error THEN RpcError ELSE Ok(0)

get_node_info(body) == call(body)
get_proven_block_number(body) == call(body)
send_tx(body) == call_void(body)
get_contract(body) == call_optional(body)

Reads(body) ==
    CASE op = "send_tx" -> send_tx(body)
      [] op = "get_contract" -> get_contract(body)
      [] op = "wait_for_node" -> get_node_info(body)
      [] op = "wait_for_proven" -> get_proven_block_number(body)

(* What the node may answer to the request in flight (external): it refuses  *)
(* or takes a transaction, and may refuse one it has.                        *)
Answers ==
    CASE op = "send_tx" -> {[body |-> Bare("null"), taken |-> TRUE],
                            [body |-> ErrorBody, taken |-> taken]}
      [] op = "get_contract" -> {[body |-> b, taken |-> taken] :
                                    b \in {Value(1), Bare("null"), Bare("missing"), ErrorBody}}
      [] op = "wait_for_node" -> {[body |-> Value(0), taken |-> taken],
                                  [body |-> Bare("missing"), taken |-> taken]}
      [] op = "wait_for_proven" -> {[body |-> Value(proven), taken |-> taken]}

-----------------------------------------------------------------------------
(* The call returns r, or its loop sleeps one interval and asks again. *)
Return(r) ==
    /\ op' = "none" /\ try' = 0 /\ elapsed' = 0 /\ result' = r

Sleep ==
    /\ elapsed' = elapsed + 1 /\ try' = 1
    /\ UNCHANGED <<op, result>>

(* wait_for_node_opts: any error is retried while there is time for another  *)
(* interval.                                                                  *)
WaitForNodeForever(r) == IF r.is = "ok" THEN Return(r)   \* mutant: no deadline
    ELSE try' = 1 /\ UNCHANGED <<op, elapsed, result>>

wait_for_node_opts(r) ==
    IF r.is = "ok" THEN Return(r)
    ELSE IF elapsed + 1 < Timeout THEN Sleep ELSE Return(TimedOut)

(* wait_for_proven: a number that is too low and an error are the same. *)
wait_for_proven(r) ==
    IF r.is = "ok" /\ r.value >= ReceiptBlock THEN Return(r)
    ELSE IF elapsed + 1 >= Timeout THEN Return(TimedOut) ELSE Sleep

Finish(r) ==
    CASE op = "wait_for_node" -> wait_for_node_opts(r)
      [] op = "wait_for_proven" -> wait_for_proven(r)
      [] OTHER -> Return(r)

Begin(o) ==
    /\ op = "none"
    /\ op' = o /\ try' = 1 /\ elapsed' = 0 /\ result' = NoResult
    /\ lost' = FALSE
    /\ UNCHANGED <<node, rewritten, faults>>

(* send_json.  The request is answered ... *)
Answered ==
    /\ try > 0 /\ up
    /\ \E a \in Answers : taken' = a.taken /\ Finish(Reads(a.body))
    /\ UNCHANGED <<up, proven, rewritten, lost, faults>>

(* ... or fails, before or after the node has handled it.  An error in       *)
(* connecting or sending is retried once; one in reading the body is not.    *)
FailsTwice(retried) ==                  \* mutant: one retry too many
    IF retried /\ try =< 2 THEN try' = try + 1 /\ UNCHANGED <<op, elapsed, result>>
    ELSE Finish(Transport)

Fails(retried) ==
    IF retried /\ try = 1 THEN try' = 2 /\ UNCHANGED <<op, elapsed, result>>
    ELSE Finish(Transport)

NotDelivered ==
    /\ try > 0 /\ (~up \/ faults < MaxFaults)
    /\ faults' = IF up THEN faults + 1 ELSE faults
    /\ Fails(TRUE)
    /\ UNCHANGED <<node, rewritten, lost>>

AnswerLost(retried) ==
    /\ try > 0 /\ up /\ faults < MaxFaults
    /\ \E a \in Answers : taken' = a.taken
    /\ faults' = faults + 1 /\ lost' = TRUE
    /\ Fails(retried)
    /\ UNCHANGED <<up, proven, rewritten>>

-----------------------------------------------------------------------------
(* The node (external): it proves blocks, goes down and comes up, and prunes *)
(* blocks that are not proven, to build others with their numbers.           *)
Prove ==
    /\ proven < ReceiptBlock
    /\ proven' = proven + 1
    /\ UNCHANGED <<up, taken, op, try, elapsed, result, rewritten, lost, faults>>

Toggle ==
    /\ ~up \/ faults < MaxFaults
    /\ up' = ~up
    /\ faults' = IF up THEN faults + 1 ELSE faults
    /\ UNCHANGED <<proven, taken, op, try, elapsed, result, rewritten, lost>>

PruneNode ==
    /\ proven < ReceiptBlock /\ ~rewritten
    /\ rewritten' = TRUE
    /\ UNCHANGED <<node, op, try, elapsed, result, lost, faults>>

Client == Answered \/ NotDelivered \/ \E r \in BOOLEAN : AnswerLost(r)
Next == (\E o \in Ops : Begin(o)) \/ Client \/ Prove \/ Toggle \/ PruneNode
Spec == Init /\ [][Next]_vars

(* A request is over after the HTTP client's timeout at the latest, and a    *)
(* sleeping task is woken.                                                   *)
FairSpec == Spec /\ WF_vars(Client)

-----------------------------------------------------------------------------
(* What send_tx says is true of the pool: after Ok the transaction was taken, *)
(* and after the node's error, if no answer to this call was lost, the node   *)
(* did not take it in this call.  After a lost answer the second request's    *)
(* "already there" is an error too, though the transaction is in.             *)
(* (RpcTransport::send_json and call_void.)                                   *)
SubmitToldStep ==
    op = "send_tx" /\ op' = "none" =>
        /\ result'.is = "ok" => taken'
        /\ result'.is = "rpc" /\ ~lost' => taken' = taken

SubmitTold == [][SubmitToldStep]_vars

(* "Wait until the block containing the given receipt is proven on L1": the   *)
(* block itself, not another with its number.  (wait_for_proven compares      *)
(* numbers only, so it does not hold after a prune.)                          *)
ReceiptBlockProven ==
    [][op = "wait_for_proven" /\ op' = "none" /\ result'.is = "ok" => ~rewritten]_vars

(* Every call of the client returns, whatever the node does.  (The retry of   *)
(* send_json, and the deadlines of wait_for_node_opts and wait_for_proven.)   *)
ClientReturns == op # "none" ~> op = "none"
=============================================================================
