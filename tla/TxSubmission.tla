----------------------------- MODULE TxSubmission -----------------------------
(***************************************************************************)
(* BaseWallet::send_tx from the finished proof on (base_wallet.rs): the    *)
(* node validates the transaction, gets it, and is polled until it is      *)
(* checkpointed (wait_for_tx of node-client) or, when that times out,      *)
(* until some block has been added, and then until its trees are up to     *)
(* date; and wait_for_tx_proven, which polls in the same way.              *)
(*                                                                         *)
(* A request reads the node in one step and is answered in a later one;    *)
(* every request may fail.  Time is counted in polling intervals from the  *)
(* start of the current wait, up to Cap; requests may take any time.       *)
(***************************************************************************)
EXTENDS Naturals

CONSTANTS
    Timeout, Grace,  \* opts.timeout and opts.ignore_dropped_receipts_for
    Patience,        \* the other deadlines: validation, new block, trees
    MaxBlocks        \* bound on the height of the chain

VARIABLES
    status, reverted,  \* the transaction as the node sees it
    blocks,            \* the node's block number
    tree,              \* whether its trees hold the transaction's nullifiers
    pc,
    result,            \* how send_tx or wait_for_tx_proven ended
    target,            \* wait_for_status
    startBlock,        \* start_block
    got,               \* the answer to the last receipt request
    t,                 \* time since the start of the current wait
    nap,               \* whether the wallet sleeps for an interval
    fellBack,          \* history: a new block was taken for the transaction's
    blind,             \* history: the wait for the trees was given up
    raced              \* history: the mempool or an answer took longer than Grace

node == <<status, reverted, blocks, tree>>
ghosts == <<fellBack, blind, raced>>
vars == <<node, pc, result, target, startBlock, got, t, nap, ghosts>>

Status == {"unsent", "unknown", "dropped", "pending", "proposed", "checkpointed", "proven", "finalized"}
NotThere == {"unsent", "unknown", "dropped"}
Final == {"ok", "failed"}
Cap == Timeout + Grace + Patience

(* status_ordinal; a transaction the node does not know is reported dropped. *)
Ordinal == [s \in Status |->
              CASE s \in NotThere -> 0 [] s = "pending" -> 1 [] s = "proposed" -> 2
                [] s = "checkpointed" -> 3 [] s = "proven" -> 4 [] s = "finalized" -> 5]

(* Mutation: any receipt of an included transaction will do. *)
StatusReachedIncluded(s, goal) == Ordinal[s] >= Ordinal["proposed"]

StatusReached(s, goal) == Ordinal[s] >= Ordinal[goal]

TypeOK ==
    /\ status \in Status /\ reverted \in BOOLEAN /\ blocks \in 0..MaxBlocks /\ tree \in BOOLEAN
    /\ pc \in {"idle", "validate", "submit", "block", "ask", "answer", "newblock", "effect", "tree"}
              \union Final
    /\ result \in {"none", "ok", "invalid", "rpc", "dropped", "reverted", "timeout"}
    /\ pc \in Final <=> result # "none"
    /\ target \in {"checkpointed", "proven"}
    /\ startBlock \in 0..MaxBlocks
    /\ got \in [status : Status \union {"error"}, reverted : BOOLEAN]
    /\ t \in 0..Cap /\ nap \in BOOLEAN
    /\ fellBack \in BOOLEAN /\ blind \in BOOLEAN /\ raced \in BOOLEAN

Nothing == [status |-> "error", reverted |-> FALSE]

Init ==
    /\ status = "unsent" /\ reverted = FALSE /\ blocks \in 0..1 /\ tree = FALSE
    /\ pc = "idle" /\ result = "none" /\ target = "checkpointed" /\ startBlock = 0
    /\ got = Nothing /\ t = 0 /\ nap = FALSE
    /\ fellBack = FALSE /\ blind = FALSE /\ raced = FALSE

Awake(p) == pc = p /\ ~nap
Go(p) == pc' = p /\ result' = "none" /\ t' = 0 /\ nap' = FALSE
Again(p) == pc' = p /\ nap' = TRUE /\ UNCHANGED <<result, t>>
End(r) == /\ pc' = IF r = "ok" THEN "ok" ELSE "failed"
          /\ result' = r /\ t' = 0 /\ nap' = FALSE

(* The proof is there and the public preflight did not stop the transaction,
   or send_tx ends with their error. *)
Prove ==
    /\ pc = "idle"
    /\ Go("validate") \/ End("rpc")
    /\ UNCHANGED <<node, target, startBlock, got, ghosts>>

(* validate_tx_when_anchor_available: a node that lags behind the anchor is
   asked again. *)
ValidateTx(answer) ==
    /\ Awake("validate")
    /\ CASE answer = "lag"     -> IF t >= Patience THEN End("invalid") ELSE Again("validate")
         [] answer = "accept"  -> Go("submit")
         [] answer = "invalid" -> End("invalid")
         [] answer = "error"   -> End("rpc")
    /\ UNCHANGED <<node, target, startBlock, got, ghosts>>

(* The node may have taken the transaction although the request failed. *)
Submit ==
    /\ Awake("submit")
    /\ \/ Go("block") /\ status' \in {"unknown", "pending"}
       \/ End("rpc") /\ status' \in {"unsent", "unknown", "pending"}
    /\ UNCHANGED <<reverted, blocks, tree, target, startBlock, got, ghosts>>

(* wait_for_submission_checkpoint up to the wait; an error counts as block 0. *)
ReadBlock ==
    /\ Awake("block")
    /\ startBlock' \in {blocks, 0}
    /\ Go("ask")
    /\ UNCHANGED <<node, target, got, ghosts>>

GetTxReceipt ==
    /\ Awake("ask")
    /\ got' \in {Nothing, [status |-> status, reverted |-> reverted]}
    /\ pc' = "answer"
    /\ UNCHANGED <<node, result, target, startBlock, t, nap, ghosts>>

(* wait_for_tx ends with a timeout: send_tx goes on to wait for a block. *)
TimedOut == IF target = "checkpointed" THEN Go("newblock") ELSE End("timeout")
Reached == IF target = "checkpointed" THEN Go("effect") ELSE End("ok")

(* Mutation: a dropped receipt is final at once. *)
AnswerDroppedAtOnce ==
    /\ Awake("answer")
    /\ CASE got.status \in NotThere -> End("dropped")
         [] got.reverted                          -> End("reverted")
         [] got.status # "error" /\ ~got.reverted /\ StatusReached(got.status, target) -> Reached
         [] OTHER -> IF t + 1 >= Timeout THEN TimedOut ELSE Again("ask")
    /\ got' = Nothing
    /\ UNCHANGED <<node, target, startBlock, ghosts>>

(* Mutation: the deadline is only looked at when a request has failed. *)
AnswerDeadlineOnError ==
    /\ Awake("answer")
    /\ LET dropped == got.status \in NotThere IN
       CASE dropped /\ t >= Grace  -> End("dropped")
         [] ~dropped /\ got.reverted -> End("reverted")
         [] got.status # "error" /\ ~dropped /\ ~got.reverted /\ StatusReached(got.status, target) -> Reached
         [] OTHER -> IF got.status = "error" /\ t + 1 >= Timeout THEN TimedOut ELSE Again("ask")
    /\ got' = Nothing
    /\ UNCHANGED <<node, target, startBlock, ghosts>>

(* One round of wait_for_tx, from the answer to the sleep. *)
Answer ==
    /\ Awake("answer")
    /\ LET dropped == got.status \in NotThere IN
       CASE dropped /\ t >= Grace  -> End("dropped")
         [] ~dropped /\ got.reverted -> End("reverted")
         [] got.status # "error" /\ ~dropped /\ ~got.reverted /\ StatusReached(got.status, target) -> Reached
         [] OTHER -> IF t + 1 >= Timeout THEN TimedOut ELSE Again("ask")
    /\ got' = Nothing
    /\ UNCHANGED <<node, target, startBlock, ghosts>>

(* The second loop of wait_for_submission_checkpoint: any new block will do. *)
AwaitNewBlock ==
    /\ Awake("newblock")
    /\ \/ End("rpc") /\ UNCHANGED fellBack
       \/ blocks > startBlock /\ Go("effect") /\ fellBack' = TRUE
       \/ blocks =< startBlock /\ UNCHANGED fellBack
             /\ IF t >= Patience THEN End("timeout") ELSE Again("newblock")
    /\ UNCHANGED <<node, target, startBlock, got, blind, raced>>

(* wait_for_world_state: without the transaction's effect it only sleeps. *)
GetTxEffect ==
    /\ Awake("effect")
    /\ \/ StatusReached(status, "proposed") /\ Go("tree") /\ UNCHANGED blind
       \/ End("ok") /\ blind' = TRUE
    /\ UNCHANGED <<node, target, startBlock, got, fellBack, raced>>

(* Failing requests are repeated, and the deadline is no error. *)
AwaitTree ==
    /\ Awake("tree")
    /\ \/ tree /\ End("ok") /\ UNCHANGED blind
       \/ t >= Patience /\ End("ok") /\ blind' = TRUE
       \/ t < Patience /\ Again("tree") /\ UNCHANGED blind
    /\ UNCHANGED <<node, target, startBlock, got, fellBack, raced>>

(* The application goes on to wait_for_tx_proven. *)
WaitForTxProven ==
    /\ pc = "ok" /\ target = "checkpointed"
    /\ target' = "proven"
    /\ Go("ask")
    /\ UNCHANGED <<node, startBlock, got, ghosts>>

Wallet ==
    \/ Prove \/ Submit \/ ReadBlock \/ GetTxReceipt \/ Answer
    \/ \E answer \in {"accept", "invalid", "lag", "error"} : ValidateTx(answer)
    \/ AwaitNewBlock \/ GetTxEffect \/ AwaitTree

(* Time passes, and ends a sleep. *)
Tick ==
    /\ pc \notin Final \union {"idle"} /\ (nap \/ t < Cap)
    /\ t' = IF t < Cap THEN t + 1 ELSE t
    /\ nap' = FALSE
    /\ raced' = (raced \/ (pc = "answer" /\ got.status = "unknown"))
    /\ UNCHANGED <<node, pc, result, target, startBlock, got, fellBack, blind>>

Unchanging == UNCHANGED <<pc, result, target, startBlock, got, t, nap, fellBack, blind>>
Unincluded == UNCHANGED <<reverted, blocks, tree>>

(* The node: the transaction reaches the mempool, *)
Accept ==
    /\ status = "unknown"
    /\ status' = "pending"
    /\ raced' = (raced \/ pc \in Final \/ (pc # "block" /\ t >= Grace))
    /\ Unchanging /\ Unincluded

(* is dropped from it, *)
Drop ==
    /\ status = "pending"
    /\ status' = "dropped"
    /\ Unchanging /\ Unincluded /\ UNCHANGED raced

(* is included in a block, *)
Include ==
    /\ status = "pending" /\ blocks < MaxBlocks
    /\ status' = "proposed" /\ blocks' = blocks + 1 /\ reverted' \in BOOLEAN
    /\ Unchanging /\ UNCHANGED <<tree, raced>>

(* which may be pruned before it is checkpointed, *)
Prune ==
    /\ status = "proposed"
    /\ status' = "pending" /\ blocks' = blocks - 1 /\ reverted' = FALSE /\ tree' = FALSE
    /\ Unchanging /\ UNCHANGED raced

(* or goes on; *)
Advance ==
    /\ \E s \in {"checkpointed", "proven", "finalized"} :
          Ordinal[s] = Ordinal[status] + 1 /\ status' = s
    /\ Unchanging /\ Unincluded /\ UNCHANGED raced

(* the trees follow, *)
UpdateTree ==
    /\ Ordinal[status] >= 2 /\ ~tree
    /\ tree' = TRUE
    /\ Unchanging /\ UNCHANGED <<status, reverted, blocks, raced>>

(* and there are blocks of others. *)
OtherBlock ==
    /\ blocks < MaxBlocks /\ blocks' = blocks + 1
    /\ Unchanging /\ UNCHANGED <<status, reverted, tree, raced>>

Node == Accept \/ Drop \/ Include \/ Prune \/ Advance \/ UpdateTree \/ OtherBlock

Next == Wallet \/ WaitForTxProven \/ Tick \/ Node

Spec == Init /\ [][Next]_vars

(* The wallet's task runs when it can, and time does not stand still. *)
FairSpec == Spec /\ WF_vars(Wallet) /\ WF_vars(Tick)
-----------------------------------------------------------------------------
(* When send_tx returns Ok because its receipt said so, the transaction is
   checkpointed and did not revert, and the trees hold its nullifiers unless
   the wait for them was given up; when wait_for_tx_proven does, it is proven. *)
OkMeansReached ==
    pc = "ok" =>
        /\ \/ fellBack /\ target = "checkpointed"
           \/ Ordinal[status] >= Ordinal[target] /\ ~reverted
        /\ fellBack \/ blind \/ tree

(* The grace period absorbs the race between the mempool and the first polls:
   if the transaction reached the mempool within it and no answer was late,
   an error that it was dropped is right. *)
DroppedMeansDropped == result = "dropped" /\ ~raced => status \in {"dropped", "unknown"}

(* What send_tx and wait_for_tx_proven tell their caller is true. *)
OutcomesTrue == OkMeansReached /\ DroppedMeansDropped

(* Every wait has an end: send_tx and wait_for_tx_proven return whatever the
   node does. *)
CallReturns == pc # "idle" ~> pc \in Final

(* While the trees are waited for, the transaction has been included. *)
ConfirmedBeforeTrees == pc \in {"effect", "tree"} => Ordinal[status] >= 2
=============================================================================
