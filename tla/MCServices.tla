----------------------------- MODULE MCServices -----------------------------
(* What the client does again and again against a chain, a node and helper   *)
(* processes that fail: fetching logs, storing what they hold, proving,      *)
(* submitting, waiting.                                                      *)
EXTENDS MCRegisters, Integers, Sequences, TLC

CONSTANTS Torn, None

(* Two secrets: one with enough indexes for gaps and logs out of order, one  *)
(* whose only log a failing request may cost the other its logs.             *)
Logs == INSTANCE LogService WITH
    Fetcher <- {"f"}, Secret <- {"s1", "s2"}, WindowLen <- 2, MaxIndex <- 3,
    MaxUsed <- "s1" :> 3 @@ "s2" :> 1,
    used <- r1, flight <- r2, logs <- r3, finalized <- r4, array <- r5, pc <- r6, loc <- r7,
    missed <- r8, dropped <- r9

(* One message of each kind. *)
Oracle == INSTANCE UtilityOracle WITH
    Message <- {"m1", "m2", "m3"},
    KindOf <- "m1" :> "note" @@ "m2" :> "event" @@ "m3" :> "partial",
    MaxFailures <- 2, MaxPrunes <- 1,
    chain <- r1, completed <- r2, array <- r3, notes <- r4, events <- r5, at <- r6, work <- r7,
    fetched <- r8, failures <- r9, prunes <- r10, dirty <- r11

Submission == INSTANCE TxSubmission WITH
    Timeout <- 3, Grace <- 2, Patience <- 2, MaxBlocks <- 2,
    status <- r1, reverted <- r2, blocks <- r3, tree <- r4, pc <- r5, result <- r6, target <- r7,
    startBlock <- r8, got <- r9, t <- r10, nap <- r11, fellBack <- r12, blind <- r13, raced <- r14

(* Two calls at once on each backend, helpers that fail twice; while the     *)
(* backend may be the daemon, the prover is switched on or off once.         *)
Prover == INSTANCE RealKernelProver WITH
    Tx <- {"t1", "t2"}, Backends <- {"ts-process", "ts-daemon"},
    MaxFaults <- 2, MaxToggles <- 1, NumCalls <- 2,
    backend <- r1, enabled <- r2, toggle <- r3, pc <- r4, attempt <- r5, plan <- r6, lock <- r7,
    daemon <- r8, asked <- r9, reply <- r10, files <- r11, got <- r12, result <- r13,
    faults <- r14, toggles <- r15, disturbed <- r16

BbProver == INSTANCE RealKernelProver WITH
    Tx <- {"t1", "t2"}, Backends <- {"bb-subprocess"},
    MaxFaults <- 2, MaxToggles <- 0, NumCalls <- 2,
    backend <- r1, enabled <- r2, toggle <- r3, pc <- r4, attempt <- r5, plan <- r6, lock <- r7,
    daemon <- r8, asked <- r9, reply <- r10, files <- r11, got <- r12, result <- r13,
    faults <- r14, toggles <- r15, disturbed <- r16

Client == INSTANCE NodeClient WITH
    Timeout <- 3, ReceiptBlock <- 2, MaxFaults <- 3,
    up <- r1, proven <- r2, taken <- r3, op <- r4, try <- r5, elapsed <- r6, result <- r7,
    rewritten <- r8, lost <- r9, faults <- r10

-----------------------------------------------------------------------------
Init ==
    \/ focus = "logs" /\ Logs!Init /\ Off10
    \/ focus = "oracle" /\ Oracle!Init /\ Off12
    \/ focus = "submission" /\ Submission!Init /\ Off15
    \/ focus = "prover" /\ (Prover!Init \/ BbProver!Init)
    \/ focus = "client" /\ Client!Init /\ Off11

Next ==
    \/ focus = "logs" /\ Logs!Next /\ Keep10
    \/ focus = "oracle" /\ Oracle!Next /\ Keep12
    \/ focus = "submission" /\ Submission!Next /\ Keep15
    \/ focus = "prover" /\ r1 # "bb-subprocess" /\ Prover!Next /\ Keep17
    \/ focus = "prover" /\ r1 = "bb-subprocess" /\ BbProver!Next /\ Keep17
    \/ focus = "client" /\ Client!Next /\ Keep11

Spec == Init /\ [][Next]_vars

(* The fairness of each component's FairSpec.  A behaviour has one focus, so *)
(* being fair to a disjunction over the foci is being fair in each.          *)
Running ==
    \/ focus = "logs" /\ Logs!FetchStep("f") /\ Keep10
    \/ focus = "oracle" /\ Oracle!SyncStep /\ Keep12
    \/ focus = "submission" /\ Submission!Wallet /\ Keep15
    \/ focus = "prover" /\ Prover!Toggle /\ Keep17
    \/ focus = "client" /\ Client!Client /\ Keep11

Around ==
    \/ focus = "submission" /\ Submission!Tick /\ Keep15
    \/ focus = "prover" /\ Prover!DaemonProves /\ Keep17

Repeated(secret, tx) ==
    \/ focus = "logs" /\ r7["f"].secret = secret /\ Logs!LoadLogs("f") /\ Keep10
    \/ focus = "prover" /\ r4[tx] # "idle" /\ Prover!Step(tx) /\ Keep17

FairSpec ==
    /\ Spec
    /\ WF_vars(Running) /\ WF_vars(Around)
    /\ SF_vars(Repeated("s1", "t1")) /\ SF_vars(Repeated("s2", "t2"))

-----------------------------------------------------------------------------
(* The variables of the component in focus hold values of their types.       *)
TypeOK ==
    /\ focus = "logs" => Logs!TypeOK
    /\ focus = "oracle" => Oracle!TypeOK
    /\ focus = "submission" => Submission!TypeOK
    /\ focus = "prover" => Prover!TypeOK \/ BbProver!TypeOK
    /\ focus = "client" => Client!TypeOK

(* No message is lost on its way to the stores, whatever fails: a log below  *)
(* the stored index has been handed on (load_logs_for_range), a message      *)
(* handed on is in an array or a store (validate_and_store_enqueued_notes_   *)
(* and_events), and answers stay paired with their partial notes             *)
(* (bulk_retrieve_logs).                                                     *)
MessagesKept ==
    /\ focus = "logs" => Logs!NoLogSkipped
    /\ focus = "oracle" => Oracle!MessageKept /\ Oracle!ResponsesAligned

(* When send_tx and wait_for_tx_proven return Ok the transaction has reached *)
(* the status they wait for, and an error that it was dropped is right if    *)
(* the mempool and the answers were not slower than the grace period         *)
(* (wait_for_tx of node.rs, BaseWallet::send_tx).                            *)
OutcomesTrue == focus = "submission" => Submission!OutcomesTrue

(* A real proof is of the transaction passed to prove_tx and of all its      *)
(* calls, whatever helper failed or was restarted and whatever earlier calls *)
(* left in the shared files, if the calls did not overlap (prove_tx).        *)
ProofIsOwn == focus = "prover" => Prover!ProofIsOwn

(* The stored index of a secret is never lowered by one fetcher              *)
(* (update_highest_finalized_index).                                         *)
FinalizedNeverLowered == [][focus = "logs" => Logs!FinalizedStep]_vars

(* What the submission of a transaction answers is true of the node's pool   *)
(* although requests are repeated after a lost answer (send_json, call_void).*)
SubmitTold == [][focus = "client" => Client!SubmitToldStep]_vars

(* Every log that stays on the chain within reach of the window is handed on *)
(* in the end, and the request arrays are emptied again and again, as long   *)
(* as no event among them is off the chain (fetch_tagged_logs, validate_and_ *)
(* store_enqueued_notes_and_events).                                         *)
Waiting(l) == \/ focus = "logs" /\ l \in r3
              \/ focus = "oracle"
Delivered(l) == \/ focus = "logs" /\ Logs!Settled(l)
                \/ focus = "oracle" /\ Oracle!Drained

MessagesDelivered ==
    \A l \in {<<"s1", 3>>, <<"s2", 1>>} : Waiting(l) ~> Delivered(l)

(* Every call returns, whatever the node and the helpers do: send_tx and     *)
(* wait_for_tx_proven, prove_tx with the daemon's mutex, and the client's    *)
(* requests and polling loops.  Of the two proving calls, which are alike,   *)
(* one is watched.                                                           *)
Calling ==
    \/ focus = "submission" /\ r5 # "idle"
    \/ focus = "prover" /\ r4["t1"] # "idle"
    \/ focus = "client" /\ r4 # "none"

Returned ==
    \/ focus = "submission" /\ r5 \in Submission!Final
    \/ focus = "prover" /\ r4["t1"] = "done"
    \/ focus = "client" /\ r4 = "none"

CallsReturn == Calling ~> Returned
=============================================================================
