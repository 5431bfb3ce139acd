-------------------------- MODULE RealKernelProver --------------------------
(***************************************************************************)
(* Real proofs of the embedded PXE (embedded_pxe.rs).  prove_tx reads the  *)
(* prover_enabled flag twice: once to choose how the account entrypoint is *)
(* executed, once to choose who proves.  A real proof goes through files   *)
(* with fixed names in one working directory and, unless the backend is    *)
(* ts-process, through one helper process of the whole program, held in a  *)
(* static Mutex<Option<_>>.  With bb-subprocess a second set of fixed file *)
(* names carries the execution steps to the ClientIVC helper               *)
(* (kernel/prover.rs).  The helpers themselves are external programs: they *)
(* read the request, write the response and answer, or fail, or exit.      *)
(***************************************************************************)
EXTENDS Naturals, FiniteSets

CONSTANTS
    Tx,             \* the prove_tx calls, one per transaction
    Backends,       \* the values of PXE_REAL_PROOF_BACKEND to consider
    MaxFaults,      \* how often a helper fails or exits
    MaxToggles,     \* how often set_prover_enabled is called
    NumCalls,       \* calls of each payload
    None

VARIABLES
    backend,        \* RealProofBackend::selected()
    enabled,        \* prover_enabled
    toggle,         \* set_prover_enabled past its store: "start", "stop" or "no"
    pc,             \* where each prove_tx is
    attempt,        \* 1 or 2: prove_with_real_kernel_daemon tries twice
    plan,           \* how each transaction was executed
    lock,           \* holder of the daemon mutex
    daemon,         \* "none" (Option::None), "up" or "exited" (Some of a child)
    asked,          \* the daemon holds a message it has not answered
    reply,          \* its answer: "none", "ok", "failed" or "eof"
    files,          \* content of the shared files, by the transaction it is of
    got,            \* the helper's response each call has read
    result,         \* what prove_tx returned
    faults, toggles,
    disturbed       \* two calls were in the proving helper at once, or the
                    \* flag changed while a call was running

vars == <<backend, enabled, toggle, pc, attempt, plan, lock, daemon, asked, reply,
          files, got, result, faults, toggles, disturbed>>

File == {"request", "response", "steps", "chonk"}
Proving == {"write", "spawn", "read", "start", "ask", "wait", "stop",
            "steps", "chonk", "chonk_read", "collect"}
Plan == [acvm : BOOLEAN, known : BOOLEAN]

Init ==
    /\ backend \in Backends
    /\ enabled \in BOOLEAN
    /\ toggle = "no"
    /\ pc = [t \in Tx |-> "idle"]
    /\ attempt = [t \in Tx |-> 1]
    /\ plan = [t \in Tx |-> [acvm |-> FALSE, known |-> FALSE]]
    /\ lock = None /\ daemon = "none"
    /\ asked = FALSE /\ reply = "none"
    /\ files = [f \in File |-> None]
    /\ got = [t \in Tx |-> None]
    /\ result = [t \in Tx |-> None]
    /\ faults = 0 /\ toggles = 0 /\ disturbed = FALSE

Goto(t, label) == pc' = [pc EXCEPT ![t] = label]

Return(t, value) == /\ Goto(t, "done")
                    /\ result' = [result EXCEPT ![t] = value]

Write(f, content) == files' = [files EXCEPT ![f] = content]

(***************************************************************************)
(* The decision of prove_tx.  A payload with public calls, or an enabled   *)
(* prover, is executed through the account's entrypoint circuit; when the  *)
(* account contract is not in the contract store, a payload with public    *)
(* calls falls back to one bundle per call under an empty root.            *)
(***************************************************************************)
(* Mutant: only public calls select the entrypoint circuit. *)
UseAcvmIgnoresProver(public) == public

use_acvm_entrypoint(public) == public \/ enabled

Execute(t) ==
    /\ pc[t] = "idle"
    /\ \E public, known \in BOOLEAN :
        LET wants == use_acvm_entrypoint(public)
        IN  IF wants /\ ~known /\ ~public
            THEN Return(t, [kind |-> "err"]) /\ UNCHANGED plan
            ELSE /\ plan' = [plan EXCEPT ![t] = [acvm |-> wants /\ known, known |-> known]]
                 /\ Goto(t, "executed")
                 /\ UNCHANGED result
    /\ UNCHANGED <<backend, enabled, toggle, attempt, lock, daemon, asked, reply,
                   files, faults, toggles, got, disturbed>>

(* The second read of the flag: simulated kernel or proving helper. *)
Choose(t) ==
    /\ pc[t] = "executed"
    /\ IF enabled
       THEN /\ Goto(t, "write")
            /\ disturbed' = (disturbed \/ \E u \in Tx \ {t} : pc[u] \in Proving)
            /\ UNCHANGED result
       ELSE /\ Return(t, [kind |-> "simulated"])
            /\ UNCHANGED disturbed
    /\ UNCHANGED <<backend, enabled, toggle, attempt, plan, lock, daemon, asked, reply,
                   files, faults, toggles, got>>

(* The root of a bundle aggregate has no public inputs: its first call is
   sent as the entrypoint.  The other bundles are not part of the request. *)
kernel_entrypoint(t) == IF plan[t].acvm THEN 1..NumCalls ELSE {1}

Request(t) == [tx |-> t, calls |-> kernel_entrypoint(t)]

(* Sidecars and request are written under fixed names before either helper. *)
WriteRequest(t) ==
    /\ pc[t] = "write"
    /\ Write("request", Request(t))
    /\ Goto(t, IF backend = "ts-process" THEN "spawn" ELSE "start")
    /\ UNCHANGED <<backend, enabled, toggle, attempt, plan, lock, daemon, asked, reply,
                   result, faults, toggles, got, disturbed>>

(* ts-process: one node process per proof, its exit status checked. *)
RunProcess(t) ==
    /\ pc[t] = "spawn"
    /\ \/ /\ Write("response", files["request"])
          /\ Goto(t, "collect")
          /\ UNCHANGED <<result, faults>>
       \/ /\ faults < MaxFaults
          /\ faults' = faults + 1
          /\ Return(t, [kind |-> "err"])
          /\ UNCHANGED files
    /\ UNCHANGED <<backend, enabled, toggle, attempt, plan, lock, daemon, asked, reply,
                   toggles, got, disturbed>>

(* start_real_kernel_prove_daemon under the mutex: a child that is alive is
   kept, one that exited is dropped and replaced, and a child that does not
   report ready leaves the option empty. *)
StartDaemon(next) ==
    \/ /\ daemon = "up"
       /\ UNCHANGED <<daemon, asked, reply, faults>>
       /\ next
    \/ /\ daemon # "up"
       /\ daemon' = "up" /\ asked' = FALSE /\ reply' = "none"
       /\ UNCHANGED faults
       /\ next

StartFails ==
    /\ daemon # "up"
    /\ faults < MaxFaults
    /\ faults' = faults + 1
    /\ daemon' = "none" /\ asked' = FALSE /\ reply' = "none"

(* What an error of one attempt leads to: the daemon is stopped and the
   request is tried once more, then the call fails. *)
AttemptFails(t) ==
    IF attempt[t] = 1
    THEN /\ attempt' = [attempt EXCEPT ![t] = 2]
         /\ Goto(t, "stop")
         /\ UNCHANGED result
    ELSE Return(t, [kind |-> "err"]) /\ UNCHANGED attempt

Start(t) ==
    /\ pc[t] = "start"
    /\ lock = None
    /\ \/ StartDaemon(Goto(t, "ask")) /\ UNCHANGED <<attempt, result>>
       \/ StartFails /\ AttemptFails(t)
    /\ UNCHANGED <<backend, enabled, toggle, plan, lock, files, toggles, got, disturbed>>

(* The mutex was released since Start: the daemon is checked again, then the
   message is written and the mutex is held until the answer was read. *)
Ask(t) ==
    /\ pc[t] = "ask"
    /\ lock = None
    /\ IF daemon = "up"
       THEN /\ lock' = t
            /\ asked' = TRUE
            /\ Goto(t, "wait")
            /\ UNCHANGED <<attempt, result>>
       ELSE /\ AttemptFails(t)
            /\ UNCHANGED <<lock, asked>>
    /\ UNCHANGED <<backend, enabled, toggle, plan, daemon, reply, files, faults,
                   toggles, got, disturbed>>

(* Mutant: an answer that is not ok returns with the mutex held. *)
TakeReplyHolding(t) ==
    /\ pc[t] = "wait"
    /\ reply # "none"
    /\ reply' = "none"
    /\ IF reply = "ok"
       THEN Goto(t, "read") /\ UNCHANGED <<attempt, result>>
       ELSE AttemptFails(t)
    /\ UNCHANGED <<backend, enabled, toggle, plan, lock, daemon, asked, files, faults,
                   toggles, got, disturbed>>

(* read_protocol_line returned: the response file is read only after an
   answer that says ok. *)
TakeReply(t) ==
    /\ pc[t] = "wait"
    /\ reply # "none"
    /\ reply' = "none"
    /\ IF reply = "ok"
       THEN /\ Goto(t, "read")
            /\ UNCHANGED <<attempt, result, lock>>
       ELSE /\ AttemptFails(t)
            /\ lock' = None
    /\ UNCHANGED <<backend, enabled, toggle, plan, daemon, asked, files, faults,
                   toggles, got, disturbed>>

Real(proof, inputs) == [kind |-> "real", proof |-> proof, inputs |-> inputs]

(* std::fs::read of the response; the guard is dropped on return. *)
ReadResponse(t) ==
    /\ pc[t] = "read"
    /\ lock' = None
    /\ IF backend = "ts-daemon"
       THEN /\ Return(t, Real(files["response"], files["response"]))
            /\ UNCHANGED got
       ELSE /\ got' = [got EXCEPT ![t] = files["response"]]
            /\ Goto(t, "steps")
            /\ UNCHANGED result
    /\ UNCHANGED <<backend, enabled, toggle, attempt, plan, daemon, asked, reply, files,
                   faults, toggles, disturbed>>

(* The ts-process response is read after the process returned. *)
CollectProcess(t) ==
    /\ pc[t] = "collect"
    /\ Return(t, Real(files["response"], files["response"]))
    /\ UNCHANGED <<backend, enabled, toggle, attempt, plan, lock, daemon, asked, reply,
                   files, faults, toggles, got, disturbed>>

stop_real_kernel_prove_daemon ==
    daemon' = "none" /\ asked' = FALSE /\ reply' = "none"

Stop(t) ==
    /\ pc[t] = "stop"
    /\ lock = None
    /\ stop_real_kernel_prove_daemon
    /\ Goto(t, "start")
    /\ UNCHANGED <<backend, enabled, toggle, attempt, plan, lock, files, result, faults,
                   toggles, got, disturbed>>

(***************************************************************************)
(* bb-subprocess: the execution steps of the response go to the ClientIVC  *)
(* helper (create_chonk_proof), again through fixed names, and the         *)
(* directory is removed at the end.  This stage is not retried.            *)
(***************************************************************************)
WriteSteps(t) ==
    /\ pc[t] = "steps"
    /\ Write("steps", got[t])
    /\ Goto(t, "chonk")
    /\ UNCHANGED <<backend, enabled, toggle, attempt, plan, lock, daemon, asked, reply,
                   got, result, faults, toggles, disturbed>>

RunClientIvc(t) ==
    /\ pc[t] = "chonk"
    /\ \/ /\ files["steps"] # None
          /\ Write("chonk", files["steps"])
          /\ Goto(t, "chonk_read")
          /\ UNCHANGED <<result, faults>>
       \/ /\ files["steps"] = None
          /\ Return(t, [kind |-> "err"])
          /\ UNCHANGED <<files, faults>>
       \/ /\ faults < MaxFaults
          /\ faults' = faults + 1
          /\ Return(t, [kind |-> "err"])
          /\ UNCHANGED files
    /\ UNCHANGED <<backend, enabled, toggle, attempt, plan, lock, daemon, asked, reply,
                   got, toggles, disturbed>>

(* The proof is the ClientIVC helper's, the public inputs are those of the
   first response. *)
CollectClientIvc(t) ==
    /\ pc[t] = "chonk_read"
    /\ IF files["chonk"] = None
       THEN Return(t, [kind |-> "err"]) /\ UNCHANGED files
       ELSE /\ Return(t, Real(files["chonk"], got[t]))
            /\ files' = [files EXCEPT !["steps"] = None, !["chonk"] = None]
    /\ UNCHANGED <<backend, enabled, toggle, attempt, plan, lock, daemon, asked, reply,
                   got, faults, toggles, disturbed>>

(***************************************************************************)
(* set_prover_enabled stores the flag, then starts or stops the daemon     *)
(* under the mutex; a failed warm start is only logged.                    *)
(***************************************************************************)
SetProverEnabled(b) ==
    /\ toggle = "no"
    /\ toggles < MaxToggles
    /\ toggles' = toggles + 1
    /\ enabled' = b
    /\ toggle' = IF b THEN "start" ELSE "stop"
    /\ disturbed' = (disturbed \/ \E t \in Tx : pc[t] \notin {"idle", "done"})
    /\ UNCHANGED <<backend, pc, attempt, plan, lock, daemon, asked, reply, files, got,
                   result, faults>>

Toggle ==
    /\ toggle # "no"
    /\ lock = None
    /\ toggle' = "no"
    /\ IF toggle = "start"
       THEN StartDaemon(TRUE) \/ StartFails
       ELSE stop_real_kernel_prove_daemon /\ UNCHANGED faults
    /\ UNCHANGED <<backend, enabled, pc, attempt, plan, lock, files, got, result, toggles,
                   disturbed>>

(***************************************************************************)
(* The daemon: it proves what the request file holds when it reads it,     *)
(* writes the response and answers; it may answer with an error or exit.   *)
(***************************************************************************)
DaemonProves ==
    /\ daemon = "up" /\ asked
    /\ asked' = FALSE
    /\ \/ /\ Write("response", files["request"])
          /\ reply' = "ok"
          /\ UNCHANGED faults
       \/ /\ faults < MaxFaults
          /\ faults' = faults + 1
          /\ reply' = "failed"
          /\ UNCHANGED files
    /\ UNCHANGED <<backend, enabled, toggle, pc, attempt, plan, lock, daemon, got, result,
                   toggles, disturbed>>

DaemonExits ==
    /\ daemon = "up"
    /\ faults < MaxFaults
    /\ faults' = faults + 1
    /\ daemon' = "exited" /\ asked' = FALSE
    /\ reply' = IF asked THEN "eof" ELSE reply
    /\ UNCHANGED <<backend, enabled, toggle, pc, attempt, plan, lock, files, got, result,
                   toggles, disturbed>>

Step(t) == \/ Execute(t) \/ Choose(t) \/ WriteRequest(t) \/ RunProcess(t)
           \/ CollectProcess(t) \/ Start(t) \/ Ask(t) \/ TakeReply(t)
           \/ ReadResponse(t) \/ Stop(t) \/ WriteSteps(t) \/ RunClientIvc(t)
           \/ CollectClientIvc(t)

Finished == /\ \A t \in Tx : pc[t] = "done"
            /\ UNCHANGED vars

Next == \/ \E t \in Tx : Step(t)
        \/ \E b \in BOOLEAN : SetProverEnabled(b)
        \/ Toggle \/ DaemonProves \/ DaemonExits
        \/ Finished

Spec == Init /\ [][Next]_vars

(* A call that runs continues, a waiting caller gets the mutex, and the
   daemon answers or exits: nothing in the code bounds that wait. *)
FairSpec == /\ Spec
            /\ \A t \in Tx : SF_vars(pc[t] # "idle" /\ Step(t))
            /\ WF_vars(Toggle) /\ WF_vars(DaemonProves)

TypeOK ==
    /\ backend \in Backends /\ enabled \in BOOLEAN
    /\ toggle \in {"no", "start", "stop"}
    /\ pc \in [Tx -> Proving \cup {"idle", "executed", "done"}]
    /\ attempt \in [Tx -> 1..2] /\ plan \in [Tx -> Plan]
    /\ lock \in Tx \cup {None} /\ daemon \in {"none", "up", "exited"}
    /\ asked \in BOOLEAN /\ reply \in {"none", "ok", "failed", "eof"}
    /\ DOMAIN files = File /\ DOMAIN got = Tx /\ DOMAIN result = Tx
    /\ faults \in 0..MaxFaults /\ toggles \in 0..MaxToggles
    /\ disturbed \in BOOLEAN

(* A real proof is the caller's own and covers all its calls: proof and
   public inputs are those of the transaction passed to prove_tx, whatever
   helper failed, exited or was restarted on the way and whatever earlier
   calls left in the shared files - provided no second call was inside the
   helper, the flag did not change meanwhile, and the account contract was in
   the store. *)
ProofIsOwn ==
    \A t \in Tx :
        (result[t] # None /\ ~disturbed) =>
            (result[t].kind = "real" =>
                /\ result[t].proof.tx = t /\ result[t].inputs.tx = t
                /\ plan[t].known => result[t].proof.calls = 1..NumCalls)

(* Every prove_tx returns, with two callers, a daemon that fails or exits, and
   the flag switched at any point: the mutex is released on every error path
   and no caller stops the daemon more than once. *)
ProveReturns == \A t \in Tx : pc[t] # "idle" ~> pc[t] = "done"
=============================================================================
