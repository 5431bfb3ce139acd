--------------------------- MODULE KernelSequence ----------------------------
(****************************************************************************)
(* PrivateKernelExecutionProver::prove_with_kernels                         *)
(* (crates/pxe/src/kernel/execution_prover.rs): the calls of a transaction  *)
(* go through the init, inner, reset, tail and hiding circuits, each fed    *)
(* with the output of the one before, and the steps are folded into one     *)
(* proof.  In simulation mode the circuits are only simulated and there are *)
(* no steps.  Every circuit, and every oracle question its inputs need, may *)
(* fail; the whole call then fails.                                         *)
(*                                                                          *)
(* The circuits are external.  What an output says is the sequence of calls *)
(* it has accumulated, whether they are siloed, whether there are public    *)
(* calls among them and whether it is final.  A folded proof is valid when  *)
(* every kernel step follows the step it verifies (Folds).                  *)
(****************************************************************************)
EXTENDS Integers, Sequences, SequencesExt

CONSTANTS Call,          \* private calls
          EnqueuesPublic,\* those that enqueue a public call
          MaxCalls       \* calls in a transaction

VARIABLES results,    \* execution_results
          simulate,   \* config.simulate
          phase, next,\* what comes next, and the call to be processed next
          output,     \* current_output
          for_public, \* is_for_public, read before the tail
          steps,      \* execution_steps
          proof       \* chonk_proof: <<>> or the steps it was made from

vars == <<results, simulate, phase, next, output, for_public, steps, proof>>

------------------------------------------------------------------------------
Empty == [calls |-> <<>>, silo |-> FALSE, final |-> FALSE, hidden |-> FALSE]

\* The public call requests among the accumulated data.
is_for_public(out) == \E i \in DOMAIN out.calls : out.calls[i] \in EnqueuesPublic

call_to_step(call) == [kind |-> "app", name |-> "private_call", call |-> call]

output_to_step(out, name) == [kind |-> "kernel", name |-> name, out |-> out]

\* What a circuit makes of its previous kernel data and its private call.
build_init_inputs(call) == [Empty EXCEPT !.calls = <<call>>]
build_inner_inputs(call, out) == [out EXCEPT !.calls = Append(@, call)]
build_final_reset_inputs(out) == [out EXCEPT !.silo = TRUE]
build_tail_inputs(out) == [out EXCEPT !.final = TRUE]
build_hiding_inputs(out) == [out EXCEPT !.hidden = TRUE]

\* Mutant: the kernel step is recorded before the call it consumes.
PushStepsKernelFirst(call, out, name) ==
    IF simulate THEN steps ELSE steps \o <<output_to_step(out, name), call_to_step(call)>>

\* The steps recorded for a call and for the circuit that consumes it.
PushSteps(call, out, name) ==
    IF simulate THEN steps ELSE steps \o <<call_to_step(call), output_to_step(out, name)>>

PushStep(out, name) == IF simulate THEN steps ELSE Append(steps, output_to_step(out, name))

------------------------------------------------------------------------------
Fail ==
    /\ phase \notin {"done", "failed"}
    /\ phase' = "failed"
    /\ UNCHANGED <<results, simulate, next, output, for_public, steps, proof>>

InitCircuit ==
    /\ phase = "init" /\ results # <<>>
    /\ output' = build_init_inputs(results[1])
    /\ steps' = PushSteps(results[1], output', "init")
    /\ phase' = "inner" /\ next' = 2
    /\ UNCHANGED <<results, simulate, for_public, proof>>

\* needs_reset is always FALSE: no reset between the calls.
InnerCircuit ==
    /\ phase = "inner" /\ next <= Len(results)
    /\ output' = build_inner_inputs(results[next], output)
    /\ steps' = PushSteps(results[next], output', "inner")
    /\ next' = next + 1
    /\ UNCHANGED <<results, simulate, phase, for_public, proof>>

FinalReset ==
    /\ phase = "inner" /\ next > Len(results)
    /\ output' = build_final_reset_inputs(output)
    /\ steps' = PushStep(output', "reset_final")
    /\ phase' = "tail"
    /\ UNCHANGED <<results, simulate, next, for_public, proof>>

TailCircuit ==
    /\ phase = "tail"
    /\ output' = build_tail_inputs(output)
    /\ for_public' = is_for_public(output)
    /\ steps' = PushStep(output', IF for_public' THEN "tail_to_public" ELSE "tail")
    /\ phase' = IF simulate THEN "chonk" ELSE "hiding"
    /\ UNCHANGED <<results, simulate, next, proof>>

\* The hiding circuit's output is recorded; the result keeps the tail's.
HidingCircuit ==
    /\ phase = "hiding"
    /\ steps' = PushStep(build_hiding_inputs(output),
                         IF for_public THEN "hiding_to_public" ELSE "hiding_to_rollup")
    /\ phase' = "chonk"
    /\ UNCHANGED <<results, simulate, next, output, for_public, proof>>

CreateChonkProof ==
    /\ phase = "chonk"
    /\ proof' = IF simulate \/ steps = <<>> THEN <<>> ELSE <<steps>>
    /\ phase' = "done"
    /\ UNCHANGED <<results, simulate, next, output, for_public, steps>>

Init ==
    /\ results \in UNION {[1..n -> Call] : n \in 0..MaxCalls}
    /\ simulate \in BOOLEAN
    /\ phase = "init" /\ next = 1
    /\ output = Empty /\ for_public = FALSE
    /\ steps = <<>> /\ proof = <<>>

Next ==
    \/ InitCircuit \/ InnerCircuit \/ FinalReset \/ TailCircuit
    \/ HidingCircuit \/ CreateChonkProof \/ Fail

Spec == Init /\ [][Next]_vars

------------------------------------------------------------------------------
(* Properties.                                                              *)

\* What a kernel step must find before it: the call it has added just before
\* it, and the kernel step whose output it has taken up before that.
Folds(s) ==
    \A i \in DOMAIN s :
        LET before == SelectSeq(SubSeq(s, 1, i - 1), LAMBDA x : x.kind = "kernel")
            last == IF before = <<>> THEN Empty ELSE before[Len(before)].out
        IN s[i].kind = "kernel" =>
             CASE s[i].name \in {"init", "inner"} ->
                    /\ i > 1 /\ s[i - 1].kind = "app"
                    /\ s[i].out = [last EXCEPT !.calls = Append(@, s[i - 1].call)]
               [] s[i].name = "reset_final" -> s[i].out = [last EXCEPT !.silo = TRUE]
               [] s[i].name \in {"tail", "tail_to_public"} ->
                    /\ last.silo /\ s[i].out = [last EXCEPT !.final = TRUE]
                    /\ (s[i].name = "tail_to_public")
                         = (\E j \in DOMAIN last.calls : last.calls[j] \in EnqueuesPublic)
               [] OTHER -> last.final /\ s[i].out = [last EXCEPT !.hidden = TRUE]

\* The proof that comes back covers the transaction: its steps fold, the last
\* one hides a final output of all the calls in their order, and what simulation
\* and proving return as public inputs is the same (prove_with_kernels).
ProofCoversCalls ==
    phase = "done" =>
        /\ output = [calls |-> results, silo |-> TRUE, final |-> TRUE, hidden |-> FALSE]
        /\ proof = <<>> <=> simulate
        /\ ~simulate =>
             /\ Folds(proof[1])
             /\ proof[1][Len(proof[1])].out = [output EXCEPT !.hidden = TRUE]
==============================================================================
