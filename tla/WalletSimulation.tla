-------------------------- MODULE WalletSimulation --------------------------
(***************************************************************************)
(* BaseWallet::simulate_tx, profile_tx and send_tx on top of the PXE's     *)
(* simulate_tx, prove_tx and profile_tx.  Each PXE operation first syncs   *)
(* to the node's tip, so one wallet call may run the same request at two   *)
(* anchors, and the node simulates the public calls at a third block.  The *)
(* wallet answers with values of all of them: the private return values of *)
(* the first execution, the public ones and the gas of the node's, and a   *)
(* transaction whose fees and expiration come from the second anchor.      *)
(*                                                                         *)
(* A call is a record: `public`; `returns`, the values it stores in the    *)
(* execution cache under its returns hash; `witnesses`, the values its     *)
(* main circuit exposes (none for a databus return); `nested`, for each    *)
(* call it makes in turn, the values kept in the nested result; `expires`  *)
(* (0 for none); `fails` and `reverts`, the first block at which its       *)
(* private part fails or its public part reverts (0 for never); `reason`.  *)
(* Block n has timestamp n.                                                *)
(***************************************************************************)
EXTENDS Integers, SequencesExt

CONSTANTS Asked,         \* the requests: mode, calls, max_fee, signed
          FeeAt,         \* fee per gas of each block, a sequence
          MAX_TX_LIFETIME,
          ErrorTypes,    \* registered functions' errors: contract, function, selector, message
          KnownErrors,   \* the selectors the wallet knows, with their messages
          NotDeployed    \* the messages that contain "is not deployed"

VARIABLES ask, stage, head, anchor, report, tx, seen

vars == <<ask, stage, head, anchor, report, tx, seen>>

Nothing == <<>>
Calls == Asked[ask].calls
Mode == Asked[ask].mode

---------------------------------------------------------------------------
(* A private function read at block b returns values of that block. *)
ReadAt(values, b) == [i \in DOMAIN values |-> <<values[i], b>>]

Fails(c, b) == c.fails # 0 /\ c.fails <= b

(* The bundle of one call.  A public call is only queued. *)
Bundle(c, b) ==
    IF c.public
    THEN [simulated |-> <<>>, acir |-> <<>>, returns |-> <<>>, nested |-> <<>>, expiration |-> 0]
    ELSE [simulated |-> ReadAt(IF c.returns # <<>> THEN c.returns ELSE c.witnesses, b),
          acir |-> ReadAt(c.returns, b),
          returns |-> ReadAt(c.witnesses, b),
          nested |-> [i \in DOMAIN c.nested |-> ReadAt(c.nested[i], b)],
          expiration |-> c.expires]

Bundles(b) == [i \in DOMAIN Calls |-> Bundle(Calls[i], b)]

(* aggregate_call_bundles keeps the earliest expiration that is set... *)
EarlierExpiration(one, other) ==
    IF other = 0 THEN one ELSE IF one = 0 \/ other < one THEN other ELSE one
AggregateLatest(bundles) ==
    FoldLeft(LAMBDA one, bundle : IF bundle.expiration # 0 THEN bundle.expiration ELSE one, 0, bundles)
AggregateExpiration(bundles) ==
    FoldLeft(LAMBDA one, bundle : EarlierExpiration(one, bundle.expiration), 0, bundles)

(* ...and prove_tx and profile_tx give the default lifetime to the rest. *)
compute_expiration(b) == b + MAX_TX_LIFETIME
Expiration(b) ==
    LET asked == AggregateExpiration(Bundles(b))
    IN  IF asked # 0 THEN asked ELSE compute_expiration(b)

(* The fee cap is raised to one and a half times the anchor's fee. *)
ensure_min_fees(max_fee, b) ==
    LET least == FeeAt[b] + FeeAt[b] \div 2
    IN  IF max_fee < least THEN least ELSE max_fee

(***************************************************************************)
(* The return values of the PXE's simulation: of a batch, those of every   *)
(* bundle; of one call, those found in the execution tree, or the ACIR     *)
(* call's when the tree has none.                                          *)
(***************************************************************************)
FromTree(bundle) ==
    IF bundle.nested # <<>> THEN bundle.nested[1] ELSE bundle.returns
TreeReturnsOnly(bundles) == IF bundles = <<>> THEN <<>> ELSE FromTree(bundles[1])
PrivateReturns(bundles) ==
    IF bundles = <<>> THEN <<>>
    ELSE IF FromTree(bundles[1]) = <<>> /\ bundles[1].acir # <<>>
         THEN bundles[1].acir
         ELSE FromTree(bundles[1])
ReturnValues(bundles) ==
    IF Len(bundles) > 1
    THEN [i \in DOMAIN bundles |-> bundles[i].simulated]
    ELSE PrivateReturns(bundles)

(* An execution stops at the first private function that fails. *)
Executes(b) == \A i \in DOMAIN Calls : ~Calls[i].public => ~Fails(Calls[i], b)
verify_auth_witness_signatures == Asked[ask].signed

---------------------------------------------------------------------------
(* The node's answer for the public calls of a transaction at block b.     *)
PublicCalls == SelectSeq(Calls, LAMBDA c : c.public)
Reverting(b) == SelectSeq(PublicCalls, LAMBDA c : c.reverts # 0 /\ c.reverts <= b)
PublicReturnValues(b) == [i \in DOMAIN PublicCalls |-> ReadAt(PublicCalls[i].returns, b)]

(* The message of a revert: the failing function's own, any registered     *)
(* function's with that selector, or one the wallet knows.                 *)
Messages(entries, Matches(_)) ==
    LET found == SelectSeq(entries, Matches)
    IN  IF found = <<>> THEN <<>> ELSE <<found[1].message>>
public_function_error_types(reason) ==
    Messages(ErrorTypes, LAMBDA e : /\ e.contract = reason.contract
                                    /\ e.function = reason.function
                                    /\ e.selector = reason.selector)
find_registered_error_message_by_selector(reason) ==
    Messages(ErrorTypes, LAMBDA e : e.selector = reason.selector)
known_assertion_message_by_selector(reason) ==
    Messages(KnownErrors, LAMBDA e : e.selector = reason.selector)
decode_public_assertion_message(reason) ==
    LET own == public_function_error_types(reason)
        any == find_registered_error_message_by_selector(reason)
    IN  IF own # <<>> THEN own
        ELSE IF any # <<>> THEN any
        ELSE known_assertion_message_by_selector(reason)

(* The text of the error holds the decoded message and the raw reason. *)
ErrorText(reason) == {reason.text} \cup ToSet(decode_public_assertion_message(reason))
should_ignore_public_preflight_error(reason) == ErrorText(reason) \cap NotDeployed # {}

---------------------------------------------------------------------------
Init == /\ ask \in DOMAIN Asked
        /\ stage = Mode
        /\ head = 1
        /\ anchor = 0
        /\ report = Nothing
        /\ tx = Nothing
        /\ seen = 0

Finish(outcome) == stage' = outcome

(* External: the chain grows while the call is on its way. *)
NewBlock == /\ head < Len(FeeAt)
            /\ stage \notin {"sent", "done", "failed"}
            /\ head' = head + 1
            /\ UNCHANGED <<ask, stage, anchor, report, tx, seen>>

(* PXE::simulate_tx: sync, run every call, verify the signatures. *)
SimulateTx ==
    /\ stage = "simulate"
    /\ anchor' = head
    /\ IF Executes(head) /\ verify_auth_witness_signatures
       THEN /\ report' = [returns |-> ReturnValues(Bundles(head)), at |-> head, gas |-> 0]
            /\ stage' = "prove"
       ELSE Finish("failed") /\ UNCHANGED report
    /\ UNCHANGED <<ask, head, tx, seen>>

(* PXE::profile_tx verifies no signature and reports the expiration. *)
ProfileTx ==
    /\ stage = "profile"
    /\ anchor' = head
    /\ IF Executes(head)
       THEN /\ report' = [expiration |-> Expiration(head)]
            /\ Finish("done")
       ELSE Finish("failed") /\ UNCHANGED report
    /\ UNCHANGED <<ask, head, tx, seen>>

(* PXE::prove_tx: sync again, run again, fix fees and expiration. *)
ProveTx ==
    /\ stage \in {"prove", "send"}
    /\ anchor' = head
    /\ IF Executes(head) /\ verify_auth_witness_signatures
       THEN /\ tx' = [max_fee |-> ensure_min_fees(Asked[ask].max_fee, head),
                      expiration |-> Expiration(head),
                      calldata |-> PublicCalls]
            /\ stage' = IF PublicCalls # <<>> THEN "preflight"
                        ELSE IF Mode = "send" THEN "submit" ELSE "done"
       ELSE Finish("failed") /\ UNCHANGED tx
    /\ UNCHANGED <<ask, head, report, seen>>

(* has_no_private_return_values looks at the outer list only. *)
has_no_private_return_values(returns) == returns = <<>>

(* BaseWallet::simulate_public_calls for a simulation: a revert is an      *)
(* error; otherwise the node's values and total gas go into the answer.    *)
SimulatePublicCalls ==
    /\ stage = "preflight" /\ Mode = "simulate"
    /\ seen' = head
    /\ IF Reverting(head) # <<>>
       THEN Finish("failed") /\ UNCHANGED report
       ELSE /\ report' = [report EXCEPT
                   !.returns = IF has_no_private_return_values(@) THEN PublicReturnValues(head) ELSE @,
                   !.gas = head]
            /\ Finish("done")
    /\ UNCHANGED <<ask, head, anchor, tx>>

(* The preflight of a transaction to be sent. *)
Preflight ==
    /\ stage = "preflight" /\ Mode = "send"
    /\ seen' = head
    /\ stage' = IF \/ Reverting(head) = <<>>
                   \/ should_ignore_public_preflight_error(Reverting(head)[1].reason)
                THEN "submit" ELSE "failed"
    /\ UNCHANGED <<ask, head, anchor, report, tx>>

(* The node cannot be asked: the error is not one the preflight ignores. *)
PreflightFails ==
    /\ stage = "preflight"
    /\ Finish("failed")
    /\ UNCHANGED <<ask, head, anchor, report, tx, seen>>

(* The transaction goes to the node; TxSubmission follows it from there. *)
Submit ==
    /\ stage = "submit"
    /\ Finish("sent")
    /\ UNCHANGED <<ask, head, anchor, report, tx, seen>>

Next == \/ NewBlock \/ SimulateTx \/ ProfileTx \/ ProveTx
        \/ SimulatePublicCalls \/ Preflight \/ PreflightFails \/ Submit

Spec == Init /\ [][Next]_vars

---------------------------------------------------------------------------
(* What the model's variables range over: a call in progress or finished,  *)
(* at anchors and preflight blocks the chain has reached.                  *)
TypeOK == /\ ask \in DOMAIN Asked
          /\ stage \in {"simulate", "profile", "send", "prove", "preflight",
                        "submit", "sent", "done", "failed"}
          /\ head \in 1..Len(FeeAt)
          /\ anchor \in 0..head /\ seen \in 0..head

(* One call whose nested calls expose values: the code takes theirs.       *)
HidesOwnReturns(c) == c.nested # <<>> /\ c.nested[1] # <<>>
DatabusReturn(c) == c.witnesses = <<>>

(* What BaseWallet::simulate_tx answers for a call is what that call       *)
(* returned in the one execution the answer is about: of a batch, at the   *)
(* call's place; of a single private call, the whole answer; of a single   *)
(* public call, what the node's simulation returned.  It is required of    *)
(* functions that return through the databus and, for a single call, of    *)
(* one whose first nested call exposes no values of its own.               *)
SimulationReturnsTheCalls ==
    stage = "done" /\ Mode = "simulate" =>
        IF Len(Calls) = 1
        THEN IF Calls[1].public
             THEN report.returns = <<ReadAt(Calls[1].returns, seen)>>
             ELSE DatabusReturn(Calls[1]) /\ ~HidesOwnReturns(Calls[1])
                     => report.returns = ReadAt(Calls[1].returns, report.at)
        ELSE \A i \in DOMAIN Calls :
                ~Calls[i].public /\ DatabusReturn(Calls[i])
                   => report.returns[i] = ReadAt(Calls[i].returns, report.at)

(* A transaction send_tx hands to the node pays for the block it lands in  *)
(* as long as the fee grew by at most one half since the anchor, expires   *)
(* no later than any of its calls asked for, and did not revert in the     *)
(* preflight unless the revert said that a contract "is not deployed".     *)
SentWithinLimits ==
    stage = "sent" =>
        /\ tx.max_fee >= Asked[ask].max_fee
        /\ \A b \in anchor..head : 2 * FeeAt[b] <= 3 * FeeAt[anchor] => FeeAt[b] <= tx.max_fee
        /\ \A i \in DOMAIN Calls :
              ~Calls[i].public /\ Calls[i].expires # 0 => tx.expiration <= Calls[i].expires
        /\ \A i \in DOMAIN PublicCalls :
              PublicCalls[i].reverts \in 1..seen
                 => \E j \in 1..i : ErrorText(PublicCalls[j].reason) \cap NotDeployed # {}
=============================================================================
