----------------------------- MODULE Deployment ------------------------------
(****************************************************************************)
(* Contract deployment end to end: DeployMethod::send of                    *)
(* crates/contract/src/deployment.rs builds the payload and the instance it *)
(* will return; the PXE executes the two registry calls itself              *)
(* (protocol_private_execution at the top level, the handle_nested_publish  *)
(* functions below an account entrypoint) and recomputes the address it     *)
(* publishes; BaseWallet::wait_for_contract then polls the node for the     *)
(* address the caller was promised.                                         *)
(*                                                                          *)
(* Several deployments run at once.  The chain takes a transaction or       *)
(* refuses it for a nullifier it already has; the node shows a publication  *)
(* some time after it is in the chain; a pruned block takes its             *)
(* publications back.  An address is the tuple of what it is derived from.  *)
(****************************************************************************)
EXTENDS Integers, Sequences, FiniteSets

CONSTANTS Task,        \* calls of DeployMethod::send
          Account,     \* senders
          Options,     \* the DeployOptions tried, with the artifact's class
          Zero,        \* the zero address
          NoOne,       \* opts.from is None
          MaxPolls,    \* loops of wait_for_contract before its 30 s are over
          MaxFaults,   \* failed node reads
          MaxPrunes    \* pruned transactions

VARIABLES calls,       \* Task -> the state of the call
          chain,       \* nullifiers of the included transactions
          shown,       \* those whose publication the node shows
          known,       \* instances registered with the wallet
          faults, prunes

vars == <<calls, chain, shown, known, faults, prunes>>

------------------------------------------------------------------------------
(* The instance and the payload.                                            *)

compute_contract_address_from_instance(i) == <<i.class, i.salt, i.deployer>>

\* The deployer is the sender unless the options name one.
with_effective_from(opts, from) ==
    IF opts.universal \/ opts.from # NoOne THEN opts ELSE [opts EXCEPT !.from = from]

\* The instance the caller gets back.
get_instance(opts) ==
    [class    |-> opts.class,
     salt     |-> opts.salt,
     deployer |-> IF opts.universal \/ opts.from = NoOne THEN Zero ELSE opts.from]

publish_contract_class(class) == [call |-> "class", class |-> class]

\* The arguments carry the salt, the class and whether the deployer is zero,
\* not the deployer.
publish_instance(instance) ==
    [call |-> "instance", class |-> instance.class, salt |-> instance.salt,
     universal |-> instance.deployer = Zero]

\* The payload of DeployMethod::request, given what the class lookup said.
RequestPayload(opts, registered) ==
    (IF opts.skip_class \/ registered THEN <<>> ELSE <<publish_contract_class(opts.class)>>)
      \o (IF opts.skip_instance THEN <<>> ELSE <<publish_instance(get_instance(opts))>>)
      \o (IF opts.skip_initialization THEN <<>>
          ELSE <<[call |-> "constructor",
                  to |-> compute_contract_address_from_instance(get_instance(opts))]>>)

------------------------------------------------------------------------------
(* The PXE's side.                                                          *)

\* Mutant: the PXE takes the sender as deployer even of a universal instance.
PublishedInstanceAlwaysSender(args, origin) ==
    [class |-> args.class, salt |-> args.salt, deployer |-> origin]

\* The instance that publish_for_public_execution publishes: the deployer is
\* recomputed from the flag and the origin.  The top-level handler and the
\* nested one agree, since the account sets itself as sender for tags.
PublishedInstance(args, origin) ==
    [class |-> args.class, salt |-> args.salt,
     deployer |-> IF args.universal THEN Zero ELSE origin]

\* The nullifier each handler emits: the class id, or the instance's address.
Emitted(payload, origin) ==
    {IF payload[i].call = "class" THEN <<"class", payload[i].class>>
     ELSE <<"instance",
            compute_contract_address_from_instance(PublishedInstance(payload[i], origin))>>
        : i \in {j \in DOMAIN payload : payload[j].call # "constructor"}}

------------------------------------------------------------------------------
(* DeployMethod::send.                                                      *)

Goto(t, pc) == calls' = [calls EXCEPT ![t].pc = pc]

\* The address a call waits for.
AddressOf(t) == compute_contract_address_from_instance(calls[t].instance)

Fail == faults < MaxFaults /\ faults' = faults + 1

Begin(t, opts, from) ==
    /\ calls[t].pc = "idle"
    /\ LET effective == with_effective_from(opts, from) IN
         /\ calls' = [calls EXCEPT ![t] = [@ EXCEPT
                !.pc = "request", !.opts = effective, !.sender = from,
                !.instance = get_instance(effective)]]
         /\ known' = IF opts.skip_registration THEN known
                     ELSE known \cup {get_instance(effective)}
    /\ UNCHANGED <<chain, shown, faults, prunes>>

\* The class is looked up; an error counts as "not registered".
Request(t) ==
    /\ calls[t].pc = "request"
    /\ \E registered \in BOOLEAN :
         /\ \/ registered = (<<"class", calls[t].opts.class>> \in shown) /\ UNCHANGED faults
            \/ ~registered /\ ~calls[t].opts.skip_class /\ Fail
         /\ calls' = [calls EXCEPT ![t].pc = "send",
                                   ![t].payload = RequestPayload(calls[t].opts, registered)]
    /\ UNCHANGED <<chain, shown, known, prunes>>

\* The transaction is sent; send_tx returns once it is in a block, or fails
\* when the chain refuses one of its nullifiers.
Send(t) ==
    /\ calls[t].pc = "send"
    /\ LET nullifiers == Emitted(calls[t].payload, calls[t].sender) IN
         IF nullifiers \cap chain = {}
         THEN /\ chain' = chain \cup nullifiers
              /\ calls' = [calls EXCEPT
                    ![t].published = nullifiers,
                    ![t].pc = IF calls[t].opts.skip_instance THEN "ok" ELSE "contract"]
         ELSE Goto(t, "refused") /\ UNCHANGED chain
    /\ UNCHANGED <<shown, known, faults, prunes>>

\* A reading of wait_for_contract found nothing: another turn, or the timeout.
Miss(t) ==
    IF calls[t].polls >= MaxPolls THEN Goto(t, "timeout")
    ELSE calls' = [calls EXCEPT ![t].pc = "contract", ![t].polls = @ + 1]

\* Mutant: no second look after the stabilization pause.
ReadingsOnce == [contract |-> "class", class |-> "ok", contract2 |-> "class2",
                 class2 |-> "ok"]

\* The readings, in order, and where a reading that succeeds leads.
Readings == [contract |-> "class", class |-> "contract2", contract2 |-> "class2",
             class2 |-> "ok"]

NextReading(pc) == Readings[pc]

\* Is there what a reading asks for?  The class is that of the contract read.
Answers(t) ==
    IF calls[t].pc \in {"contract", "contract2"}
    THEN <<"instance", AddressOf(t)>> \in shown
    ELSE <<"class", calls[t].instance.class>> \in shown

Read(t) ==
    /\ calls[t].pc \in DOMAIN Readings
    /\ \/ /\ IF Answers(t) THEN Goto(t, NextReading(calls[t].pc)) ELSE Miss(t)
          /\ UNCHANGED faults
       \/ Goto(t, "failed") /\ Fail
    /\ UNCHANGED <<chain, shown, known, prunes>>

------------------------------------------------------------------------------
(* The node (external).                                                     *)

ShowPublication ==
    /\ \E n \in chain \ shown : shown' = shown \cup {n}
    /\ UNCHANGED <<calls, chain, known, faults, prunes>>

\* The block of a call's transaction is pruned.  A call that has taken its
\* last reading of the contract cannot know.
Prune(t) ==
    /\ prunes < MaxPrunes
    /\ calls[t].published # {}
    /\ chain' = chain \ calls[t].published
    /\ shown' = shown \ calls[t].published
    /\ calls' = [u \in Task |->
          [calls[u] EXCEPT !.published = IF u = t THEN {} ELSE @,
                           !.excused = @ \/ calls[u].pc \in {"class2", "ok"}]]
    /\ prunes' = prunes + 1
    /\ UNCHANGED <<known, faults>>

------------------------------------------------------------------------------
NoInstance == [class |-> NoOne, salt |-> NoOne, deployer |-> NoOne]

Idle == [pc |-> "idle", opts |-> CHOOSE o \in Options : TRUE, sender |-> NoOne,
         instance |-> NoInstance, payload |-> <<>>, polls |-> 0,
         published |-> {}, excused |-> FALSE]

Init ==
    /\ calls = [t \in Task |-> Idle]
    /\ chain = {} /\ shown = {} /\ known = {}
    /\ faults = 0 /\ prunes = 0

Deploy(t) ==
    \/ \E opts \in Options, from \in Account : Begin(t, opts, from)
    \/ Request(t)
    \/ Send(t)
    \/ Read(t)

Next ==
    \/ \E t \in Task : Deploy(t) \/ Prune(t)
    \/ ShowPublication

Spec == Init /\ [][Next]_vars

------------------------------------------------------------------------------
(* Properties.                                                              *)

Pc == {"idle", "request", "send", "contract", "class", "contract2", "class2",
       "ok", "refused", "timeout", "failed"}

\* Every variable has its type, and the node shows only what is in the chain.
TypeOK ==
    /\ \A t \in Task : calls[t].pc \in Pc /\ calls[t].polls \in 0..MaxPolls
    /\ shown \subseteq chain
    /\ faults \in 0..MaxFaults /\ prunes \in 0..MaxPrunes

\* The options name the sender as deployer, or nobody, or ask for a universal
\* deployment.
NamesSender(t) == calls[t].opts.universal \/ calls[t].opts.from = calls[t].sender

\* The PXE publishes the instance that send returns to the caller, although it
\* gets the deployer only as a flag and recomputes the address
\* (publish_instance, protocol_private_execution, handle_nested_publish_instance).
\* The constructor is called at that address.  It needs options that do not
\* name another account.
PublishedIsReturned ==
    \A t \in Task :
        NamesSender(t) =>
            \A i \in DOMAIN calls[t].payload :
                LET call == calls[t].payload[i] IN
                /\ call.call = "instance" =>
                     PublishedInstance(call, calls[t].sender) = calls[t].instance
                /\ call.call = "constructor" => call.to = AddressOf(t)

\* When send reports a deployed instance, the node shows the contract and its
\* class at the address that send returns, and it was so after the pause too:
\* only a block pruned after the last reading can take it away
\* (BaseWallet::wait_for_contract).
DeployedIsVisible ==
    \A t \in Task :
        calls[t].pc = "ok" /\ ~calls[t].excused /\ ~calls[t].opts.skip_instance =>
            /\ <<"instance", AddressOf(t)>> \in shown
            /\ <<"class", calls[t].instance.class>> \in shown
            /\ ~calls[t].opts.skip_registration => calls[t].instance \in known

\* docs/src/guides/deploying-contracts.md:60: deploying again with the same
\* salt and arguments returns the existing instance rather than an error.  The
\* chain refuses a deployment only if its instance is not the one it has.  It
\* does not hold: the second transaction repeats the first one's nullifiers.
RedeployRecognised ==
    \A t \in Task :
        calls[t].pc = "refused" => <<"instance", AddressOf(t)>> \notin shown
==============================================================================
