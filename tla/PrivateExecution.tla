---------------------------- MODULE PrivateExecution ----------------------------
(***************************************************************************)
(* The private execution of one transaction: the calls of the entrypoint   *)
(* payload, one after the other, each with an oracle of its own            *)
(* (execution/oracle.rs) that collects side effects and starts a nested    *)
(* oracle for every nested call; then the results are put side by side     *)
(* (aggregate_call_bundles) and go through the simulated kernel.           *)
(*                                                                         *)
(* There are two counters.  The circuit numbers all its side effects and   *)
(* passes the number to most notifications; the oracle numbers on its own  *)
(* those for which it is not given one.                                    *)
(*                                                                         *)
(* Contents are abstract: every side effect has an id, in order of         *)
(* emission, so two notes never have the same hash, and a public call's    *)
(* calldata and a class log's fields have the id of the call and the log.  *)
(* Read requests and offchain effects, which are collected and merged like *)
(* the ones here, are left out.                                            *)
(***************************************************************************)
EXTENDS SimulatedKernel, TLC

CONSTANTS
    Contract,
    DbNote,      \* active notes of the note store, with a contract and a negative id
    MaxEffects,  \* bound on the side effects of the transaction
    MaxRare,     \* the same for one with class logs or through the account's entrypoint
    MaxOracles,  \* bound on its calls, those of the payload and nested ones
    MaxSize      \* bound on calls and side effects together

VARIABLES
    stack,    \* the oracles of the running call and of its callers, the running one last
    bundles,  \* the results of the finished payload calls, each the sequence of its calls
    phantom,  \* the note persist_pending_notes stored under nullifier zero, if any
    out,      \* the kernel's output
    status,   \* "running", "failed" or "done"
    oracles,  \* number of calls so far
    emitted   \* history: what the circuits did, in order

vars == <<stack, bundles, phantom, out, status, oracles, emitted>>

NoNote == [id |-> 0, contract |-> "none"]
FirstCounter == 2

Top == stack[Len(stack)]
Frame(f) == [stack EXCEPT ![Len(stack)] = f]
Running == status = "running" /\ stack # <<>>
NewId == Len(emitted) + 1

Emitted(kind) == {i \in DOMAIN emitted : emitted[i].kind = kind}

(* The bounds: a call is made only if it can still have a side effect. *)
EffectsLeft(kinds) ==
    LET total == Len(emitted) + Len(kinds) IN
    /\ total =< MaxEffects /\ total + oracles =< MaxSize
    /\ total > MaxRare => "classes" \notin ToSet(kinds) /\ Emitted("classes") = {}
CallsLeft == oracles < MaxOracles /\ Len(emitted) + oracles + 2 =< MaxSize /\ EffectsLeft(<<"nulls">>)

(* PrivateExecutionOracle::new, and the circuit that calls it: next is the
   circuit's next counter, one more than the counter it was started with. *)
NewFrame(c, static, start) ==
    [contract |-> c, static |-> static, counter |-> 0, next |-> start + 1,
     notes |-> <<>>, nulls |-> <<>>, logs |-> <<>>, pubs |-> <<>>, map |-> <<>>,
     teardown |-> NoTeardown, calldata |-> <<>>, classes |-> <<>>,
     consumed |-> {}, min |-> 0, revertible |-> FALSE, results |-> <<>>,
     start |-> start, inherited |-> [notes |-> 0, nulls |-> 0, keys |-> {}],
     circuitNotes |-> <<>>, circuitLogs |-> <<>>]

Init ==
    /\ stack = <<>>
    /\ bundles = <<>>
    /\ phantom = NoNote
    /\ out = [tail |-> Process(<<>>, 0), calldata |-> <<>>, fields |-> <<>>]
    /\ status = "running"
    /\ oracles = 0
    /\ emitted = <<>>

(* A further call of the payload, with an oracle of its own. *)
StartCall(c, static) ==
    /\ status = "running" /\ stack = <<>> /\ CallsLeft
    /\ oracles' = oracles + 1
    /\ stack' = <<NewFrame(c, static, FirstCounter)>>
    /\ UNCHANGED <<bundles, phantom, out, status, emitted>>

Event(kind, note, raw) ==
    [kind |-> kind, note |-> note, raw |-> raw, call |-> Len(bundles) + 1,
     own |-> kind = "logs" /\ Len(stack) = 1, after |-> stack = <<>> \/ stack[1].revertible]

Emit(kind, note, raw) ==
    /\ EffectsLeft(<<kind>>)
    /\ emitted' = Append(emitted, Event(kind, note, raw))
    /\ UNCHANGED <<bundles, phantom, out, status, oracles>>

Mutable == Running /\ ~Top.static
NewNote(raw) == [id |-> NewId, counter |-> Top.next, raw |-> raw, contract |-> Top.contract]

NotifyCreatedNote ==
    /\ Mutable
    /\ Emit("notes", 0, FALSE)
    /\ stack' = Frame([Top EXCEPT !.next = Top.next + 1,
                                  !.notes = Append(Top.notes, NewNote(FALSE)),
                                  !.circuitNotes = Append(Top.circuitNotes, NewNote(FALSE))])

(* A note hash that only the circuit knows of. *)
PushNoteHash ==
    /\ Running /\ ~Top.static
    /\ Emit("notes", 0, TRUE)
    /\ stack' = Frame([Top EXCEPT !.next = Top.next + 1,
                                  !.circuitNotes = Append(Top.circuitNotes, NewNote(TRUE))])

(* get_notes.  The stored notes that were not consumed in this call: *)
StoredNotes(f) == {n \in DbNote : n.contract = f.contract /\ n.id \notin f.consumed}

(* the pending ones that were not nullified: *)
PendingNotes(f) == {n \in ToSet(f.notes) : /\ ~n.raw
                                           /\ n.contract = f.contract
                                           /\ n.counter \notin DOMAIN f.map}

(* and a note stored with nullifier zero, which no filter removes. *)
PhantomNotes(f) == {n \in {phantom} : n.contract = f.contract}

Nullify(id, of, counter) == [id |-> id, of |-> of, counter |-> counter]

(* notify_nullified_note for a stored note, which goes with hash zero or one
   that is not pending. *)
NullifyStored(n) ==
    /\ Mutable /\ n \in StoredNotes(Top) \union PhantomNotes(Top)
    /\ Emit("nulls", n.id, FALSE)
    /\ stack' = Frame([Top EXCEPT !.next = Top.next + 1,
                                  !.nulls = Append(Top.nulls, Nullify(NewId, 0, Top.next)),
                                  !.consumed = Top.consumed \union {n.id}])

(* notify_nullified_note for a pending one: the pair is noted for squashing. *)
NullifyPending(n) ==
    /\ Mutable /\ n \in PendingNotes(Top)
    /\ Emit("nulls", n.id, FALSE)
    /\ stack' = Frame([Top EXCEPT !.next = Top.next + 1,
                                  !.nulls = Append(Top.nulls, Nullify(NewId, n.id, Top.next)),
                                  !.map = (n.counter :> Top.next) @@ Top.map])

(* The oracle does not read the circuit's counter here. *)
NotifyCreatedNullifier ==
    /\ Mutable
    /\ Emit("nulls", 0, FALSE)
    /\ stack' = Frame([Top EXCEPT !.next = Top.next + 1,
                                  !.counter = Top.counter + 1,
                                  !.nulls = Append(Top.nulls, Nullify(NewId, 0, Top.counter + 1))])

(* A log, of a note of this call or of none, that only the circuit knows of. *)
EmitLog(note) ==
    /\ Mutable
    /\ note.id = 0 \/ note \in ToSet(Top.circuitNotes)
    /\ Emit("logs", note.id, FALSE)
    /\ stack' = Frame([Top EXCEPT !.next = Top.next + 1,
                                  !.circuitLogs = Append(Top.circuitLogs,
                                      [id |-> NewId, counter |-> Top.next,
                                       note |-> IF note.id = 0 THEN 0 ELSE note.counter])])

(* Allowed in static calls too; counts in both counters.  A later teardown
   call replaces an earlier one, but the calldata of both is kept. *)
EnqueuePublicFunctionCall(is_teardown) ==
    /\ Running
    /\ Emit(IF is_teardown THEN "teardown" ELSE "pubs", 0, FALSE)
    /\ LET request == [id |-> NewId, counter |-> Top.next] IN
       stack' = Frame([Top EXCEPT
                  !.next = Top.next + 1, !.counter = Top.counter + 1,
                  !.calldata = Append(Top.calldata, NewId),
                  !.pubs = IF is_teardown THEN @ ELSE Append(@, request),
                  !.teardown = IF is_teardown THEN request ELSE @])

(* Mutation: the oracle's own counter is recorded. *)
SetMinRevertibleOwn ==
    /\ Running /\ ~Top.revertible
    /\ stack' = Frame([Top EXCEPT !.next = Top.next + 1, !.revertible = TRUE, !.min = Top.counter])
    /\ UNCHANGED <<bundles, phantom, out, status, oracles, emitted>>

SetMinRevertible ==
    /\ Running /\ ~Top.revertible
    /\ stack' = Frame([Top EXCEPT !.next = Top.next + 1, !.revertible = TRUE, !.min = Top.next])
    /\ UNCHANGED <<bundles, phantom, out, status, oracles, emitted>>

(* ensure_mutable_context, or the revertible phase entered twice: the error
   ends the whole execution. *)
Fail ==
    /\ Running /\ (Top.static \/ Top.revertible)
    /\ status' = "failed" /\ stack' = <<>>
    /\ UNCHANGED <<bundles, phantom, out, oracles, emitted>>

(* Mutation: the nested oracle gets the caller's pairs but not its notes. *)
CallPrivateFunctionBare(c, static) ==
    /\ Running /\ CallsLeft
    /\ oracles' = oracles + 1
    /\ stack' = Append(stack,
         [NewFrame(c, static \/ Top.static, Top.next) EXCEPT
            !.counter = Top.next, !.min = Top.min, !.revertible = Top.revertible,
            !.map = Top.map, !.consumed = Top.consumed,
            !.inherited = [notes |-> 0, nulls |-> 0, keys |-> DOMAIN Top.map]])
    /\ UNCHANGED <<bundles, phantom, out, status, emitted>>

(* call_private_function up to the execution: the nested oracle starts with
   the circuit's counter and with what the caller has collected.  The calls of
   a static call are static; this is the circuit's doing. *)
CallPrivateFunction(c, static) ==
    /\ Running /\ CallsLeft
    /\ oracles' = oracles + 1
    /\ stack' = Append(stack,
         [NewFrame(c, static \/ Top.static, Top.next) EXCEPT
            !.counter = Top.next, !.min = Top.min, !.revertible = Top.revertible,
            !.notes = Top.notes, !.nulls = Top.nulls, !.map = Top.map, !.consumed = Top.consumed,
            !.inherited = [notes |-> Len(Top.notes), nulls |-> Len(Top.nulls),
                           keys |-> DOMAIN Top.map]])
    /\ UNCHANGED <<bundles, phantom, out, status, emitted>>

(* A nested call of the instance or the class registry, which the caller's
   oracle handles itself: a nullifier and a log, with the circuit's counters. *)
Publish(kind) ==
    /\ Mutable /\ CallsLeft /\ EffectsLeft(<<"nulls", kind>>)
    /\ oracles' = oracles + 1
    /\ emitted' = emitted \o <<Event("nulls", 0, FALSE), Event(kind, 0, FALSE)>>
    /\ LET end == Top.next + 2 IN
       stack' = Frame([Top EXCEPT
                  !.next = end + 1,
                  !.counter = IF end > Top.counter THEN end ELSE Top.counter,
                  !.nulls = Append(Top.nulls, Nullify(NewId, 0, Top.next)),
                  ![kind] = Append(@, [id |-> NewId + 1, counter |-> Top.next + 1, note |-> 0])])
    /\ UNCHANGED <<bundles, phantom, out, status>>

PublishInstance == Publish("logs")
PublishClass == Publish("classes")

(* notifyCreatedContractClassLog. *)
EmitContractClassLog ==
    /\ Mutable
    /\ Emit("classes", 0, FALSE)
    /\ stack' = Frame([Top EXCEPT !.next = Top.next + 1,
                                  !.classes = Append(@, [id |-> NewId, counter |-> Top.next, note |-> 0])])

(* merge_nested_private_logs: the circuit's version of a log replaces another
   (in its place, but the kernel sorts them anyway). *)
MergeLogs(logs, circuitLogs) ==
    SelectSeq(logs, LAMBDA l : \A k \in ToSet(circuitLogs) : k.counter # l.counter) \o circuitLogs

NewOf(f, kind) == SubSeq(f[kind], f.inherited[kind] + 1, Len(f[kind]))

NewPairs(f) == [k \in DOMAIN f.map \ f.inherited.keys |-> f.map[k]]

NestedResult(f) == [notes |-> NewOf(f, "notes"), nulls |-> NewOf(f, "nulls"),
                    logs |-> MergeLogs(f.logs, f.circuitLogs), pubs |-> f.pubs, map |-> NewPairs(f),
                    teardown |-> f.teardown, classes |-> f.classes]

(* call_private_function after the execution: the caller takes over what is
   new, the end counter of the circuit, and the circuit's note hashes when the
   oracle was told of none. *)
TakenOver(p, f) ==
    LET new == NestedResult(f) IN
    [p EXCEPT !.notes = @ \o (IF new.notes = <<>> THEN f.circuitNotes ELSE new.notes),
              !.nulls = @ \o new.nulls, !.logs = @ \o new.logs, !.pubs = @ \o new.pubs,
              !.map = new.map @@ @,
              !.calldata = @ \o f.calldata, !.classes = @ \o f.classes,
              !.teardown = IF f.teardown = NoTeardown THEN @ ELSE f.teardown,
              !.consumed = @ \union f.consumed,
              !.results = @ \o <<new>> \o f.results,
              !.counter = f.next, !.next = f.next + 1]

(* Mutation: consumed stored notes are not handed back to the caller. *)
MergeKeepsConsumed(p, f) == [TakenOver(p, f) EXCEPT !.consumed = p.consumed]

(* Mutation: the calldata of the nested call comes first. *)
MergeCalldataFirst(p, f) == [TakenOver(p, f) EXCEPT !.calldata = f.calldata \o p.calldata]

Merge(p, f) == TakenOver(p, f)

Return ==
    /\ Running /\ Len(stack) > 1
    /\ stack' = Append(SubSeq(stack, 1, Len(stack) - 2), Merge(stack[Len(stack) - 1], Top))
    /\ UNCHANGED <<bundles, phantom, out, status, oracles, emitted>>

EntrypointResult(f) ==
    [notes |-> IF f.notes = <<>> THEN f.circuitNotes ELSE f.notes, nulls |-> f.nulls,
     logs |-> f.logs \o f.circuitLogs, pubs |-> f.pubs, map |-> f.map, teardown |-> f.teardown,
     classes |-> f.classes]

(* persist_pending_notes: notes that were not nullified are stored under
   nullifier zero, where the first one stays. *)
Persist(calls) ==
    LET map == CounterMap(calls)
        left == SelectSeq(AllOf(calls, "notes"), LAMBDA n : ~n.raw /\ n.counter \notin DOMAIN map)
    IN IF phantom # NoNote \/ left = <<>> THEN phantom ELSE Head(left)

Ids(items) == [i \in DOMAIN items |-> items[i].id]

(* The end of a payload call: build_execution_result and the note store. *)
FinishCall ==
    /\ Running /\ Len(stack) = 1
    /\ LET calls == <<EntrypointResult(Top)>> \o Top.results IN
       /\ bundles' = Append(bundles, [calls |-> calls, end |-> Top.counter, min |-> Top.min,
                                     calldata |-> Top.calldata,
                                     fields |-> Ids(Collect(calls, "classes")), acvm |-> FALSE])
       /\ phantom' = Persist(calls)
    /\ stack' = <<>>
    /\ UNCHANGED <<out, status, oracles, emitted>>

(* A payload call that is not executed here, to a public function or to one of
   the two registries: its result is written down with fixed counters. *)
Unexecuted(kinds) ==
    /\ status = "running" /\ stack = <<>> /\ CallsLeft /\ EffectsLeft(kinds)
    /\ oracles' = oracles + 1
    /\ emitted' = emitted \o [i \in DOMAIN kinds |-> Event(kinds[i], 0, FALSE)]
    /\ LET effects == [i \in DOMAIN kinds |-> [kind |-> kinds[i], id |-> NewId + i - 1, of |-> 0,
                                              note |-> 0, counter |-> FirstCounter + i - 1]]
           Of(kind) == SelectSeq(effects, LAMBDA e : e.kind = kind)
           call == [notes |-> <<>>, nulls |-> Of("nulls"), logs |-> Of("logs"), pubs |-> Of("pubs"),
                    classes |-> Of("classes"), map |-> <<>>, teardown |-> NoTeardown]
       IN bundles' = Append(bundles, [calls |-> <<call>>, end |-> FirstCounter + Len(kinds),
                                      min |-> FirstCounter, calldata |-> Ids(call.pubs),
                                      fields |-> Ids(call.classes), acvm |-> FALSE])
    /\ UNCHANGED <<stack, phantom, out, status>>

PublicCall == Unexecuted(<<"pubs">>)
PublishInstanceCall == Unexecuted(<<"nulls", "logs">>)
PublishClassCall == Unexecuted(<<"nulls", "classes">>)

(* offset_private_call_result.  The note hash counter of a log is not moved. *)
Offset(call, off) ==
    LET Move(items) == [i \in DOMAIN items |-> [items[i] EXCEPT !.counter = @ + off]] IN
    [notes |-> Move(call.notes), nulls |-> Move(call.nulls), logs |-> Move(call.logs),
     pubs |-> Move(call.pubs), classes |-> Move(call.classes),
     teardown |-> IF call.teardown = NoTeardown THEN NoTeardown ELSE [call.teardown EXCEPT !.counter = @ + off],
     map |-> [k \in {j + off : j \in DOMAIN call.map} |-> call.map[k - off] + off]]

(* aggregate_call_bundles: a bundle is moved by the end counters before it. *)
AllCalls(bs) ==
    LET Add(acc, b) == [calls |-> acc.calls \o [i \in DOMAIN b.calls |-> Offset(b.calls[i], acc.off)],
                        off |-> acc.off + b.end]
    IN FoldLeft(Add, [calls |-> <<>>, off |-> 0], bs).calls

AllCalldata(bs) == FlattenSeq([i \in DOMAIN bs |-> bs[i].calldata])
AllFields(bs) == FlattenSeq([i \in DOMAIN bs |-> bs[i].fields])

(* prove_tx: the calldata is paired with the collected requests, which are in
   the order of their counters, and sorted by those. *)
SortedCalldata(requests, calldata) ==
    IF Len(requests) # Len(calldata) THEN calldata
    ELSE LET paired == Sorted({[counter |-> requests[i].counter, calldata |-> calldata[i]] :
                                 i \in DOMAIN requests})
         IN [i \in DOMAIN paired |-> paired[i].calldata]

KernelRuns(bs) ==
    /\ \E calls \in {AllCalls(bs)} :
          out' = [tail |-> Process(calls, bs[1].min),
                  calldata |-> SortedCalldata(Collect(calls, "pubs"), AllCalldata(bs)),
                  fields |-> AllFields(bs)]
    /\ status' = "done"

RunKernel ==
    /\ status = "running" /\ stack = <<>> /\ bundles # <<>>
    /\ KernelRuns(bundles)
    /\ UNCHANGED <<stack, bundles, phantom, oracles, emitted>>

(* execute_entrypoint_via_acvm: with a public call in the payload, or with the
   prover on, the account's entrypoint is the only call.  Its witness is not
   searched for side effects, and its notes are not stored. *)
FinishEntrypoint ==
    /\ Running /\ Len(stack) = 1 /\ bundles = <<>> /\ ~Top.static /\ Len(emitted) =< MaxRare
    /\ \E own \in {[EntrypointResult(Top) EXCEPT !.notes = Top.notes, !.logs = Top.logs]} :
          bundles' = <<[calls |-> <<own>> \o Top.results, end |-> Top.counter, min |-> Top.min,
                        calldata |-> Top.calldata, fields |-> Ids(Top.classes), acvm |-> TRUE]>>
    /\ KernelRuns(bundles')
    /\ stack' = <<>>
    /\ UNCHANGED <<phantom, oracles, emitted>>

Step ==
    \/ \E c \in Contract, static \in BOOLEAN : StartCall(c, static) \/ CallPrivateFunction(c, static)
    \/ NotifyCreatedNote \/ PushNoteHash \/ NotifyCreatedNullifier
    \/ \E is_teardown \in BOOLEAN : EnqueuePublicFunctionCall(is_teardown)
    \/ Running /\ \E n \in DbNote \union {phantom} : NullifyStored(n)
    \/ Running /\ \E n \in PendingNotes(Top) : NullifyPending(n)
    \/ Running /\ \E n \in ToSet(Top.circuitNotes) \union {NoNote} : EmitLog(n)
    \/ PublishInstance \/ PublishClass \/ EmitContractClassLog
    \/ PublicCall \/ PublishInstanceCall \/ PublishClassCall
    \/ SetMinRevertible \/ Fail \/ Return \/ FinishCall \/ FinishEntrypoint \/ RunKernel

Spec == Init /\ [][Step]_vars
-----------------------------------------------------------------------------
Done == status = "done"
IdsOf(items) == {items[i].id : i \in DOMAIN items}
OutSeq(kind) == out.tail.nr[kind] \o out.tail.r[kind]

(* No two side effects of a kind have the same counter in the aggregated tree. *)
AllDistinct ==
    LET calls == AllCalls(bundles) IN
    \A kind \in Kinds \union {"classes"} :
       LET all == ToSet(AllOf(calls, kind)) IN
       Cardinality({a.counter : a \in all}) = Cardinality({a.id : a \in all})

(* The notes and nullifiers that cancel out: nullified while pending in the
   call of the payload that created them. *)
Transient == {emitted[i].note : i \in {j \in Emitted("nulls") :
                 /\ emitted[j].note > 0
                 /\ emitted[emitted[j].note].call = emitted[j].call}}

TypeOK ==
    /\ status \in {"running", "failed", "done"}
    /\ oracles \in 0..MaxOracles
    /\ Len(stack) + Len(bundles) =< oracles
    /\ \A i \in DOMAIN stack :
          LET f == stack[i] IN
          /\ f.counter \in Nat /\ f.next > f.start
          /\ f.inherited.notes =< Len(f.notes) /\ f.inherited.nulls =< Len(f.nulls)
          /\ f.consumed \subseteq {n.id : n \in DbNote} \union {phantom.id}
          /\ DOMAIN f.map \subseteq {f.notes[k].counter : k \in DOMAIN f.notes}

(* A caller repeats the side effects of the calls it made and a nested oracle
   starts with those of its caller; the kernel still gives out no side effect
   twice, whatever the counters are. *)
NoEffectTwice ==
    Done => \A kind \in Kinds :
              LET given == OutSeq(kind)
                  ids == IdsOf(given)
              IN Cardinality(ids) = Len(given) /\ \A id \in ids : id = 0 \/ emitted[id].kind = kind

(* A note nullified by a call, at any depth, is not offered again to that call,
   to its callers or to the calls they make (the note kept under nullifier
   zero excepted). *)
NullifiedNotReturned ==
    Running => \A i \in DOMAIN emitted :
                 emitted[i].kind = "nulls" /\ emitted[i].note # 0 /\ emitted[i].call = Len(bundles) + 1 =>
                    emitted[i].note \notin {n.id : n \in StoredNotes(Top) \union PendingNotes(Top)}

(* As long as no two side effects share a counter, the kernel gives out exactly
   the side effects of the transaction without the notes that were nullified
   while pending, their nullifiers and, for the first call, their logs.  Note
   hashes the oracle was not told of may be missing, and so may the logs of an
   entrypoint that ran through execute_entrypoint_via_acvm. *)
KernelOutputExact ==
    Done /\ AllDistinct =>
       LET given == IdsOf(OutSeq("notes") \o OutSeq("nulls") \o OutSeq("logs") \o OutSeq("pubs"))
           transient == Transient
       IN \A i \in DOMAIN emitted :
             LET e == emitted[i] IN
             /\ e.kind = "notes" /\ ~e.raw => (i \in given <=> i \notin transient)
             /\ e.kind = "nulls" => (i \in given <=> e.note \notin transient)
             /\ e.kind = "logs" /\ e.call = 1 /\ ~(bundles[1].acvm /\ e.own) =>
                   (i \in given <=> e.note \notin transient)
             /\ e.kind = "pubs" => i \in given

(* In a transaction with public calls, a note hash or log of a payload's only
   call is revertible exactly if the entrypoint had entered the revertible
   phase when it was emitted. *)
SplitAtPhase ==
    Done /\ ~out.tail.private /\ Len(bundles) = 1 =>
       \A kind \in {"notes", "logs", "pubs"} :
          /\ \A i \in IdsOf(out.tail.nr[kind]) : bundles[1].min > 0 /\ ~emitted[i].after
          /\ \A i \in IdsOf(out.tail.r[kind]) : bundles[1].min = 0 \/ emitted[i].after

(* validate_calldata: as many calldata entries as public calls, in the order
   get_all_public_call_requests gives them, the teardown call last. *)
CallIds == Ids(OutSeq("pubs")) \o (IF out.tail.teardown = NoTeardown THEN <<>> ELSE <<out.tail.teardown.id>>)
ValidCalldata == out.calldata = CallIds

(* prove_tx hands over calldata that the node's validator accepts, if the
   payload has one call and no public call comes after the teardown call. *)
CalldataMatches ==
    Done /\ Len(bundles) = 1 /\ (\A t \in Emitted("teardown") : \A i \in Emitted("pubs")
                                      \union Emitted("teardown") : i =< t)
        => ValidCalldata

(* validate_contract_class_logs: the fields handed over with the transaction
   are those of the kernel's class logs, in that order, and no log is missing,
   if the payload has one call. *)
ClassFieldsMatch ==
    Done /\ Len(bundles) = 1 => /\ out.fields = Ids(out.tail.classes)
                               /\ ToSet(out.fields) = Emitted("classes")

(* "the calldata must follow the same order".  It does not hold: the calldata
   of a teardown call stays where the call was made, and a second payload call
   may get lower counters than the first. *)
CalldataAlwaysMatches == Done => ValidCalldata

(* Every note hash that a circuit notified and did not nullify again is given
   out. *)
NoteHashesKept ==
    Done => \A i \in Emitted("notes") :
               ~emitted[i].raw /\ i \notin Transient => i \in IdsOf(OutSeq("notes"))
=============================================================================
