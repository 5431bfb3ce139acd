----------------------------- MODULE UtilityOracle -----------------------------
(***************************************************************************)
(* A message on its way from a tagged log to the stores: the contract's     *)
(* sync_state, run by execute_sync_state_for_contract (embedded_pxe.rs),    *)
(* and the oracles it calls (execution/utility_oracle.rs), over the capsule *)
(* arrays of CapsuleArray.  The arrays are persistent and outlive a call    *)
(* that fails, a process that stops and the blocks the logs were in.        *)
(***************************************************************************)
EXTENDS Naturals, Sequences, FiniteSets, SequencesExt

CONSTANTS
    Message,
    KindOf,     \* what a message decodes to: "note", "event", or "partial", a
                \* note whose other half is in a log of its own
    Torn,
    MaxFailures,\* bound: failing requests and stops
    MaxPrunes   \* bound: transactions that leave the chain

VARIABLES
    chain,      \* messages whose transaction is on the chain
    completed,  \* partial notes whose completion log is on the chain
    array,      \* the capsule arrays, by name
    notes,      \* note store
    events,     \* private event store
    at,         \* the step sync_state is in
    work,       \* requests an oracle read and has still to work through
    fetched,    \* every message the tagging indexes have moved past
    failures, prunes,
    dirty       \* a run of sync_state ended early, and its log requests stayed

vars == <<chain, completed, array, notes, events, at, work, fetched, failures, prunes, dirty>>
world == <<chain, completed, failures, prunes, dirty>>

Names == {"logs", "noteRequests", "eventRequests", "partials", "logRequests", "responses"}
Queue(n) == ToSet(array[n])
Nothing == "nothing"

TypeOK ==
    /\ {chain, completed, notes, events, fetched} \subseteq SUBSET Message
    /\ \A n \in Names \ {"responses"} : array[n] \in Seq(Message)
    /\ array["responses"] \in Seq(Message \union {Nothing}) \union {Torn}
    /\ at \in {"idle", "decode", "remove", "request", "clearRequests", "respond",
               "pair", "notes", "events", "clearEvents"}
    /\ work \in Seq(Message \union {Nothing})
    /\ failures \in 0..MaxFailures /\ prunes \in 0..MaxPrunes /\ dirty \in BOOLEAN

Init ==
    /\ chain = {} /\ completed = {}
    /\ array = [n \in Names |-> <<>>]
    /\ notes = {} /\ events = {} /\ fetched = {}
    /\ at = "idle" /\ work = <<>>
    /\ failures = 0 /\ prunes = 0 /\ dirty = FALSE

Push(n, m) == array' = [array EXCEPT ![n] = Append(@, m)]

-----------------------------------------------------------------------------
(* The chain (external). *)

Include(m) ==
    /\ m \notin chain
    /\ chain' = chain \union {m}
    /\ UNCHANGED <<completed, array, notes, events, at, work, fetched, failures, prunes, dirty>>

Complete(m) ==
    /\ KindOf[m] = "partial" /\ m \notin completed
    /\ completed' = completed \union {m}
    /\ UNCHANGED <<chain, array, notes, events, at, work, fetched, failures, prunes, dirty>>

Prune(m) ==
    /\ m \in chain /\ prunes < MaxPrunes
    /\ chain' = chain \ {m}
    /\ prunes' = prunes + 1
    /\ UNCHANGED <<completed, array, notes, events, at, work, fetched, failures, dirty>>

-----------------------------------------------------------------------------
(* fetch_tagged_logs appends what is new (LogService has the details). *)
fetch_tagged_logs ==
    /\ at = "idle"
    /\ LET new == chain \ fetched IN
       /\ array' = [array EXCEPT !["logs"] = @ \o SetToSeq(new)]
       /\ fetched' = fetched \union new
    /\ at' = "decode"
    /\ UNCHANGED <<world, notes, events, work>>

(* sync_state (external) takes the last log, stores what it decodes to and   *)
(* removes the log.                                                          *)
QueueFor(m) ==
    CASE KindOf[m] = "note" -> "noteRequests"
      [] KindOf[m] = "event" -> "eventRequests"
      [] KindOf[m] = "partial" -> "partials"

Decode ==
    /\ at = "decode" /\ array["logs"] # <<>>
    /\ Push(QueueFor(Last(array["logs"])), Last(array["logs"]))
    /\ at' = "remove"
    /\ UNCHANGED <<world, notes, events, work, fetched>>

RemoveLog ==
    /\ at = "remove"
    /\ array' = [array EXCEPT !["logs"] = Front(@)]
    /\ at' = "decode"
    /\ UNCHANGED <<world, notes, events, work, fetched>>

(* It asks for the other half of every partial note it has, one request at a *)
(* time.                                                                     *)
StartRequests ==
    /\ at = "decode" /\ array["logs"] = <<>>
    /\ work' = array["partials"]
    /\ at' = "request"
    /\ UNCHANGED <<world, array, notes, events, fetched>>

RequestLog ==
    /\ at = "request" /\ work # <<>>
    /\ Push("logRequests", Head(work))
    /\ work' = Tail(work)
    /\ UNCHANGED <<world, notes, events, at, fetched>>

-----------------------------------------------------------------------------
(* bulk_retrieve_logs: the requests are read and answered in order, ... *)
AnswerOf(m) == IF m \in completed THEN m ELSE Nothing

bulk_retrieve_logs ==
    /\ at = "request" /\ work = <<>>
    /\ work' = [i \in DOMAIN array["logRequests"] |-> AnswerOf(array["logRequests"][i])]
    /\ at' = "clearRequests"
    /\ UNCHANGED <<world, array, notes, events, fetched>>

(* Mutant: the answered requests stay. *)
ClearLogRequestsNot ==
    /\ at = "clearRequests"
    /\ at' = "respond"
    /\ UNCHANGED <<world, array, notes, events, work, fetched>>

(* ... removed, ... *)
ClearLogRequests ==
    /\ at = "clearRequests"
    /\ array' = [array EXCEPT !["logRequests"] = <<>>]
    /\ at' = "respond"
    /\ UNCHANGED <<world, notes, events, work, fetched>>

(* ... and the answers written, in the order of the requests. *)
PutResponses ==
    /\ at = "respond"
    /\ array' = [array EXCEPT !["responses"] = work]
    /\ work' = <<>>
    /\ at' = "pair"
    /\ UNCHANGED <<world, notes, events, fetched>>

(* sync_state (external) pairs answers and partial notes by position.  With  *)
(* requests of an earlier run in between it has more answers than notes, and *)
(* gives up; the requests themselves are gone by then.                       *)
PairResponses ==
    /\ at = "pair"
    /\ Len(array["responses"]) = Len(array["partials"])
    /\ LET done == {i \in DOMAIN array["partials"] : array["responses"][i] # Nothing}
       IN  array' = [array EXCEPT
                !["noteRequests"] = @ \o SetToSeq({array["responses"][i] : i \in done}),
                !["partials"] = SelectSeq(@, LAMBDA m : m \notin {array["partials"][i] : i \in done})]
    /\ at' = "notes"
    /\ work' = array'["noteRequests"]
    /\ dirty' = FALSE
    /\ UNCHANGED <<chain, completed, notes, events, fetched, failures, prunes>>

GiveUp ==
    /\ at = "pair"
    /\ Len(array["responses"]) # Len(array["partials"])
    /\ at' = "idle"
    /\ UNCHANGED <<world, array, notes, events, work, fetched>>

-----------------------------------------------------------------------------
(* validate_and_store_enqueued_notes_and_events: the notes one by one, ... *)
StoreNote ==
    /\ at = "notes" /\ work # <<>>
    /\ notes' = notes \union {Head(work)}
    /\ work' = Tail(work)
    /\ UNCHANGED <<world, array, events, at, fetched>>

(* Mutant: the note requests are removed before the events are validated. *)
ReadEventRequestsEarly ==
    /\ at = "notes"
    /\ work' = array["eventRequests"]
    /\ array' = [array EXCEPT !["noteRequests"] = <<>>]
    /\ at' = "events"
    /\ UNCHANGED <<world, notes, events, fetched>>

ReadEventRequests ==
    /\ at = "notes" /\ work = <<>>
    /\ work' = array["eventRequests"]
    /\ at' = "events"
    /\ UNCHANGED <<world, array, notes, events, fetched>>

(* ... then the events; an event whose transaction is not found is an error. *)
StoreEvent ==
    /\ at = "events" /\ work # <<>> /\ Head(work) \in chain
    /\ events' = events \union {Head(work)}
    /\ work' = Tail(work)
    /\ UNCHANGED <<world, array, notes, at, fetched>>

RejectEvent ==
    /\ at = "events" /\ work # <<>> /\ Head(work) \notin chain
    /\ work' = <<>>
    /\ at' = "idle"
    /\ UNCHANGED <<world, array, notes, events, fetched>>

(* Mutant: the event requests stay. *)
ClearEventsNot(n, from, to) ==
    /\ at = from /\ work = <<>>
    /\ array' = IF n = "eventRequests" THEN array ELSE [array EXCEPT ![n] = <<>>]
    /\ at' = to
    /\ UNCHANGED <<world, notes, events, work, fetched>>

Clear(n, from, to) ==
    /\ at = from /\ work = <<>>
    /\ array' = [array EXCEPT ![n] = <<>>]
    /\ at' = to
    /\ UNCHANGED <<world, notes, events, work, fetched>>

ClearNotes == Clear("noteRequests", "events", "clearEvents")
ClearEvents == Clear("eventRequests", "clearEvents", "idle")

(* A request to the node fails, or the process stops: sync_state is over.    *)
(* Stopped while it writes the responses, it leaves that array torn.         *)
Fail ==
    /\ at # "idle" /\ failures < MaxFailures
    /\ failures' = failures + 1
    /\ at' = "idle" /\ work' = <<>>
    /\ \/ UNCHANGED array
       \/ at = "respond" /\ work # <<>> /\ array' = [array EXCEPT !["responses"] = Torn]
    /\ dirty' = (dirty \/ array["logRequests"] # <<>>)
    /\ UNCHANGED <<chain, completed, notes, events, fetched, prunes>>

SyncStep ==
    \/ fetch_tagged_logs \/ Decode \/ RemoveLog \/ StartRequests \/ RequestLog
    \/ bulk_retrieve_logs \/ ClearLogRequests \/ PutResponses \/ PairResponses \/ GiveUp
    \/ StoreNote \/ ReadEventRequests \/ StoreEvent \/ RejectEvent \/ ClearNotes \/ ClearEvents

Next ==
    \/ \E m \in Message : Include(m) \/ Complete(m) \/ Prune(m)
    \/ SyncStep
    \/ Fail

Spec == Init /\ [][Next]_vars

(* A wallet that is in use keeps simulating, and each call runs sync_state   *)
(* again when it failed before; every message is completed in the end.       *)
FairSpec == Spec /\ WF_vars(SyncStep)

-----------------------------------------------------------------------------
(* A message the tagging indexes have moved past is never lost, whatever     *)
(* fails and wherever the process stops: it is in an array or in its store.  *)
(* (The order of steps in validate_and_store_enqueued_notes_and_events.)     *)
MessageKept ==
    fetched \subseteq Queue("logs") \union Queue("noteRequests") \union Queue("eventRequests")
                        \union Queue("partials") \union notes \union events

(* The answers are those of the partial notes they are paired with, unless   *)
(* requests of a run that ended early were still there.                      *)
ResponsesAligned ==
    at = "pair" /\ ~dirty =>
        /\ Len(array["responses"]) = Len(array["partials"])
        /\ \A i \in DOMAIN array["responses"] : array["responses"][i] \in {array["partials"][i], Nothing}

(* The request arrays are emptied again and again, so that every message     *)
(* reaches its store, unless an event stays off the chain for good: its      *)
(* request then fails every later sync_state.                                *)
Drained ==
    \/ array["noteRequests"] = <<>> /\ array["eventRequests"] = <<>>
    \/ ~(Queue("eventRequests") \subseteq chain)

RequestsDrain == []<>Drained
=============================================================================
