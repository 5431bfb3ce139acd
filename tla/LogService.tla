------------------------------ MODULE LogService ------------------------------
(***************************************************************************)
(* Discovery of tagged logs: fetch_tagged_logs (execution/utility_oracle.rs *)
(* and sync/log_service.rs) over stores/recipient_tagging_store.rs.  For    *)
(* each secret the recipient asks the node for a window of indexes above    *)
(* the last "finalized" one, raises that index to the highest log found,    *)
(* and at the end appends all logs to the capsule array that sync_state     *)
(* works through.                                                           *)
(*                                                                          *)
(* The senders take indexes one by one; a transaction may be included late, *)
(* not at all, or be pruned and included again.                             *)
(***************************************************************************)
EXTENDS Naturals, FiniteSets, FiniteSetsExt

CONSTANTS
    Fetcher,    \* concurrent calls of fetch_tagged_logs, for one recipient
    Secret,
    WindowLen,  \* UNFINALIZED_TAGGING_INDEXES_WINDOW_LEN
    MaxIndex,   \* bound: indexes
    MaxUsed     \* bound: indexes the senders take, by secret

VARIABLES
    used,       \* the sender's last index, by secret
    flight,     \* tagged logs of transactions not included yet
    logs,       \* tagged logs on the chain
    finalized,  \* RecipientTaggingStore, by secret, 0 if none
    array,      \* the capsule array, all logs ever appended to it
    pc, loc,    \* the fetchers
    missed,     \* logs that were not on the chain when a higher one was found
    dropped     \* logs a call had found when it failed

vars == <<used, flight, logs, finalized, array, pc, loc, missed, dropped>>
ghost == <<missed, dropped>>
sender == <<used, flight, logs>>

Index == 1..MaxIndex
Log == Secret \X Index
Locals == [todo : SUBSET Secret, secret : Secret, base : 0..MaxIndex, found : 0..MaxIndex, held : SUBSET Log]
AnySecret == CHOOSE s \in Secret : TRUE
NoLocals == [todo |-> {}, secret |-> AnySecret, base |-> 0, found |-> 0, held |-> {}]

TypeOK ==
    /\ used \in [Secret -> 0..MaxIndex]
    /\ flight \subseteq Log /\ logs \subseteq Log /\ array \subseteq Log
    /\ finalized \in [Secret -> 0..MaxIndex]
    /\ pc \in [Fetcher -> {"idle", "next", "load", "compare", "put"}]
    /\ loc \in [Fetcher -> Locals]
    /\ missed \subseteq Log /\ dropped \subseteq Log

Init ==
    /\ used = [s \in Secret |-> 0]
    /\ flight = {} /\ logs = {} /\ array = {}
    /\ finalized = [s \in Secret |-> 0]
    /\ pc = [f \in Fetcher |-> "idle"]
    /\ loc = [f \in Fetcher |-> NoLocals]
    /\ missed = {} /\ dropped = {}

-----------------------------------------------------------------------------
(* Senders and chain. *)

(* get_next_app_tag_as_sender: the indexes of a secret start at 1. *)
Tag(s) ==
    /\ used[s] < MaxUsed[s]
    /\ used' = [used EXCEPT ![s] = @ + 1]
    /\ flight' = flight \union {<<s, used[s] + 1>>}
    /\ UNCHANGED <<logs, finalized, array, pc, loc, ghost>>

Include(s, i) ==
    /\ <<s, i>> \in flight
    /\ flight' = flight \ {<<s, i>>}
    /\ logs' = logs \union {<<s, i>>}
    /\ UNCHANGED <<used, finalized, array, pc, loc, ghost>>

(* The blocks from some log on are pruned; their transactions are pending. *)
Prune(s, i) ==
    /\ <<s, i>> \in logs
    /\ \A j \in (i + 1)..MaxIndex : <<s, j>> \notin logs
    /\ logs' = logs \ {<<s, i>>}
    /\ flight' = flight \union {<<s, i>>}
    /\ UNCHANGED <<used, finalized, array, pc, loc, ghost>>

(* A transaction that was only simulated, or is dropped: its index is gone. *)
Abandon(s, i) ==
    /\ <<s, i>> \in flight
    /\ flight' = flight \ {<<s, i>>}
    /\ UNCHANGED <<used, logs, finalized, array, pc, loc, ghost>>

-----------------------------------------------------------------------------
(* The recipient. *)

Fetch(f) ==
    /\ pc[f] = "idle"
    /\ loc' = [loc EXCEPT ![f] = [NoLocals EXCEPT !.todo = Secret]]
    /\ pc' = [pc EXCEPT ![f] = "next"]
    /\ UNCHANGED <<sender, finalized, array, ghost>>

ReadFinalized(f, s) ==
    /\ pc[f] = "next"
    /\ s \in loc[f].todo
    /\ loc' = [loc EXCEPT ![f].todo = loc[f].todo \ {s}, ![f].secret = s, ![f].base = finalized[s]]
    /\ pc' = [pc EXCEPT ![f] = "load"]
    /\ UNCHANGED <<sender, finalized, array, ghost>>

(* Mutant: the window is cut short by one. *)
WindowShort(base) == (base + 1)..(base + WindowLen - 1)

Window(base) == (base + 1)..(base + WindowLen)

NextSecret(f) ==
    /\ loc' = [loc EXCEPT ![f] = [NoLocals EXCEPT !.todo = loc[f].todo, !.held = loc[f].held]]
    /\ pc' = [pc EXCEPT ![f] = "next"]

(* What the node's answer does not have, although it has a higher log. *)
Passed(s, base) ==
    {<<s, i>> : i \in {i \in Window(base) : <<s, i>> \notin logs /\ \E j \in Window(base) : j > i /\ <<s, j>> \in logs}}

(* load_logs_for_range asks for the whole window in one request, ... *)
LoadLogs(f) ==
    /\ pc[f] = "load"
    /\ LET s == loc[f].secret
           found == {i \in Window(loc[f].base) : <<s, i>> \in logs}
       IN  IF found = {} THEN NextSecret(f)
           ELSE /\ loc' = [loc EXCEPT ![f].held = loc[f].held \union ({s} \X found),
                                      ![f].found = Max(found)]
                /\ pc' = [pc EXCEPT ![f] = "compare"]
    /\ missed' = missed \union Passed(loc[f].secret, loc[f].base)
    /\ UNCHANGED <<sender, finalized, array, dropped>>

(* ... whose failure ends the call; the logs of other secrets are lost, as   *)
(* they are when the process stops here.                                     *)
FailRpc(f) ==
    /\ pc[f] = "load"
    /\ dropped' = dropped \union loc[f].held
    /\ loc' = [loc EXCEPT ![f] = NoLocals]
    /\ pc' = [pc EXCEPT ![f] = "idle"]
    /\ UNCHANGED <<sender, finalized, array, missed>>

(* update_highest_finalized_index refuses to lower the index, and the caller *)
(* ignores the refusal.                                                      *)
CompareFinalized(f) ==
    /\ pc[f] = "compare"
    /\ IF loc[f].found > finalized[loc[f].secret]
       THEN pc' = [pc EXCEPT ![f] = "put"] /\ UNCHANGED loc
       ELSE NextSecret(f)
    /\ UNCHANGED <<sender, finalized, array, ghost>>

(* Mutants: the end of the window, the number of logs. *)
PutFinalizedWindow(f) ==
    /\ pc[f] = "put"
    /\ finalized' = [finalized EXCEPT ![loc[f].secret] = loc[f].base + WindowLen]
    /\ NextSecret(f)
    /\ UNCHANGED <<sender, array, ghost>>

PutFinalizedCount(f) ==
    /\ pc[f] = "put"
    /\ finalized' = [finalized EXCEPT ![loc[f].secret] =
                       Cardinality({l \in loc[f].held : l[1] = loc[f].secret})]
    /\ NextSecret(f)
    /\ UNCHANGED <<sender, array, ghost>>

PutFinalized(f) ==
    /\ pc[f] = "put"
    /\ finalized' = [finalized EXCEPT ![loc[f].secret] = loc[f].found]
    /\ NextSecret(f)
    /\ UNCHANGED <<sender, array, ghost>>

AppendLogs(f) ==
    /\ pc[f] = "next"
    /\ loc[f].todo = {}
    /\ array' = array \union loc[f].held
    /\ loc' = [loc EXCEPT ![f] = NoLocals]
    /\ pc' = [pc EXCEPT ![f] = "idle"]
    /\ UNCHANGED <<sender, finalized, ghost>>

FetchStep(f) ==
    \/ Fetch(f) \/ LoadLogs(f) \/ FailRpc(f) \/ CompareFinalized(f) \/ PutFinalized(f) \/ AppendLogs(f)
    \/ \E s \in Secret : ReadFinalized(f, s)

Next ==
    \/ \E s \in Secret : Tag(s)
    \/ \E s \in Secret, i \in Index : Include(s, i) \/ Prune(s, i) \/ Abandon(s, i)
    \/ \E f \in Fetcher : FetchStep(f)

Spec == Init /\ [][Next]_vars

(* The contract is synced again and again, and a request that is repeated    *)
(* for ever is answered at some time.                                        *)
FairSpec ==
    /\ Spec
    /\ \A f \in Fetcher : WF_vars(FetchStep(f))
    /\ \A f \in Fetcher, s \in Secret : SF_vars(loc[f].secret = s /\ LoadLogs(f))

-----------------------------------------------------------------------------
(* A log the recipient will not ask for again, because its index is not      *)
(* above the stored one, has been handed on or is about to be                *)
(* (load_logs_for_range): no log is skipped but those that were not on the   *)
(* chain when a higher one was found, or that a call held when it failed.    *)
NoLogSkipped ==
    \A l \in logs : l[2] <= finalized[l[1]] =>
        l \in array \union missed \union dropped \/ \E f \in Fetcher : l \in loc[f].held

(* The stored index of a secret is never lowered                             *)
(* (update_highest_finalized_index).                                         *)
FinalizedStep == \A s \in Secret : finalized'[s] >= finalized[s]
FinalizedNeverLowered == [][FinalizedStep]_vars

(* As many successive indexes below the log's as the window is long have no *)
(* log on the chain.                                                        *)
BeyondGap(l) ==
    \E i \in 1..(l[2] - WindowLen) : \A j \in i..(i + WindowLen - 1) : <<l[1], j>> \notin logs

(* Every other log that stays on the chain, and does not lie beyond a gap as *)
(* long as the window, is handed on in the end (fetch_tagged_logs).          *)
Settled(l) == l \in array \union missed \union dropped \/ l \notin logs \/ BeyondGap(l)

AllDelivered == \A l \in Log : l \in logs ~> Settled(l)
=============================================================================
