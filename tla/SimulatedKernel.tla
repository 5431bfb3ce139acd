---------------------------- MODULE SimulatedKernel ----------------------------
(***************************************************************************)
(* kernel/simulated.rs and the collecting functions of                     *)
(* execution/execution_result.rs, as operators.                            *)
(*                                                                         *)
(* A call result is a record with the sequences notes (note hashes), nulls *)
(* (nullifiers), logs, pubs (public call requests) and classes (contract   *)
(* class logs), a teardown call and the function map from note hash to     *)
(* nullifier counters.  Every side effect has a counter and an id that     *)
(* stands for its contents; a log also has the counter of the note hash it *)
(* belongs to.  A tree of results is given as the sequence of its calls, a *)
(* call before those it made.                                              *)
(***************************************************************************)
EXTENDS Integers, FiniteSets, Sequences, SequencesExt

(* The nullifier derived from the transaction request. *)
ProtocolNullifier == [id |-> 0, counter |-> 0]

NoTeardown == [id |-> 0, counter |-> 0]

AllOf(calls, kind) == FlattenSeq([i \in DOMAIN calls |-> calls[i][kind]])

(* By counter, of which no two are the same. *)
Sorted(items) ==
    [i \in 1..Cardinality(items) |->
        CHOOSE e \in items : Cardinality({d \in items : d.counter < e.counter}) = i - 1]

(* Mutation: the tree is flattened as it is. *)
CollectFlat(calls, kind) == AllOf(calls, kind)

(* Of several side effects with the same counter, the first one met is kept:
   a caller repeats the side effects of the calls it has made. *)
Collect(calls, kind) ==
    LET all == AllOf(calls, kind)
    IN Sorted({all[i] : i \in {j \in DOMAIN all :
                                 \A k \in 1..(j - 1) : all[k].counter # all[j].counter}})

CounterMap(calls) == FoldLeft(LAMBDA m, c : c.map @@ m, <<>>, calls)

(* get_teardown_call_request: the first in the tree. *)
Teardown(calls) ==
    LET with == SelectSeq(calls, LAMBDA c : c.teardown # NoTeardown)
    IN IF with = <<>> THEN NoTeardown ELSE with[1].teardown

Squashed(map) == [notes |-> DOMAIN map, nulls |-> {map[k] : k \in DOMAIN map}]

(* Mutation: the logs of squashed notes stay. *)
SquashNotLogs(calls) ==
    LET gone == Squashed(CounterMap(calls)) IN
    [notes |-> SelectSeq(Collect(calls, "notes"), LAMBDA n : n.counter \notin gone.notes),
     nulls |-> SelectSeq(Collect(calls, "nulls"), LAMBDA n : n.counter \notin gone.nulls),
     logs  |-> Collect(calls, "logs"),
     pubs  |-> Collect(calls, "pubs")]

(* A note created and nullified by the same transaction leaves neither its
   hash nor its nullifier nor its logs. *)
Squash(calls) ==
    LET gone == Squashed(CounterMap(calls)) IN
    [notes |-> SelectSeq(Collect(calls, "notes"), LAMBDA n : n.counter \notin gone.notes),
     nulls |-> SelectSeq(Collect(calls, "nulls"), LAMBDA n : n.counter \notin gone.nulls),
     logs  |-> SelectSeq(Collect(calls, "logs"), LAMBDA l : l.note \notin gone.notes),
     pubs  |-> Collect(calls, "pubs")]

Kinds == {"notes", "nulls", "logs", "pubs"}

Below(kept, min) == [k \in Kinds |-> SelectSeq(kept[k], LAMBDA e : e.counter < min)]

AtOrAbove(kept, min) == [k \in Kinds |-> SelectSeq(kept[k], LAMBDA e : e.counter >= min)]

Nothing == [k \in Kinds |-> <<>>]

(* SimulatedKernel::process: without public calls nothing can be reverted. *)
Process(calls, min) ==
    LET kept == Squash(calls)
        private == kept.pubs = <<>> /\ Teardown(calls) = NoTeardown
        nr == IF private THEN kept ELSE Below(kept, min)
    IN [private |-> private, teardown |-> Teardown(calls), classes |-> Collect(calls, "classes"),
        nr |-> [nr EXCEPT !.nulls = <<ProtocolNullifier>> \o nr.nulls],
        r  |-> IF private THEN Nothing ELSE AtOrAbove(kept, min)]
=============================================================================
