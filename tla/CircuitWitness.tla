---------------------------- MODULE CircuitWitness ----------------------------
(***************************************************************************)
(* What a private circuit is given and what is read out of it again.  The  *)
(* compiler's artifact says how many fields the context takes              *)
(* (ContractArtifact::from_nargo_json); the initial witness of a payload   *)
(* call and of a nested call is put together from it                       *)
(* (build_private_witness, call_private_function); and the results are     *)
(* found in the solved witness by their offsets.                           *)
(*                                                                         *)
(* A compiled function is a record with its name, in parts, its attributes *)
(* and its parameters, each with the number of fields its type takes.  A   *)
(* selector is the signature it is the hash of, and the hash of values is  *)
(* the sequence of the values.                                             *)
(***************************************************************************)
EXTENDS Integers, Sequences, SequencesExt

CONSTANT HeaderAndContext  \* the fields of the block header and of the transaction context

Macro == "__aztec_nr_internals__"
Zeros(n) == [i \in 1..n |-> 0]
Resize(s, n) == IF Len(s) >= n THEN SubSeq(s, 1, n) ELSE s \o Zeros(n - Len(s))
Smaller(a, b) == IF a < b THEN a ELSE b

-----------------------------------------------------------------------------
function_type(raw) ==
    CASE "abi_private" \in raw.attributes -> "private"
      [] "abi_utility" \in raw.attributes -> "utility"
      [] "abi_public" \in raw.attributes -> "public"
      [] OTHER -> IF raw.is_unconstrained THEN "utility" ELSE "private"

IsContext(p) == p.name = "inputs" /\ p.path = "PrivateContextInputs"

parse_nargo_function(raw) ==
    LET name == IF Head(raw.name) = Macro THEN Tail(raw.name) ELSE raw.name
        parameters == SelectSeq(raw.parameters,
                                LAMBDA p : ~(function_type(raw) = "private" /\ IsContext(p)))
    IN [name |-> name, function_type |-> function_type(raw), parameters |-> parameters,
        selector |-> <<name, [i \in DOMAIN parameters |-> parameters[i].size]>>]

(* The sizes are kept by name, the last one of a name stays. *)
from_nargo_json(raws) ==
    LET functions == [i \in DOMAIN raws |-> parse_nargo_function(raws[i])]
        Context(i) == SelectSeq(raws[i].parameters, IsContext)
        sized == {i \in DOMAIN raws : functions[i].function_type = "private" /\ Context(i) # <<>>}
    IN [functions |-> functions,
        sizes |-> [n \in {functions[i].name : i \in sized} |->
                     LET last == CHOOSE i \in sized : /\ functions[i].name = n
                                                      /\ \A j \in sized : functions[j].name = n => j =< i
                     IN Last(Context(last)).size]]

private_context_inputs_size(artifact, name) ==
    IF name \in DOMAIN artifact.sizes THEN artifact.sizes[name] ELSE 0

find_function_by_selector(artifact, selector) ==
    artifact.functions[SelectInSeq(artifact.functions, LAMBDA f : f.selector = selector)]

(* find_function of the name the selector resolves to. *)
resolve_function_name_by_selector(artifact, selector) ==
    find_function_by_selector(artifact, selector).name

-----------------------------------------------------------------------------
(* The initial witness of a payload call. *)
build_private_witness(artifact, name, args, call_context) ==
    LET size == private_context_inputs_size(artifact, name)
    IN IF size = 0 THEN args
       ELSE Resize(call_context \o HeaderAndContext \o <<2>>, size) \o args

(* Mutation: the start counter stays in the prefix. *)
PrefixToEnd(witness, size) == IF size > 5 THEN SubSeq(witness, 5, size) ELSE <<>>

(* What nested calls take over: all but the call context and the counter. *)
context_witness_prefix(witness, size) == IF size > 5 THEN SubSeq(witness, 5, size - 1) ELSE <<>>

(* The initial witness of a nested call.  Without a prefix that fits, the
   header, the context and the counter are zero. *)
NestedWitness(prefix, size, args, call_context, counter) ==
    Resize(IF prefix # <<>> /\ Len(prefix) + 4 =< size THEN call_context \o prefix \o <<counter>>
           ELSE IF size >= 4 THEN call_context ELSE <<>>, size) \o args

-----------------------------------------------------------------------------
(* The circuit reads its parameters one after the other, and its public inputs
   follow them.  The parts of these are what the offsets below select. *)
Expected(raw, args, call_context, counter) ==
    (IF \E i \in DOMAIN raw.parameters : IsContext(raw.parameters[i])
     THEN call_context \o HeaderAndContext \o <<counter>> ELSE <<>>) \o args

Slots(items, size, width) ==
    Resize(FlattenSeq(items), size * width) \o <<Len(items)>>

PublicInputs(run) ==
    Resize(run.call_context, 4) \o <<run.args_hash, run.returns_hash>> \o HeaderAndContext
    \o <<run.min, 0, run.expiration, run.start, run.end>> \o Zeros(411)
    \o Slots(run.notes, 16, 2) \o Slots(run.nulls, 16, 3) \o Zeros(25)
    \o Slots(run.logs, 16, 19) \o Zeros(4)

Solved(witness, run) == witness \o PublicInputs(run)

-----------------------------------------------------------------------------
PCPI_LENGTH == 870

At(solved, params_size, offset) ==
    LET i == params_size + offset IN IF i < Len(solved) THEN solved[i + 1] ELSE 0

extract_public_inputs_fields(solved, params_size) ==
    Resize(SubSeq(solved, params_size + 1, Len(solved)), PCPI_LENGTH)

(* An array of 16 items at an offset, with its length at the end. *)
Items(pcpi, offset, width) ==
    [i \in 1..Smaller(pcpi[offset + 16 * width + 1], 16) |->
        SubSeq(pcpi, offset + (i - 1) * width + 1, offset + i * width)]

extract_side_effects_from_witness(solved, params_size) ==
    LET pcpi == extract_public_inputs_fields(solved, params_size) IN
    [notes |-> SelectSeq(Items(pcpi, 454, 2), LAMBDA n : n[1] # 0),
     nulls |-> SelectSeq(Items(pcpi, 487, 3), LAMBDA n : n[1] # 0),
     logs  |-> SelectSeq(Items(pcpi, 561, 19), LAMBDA l : l[17] > 0)]

extract_expiration_timestamp_from_witness(solved, params_size, size) ==
    At(solved, params_size, (IF size > 5 THEN size - 5 ELSE 0) + 8)

(* The rest of a nested call: its counters and the hash of what it returns. *)
NestedOutcome(solved, params_size) ==
    [returns_hash |-> At(solved, params_size, 5), start |-> At(solved, params_size, 41),
     end |-> At(solved, params_size, 42)]

-----------------------------------------------------------------------------
(* A payload call of raws[x.entry] that calls raws[x.nested]: each circuit gets
   its own call context, the header and context of the transaction, the counter
   it starts with and its arguments; and what it emits and returns, when it
   expires and the counters it ends with are what is read out of its witness. *)
WitnessesAgree(x) ==
    LET artifact == from_nargo_json(x.raws)
        Compiled(i) == parse_nargo_function(x.raws[i])
        name == resolve_function_name_by_selector(artifact, Compiled(x.entry).selector)
        size == private_context_inputs_size(artifact, name)
        witness == build_private_witness(artifact, name, x.args, x.context)
        callee == find_function_by_selector(artifact, Compiled(x.nested).selector)
        inner == private_context_inputs_size(artifact, callee.name)
        nested == NestedWitness(context_witness_prefix(witness, size), inner, x.args, x.inner_context,
                                x.run.start)
        Same(effects) == /\ effects.notes = x.run.notes /\ effects.nulls = x.run.nulls
                         /\ effects.logs = x.run.logs
        params == size + Len(x.args)
        inner_params == inner + Len(x.args)
    IN /\ callee = Compiled(x.nested) /\ name = Compiled(x.entry).name
       /\ witness = Expected(x.raws[x.entry], x.args, x.context, 2)
       /\ nested = Expected(x.raws[x.nested], x.args, x.inner_context, x.run.start)
       /\ LET solved == Solved(witness, x.run) IN
          /\ Same(extract_side_effects_from_witness(solved, params))
          /\ extract_expiration_timestamp_from_witness(solved, params, size) = x.run.expiration
          /\ At(solved, params, 5) = x.run.returns_hash
       /\ LET solved == Solved(nested, x.run) IN
          /\ Same(extract_side_effects_from_witness(solved, inner_params))
          /\ NestedOutcome(solved, inner_params) =
                [returns_hash |-> x.run.returns_hash, start |-> x.run.start, end |-> x.run.end]
=============================================================================
