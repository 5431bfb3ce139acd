--------------------------- MODULE MCTransactions ---------------------------
(* A transaction on its way: the request, the calls' arguments, the private  *)
(* execution and its oracles, the kernels, the simulation and the witnesses. *)
EXTENDS MCRegisters, Integers, Sequences, TLC

(* One contract, which may call itself, and one stored note.  Three side      *)
(* effects; two with contract class logs, or through the account's entrypoint. *)
Exec == INSTANCE PrivateExecution WITH
    Contract <- {"token"}, DbNote <- {[id |-> -1, contract |-> "token"]},
    MaxEffects <- 3, MaxRare <- 2, MaxOracles <- 3, MaxSize <- 5,
    stack <- r1, bundles <- r2, phantom <- r3, out <- r4, status <- r5, oracles <- r6,
    emitted <- r7

(* Up to three calls, of which one kind enqueues a public call. *)
Kernel == INSTANCE KernelSequence WITH
    Call <- {1, 2}, EnqueuesPublic <- {2}, MaxCalls <- 3,
    results <- r1, simulate <- r2, phase <- r3, next <- r4, output <- r5,
    for_public <- r6, steps <- r7, proof <- r8

(* Four blocks: b and d on one branch, c on the other, each with storage,     *)
(* nullifiers and messages of its own.                                        *)
Everywhere(n) == [slot \in 0..2 |-> n]

Reads == INSTANCE OracleReads WITH
    Block <- {"g", "b", "c", "d"}, Genesis <- "g",
    Parent <- "b" :> "g" @@ "c" :> "g" @@ "d" :> "b",
    Storage <- "g" :> Everywhere(0) @@ "b" :> Everywhere(1) @@ "c" :> Everywhere(2)
               @@ "d" :> Everywhere(3),
    Nullifiers <- "g" :> {} @@ "b" :> {<<7, 1>>} @@ "c" :> {<<7, 2>>}
                  @@ "d" :> {<<7, 1>>, <<7, 2>>},
    Messages <- "g" :> {} @@ "b" :> {"m"} @@ "c" :> {} @@ "d" :> {"m", "n"},
    Contract <- 7, Inner <- {<<1>>, <<2>>}, Message <- {"m", "n"},
    Modulus <- 3, Word <- 8, MaxElements <- 2, MaxMoves <- 3,
    chain <- r1, exec <- r2, pending <- r3, call <- r4, answers <- r5, result <- r6,
    moves <- r7, left <- r8

-----------------------------------------------------------------------------
(* Three actions, two of one caller and two on one contract.  The message's   *)
(* digest tells their hashes apart.                                           *)
Act(caller, to, args) == [caller |-> caller, to |-> to, selector |-> "s", args |-> args]

MCDigest(x, y, message) ==
    x + 17 * y + 301 * ((IF message[2] = "t2" THEN 2 ELSE 1)
                        + (IF message[5][2][1] = "c2" THEN 2 ELSE 0))

Auth == INSTANCE AuthWit WITH
    Order <- 11, Digest <- MCDigest, Account <- {"a1", "a2"},
    SigningKey <- ("a1" :> 3 @@ "a2" :> 8), Stranger <- "a3",
    Action <- {Act("c1", "t1", <<"x">>), Act("c1", "t2", <<"x">>), Act("c2", "t1", <<>>)},
    ChainInfo <- <<"id", "v">>, Selector <- "call", MaxTxs <- 1,
    witness <- r1, approved <- r2, pending <- r3, lookup <- r4, txs <- r5, made <- r6,
    granted <- r7, moved <- r8

-----------------------------------------------------------------------------
(* One, two and three calls, private and public, static, hidden, with and     *)
(* without arguments.                                                         *)
F(n) == [kind |-> "field", v |-> <<n>>]
Flag == [kind |-> "bool", v |-> TRUE]
Ask(selector, args, public, static, hide) ==
    [to |-> 1, selector |-> selector, args |-> args, public |-> public, static |-> static,
     hide |-> hide]

Request == INSTANCE TxRequest WITH
    W64 <- 4, W128 <- 6, Byte <- 8,
    KeyOrder <- <<"args_hash", "function_calls", "function_selector", "hide_msg_sender", "inner",
                  "is_public", "is_static", "target_address", "tx_nonce">>,
    AppMaxCalls <- 3, Account <- 9, Sponsor <- 8, FeeJuice <- 5, MultiCall <- 4,
    Entrypoint <- 3, Nonce <- 2,
    Asked <- << <<Ask(1, <<F(1)>>, FALSE, FALSE, FALSE)>>,
                <<Ask(2, <<F(1), Flag>>, TRUE, FALSE, TRUE), Ask(1, <<>>, FALSE, TRUE, FALSE)>>,
                <<Ask(1, <<F(1)>>, FALSE, FALSE, FALSE), Ask(2, <<F(1)>>, TRUE, FALSE, FALSE),
                  Ask(2, <<>>, TRUE, TRUE, FALSE)>> >>,
    ask <- r1, stage <- r2, payload <- r3, request <- r4, executed <- r5

(* Every batch of up to two calls of a pool: private calls that nest, expire  *)
(* and fail at a later block, public calls that revert for several reasons.   *)
NoReason == [contract |-> "c", function |-> "f", selector |-> "s0", text |-> "none"]
Reason(selector, text) == [NoReason EXCEPT !.selector = selector, !.text = text]
Private(returns, nested, expires, fails) ==
    [public |-> FALSE, returns |-> returns, witnesses |-> <<>>, nested |-> nested,
     expires |-> expires, fails |-> fails, reverts |-> 0, reason |-> NoReason]
Public(returns, reverts, reason) ==
    [public |-> TRUE, returns |-> returns, witnesses |-> <<>>, nested |-> <<>>,
     expires |-> 0, fails |-> 0, reverts |-> reverts, reason |-> reason]

Pool == <<Private(<<1>>, <<>>, 0, 0), Private(<<2>>, << <<>> >>, 5, 0),
          Private(<<3>>, << <<9>> >>, 7, 2), Private(<<>>, <<>>, 6, 0),
          Public(<<4>>, 0, NoReason), Public(<<5>>, 2, Reason("s1", "raw")),
          Public(<<6>>, 2, Reason("s2", "raw")), Public(<<>>, 1, Reason("s3", "gone")),
          Public(<<7>>, 2, Reason("s4", "raw"))>>

Batch(k) == IF k = 0 THEN <<>> ELSE IF k <= 9 THEN <<Pool[k]>>
            ELSE <<Pool[((k - 10) \div 9) + 1], Pool[((k - 10) % 9) + 1]>>

Asks == [k \in 1..546 |->
    [mode |-> <<"simulate", "profile", "send">>[(k % 3) + 1], calls |-> Batch((k - 1) \div 6),
     max_fee |-> IF k % 2 = 0 THEN 5 ELSE 0, signed |-> k % 7 # 0]]

Simulation == INSTANCE WalletSimulation WITH
    Asked <- Asks, FeeAt <- <<3, 4, 5>>, MAX_TX_LIFETIME <- 9,
    ErrorTypes <- <<[contract |-> "d", function |-> "g", selector |-> "s1", message |-> "other"],
                    [contract |-> "c", function |-> "f", selector |-> "s1", message |-> "own"],
                    [contract |-> "d", function |-> "g", selector |-> "s2", message |-> "gone"]>>,
    KnownErrors <- <<[selector |-> "s4", message |-> "unauthorized"]>>, NotDeployed <- {"gone"},
    ask <- r1, stage <- r2, head <- r3, anchor <- r4, report <- r5, tx <- r6, seen <- r7

-----------------------------------------------------------------------------
(* Values of each kind of ABI type, nested one level, integers at and beyond  *)
(* the bounds of their width.                                                 *)
Abi == INSTANCE AbiCodec WITH
    W64 <- 3, W128 <- 4, Byte <- 8,
    KeyOrder <- <<"_is_some", "_value", "a", "b", "inner", "len", "storage">>

Int8 == Abi!Integer(TRUE, 2)
Scalars == {Abi!Field, Abi!Boolean, Abi!Integer(TRUE, 3), Int8, Abi!Integer(FALSE, 2),
            Abi!Integer(TRUE, 4), Abi!String(2)}
BoundedVec(t) == Abi!Struct("BoundedVec", <<Abi!Param("storage", Abi!Array(t, 2)),
                                            Abi!Param("len", Abi!Integer(FALSE, 2))>>)
Option(t) == Abi!Struct("Option", <<Abi!Param("_is_some", Abi!Boolean), Abi!Param("_value", t)>>)
Wrapper(name) == Abi!Struct(name, <<Abi!Param("inner", Abi!Field)>>)
Pair(name1, typ1, name2, typ2) ==
    Abi!Struct("Pair", <<Abi!Param(name1, typ1), Abi!Param(name2, typ2)>>)

AbiTypes ==
    Scalars \cup {Abi!Array(t, 2) : t \in Scalars \ {Abi!Integer(TRUE, 4)}}
    \cup {BoundedVec(t) : t \in {Int8, Abi!String(2), Abi!Boolean, Abi!Tuple(<<Int8, Abi!Boolean>>)}}
    \cup {Option(t) : t \in {Int8, Abi!String(2), BoundedVec(Int8)}}
    \cup {Abi!Tuple(<<Int8, Abi!Boolean>>), Pair("b", Int8, "a", Abi!Boolean),
          Pair("a", Abi!Integer(TRUE, 3), "b", Abi!String(2)), Wrapper("AztecAddress"), Wrapper("W")}

RECURSIVE ValuesOf(_)
ValuesOf(t) ==
    CASE t.kind = "field" -> {Abi!V("field", <<1>>), Abi!V("field", <<"h", <<>>>>)}
      [] t.kind = "bool" -> {Abi!V("bool", b) : b \in BOOLEAN}
      [] t.kind = "int" -> {Abi!V("int", i) : i \in -8..7}
      [] t.kind = "string" -> {Abi!V("string", s) : s \in {<<>>, <<1>>, <<1, 2>>}}
      [] t.kind = "array" -> {Abi!V("array", s) : s \in [1..2 -> ValuesOf(t.element)]}
      [] t.kind = "tuple" -> {Abi!V("tuple", <<x, y>>) :
                                  x \in ValuesOf(t.elements[1]), y \in ValuesOf(t.elements[2])}
      [] t.name = "BoundedVec" -> {Abi!V("array", s) : s \in
                                  UNION {[1..n -> ValuesOf(t.fields[1].typ.element)] : n \in 0..2}}
      [] t.name = "AztecAddress" -> ValuesOf(Abi!Field)
      [] t.name = "W" -> {Abi!V("struct", [inner |-> x]) : x \in ValuesOf(Abi!Field)}
      [] OTHER -> {Abi!V("struct", t.fields[1].name :> x @@ t.fields[2].name :> y) :
                       x \in ValuesOf(t.fields[1].typ), y \in ValuesOf(t.fields[2].typ)}

-----------------------------------------------------------------------------
(* Fields of two binary digits; notes whose items collide, every clause of a  *)
(* note filter; requests and logs up to the largest size.                     *)
Wire == INSTANCE OracleWire WITH
    Byte <- 2, W <- 2, MAX_NOTE_PACKED_LEN <- 2, MAX_EVENT_SERIALIZED_LEN <- 3,
    MAX_NOTE_HASHES_PER_TX <- 2, PRIVATE_LOG_SIZE_IN_FIELDS <- 3, LogPayload <- 3

UpTo(n, S) == UNION {[1..k -> S] : k \in 0..n}
Hashes == {Wire!to_be_bytes(f) : f \in 0..3}

Note(data, slot, nullified) ==
    [data |-> data, slot |-> slot, nullified |-> nullified, owner |-> 2, contract |-> 7,
     randomness |-> 3, nonce |-> 1, is_pending |-> FALSE]

FeedNotes ==
    \E a \in 0..2, b \in {2, 3}, c \in {1, 3}, slot \in {1, 2}, nullified \in BOOLEAN, size \in 1..3,
       clause \in [index : 0..2, offset : {0, 1}, length : 0..2, value : 0..2, comparator : 1..7] :
        r1' = [kind |-> "notes", clause |-> clause, size |-> size,
               store |-> <<Note(<<a, b>>, 1, FALSE), Note(<<b, a>>, 1, FALSE),
                           Note(<<c, c>>, slot, nullified)>>]

FeedRequests ==
    \/ \E content \in UpTo(2, {0, 1}), tx_hash \in Hashes :
           r1' = [kind |-> "note_request", r |->
                  [contract |-> 7, owner |-> 2, slot |-> 1, randomness |-> 3, nonce |-> 5,
                   content |-> content, note_hash |-> 6, nullifier |-> 4, tx_hash |-> tx_hash,
                   recipient |-> 8]]
    \/ \E content \in UpTo(3, {0, 1}), tx_hash \in Hashes :
           r1' = [kind |-> "event_request", r |->
                  [contract |-> 7, selector |-> 2, randomness |-> 3, content |-> content,
                   commitment |-> 6, tx_hash |-> tx_hash, recipient |-> 8]]
    \/ \E data \in UpTo(3, {0, 1}) \ {<<>>}, tx_hash \in Hashes, hashes \in UpTo(2, {0, 1}) :
           r1' = [kind |-> "log", r |-> [data |-> data, tx_hash |-> tx_hash, note_hashes |-> hashes,
                                         first_nullifier |-> 9]]
    \/ \E path \in UpTo(2, 0..3) : r1' = [kind |-> "path", r |-> path]
    \/ \E keys \in [1..4 -> [x : {0, 1}, y : {2}, infinite : BOOLEAN]] :
           r1' = [kind |-> "keys", r |-> [keys |-> keys, salt |-> 4, deployer |-> 5, class |-> 6,
                                          init |-> 7]]

-----------------------------------------------------------------------------
(* One call with up to three note hashes, alike or not, one of them nullified *)
(* or not, a log, public calls in either phase, a teardown call and a class   *)
(* log; a header and a request with one value in an unusual form.             *)
Inputs == INSTANCE KernelTail WITH
    Byte <- 16, Width <- [bool |-> 1, u32 |-> 2, u64 |-> 3, u128 |-> 3, eth |-> 2, fr |-> 4],
    Size <- [notes |-> 2, nulls |-> 2, msgs |-> 1, logs |-> 1, classes |-> 1, calls |-> 2],
    LogSize <- 2, ClassSize <- 3, First <- 11,
    Price <- [private |-> 4, public |-> 5, note |-> 9, null |-> 16, msg |-> 6, log |-> 2,
              class |-> 7, da |-> 3, field |-> 8]

Json(form, n) == [form |-> form, n |-> n]
Hex(n) == Json("hex", n)
Snap(n) == [root |-> Hex(n), next |-> Json("num", n + 1)]
Two(form, n) == [da |-> Json(form, n), l2 |-> Json(form, n + 1)]

Header(odd) ==
    [last_archive |-> Snap(20), l1_to_l2 |-> Snap(30), note_hash |-> Snap(40), nullifier |-> Snap(50),
     public_data |-> Snap(60), sponge_blob_hash |-> Hex(70), chain_id |-> Hex(71), version |-> Hex(72),
     block_number |-> Json("num", IF odd = "block" THEN 300 ELSE 73),
     slot_number |-> Json("num", 74),
     timestamp |-> IF odd = "time" THEN Json("dec", 75) ELSE Hex(75),
     coinbase |-> IF odd = "coinbase" THEN Json("none", 0) ELSE Hex(76),
     fee_recipient |-> Hex(77), gas_fees |-> Two(IF odd = "fees" THEN "dec" ELSE "num", 78),
     total_fees |-> IF odd = "total" THEN Json("dec", 80) ELSE Hex(80), total_mana_used |-> Hex(81)]

Context(odd) ==
    [chain_id |-> Hex(82), version |-> Hex(83), gas_limits |-> Two("num", IF odd = "gas" THEN 255 ELSE 84),
     teardown |-> Two("num", 86), max_fee |-> Two("dec", 88), priority |-> Two("num", 91)]

Constants(odd) == Inputs!build_tx_constant_data(Header(odd), Context(odd), 93, 94)

FeedTail ==
    \E notes \in 0..3, alike, squashed, log, teardown \in BOOLEAN, nulls \in 0..1, pubs \in 0..2,
       class \in {<<>>, <<5>>, <<0>>}, min \in {0, 4, 10},
       odd \in {"none", "block", "time", "coinbase", "fees", "total", "gas"} :
        /\ squashed => notes > 0 /\ nulls > 0
        /\ odd = "none" \/ (notes = 1 /\ ~alike /\ ~squashed)
        /\ LET call ==
               [notes |-> [i \in 1..notes |-> [id |-> IF alike THEN 1 ELSE i, counter |-> 2 + i]],
                nulls |-> [i \in 1..nulls |-> [id |-> 4, counter |-> 6]],
                map |-> IF squashed THEN 3 :> 6 ELSE <<>>,
                logs |-> IF log THEN <<[fields |-> <<7>>, length |-> 1, note |-> 3, counter |-> 7]>>
                         ELSE <<>>,
                pubs |-> [i \in 1..pubs |-> [id |-> i, counter |-> 8 + i]],
                teardown |-> IF teardown THEN [id |-> 3, counter |-> 11] ELSE [id |-> 0, counter |-> 0],
                classes |-> IF class = <<>> THEN <<>>
                            ELSE <<[id |-> 6, counter |-> 12, fields |-> class, length |-> 1]>>]
           IN r1' = [kind |-> "tail", odd |-> odd, min |-> min, call |-> call, inputs |->
                        Inputs!Assemble(<<call>>, min, Constants(odd), 95, 96)]

-----------------------------------------------------------------------------
(* A contract with a public and two private functions, one of which calls the *)
(* other or itself; arrays that are empty, partly filled and full.            *)
Circuit == INSTANCE CircuitWitness WITH
    HeaderAndContext <- LET k == Constants("none")
                        IN Inputs!HeaderFields(k.header) \o Inputs!ContextFields(k.context)

Param(name, path, size) == [name |-> name, path |-> path, size |-> size]
Compiled(name, attributes, parameters) ==
    [name |-> name, attributes |-> attributes, is_unconstrained |-> FALSE, parameters |-> parameters]

FeedCircuit ==
    \E macro \in {<<>>, <<Circuit!Macro>>}, attributes \in {{}, {"abi_private"}},
       nested \in {2, 3}, n \in {0, 3}, notes \in {0, 2, 16}, nulls \in {0, 16}, logs \in {2, 16} :
        LET context == Param("inputs", "PrivateContextInputs", 37)
            args == IF n = 0 THEN <<>> ELSE <<Param("inputs", "", n)>>
        IN r1' = [kind |-> "circuit", r |->
                  [raws |-> <<Compiled(<<"f">>, {"abi_public"}, <<Param("inputs", "", 2)>>),
                              Compiled(macro \o <<"g">>, attributes, <<context>> \o args),
                              Compiled(macro \o <<"h">>, attributes, <<context>> \o args)>>,
                   entry |-> 2, nested |-> nested, args |-> [i \in 1..n |-> 500 + i],
                   context |-> <<601, 602, 603, 0>>, inner_context |-> <<602, 604, 605, 1>>,
                   run |-> [call_context |-> <<0, 0, 0, 0>>, args_hash |-> 606, returns_hash |-> 607,
                            min |-> 608, expiration |-> 609, start |-> 610, end |-> 611,
                            notes |-> [i \in 1..notes |-> <<700 + i, i>>],
                            nulls |-> [i \in 1..nulls |-> <<800 + i, 0, i>>],
                            logs |-> [i \in 1..logs |-> [j \in 1..19 |-> 900 + i + j]]]]]

-----------------------------------------------------------------------------
Nothing == [kind |-> "none"]

Init ==
    \/ focus = "execution" /\ Exec!Init /\ Off8
    \/ focus = "kernel" /\ Kernel!Init /\ Off9
    \/ focus = "reads" /\ Reads!Init /\ Off9
    \/ focus = "auth" /\ Auth!Init /\ Off9
    \/ focus = "request" /\ Request!Init /\ Off6
    \/ focus = "simulation" /\ Simulation!Init /\ Off8
    \/ focus \in {"abi", "wire", "tail", "circuit"} /\ r1 = Nothing /\ Off2

Next ==
    \/ focus = "execution" /\ Exec!Step /\ Keep8
    \/ focus = "kernel" /\ Kernel!Next /\ Keep9
    \/ focus = "reads" /\ Reads!Next /\ Keep9
    \/ focus = "auth" /\ Auth!Next /\ Keep9
    \/ focus = "request" /\ Request!Next /\ Keep6
    \/ focus = "simulation" /\ Simulation!Next /\ Keep8
    \/ focus = "abi" /\ r1.kind = "none" /\ (\E t \in AbiTypes : r1' = [kind |-> "type", typ |-> t]) /\ Keep2
    \/ focus = "wire" /\ r1.kind = "none" /\ FeedNotes /\ Keep2
    \/ focus = "wire" /\ r1.kind = "none" /\ FeedRequests /\ Keep2
    \/ focus = "tail" /\ r1.kind = "none" /\ FeedTail /\ Keep2
    \/ focus = "circuit" /\ r1.kind = "none" /\ FeedCircuit /\ Keep2

Spec == Init /\ [][Next]_vars

-----------------------------------------------------------------------------
(* The variables of the component in focus hold values of their types.       *)
TypeOK ==
    /\ focus = "execution" => Exec!TypeOK
    /\ focus = "reads" => Reads!TypeOK
    /\ focus = "auth" => Auth!TypeOK
    /\ focus = "request" => Request!TypeOK
    /\ focus = "simulation" => Simulation!TypeOK

(* What the kernels make of the private calls (simulated.rs): no side effect  *)
(* comes out twice although callers and callees repeat each other's; as long  *)
(* as counters differ, exactly the side effects of the transaction without    *)
(* the notes nullified while pending come out; and a side effect of the only  *)
(* call is revertible exactly if it came after the setup phase ended.  The    *)
(* calldata handed over with one call's public calls is theirs, in order, and *)
(* so are the fields handed over with its contract class logs.                *)
EffectsOnceAndExact ==
    focus = "execution" => Exec!NoEffectTwice /\ Exec!KernelOutputExact /\ Exec!SplitAtPhase
                           /\ Exec!CalldataMatches /\ Exec!ClassFieldsMatch

(* A note a call has nullified, at whatever depth, is not offered to it, to   *)
(* its callers or to the calls they make (get_notes, with the nullifiers      *)
(* nested oracles hand back).                                                 *)
NullifiedNotReturned == focus = "execution" => Exec!NullifiedNotReturned

(* The client proof folds init, inner, reset, tail and hiding steps over all  *)
(* the calls in their order, and simulation returns the public inputs that    *)
(* proving would (prove_with_kernels).                                        *)
ProofCoversCalls == focus = "kernel" => Kernel!ProofCoversCalls

(* simulate_tx answers what each call returned in one and the same execution  *)
(* of the batch; send_tx hands over a transaction that pays the fees of the   *)
(* blocks up to the one it lands in, if they grew by at most one half,        *)
(* expires no later than any call asked for, and did not revert in the        *)
(* preflight except for a contract that "is not deployed".                    *)
SentAsSimulated ==
    focus = "simulation" => Simulation!SimulationReturnsTheCalls /\ Simulation!SentWithinLimits

(* The calls the PXE decodes out of the entrypoint's arguments are the calls  *)
(* of the merged payload with their own arguments, and the account signs the  *)
(* hash of the encoded calls its circuit is given (decode_entrypoint_calls,   *)
(* EncodedAppEntrypointCalls::hash).                                          *)
SignedIsExecuted == focus = "request" => Request!RequestDecodes /\ Request!SignedIsExecuted

(* While blocks arrive and are pruned, storage and witness reads are of the   *)
(* block they name, and no nullifier of the anchor's tree is reported missing *)
(* (get_public_storage_at, get_public_data_witness, check_nullifier_exists).  *)
ReadsMatchBlock ==
    focus = "reads" => Reads!ReadsMatchBlock /\ Reads!AnchoredNullifierSeen

(* encode_arguments, decode_from_abi and the flattening an argument hash is   *)
(* computed over agree on every value that fits its type; a contract reading  *)
(* its notes page by page gets each matching note once; every request, log,   *)
(* path and key structure that crosses the oracle boundary is read at the     *)
(* places it is written to (get_notes, the parse_ and serialize_ functions    *)
(* of utility_oracle.rs); and so are a circuit's parameters and its public    *)
(* inputs (build_private_witness, extract_side_effects_from_witness).         *)
LayoutsAgree ==
    focus \in {"abi", "wire", "circuit"} =>
        CASE r1.kind = "type" -> \A value \in ValuesOf(r1.typ) :
                    Abi!RoundTrips(r1.typ, value) /\ Abi!HashedAsEncoded(r1.typ, value)
          [] r1.kind = "notes" -> Wire!PagesCover(r1.store, <<r1.clause>>, r1.size, 8)
          [] r1.kind = "note_request" -> Wire!NoteRequestRoundTrips(r1.r)
          [] r1.kind = "event_request" -> Wire!EventRequestRoundTrips(r1.r)
          [] r1.kind = "log" -> Wire!LogRoundTrips(r1.r, 8)
          [] r1.kind = "path" -> Wire!PathDecodes(r1.r)
          [] r1.kind = "keys" -> Wire!StructsReadBack(r1.r, 9)
          [] r1.kind = "circuit" -> Circuit!WitnessesAgree(r1.r)
          [] OTHER -> TRUE

(* The transaction hash prove_tx returns is the one the node computes from    *)
(* the buffer it is sent, if every array has room and every integer its       *)
(* width; the kernel's constants are those of the header and the request;     *)
(* every effect that stays is metered once, and the node's validators accept  *)
(* the calldata and the class logs (kernel_types.rs, simulated.rs).           *)
NodeAgrees ==
    focus = "tail" /\ r1.kind = "tail" =>
        LET x == r1.inputs
            classes == [i \in DOMAIN r1.call.classes |-> Inputs!ClassFields(r1.call.classes[i])]
            last == r1.call.teardown
            calls == r1.call.pubs \o (IF last.id = 0 THEN <<>> ELSE <<last>>)
        IN /\ Inputs!NodeComputesHash(x)
           /\ Inputs!ConstantsAsSent(Header(r1.odd), Context(r1.odd), x.constants)
           /\ Inputs!RequestAsProved([origin |-> 1, args_hash |-> 2, selector |-> 3, salt |-> 4,
                                      context |-> x.constants.context])
           /\ Inputs!GasAsEmitted(x, <<r1.call>>, r1.min)
           /\ Inputs!NotesUnique(x)
           /\ Inputs!Validated(x, classes, [i \in DOMAIN calls |-> <<calls[i].id>>])

(* lookup_validity answers what the account authorised, in private by the     *)
(* witness it made and in public by the registry, whichever form either side  *)
(* named the action in.                                                       *)
LookupAnswers == focus = "auth" => Auth!LookupAnswers

(* "The wallet merges the payload from a FeePaymentMethod into the user's     *)
(* execution payload": of the calls run, those of the fee method are there    *)
(* once (ContractFunctionInteraction, BaseWallet::send_tx and simulate_tx).   *)
FeePayloadMergedOnce == focus = "request" => Request!FeePayloadMergedOnce

(* "Check pending nullifiers first": a nullifier the execution has emitted    *)
(* exists for it (check_nullifier_exists).                                    *)
PendingNullifierSeen == focus = "reads" => Reads!PendingNullifierSeen
=============================================================================
