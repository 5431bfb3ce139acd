------------------------------- MODULE KernelTail -------------------------------
(***************************************************************************)
(* The public inputs of the private kernel tail (core/kernel_types.rs):    *)
(* how SimulatedKernel::process assembles them from the side effects it    *)
(* kept and meters their gas, how prove_tx reads the constants out of the  *)
(* header and the request, the fields the transaction hash is computed     *)
(* over and the buffer that is sent to the node, and the node's validators *)
(* (core/validation.rs).                                                   *)
(*                                                                         *)
(* Field elements and integers are naturals.  The buffer is a sequence of  *)
(* digits to base Byte; Width gives the digits of each kind of value.  An  *)
(* effect's id stands for its contents and contract, and the hashes of it  *)
(* are injective.                                                          *)
(***************************************************************************)
EXTENDS SimulatedKernel, FiniteSets

CONSTANTS
    Byte,     \* the base of a digit
    Width,    \* kinds "bool", "u32", "u64", "u128", "eth" and "fr" to numbers of digits
    Size,     \* the sizes of the arrays notes, nulls, msgs, logs, classes and calls
    LogSize,  \* PRIVATE_LOG_SIZE_IN_FIELDS
    ClassSize, \* CONTRACT_CLASS_LOG_SIZE_IN_FIELDS
    Price,    \* gas: private, public, note, null, msg, log, class, da, field
    First     \* the protocol nullifier

-----------------------------------------------------------------------------
(* Leaf values, and what counts as an empty one. *)
EmptyMsg == [recipient |-> 0, content |-> 0, contract |-> 0]
EmptyLogHash == [value |-> 0, length |-> 0, contract |-> 0]
EmptyLog == [fields |-> [i \in 1..LogSize |-> 0], length |-> 0]
EmptyCall == [sender |-> 0, contract |-> 0, static |-> 0, calldata |-> 0]

IsEmptyMsg(m) == m.content = 0
IsEmptyLogHash(h) == h.value = 0
IsEmptyLog(l) == \A i \in DOMAIN l.fields : l.fields[i] = 0
IsEmptyCall(r) == r.contract = 0

(* pad_fields and its relatives: an array that is too long stays so. *)
Pad(seq, len, empty) ==
    IF Len(seq) < len THEN seq \o [i \in 1..(len - Len(seq)) |-> empty] ELSE seq

Map(Op(_), seq) == [i \in DOMAIN seq |-> Op(seq[i])]
FlatMap(Op(_), seq) == FlattenSeq(Map(Op, seq))
Filled(seq, Empty(_)) == SelectSeq(seq, LAMBDA e : ~Empty(e))
Count(seq, Empty(_)) == Len(Filled(seq, Empty))
IsZero(n) == n = 0

-----------------------------------------------------------------------------
(* build_tx_constant_data.  A JSON value has a form: a number, a string of
   hexadecimal or of decimal digits, or it is missing. *)
AsHex(n) == (n \div 10) * 16 + (n % 10)

(* A string is read as hexadecimal, with or without its prefix. *)
fr_at(v) ==
    CASE v.form \in {"hex", "num"} -> v.n [] v.form = "dec" -> AsHex(v.n) [] OTHER -> 0

u64_at(v) == IF v.form = "none" THEN 0 ELSE v.n
u128_at(v) == u64_at(v)
u32_at(v) == u64_at(v) % (Byte^Width.u32)

(* Anything but a string counts as the zero address; of a string the low bytes
   are kept. *)
eth_at(v) == IF v.form \in {"hex", "dec"} THEN fr_at(v) % (Byte^Width.eth) ELSE 0

snap(v) == [root |-> fr_at(v.root), next |-> u32_at(v.next)]
gas_at(v) == [da |-> u64_at(v.da), l2 |-> u64_at(v.l2)]
fees_at(v) == [da |-> u128_at(v.da), l2 |-> u128_at(v.l2)]

HeaderOf(h) ==
    [last_archive |-> snap(h.last_archive), l1_to_l2 |-> snap(h.l1_to_l2),
     note_hash |-> snap(h.note_hash), nullifier |-> snap(h.nullifier),
     public_data |-> snap(h.public_data), sponge_blob_hash |-> fr_at(h.sponge_blob_hash),
     chain_id |-> fr_at(h.chain_id), version |-> fr_at(h.version),
     block_number |-> u64_at(h.block_number), slot_number |-> u64_at(h.slot_number),
     timestamp |-> u64_at(h.timestamp), coinbase |-> eth_at(h.coinbase),
     fee_recipient |-> fr_at(h.fee_recipient), gas_fees |-> fees_at(h.gas_fees),
     total_fees |-> fr_at(h.total_fees), total_mana_used |-> fr_at(h.total_mana_used)]

ContextOf(req) ==
    [chain_id |-> fr_at(req.chain_id), version |-> fr_at(req.version),
     gas_limits |-> gas_at(req.gas_limits), teardown |-> gas_at(req.teardown),
     max_fee |-> fees_at(req.max_fee), priority |-> fees_at(req.priority)]

build_tx_constant_data(h, req, vk_tree_root, protocol_contracts_hash) ==
    [header |-> HeaderOf(h), context |-> ContextOf(req), vk_tree_root |-> vk_tree_root,
     protocol_contracts_hash |-> protocol_contracts_hash]

-----------------------------------------------------------------------------
(* SimulatedKernel::process from the kept effects on.  What an id hashes to: *)
Silo(e) == IF e.id = 0 THEN First ELSE 16 + e.id
Unique(i, hash) == 64 * i + hash

SiloLog(l) ==
    [fields |-> Pad(IF l.fields # <<>> /\ l.fields[1] # 0
                    THEN [l.fields EXCEPT ![1] = 16 + @] ELSE l.fields, LogSize, 0),
     length |-> l.length]

(* from_emitted_fields, and the hash over the padded fields. *)
ClassFields(c) == Pad(c.fields, ClassSize, 0)
HashOf(fields) == FoldLeft(LAMBDA acc, f : 3 * acc + f, 1, fields)
ClassHash(c) == [value |-> HashOf(ClassFields(c)), length |-> c.length, contract |-> c.id]

CallRequest(p) == [sender |-> 1, contract |-> p.id, static |-> 0, calldata |-> HashOf(<<p.id>>)]

(* Mutation: one nonce for all note hashes. *)
UniqueNotesOneNonce(notes) == [i \in DOMAIN notes |-> Unique(1, Silo(notes[i]))]

(* Only in a private transaction, or before the revertible phase, is the place
   of a note hash known, of which its nonce is made. *)
UniqueNotes(notes) == [i \in DOMAIN notes |-> Unique(i, Silo(notes[i]))]

Accumulated(notes, part, classes) ==
    [notes |-> Pad(notes, Size.notes, 0), nulls |-> Pad(Map(Silo, part.nulls), Size.nulls, 0),
     msgs |-> Pad(<<>>, Size.msgs, EmptyMsg), logs |-> Pad(Map(SiloLog, part.logs), Size.logs, EmptyLog),
     classes |-> Pad(classes, Size.classes, EmptyLogHash),
     calls |-> Pad(Map(CallRequest, part.pubs), Size.calls, EmptyCall)]

meter_gas_rollup(d) ==
    LET notes == Count(d.notes, IsZero)
        nulls == Count(d.nulls, IsZero)
        logs == Count(d.logs, IsEmptyLog)
    IN [da |-> Price.da + (notes + nulls + logs * LogSize) * Price.field,
        l2 |-> Price.private + notes * Price.note + nulls * Price.null + logs * Price.log
               + Count(d.msgs, IsEmptyMsg) * Price.msg
               + Count(d.classes, IsEmptyLogHash) * Price.class]

(* Messages and class logs are not metered here. *)
meter_gas_public(nr, r) ==
    LET notes == Count(nr.notes, IsZero) + Count(r.notes, IsZero)
        nulls == Count(nr.nulls, IsZero) + Count(r.nulls, IsZero)
        logs == Count(nr.logs, IsEmptyLog) + Count(r.logs, IsEmptyLog)
    IN [da |-> Price.da + (notes + nulls + logs * LogSize) * Price.field,
        l2 |-> Price.public + notes * Price.note + nulls * Price.null + logs * Price.log]

(* All class logs of a transaction with public calls are non-revertible. *)
Assemble(calls, min, constants, fee_payer, expiration) ==
    LET out == Process(calls, min)
        classes == Map(ClassHash, Collect(calls, "classes"))
        nr == Accumulated(UniqueNotes(out.nr.notes), out.nr, classes)
        r == Accumulated(Map(Silo, out.r.notes), out.r, <<>>)
    IN [constants |-> constants, for_public |-> ~out.private, nr |-> nr, r |-> r,
        teardown |-> IF out.teardown = NoTeardown THEN EmptyCall ELSE CallRequest(out.teardown),
        gas_used |-> IF out.private THEN meter_gas_rollup(nr) ELSE meter_gas_public(nr, r),
        fee_payer |-> fee_payer, expiration |-> expiration]

-----------------------------------------------------------------------------
(* write_fields: the order the transaction hash is computed in. *)
SnapshotFields(s) == <<s.root, s.next>>

StateFields(h) == SnapshotFields(h.l1_to_l2) \o SnapshotFields(h.note_hash)
                  \o SnapshotFields(h.nullifier) \o SnapshotFields(h.public_data)

GasFields(g) == <<g.da, g.l2>>

GlobalFields(h) == <<h.chain_id, h.version, h.block_number, h.slot_number, h.timestamp, h.coinbase,
                     h.fee_recipient>> \o GasFields(h.gas_fees)

HeaderFields(h) == SnapshotFields(h.last_archive) \o StateFields(h) \o <<h.sponge_blob_hash>>
                   \o GlobalFields(h) \o <<h.total_fees, h.total_mana_used>>

SettingsFields(c) == GasFields(c.gas_limits) \o GasFields(c.teardown) \o GasFields(c.max_fee)
                     \o GasFields(c.priority)

ContextFields(c) == <<c.chain_id, c.version>> \o SettingsFields(c)

ConstantFields(k) == HeaderFields(k.header) \o ContextFields(k.context)
                     \o <<k.vk_tree_root, k.protocol_contracts_hash>>

MsgFields(m) == <<m.recipient, m.content, m.contract>>
LogHashFields(h) == <<h.value, h.length, h.contract>>
LogFields(l) == Append(l.fields, l.length)
CallFields(r) == <<r.sender, r.contract, r.static, r.calldata>>

RollupFields(d) == d.notes \o d.nulls \o FlatMap(MsgFields, d.msgs) \o FlatMap(LogFields, d.logs)
                   \o FlatMap(LogHashFields, d.classes)
PublicFields(d) == d.notes \o d.nulls \o FlatMap(MsgFields, d.msgs) \o FlatMap(LogFields, d.logs)
                   \o FlatMap(LogHashFields, d.classes) \o FlatMap(CallFields, d.calls)

ForPublicFields(x) == PublicFields(x.nr) \o PublicFields(x.r) \o CallFields(x.teardown)

to_fields(x) ==
    ConstantFields(x.constants) \o (IF x.for_public THEN ForPublicFields(x) ELSE RollupFields(x.nr))
    \o GasFields(x.gas_used) \o <<x.fee_payer, x.expiration>>

(* hash: the flag chooses the domain separator. *)
hash(x) == [separator |-> x.for_public, fields |-> to_fields(x)]

(* TxContext::to_fields of core/tx.rs and the tx request hash. *)
RequestContextFields(c) ==
    <<c.chain_id, c.version, c.gas_limits.da, c.gas_limits.l2, c.teardown.da, c.teardown.l2,
      c.max_fee.da, c.max_fee.l2, c.priority.da, c.priority.l2>>

compute_tx_request_hash(origin, args_hash, c, selector, is_private, salt) ==
    <<origin, args_hash>> \o RequestContextFields(c) \o <<selector, is_private, salt>>

tx_request_hash(q) ==
    compute_tx_request_hash(q.origin, q.args_hash, q.context, q.selector, 1, q.salt)

(* The same request as the kernel circuit is given it. *)
tx_request_fields_for_kernel(q) ==
    <<q.origin, q.args_hash>> \o RequestContextFields(q.context) \o <<q.selector, 1, q.salt>>

-----------------------------------------------------------------------------
(* The buffer: big-endian digits, integers cut to their width. *)
BigEndian(n, w) == [i \in 1..w |-> (n \div Byte^(w - i)) % Byte]

write_fr(n) == BigEndian(n, Width.fr)
write_bool(b) == IF b THEN <<1>> ELSE <<0>>
write_u32(n) == BigEndian(n, Width.u32)
write_u64(n) == BigEndian(n, Width.u64)
write_u128(n) == BigEndian(n, Width.u128)
write_eth_address(n) == BigEndian(n, Width.eth)

write_tree_snapshot(s) == write_fr(s.root) \o write_u32(s.next)
WriteGas(g) == write_u32(g.da) \o write_u32(g.l2)
WriteFees(f) == write_u128(f.da) \o write_u128(f.l2)

WriteHeader(h) ==
    write_tree_snapshot(h.last_archive) \o write_tree_snapshot(h.l1_to_l2)
    \o write_tree_snapshot(h.note_hash) \o write_tree_snapshot(h.nullifier)
    \o write_tree_snapshot(h.public_data) \o write_fr(h.sponge_blob_hash)
    \o write_fr(h.chain_id) \o write_fr(h.version)
    \o write_u32(h.block_number) \o write_u32(h.slot_number) \o write_u64(h.timestamp)
    \o write_eth_address(h.coinbase) \o write_fr(h.fee_recipient) \o WriteFees(h.gas_fees)
    \o write_fr(h.total_fees) \o write_fr(h.total_mana_used)

(* Mutation: the header's trees in the order of the circuit's names. *)
write_tx_constant_data_state_last(k) ==
    WriteHeader([k.header EXCEPT !.l1_to_l2 = k.header.note_hash, !.note_hash = k.header.l1_to_l2])
    \o write_fr(k.context.chain_id) \o write_fr(k.context.version)
    \o WriteGas(k.context.gas_limits) \o WriteGas(k.context.teardown)
    \o WriteFees(k.context.max_fee) \o WriteFees(k.context.priority)
    \o write_fr(k.vk_tree_root) \o write_fr(k.protocol_contracts_hash)

write_tx_constant_data(k) ==
    WriteHeader(k.header)
    \o write_fr(k.context.chain_id) \o write_fr(k.context.version)
    \o WriteGas(k.context.gas_limits) \o WriteGas(k.context.teardown)
    \o WriteFees(k.context.max_fee) \o WriteFees(k.context.priority)
    \o write_fr(k.vk_tree_root) \o write_fr(k.protocol_contracts_hash)

WriteMsg(m) == write_eth_address(m.recipient) \o write_fr(m.content) \o write_fr(m.contract)
WriteLog(l) == FlatMap(write_fr, l.fields) \o write_u32(l.length)
WriteLogHash(h) == write_fr(h.value) \o write_u32(h.length) \o write_fr(h.contract)
write_public_call_request(r) ==
    write_fr(r.sender) \o write_fr(r.contract) \o write_bool(r.static # 0) \o write_fr(r.calldata)

write_rollup_accumulated_data(d) ==
    FlatMap(write_fr, d.notes) \o FlatMap(write_fr, d.nulls) \o FlatMap(WriteMsg, d.msgs)
    \o FlatMap(WriteLog, d.logs) \o FlatMap(WriteLogHash, d.classes)

write_public_accumulated_data(d) ==
    FlatMap(write_fr, d.notes) \o FlatMap(write_fr, d.nulls) \o FlatMap(WriteMsg, d.msgs)
    \o FlatMap(WriteLog, d.logs) \o FlatMap(WriteLogHash, d.classes)
    \o FlatMap(write_public_call_request, d.calls)

to_buffer(x) ==
    write_bool(x.for_public) \o write_tx_constant_data(x.constants) \o WriteGas(x.gas_used)
    \o write_fr(x.fee_payer) \o write_u64(x.expiration)
    \o (IF x.for_public
        THEN write_public_accumulated_data(x.nr) \o write_public_accumulated_data(x.r)
             \o write_public_call_request(x.teardown)
        ELSE write_rollup_accumulated_data(x.nr))

-----------------------------------------------------------------------------
get_non_empty_contract_class_logs_hashes(x) ==
    IF x.for_public THEN Filled(x.nr.classes \o x.r.classes, IsEmptyLogHash)
    ELSE Filled(x.nr.classes, IsEmptyLogHash)

number_of_public_calls(x) ==
    IF x.for_public
    THEN Count(x.nr.calls, IsEmptyCall) + Count(x.r.calls, IsEmptyCall)
         + (IF IsEmptyCall(x.teardown) THEN 0 ELSE 1)
    ELSE 0

(* Setup, app logic, teardown. *)
get_all_public_call_requests(x) ==
    IF x.for_public
    THEN Filled(x.nr.calls \o x.r.calls, IsEmptyCall)
         \o (IF IsEmptyCall(x.teardown) THEN <<>> ELSE <<x.teardown>>)
    ELSE <<>>

(* A request without calldata is not looked at here. *)
validate_calldata(x, calldata, max_fields) ==
    /\ Len(calldata) = number_of_public_calls(x)
    /\ FoldLeft(LAMBDA n, c : n + Len(c), 0, calldata) =< max_fields
    /\ LET requests == get_all_public_call_requests(x) IN
       \A i \in DOMAIN requests \cap DOMAIN calldata :
          HashOf(calldata[i]) = requests[i].calldata

(* The last field that is not zero, or the first field. *)
MinLength(fields) ==
    LET filled == {i \in DOMAIN fields : fields[i] # 0}
    IN IF filled = {} THEN 1 ELSE CHOOSE i \in filled : \A j \in filled : j =< i

validate_contract_class_logs(x, log_fields) ==
    LET hashes == get_non_empty_contract_class_logs_hashes(x) IN
    /\ Len(hashes) = Len(log_fields)
    /\ \A i \in DOMAIN log_fields : hashes[i].length >= MinLength(log_fields[i])

-----------------------------------------------------------------------------
(* The node reads the kinds of value it expects, one after the other, and has
   to end with the buffer. *)
Repeat(n, kinds) == FlattenSeq([i \in 1..n |-> kinds])

ConstantKinds ==
    Repeat(5, <<"fr", "u32">>) \o <<"fr", "fr", "fr", "u32", "u32", "u64", "eth", "fr", "u128", "u128">>
    \o <<"fr", "fr", "fr", "fr", "u32", "u32", "u32", "u32", "u128", "u128", "u128", "u128", "fr", "fr">>

CallKinds == <<"fr", "fr", "bool", "fr">>

RollupKinds ==
    Repeat(Size.notes + Size.nulls, <<"fr">>) \o Repeat(Size.msgs, <<"eth", "fr", "fr">>)
    \o Repeat(Size.logs, Append(Repeat(LogSize, <<"fr">>), "u32"))
    \o Repeat(Size.classes, <<"fr", "u32", "fr">>)

PublicKinds == RollupKinds \o Repeat(Size.calls, CallKinds)

KindsAfterFlag(for_public) ==
    ConstantKinds \o <<"u32", "u32", "fr", "u64">>
    \o (IF for_public THEN PublicKinds \o PublicKinds \o CallKinds ELSE RollupKinds)

(* The digits before the value at place i, the flag among them. *)
Before(kinds, i) ==
    LET Digits(kind) == Width[kind] * Cardinality({j \in 1..(i - 1) : kinds[j] = kind})
    IN 1 + Digits("bool") + Digits("u32") + Digits("u64") + Digits("u128") + Digits("eth") + Digits("fr")

ReadAll(buffer, kinds) ==
    [i \in DOMAIN kinds |->
        FoldLeft(LAMBDA n, d : n * Byte + d, 0,
                 SubSeq(buffer, Before(kinds, i) + 1, Before(kinds, i + 1)))]

(* The hash the node computes of what it has read. *)
NodeHash(buffer) ==
    LET for_public == buffer[1] = 1
        kinds == KindsAfterFlag(for_public)
        v == ReadAll(buffer, kinds)
        n == Len(ConstantKinds)
    IN [separator |-> for_public,
        fields |-> IF Len(buffer) # Before(kinds, Len(kinds) + 1) THEN <<>>
                   ELSE SubSeq(v, 1, n) \o SubSeq(v, n + 5, Len(v)) \o SubSeq(v, n + 1, n + 4)]

-----------------------------------------------------------------------------
(* The arrays have room, and the integers that are cut to 32 bits fit. *)
HasRoom(d) == \A k \in DOMAIN Size : Len(d[k]) =< Size[k]

NarrowValues(x) ==
    LET h == x.constants.header
        c == x.constants.context
    IN {h.block_number, h.slot_number, c.gas_limits.da, c.gas_limits.l2, c.teardown.da, c.teardown.l2,
        x.gas_used.da, x.gas_used.l2}

Fits(x) == /\ HasRoom(x.nr) /\ HasRoom(x.r)
           /\ \A n \in NarrowValues(x) : n < Byte^Width.u32

(* The hash the wallet waits for is the hash the node gives the transaction it
   reads from the buffer (prove_tx: hash and to_buffer). *)
NodeComputesHash(x) == Fits(x) => NodeHash(to_buffer(x)) = hash(x)

(* The request's hash and the kernel's constants have the same context, and
   every value of the header arrives: field elements if sent as hexadecimal
   strings or numbers, integers in any form. *)
Sent(v) == IF v.form = "none" THEN 0 ELSE v.n

ConstantsAsSent(h, req, k) ==
    /\ RequestContextFields(k.context) = ContextFields(k.context)
    /\ k.header.timestamp = Sent(h.timestamp) /\ k.header.block_number = Sent(h.block_number)
    /\ k.header.gas_fees = [da |-> Sent(h.gas_fees.da), l2 |-> Sent(h.gas_fees.l2)]
    /\ h.total_fees.form # "dec" => k.header.total_fees = Sent(h.total_fees)
    /\ h.coinbase.form = "hex" => k.header.coinbase = Sent(h.coinbase)
    /\ k.context.gas_limits = [da |-> Sent(req.gas_limits.da), l2 |-> Sent(req.gas_limits.l2)]

(* The protocol nullifier is derived from the request the circuits are given. *)
RequestAsProved(q) == tx_request_hash(q) = tx_request_fields_for_kernel(q)

(* Of a transaction's effects each is metered once, squashed ones are not, and
   calls cost nothing; class logs are paid for only without public calls. *)
GasAsEmitted(x, calls, min) ==
    LET out == Process(calls, min)
        Kept(kind) == Len(out.nr[kind]) + Len(out.r[kind])
        logs == Count(Map(SiloLog, out.nr.logs \o out.r.logs), IsEmptyLog)
    IN x.gas_used = [da |-> Price.da + (Kept("notes") + Kept("nulls") + logs * LogSize) * Price.field,
                     l2 |-> (IF out.private
                             THEN Price.private + Len(Collect(calls, "classes")) * Price.class
                             ELSE Price.public)
                            + Kept("notes") * Price.note + Kept("nulls") * Price.null + logs * Price.log]

(* No two note hashes of a transaction are the same, whatever phase they are
   in, and the first nullifier is the protocol nullifier. *)
NotesUnique(x) ==
    /\ x.nr.nulls[1] = First
    /\ \A i, j \in DOMAIN x.nr.notes :
          x.nr.notes[i] # 0 /\ x.nr.notes[i] = x.nr.notes[j] => i = j

(* The node's validators accept the class logs and, in the order of the
   requests, the calldata. *)
Validated(x, classes, calldata) ==
    /\ validate_contract_class_logs(x, classes)
    /\ validate_calldata(x, calldata, Len(calldata))
=============================================================================
