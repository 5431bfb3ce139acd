------------------------------- MODULE OracleWire -------------------------------
(***************************************************************************)
(* What crosses the boundary between the oracles and a running circuit, as  *)
(* flat arrays of field elements: the notes getNotes selects, pages and     *)
(* packs (execution/pick_notes.rs, utility_oracle.rs, oracle.rs), the log   *)
(* and validation requests sync_state leaves in capsule arrays, and the     *)
(* sibling paths of the node's witnesses.  A field element is a number of   *)
(* W big-endian bytes.  A result is <<value>>, or <<>> for an error.        *)
(***************************************************************************)
EXTENDS Naturals, Sequences, SequencesExt, FiniteSetsExt

CONSTANTS
    Byte, W,                    \* values of a byte, bytes of a field element
    MAX_NOTE_PACKED_LEN,
    MAX_EVENT_SERIALIZED_LEN,
    MAX_NOTE_HASHES_PER_TX,
    PRIVATE_LOG_SIZE_IN_FIELDS,
    LogPayload                  \* fields of a retrieved log: the larger of
                                \* MAX_NOTE_PACKED_LEN and the ciphertext

Zeros(n) == [i \in 1..n |-> 0]
Resize(s, n) == SubSeq(s \o Zeros(n), 1, n)
AllOk(results) == \A i \in DOMAIN results : results[i] # <<>>
Values(results) == [i \in DOMAIN results |-> results[i][1]]
Chunk(s, n, k) == SubSeq(s, (k - 1) * n + 1, IF k * n > Len(s) THEN Len(s) ELSE k * n)

to_be_bytes(f) == [i \in 1..W |-> (f \div Byte^(W - i)) % Byte]
from_be_bytes(bytes) == FoldLeft(LAMBDA acc, b : acc * Byte + b, 0, bytes)

-----------------------------------------------------------------------------
(* Select clauses of getNotes: a note is kept when each holds of one of its  *)
(* fields, or of some bytes of it.                                           *)
parse_select_clauses(num, columns) ==
    LET At(s, i) == IF i <= Len(s) THEN s[i] ELSE 0
    IN  [i \in 1..num |->
            [index |-> At(columns[1], i), offset |-> At(columns[2], i), length |-> At(columns[3], i),
             value |-> At(columns[4], i), comparator |-> At(columns[5], i)]]

extract_property(data, clause) ==
    LET end == Min({clause.offset + clause.length, W})
    IN  IF clause.index >= Len(data) THEN <<>>
        ELSE IF clause.offset = 0 /\ (clause.length = 0 \/ clause.length >= W)
             THEN <<data[clause.index + 1]>>
             ELSE <<from_be_bytes(SubSeq(to_be_bytes(data[clause.index + 1]), clause.offset + 1, end))>>

compare(noteValue, value, comparator) ==
    CASE comparator = 1 -> noteValue = value
      [] comparator = 2 -> noteValue # value
      [] comparator = 3 -> noteValue < value
      [] comparator = 4 -> noteValue <= value
      [] comparator = 5 -> noteValue > value
      [] comparator = 6 -> noteValue >= value
      [] OTHER -> TRUE

select_notes(notes, clauses) ==
    SelectSeq(notes, LAMBDA n : \A i \in DOMAIN clauses :
        LET property == extract_property(n.data, clauses[i])
        IN  property # <<>> /\ compare(property[1], clauses[i].value, clauses[i].comparator))

-----------------------------------------------------------------------------
(* Pages, and notes packed for the circuit. *)
note_status_from_field(status) == IF status \in {1, 2} THEN <<status>> ELSE <<>>

Stored(store, q) ==
    SelectSeq(store, LAMBDA n : /\ n.slot = q.slot
                                /\ q.owner # <<>> => n.owner = q.owner[1]
                                /\ q.status = 1 => ~n.nullified)

(* Mutant: the page is cut before the offset is applied. *)
PageCutFirst(notes, q) ==
    LET limit == IF q.limit > 0 THEN Min({q.limit, q.max_notes}) ELSE q.max_notes
        cut == SubSeq(notes, 1, Min({limit, Len(notes)}))
    IN  SubSeq(cut, q.offset + 1, Len(cut))

Page(notes, q) ==
    LET limit == IF q.limit > 0 THEN Min({q.limit, q.max_notes}) ELSE q.max_notes
    IN  SubSeq(notes, q.offset + 1, Min({q.offset + limit, Len(notes)}))

pack_hinted_note(n) ==
    LET stage == IF n.is_pending THEN IF n.nonce = 0 THEN 1 ELSE 2 ELSE 3
    IN  IF ~n.is_pending /\ n.nonce = 0 THEN <<>>
        ELSE <<n.data \o <<n.contract, n.owner, n.randomness, n.slot, stage, n.nonce>>>>

pack_bounded_vec_of_arrays(arrays, max, nested) ==
    IF Len(arrays) > max \/ \E i \in DOMAIN arrays : Len(arrays[i]) # nested
      THEN <<>>
      ELSE <<<<Resize(FlattenSeq(arrays), max * nested), Len(arrays)>>>>

get_notes(store, q) ==
    LET clauses == parse_select_clauses(q.num_selects, q.columns)
        page == Page(select_notes(Stored(store, q), clauses), q)
        packed == [i \in DOMAIN page |-> pack_hinted_note(page[i])]
    IN  IF note_status_from_field(q.status) = <<>> \/ ~AllOk(packed) THEN <<>>
        ELSE pack_bounded_vec_of_arrays(Values(packed), q.max_notes, q.packed_len)

(* The circuit (external) takes the packed notes apart. *)
Unpacked(packed, nested) == [i \in 1..packed[2] |-> Chunk(packed[1], nested, i)]

-----------------------------------------------------------------------------
(* Logs handed to sync_state. *)
tx_hash_from_field(f) == to_be_bytes(f)
tx_hash_to_field(hash) == from_be_bytes(hash)

(* Mutant: the length comes before the elements. *)
BoundedVecLengthFirst(values, max) ==
    IF Len(values) > max THEN <<>> ELSE <<<<Len(values)>> \o Resize(values, max)>>

serialize_bounded_vec(values, max) ==
    IF Len(values) > max THEN <<>> ELSE <<Resize(values, max) \o <<Len(values)>>>>

(* A retrieved log loses its first field, the tag. *)
serialize_log_retrieval_option(log) ==
    IF log = <<>> THEN <<<<0>> \o Zeros(LogPayload + 1) \o <<0>> \o Zeros(MAX_NOTE_HASHES_PER_TX + 1) \o <<0>>>>
    ELSE LET payload == serialize_bounded_vec(SubSeq(log[1].data, 2, Len(log[1].data)), LogPayload)
             hashes == serialize_bounded_vec(log[1].note_hashes, MAX_NOTE_HASHES_PER_TX)
         IN  IF payload = <<>> \/ hashes = <<>> THEN <<>>
             ELSE <<<<1>> \o payload[1] \o <<tx_hash_to_field(log[1].tx_hash)>> \o hashes[1]
                        \o <<log[1].first_nullifier>>>>

serialize_pending_tagged_log(log, recipient) ==
    LET data == serialize_bounded_vec(log.data, PRIVATE_LOG_SIZE_IN_FIELDS)
        hashes == serialize_bounded_vec(log.note_hashes, MAX_NOTE_HASHES_PER_TX)
    IN  IF data = <<>> \/ hashes = <<>> THEN <<>>
        ELSE <<data[1] \o <<tx_hash_to_field(log.tx_hash)>> \o hashes[1]
                    \o <<log.first_nullifier, recipient>>>>

(* Requests sync_state hands back. *)
parse_log_retrieval_request(fields) ==
    IF Len(fields) < 2 THEN <<>> ELSE <<[contract |-> fields[1], tag |-> fields[2]]>>

Bounded(fields, at, max) == SubSeq(fields, at, at + Min({fields[at + max], max}) - 1)

(* Mutant: the event's fields are taken to be as long as a note's. *)
ParseEventAsNote(fields) ==
    LET n == 3 + MAX_NOTE_PACKED_LEN
    IN  <<[contract |-> fields[1], selector |-> fields[2], randomness |-> fields[3],
           content |-> Bounded(fields, 4, MAX_NOTE_PACKED_LEN), commitment |-> fields[n + 2],
           tx_hash |-> tx_hash_from_field(fields[n + 3]), recipient |-> fields[n + 4]]>>

parse_note_validation_request(fields) ==
    LET n == 5 + MAX_NOTE_PACKED_LEN
    IN  IF Len(fields) < n + 5 THEN <<>>
        ELSE <<[contract |-> fields[1], owner |-> fields[2], slot |-> fields[3],
                randomness |-> fields[4], nonce |-> fields[5],
                content |-> Bounded(fields, 6, MAX_NOTE_PACKED_LEN), note_hash |-> fields[n + 2],
                nullifier |-> fields[n + 3], tx_hash |-> tx_hash_from_field(fields[n + 4]),
                recipient |-> fields[n + 5]]>>

parse_event_validation_request(fields) ==
    LET n == 3 + MAX_EVENT_SERIALIZED_LEN
    IN  IF Len(fields) < n + 4 THEN <<>>
        ELSE <<[contract |-> fields[1], selector |-> fields[2], randomness |-> fields[3],
                content |-> Bounded(fields, 4, MAX_EVENT_SERIALIZED_LEN), commitment |-> fields[n + 2],
                tx_hash |-> tx_hash_from_field(fields[n + 3]), recipient |-> fields[n + 4]]>>

-----------------------------------------------------------------------------
(* Sibling paths in base64: a count of elements (here one byte) and the      *)
(* elements, or the elements alone.                                          *)
FieldsOf(bytes) ==
    [k \in 1..((Len(bytes) + W - 1) \div W) |-> from_be_bytes(Chunk(bytes, W, k))]

decode_base64_sibling_path(bytes) ==
    LET payload == Tail(bytes)
    IN  IF bytes = <<>> THEN <<<<>>>>
        ELSE IF Len(payload) = Head(bytes) * W THEN <<FieldsOf(payload)>>
        ELSE IF Len(bytes) % W = 0 THEN <<FieldsOf(bytes)>>
        ELSE <<>>

(* The path of a message is read by code of its own, which always takes the  *)
(* count to be there.                                                        *)
MessagePath(bytes, height) ==
    LET data == IF bytes = <<>> THEN bytes ELSE Tail(bytes)
    IN  Resize([k \in 1..(Len(data) \div W) |-> from_be_bytes(Chunk(data, W, k))], height)

(* Public keys, and a contract instance, as the circuit's structs lay them   *)
(* out; <<>> when the address is not known.                                  *)
KeyFields(keys) == FlattenSeq([i \in 1..4 |-> <<keys[i].x, keys[i].y, IF keys[i].infinite THEN 1 ELSE 0>>])

get_public_keys_and_partial_address(complete) ==
    IF complete = <<>> THEN <<<<0>>, Zeros(13)>>
    ELSE <<<<1>>, Append(KeyFields(complete[1].keys), complete[1].partial)>>

contract_instance_to_fields(i) == <<i.salt, i.deployer, i.class, i.init>> \o KeyFields(i.keys)

load_capsule(values, len) ==
    <<<<IF values = <<>> THEN 0 ELSE 1>>, Resize(IF values = <<>> THEN <<>> ELSE values[1], len)>>

-----------------------------------------------------------------------------
(* The bytes of a field a clause is about, by arithmetic on its value. *)
BytesOf(field, clause) ==
    IF clause.offset = 0 /\ clause.length \in {0, W} THEN field
    ELSE LET end == Min({clause.offset + clause.length, W})
         IN  (field \div Byte^(W - end)) % Byte^(end - clause.offset)

Satisfies(n, clause) ==
    /\ clause.index < Len(n.data)
    /\ LET v == BytesOf(n.data[clause.index + 1], clause) IN
       CASE clause.comparator \in {1, 4, 6} /\ v = clause.value -> TRUE
         [] clause.comparator \in {2, 3, 4} /\ v < clause.value -> TRUE
         [] clause.comparator \in {2, 5, 6} /\ v > clause.value -> TRUE
         [] OTHER -> clause.comparator \notin 1..6

(* A contract that reads its notes page after page, each page starting where *)
(* the one before ended, gets every active note that satisfies the clauses   *)
(* once, in the order of the store, and no other (get_notes, with            *)
(* select_notes, the cut by offset, limit and max_notes, and the packing).   *)
PagesCover(store, clauses, size, packed_len) ==
    LET pages == 0..(Len(store) \div size)
        column(f) == [i \in DOMAIN clauses |-> clauses[i][f]] \o <<0>>
        page(k) == get_notes(store, [slot |-> 1, owner |-> <<>>, status |-> 1,
                        num_selects |-> Len(clauses),
                        columns |-> <<column("index"), column("offset"), column("length"),
                                      column("value"), column("comparator")>>,
                        limit |-> size, max_notes |-> size, offset |-> k * size, packed_len |-> packed_len])
        wanted == SelectSeq(store, LAMBDA n : /\ n.slot = 1 /\ ~n.nullified
                                              /\ \A i \in DOMAIN clauses : Satisfies(n, clauses[i]))
    IN  /\ \A k \in pages : page(k) # <<>>
        /\ FlattenSeq([k \in 1..(Len(store) \div size + 1) |-> Unpacked(page(k - 1)[1], packed_len)])
             = [i \in DOMAIN wanted |-> pack_hinted_note(wanted[i])[1]]

(* Every request sync_state writes is read back as it was, and every log it  *)
(* is handed is the one that was found, without its tag when it asked for    *)
(* it: the layouts of the parse and serialize functions agree with those of  *)
(* the contract's structs (external).                                        *)
NoteRequestRoundTrips(r) ==
    parse_note_validation_request(
        <<r.contract, r.owner, r.slot, r.randomness, r.nonce>>
            \o Resize(r.content, MAX_NOTE_PACKED_LEN)
            \o <<Len(r.content), r.note_hash, r.nullifier, tx_hash_to_field(r.tx_hash), r.recipient>>)
      = <<r>>

EventRequestRoundTrips(r) ==
    parse_event_validation_request(
        <<r.contract, r.selector, r.randomness>>
            \o Resize(r.content, MAX_EVENT_SERIALIZED_LEN)
            \o <<Len(r.content), r.commitment, tx_hash_to_field(r.tx_hash), r.recipient>>)
      = <<r>>

BoundedAt(fields, at, max) == SubSeq(fields, at, at + fields[at + max] - 1)

LogRoundTrips(log, recipient) ==
    LET pending == serialize_pending_tagged_log(log, recipient)[1]
        found == serialize_log_retrieval_option(<<log>>)[1]
        n == PRIVATE_LOG_SIZE_IN_FIELDS + 1
    IN  /\ parse_log_retrieval_request(<<recipient, Head(log.data)>>)
             = <<[contract |-> recipient, tag |-> Head(log.data)]>>
        /\ BoundedAt(pending, 1, PRIVATE_LOG_SIZE_IN_FIELDS) = log.data
        /\ tx_hash_from_field(pending[n + 1]) = log.tx_hash
        /\ BoundedAt(pending, n + 2, MAX_NOTE_HASHES_PER_TX) = log.note_hashes
        /\ BoundedAt(found, 2, LogPayload) = SubSeq(log.data, 2, Len(log.data))
        /\ BoundedAt(found, LogPayload + 4, MAX_NOTE_HASHES_PER_TX) = log.note_hashes
        /\ Len(found) = Len(serialize_log_retrieval_option(<<>>)[1])

(* A path is read the same with its count in front and without; a message's  *)
(* path, which has a reader of its own, with its count.                      *)
PathDecodes(path) ==
    LET bytes == FlattenSeq([i \in DOMAIN path |-> to_be_bytes(path[i])])
    IN  /\ decode_base64_sibling_path(<<Len(path)>> \o bytes) = <<path>>
        /\ decode_base64_sibling_path(bytes) = <<path>>
        /\ MessagePath(<<Len(path)>> \o bytes, Len(path)) = path

(* The circuit reads the keys of an account and of an instance at the places *)
(* their structs give them, and a capsule of the length it was stored with.  *)
KeyAt(fields, at) == [x |-> fields[at], y |-> fields[at + 1], infinite |-> fields[at + 2] = 1]

StructsReadBack(i, partial) ==
    LET keys == get_public_keys_and_partial_address(<<[keys |-> i.keys, partial |-> partial]>>)[2]
        fields == contract_instance_to_fields(i)
    IN  /\ \A k \in 1..4 : KeyAt(keys, 3 * k - 2) = i.keys[k] /\ KeyAt(fields, 3 * k + 2) = i.keys[k]
        /\ keys[13] = partial
        /\ <<fields[1], fields[2], fields[3], fields[4]>> = <<i.salt, i.deployer, i.class, i.init>>
        /\ load_capsule(<<fields>>, 16) = <<<<1>>, fields>>
        /\ load_capsule(<<>>, 16)[1] # load_capsule(<<fields>>, 16)[1]
=============================================================================
