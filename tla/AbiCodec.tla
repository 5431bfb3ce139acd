------------------------------ MODULE AbiCodec ------------------------------
(***************************************************************************)
(* The ABI codecs of crates/core: encode_value (abi/encoder.rs), which     *)
(* writes a typed value as field elements; decode_next (abi/decoder.rs),   *)
(* which reads it back; and flatten_abi_value (hash.rs), which writes a    *)
(* value without knowing its type and is what argument hashes are made     *)
(* of.  Types and values are records with a "kind"; a Result is <<>> for   *)
(* an error and <<x>> for Ok(x).  A field element is <<n>> for a number,   *)
(* or a longer tuple for a hash, which no codec looks into.                *)
(* W64 and W128 stand for the widths 64 and 128 of the code, Byte for 256. *)
(***************************************************************************)
EXTENDS Integers, Sequences, SequencesExt, FiniteSets

CONSTANTS W64,      \* the width flatten_abi_value assumes for a negative integer
          W128,     \* the width of i128, in which integers are held
          Byte,     \* the number of byte values
          KeyOrder  \* the field names of structs, in string order

-----------------------------------------------------------------------------
Err == <<>>
Ok(x) == <<x>>

Num(n) == <<n>>
IsNum(f) == Len(f) = 1

Field == [kind |-> "field"]
Boolean == [kind |-> "bool"]
Integer(signed, width) == [kind |-> "int", signed |-> signed, width |-> width]
Array(element, length) == [kind |-> "array", element |-> element, length |-> length]
String(length) == [kind |-> "string", length |-> length]
Struct(name, fields) == [kind |-> "struct", name |-> name, fields |-> fields]
Tuple(elements) == [kind |-> "tuple", elements |-> elements]
Param(name, typ) == [name |-> name, typ |-> typ]

V(kind, v) == [kind |-> kind, v |-> v]

\* u128::from(i as u128): a negative i128 wraps
AsU128(i) == i % 2^W128

\* u128 as i128
AsI128(n) == IF n >= 2^(W128 - 1) THEN n - 2^W128 ELSE n

\* Fr::to_usize as u8 of a small field
AsByte(f) == f[1] % Byte

-----------------------------------------------------------------------------
(* abi/checkers.rs: how a struct type is recognised *)
is_address_struct(t) == t.name \in {"AztecAddress", "EthAddress"}
is_function_selector_struct(t) == t.name = "FunctionSelector"
is_wrapped_field_struct(t) ==
    Len(t.fields) = 1 /\ t.fields[1] = Param("inner", Field)
is_bounded_vec_struct(t) ==
    /\ t.name = "BoundedVec"
    /\ [i \in DOMAIN t.fields |-> t.fields[i].name] = <<"storage", "len">>
is_option_struct(t) ==
    /\ t.name = "Option"
    /\ [i \in DOMAIN t.fields |-> t.fields[i].name] = <<"_is_some", "_value">>

RECURSIVE abi_type_size(_)
abi_type_size(t) ==
    CASE t.kind \in {"field", "bool", "int"} -> 1
      [] t.kind = "string" -> t.length
      [] t.kind = "array" -> t.length * abi_type_size(t.element)
      [] t.kind = "struct" -> FoldLeft(LAMBDA n, p : n + abi_type_size(p.typ), 0, t.fields)
      [] t.kind = "tuple" -> FoldLeft(LAMBDA n, e : n + abi_type_size(e), 0, t.elements)

\* validate_abi_type finds no error
RECURSIVE validate_abi_type(_)
validate_abi_type(t) ==
    CASE t.kind \in {"field", "bool"} -> TRUE
      [] t.kind = "int" -> t.width > 0
      [] t.kind = "string" -> t.length > 0
      [] t.kind = "array" -> t.length > 0 /\ validate_abi_type(t.element)
      [] t.kind = "struct" ->
            t.fields # <<>> /\ \A i \in DOMAIN t.fields : validate_abi_type(t.fields[i].typ)
      [] t.kind = "tuple" ->
            t.elements # <<>> /\ \A i \in DOMAIN t.elements : validate_abi_type(t.elements[i])

-----------------------------------------------------------------------------
(* abi/encoder.rs *)
\* Encodings one after the other; the first error is the result
Joined(results) ==
    IF \E i \in DOMAIN results : results[i] = Err
    THEN Err
    ELSE Ok(FlattenSeq([i \in DOMAIN results |-> results[i][1]]))

EncodeInteger(t, i) ==
    IF t.signed /\ i < 0
    THEN IF t.width >= W128 THEN AsU128(i) ELSE AsU128(i + 2^t.width)
    ELSE AsU128(i)

Zeros(n) == [i \in 1..n |-> Num(0)]

\* map.get(a).or_else(|| map.get(b))
GetEither(map, a, b) ==
    IF a \in DOMAIN map THEN Ok(map[a]) ELSE IF b \in DOMAIN map THEN Ok(map[b]) ELSE Err

BoundedItems(value) ==
    CASE value.kind = "array" -> Ok(value.v)
      [] value.kind = "struct" /\ "storage" \in DOMAIN value.v
            /\ value.v["storage"].kind = "array" -> Ok(value.v["storage"].v)
      [] OTHER -> Err

\* A slip in the code: the tail of a short BoundedVec padded item by item
PadItems(t, missing) == Zeros(missing)

\* The zero fields after the items of a BoundedVec that is not full
Pad(t, missing) == Zeros(missing * abi_type_size(t))

RECURSIVE encode_value(_, _)
EncodeStruct(t, value) ==
    CASE is_address_struct(t) ->
            IF value.kind = "field" THEN Ok(<<value.v>>)
            ELSE IF value.kind # "struct" THEN Err
            ELSE LET f == GetEither(value.v, "inner", "address")
                 IN IF f = Err THEN Err ELSE encode_value(Field, f[1])
      [] is_function_selector_struct(t) ->
            IF value.kind = "int" THEN Ok(<<Num(value.v % 2^W64)>>)
            ELSE IF value.kind = "field" THEN Ok(<<value.v>>)
            ELSE IF value.kind # "struct" THEN Err
            ELSE LET f == GetEither(value.v, "value", "inner")
                 IN IF f = Err THEN Err
                    ELSE IF f[1].kind = "field" THEN Ok(<<f[1].v>>)
                    ELSE IF f[1].kind = "int" THEN Ok(<<Num(f[1].v % 2^W64)>>)
                    ELSE Err
      [] is_wrapped_field_struct(t) ->
            IF value.kind = "field" THEN Ok(<<value.v>>)
            ELSE IF value.kind = "struct" /\ "inner" \in DOMAIN value.v
                 THEN encode_value(Field, value.v["inner"])
                 ELSE Err
      [] is_bounded_vec_struct(t) ->
            LET items == BoundedItems(value)
                storage == t.fields[1].typ
            IN IF items = Err \/ storage.kind # "array" THEN Err
               ELSE IF Len(items[1]) > storage.length THEN Err
               ELSE Joined([i \in DOMAIN items[1] |-> encode_value(storage.element, items[1][i])]
                           \o <<Ok(Pad(storage.element, storage.length - Len(items[1]))
                                   \o <<Num(Len(items[1]))>>)>>)
      [] is_option_struct(t) ->
            IF value.kind = "struct"
            THEN IF {"_is_some", "_value"} \subseteq DOMAIN value.v
                 THEN Joined(<<encode_value(t.fields[1].typ, value.v["_is_some"]),
                               encode_value(t.fields[2].typ, value.v["_value"])>>)
                 ELSE Err
            ELSE Joined(<<Ok(<<Num(1)>>), encode_value(t.fields[2].typ, value)>>)
      [] OTHER ->
            IF value.kind = "struct"
               /\ \A i \in DOMAIN t.fields : t.fields[i].name \in DOMAIN value.v
            THEN Joined([i \in DOMAIN t.fields |->
                            encode_value(t.fields[i].typ, value.v[t.fields[i].name])])
            ELSE Err

encode_value(t, value) ==
    CASE t.kind = "field" /\ value.kind = "field" -> Ok(<<value.v>>)
      [] t.kind = "bool" /\ value.kind = "bool" -> Ok(<<Num(IF value.v THEN 1 ELSE 0)>>)
      [] t.kind = "int" /\ value.kind = "int" -> Ok(<<Num(EncodeInteger(t, value.v))>>)
      [] t.kind = "int" /\ value.kind = "field" -> Ok(<<value.v>>)
      [] t.kind = "array" /\ value.kind = "array" ->
            IF Len(value.v) = t.length
            THEN Joined([i \in DOMAIN value.v |-> encode_value(t.element, value.v[i])])
            ELSE Err
      [] t.kind = "string" /\ value.kind = "string" ->
            IF Len(value.v) > t.length THEN Err
            ELSE Ok([i \in DOMAIN value.v |-> Num(value.v[i])] \o Zeros(t.length - Len(value.v)))
      [] t.kind = "struct" -> EncodeStruct(t, value)
      [] t.kind = "tuple" /\ value.kind = "tuple" ->
            IF Len(value.v) = Len(t.elements)
            THEN Joined([i \in DOMAIN value.v |-> encode_value(t.elements[i], value.v[i])])
            ELSE Err
      [] OTHER -> Err

encode_arguments(types, args) ==
    IF Len(types) = Len(args)
    THEN Joined([i \in DOMAIN args |-> encode_value(types[i], args[i])])
    ELSE Err

-----------------------------------------------------------------------------
(* abi/decoder.rs.  A result is <<>> for an error, or <<value, cursor>>     *)
(* with the cursor one past the last field read.                           *)
take(fields, cursor) ==
    IF cursor > Len(fields) THEN Err ELSE <<fields[cursor], cursor + 1>>

\* A slip in the code: the sign test one too high
DecodeIntegerLate(t, f) ==
    LET raw == f[1] % 2^W128
    IN IF ~t.signed \/ t.width >= W128 THEN AsI128(raw)
       ELSE IF raw > 2^(t.width - 1) THEN raw - 2^t.width ELSE raw

DecodeInteger(t, f) ==
    LET raw == f[1] % 2^W128
    IN IF ~t.signed \/ t.width >= W128 THEN AsI128(raw)
       ELSE IF raw >= 2^(t.width - 1) THEN raw - 2^t.width ELSE raw

\* The bytes before the first zero; the cursor passes the whole string
DecodeString(t, fields, cursor) ==
    IF cursor + t.length - 1 > Len(fields) THEN Err
    ELSE LET bytes == [i \in 1..t.length |-> AsByte(fields[cursor + i - 1])]
             zero == {i \in 1..t.length : bytes[i] = 0}
             len == IF zero = {} THEN t.length
                    ELSE (CHOOSE i \in zero : \A j \in zero : i <= j) - 1
         IN <<V("string", SubSeq(bytes, 1, len)), cursor + t.length>>

RECURSIVE decode_next(_, _, _)
RECURSIVE DecodeAll(_, _, _, _)
DecodeAll(types, fields, cursor, read) ==
    IF types = <<>> THEN <<read, cursor>>
    ELSE LET r == decode_next(Head(types), fields, cursor)
         IN IF r = Err THEN Err ELSE DecodeAll(Tail(types), fields, r[2], Append(read, r[1]))

DecodeStruct(t, fields, cursor) ==
    CASE t.name = "AztecAddress" ->
            LET r == take(fields, cursor) IN IF r = Err THEN Err ELSE <<V("address", r[1]), r[2]>>
      [] t.name = "EthAddress" ->
            LET r == take(fields, cursor) IN IF r = Err THEN Err ELSE <<V("field", r[1]), r[2]>>
      [] is_option_struct(t) ->
            LET some == take(fields, cursor)
                size == abi_type_size(t.fields[2].typ)
            IN IF some = Err THEN Err
               ELSE IF some[1] # Num(0) THEN decode_next(t.fields[2].typ, fields, some[2])
               ELSE IF some[2] + size - 1 > Len(fields) THEN Err
               ELSE <<V("none", <<>>), some[2] + size>>
      [] is_bounded_vec_struct(t) ->
            LET storage == t.fields[1].typ
                items == IF storage.kind # "array" THEN Err
                         ELSE DecodeAll([i \in 1..storage.length |-> storage.element],
                                        fields, cursor, <<>>)
                len == IF items = Err THEN Err ELSE take(fields, items[2])
            IN IF len = Err THEN Err
               ELSE <<V("array", SubSeq(items[1], 1,
                            IF len[1][1] < storage.length THEN len[1][1] ELSE storage.length)),
                      len[2]>>
      [] OTHER ->
            LET r == DecodeAll([i \in DOMAIN t.fields |-> t.fields[i].typ], fields, cursor, <<>>)
                names == {t.fields[i].name : i \in DOMAIN t.fields}
            IN IF r = Err THEN Err
               ELSE <<V("struct", [n \in names |->
                          r[1][CHOOSE i \in DOMAIN t.fields : t.fields[i].name = n]]), r[2]>>

decode_next(t, fields, cursor) ==
    CASE t.kind \in {"field", "bool", "int"} ->
            LET r == take(fields, cursor)
            IN IF r = Err THEN Err
               ELSE <<CASE t.kind = "field" -> V("field", r[1])
                        [] t.kind = "bool" -> V("bool", r[1] # Num(0))
                        [] t.kind = "int" -> V("int", DecodeInteger(t, r[1])), r[2]>>
      [] t.kind = "string" -> DecodeString(t, fields, cursor)
      [] t.kind = "struct" -> DecodeStruct(t, fields, cursor)
      [] t.kind \in {"array", "tuple"} ->
            LET r == DecodeAll(IF t.kind = "array" THEN [i \in 1..t.length |-> t.element]
                               ELSE t.elements, fields, cursor, <<>>)
            IN IF r = Err THEN Err ELSE <<V(t.kind, r[1]), r[2]>>

decode_from_abi(types, fields) ==
    IF Len(types) = 1 THEN decode_next(types[1], fields, 1)
    ELSE LET r == DecodeAll(types, fields, 1, <<>>)
         IN IF r = Err THEN Err ELSE <<V("tuple", r[1]), r[2]>>

-----------------------------------------------------------------------------
(* hash.rs: the flattening argument hashes are computed over *)
\* A slip in the code: a negative integer wrapped to u128, whatever its width
FlattenIntegerWide(i) == AsU128(i)

FlattenInteger(i) ==
    IF i >= 0 THEN i
    ELSE IF i >= -(2^(W64 - 1)) THEN i + 2^W64 ELSE AsU128(i)

RECURSIVE flatten_abi_value(_)
flatten_abi_value(value) ==
    CASE value.kind = "field" -> <<value.v>>
      [] value.kind = "bool" -> <<Num(IF value.v THEN 1 ELSE 0)>>
      [] value.kind = "int" -> <<Num(FlattenInteger(value.v))>>
      [] value.kind = "string" -> [i \in DOMAIN value.v |-> Num(value.v[i])]
      [] value.kind \in {"array", "tuple"} ->
            FlattenSeq([i \in DOMAIN value.v |-> flatten_abi_value(value.v[i])])
      [] value.kind = "struct" ->        \* a BTreeMap iterates in key order
            LET keys == SelectSeq(KeyOrder, LAMBDA k : k \in DOMAIN value.v)
            IN FlattenSeq([i \in DOMAIN keys |-> flatten_abi_value(value.v[keys[i]])])

abi_values_to_fields(args) == FlattenSeq([i \in DOMAIN args |-> flatten_abi_value(args[i])])

-----------------------------------------------------------------------------
(* What the codecs are for, stated without them *)
RECURSIVE Fits(_, _)
Fits(t, value) ==
    CASE t.kind = "field" -> value.kind = "field"
      [] t.kind = "bool" -> value.kind = "bool"
      [] t.kind = "int" ->
            /\ value.kind = "int"
            /\ IF t.signed THEN value.v \in -(2^(t.width - 1))..(2^(t.width - 1) - 1)
                           ELSE value.v \in 0..(2^t.width - 1)
      [] t.kind = "array" ->
            /\ value.kind = "array" /\ Len(value.v) = t.length
            /\ \A i \in DOMAIN value.v : Fits(t.element, value.v[i])
      [] t.kind = "string" ->
            /\ value.kind = "string" /\ Len(value.v) <= t.length
            /\ \A i \in DOMAIN value.v : value.v[i] \in 1..(Byte \div 2 - 1)   \* ASCII
      [] t.kind = "tuple" ->
            /\ value.kind = "tuple" /\ Len(value.v) = Len(t.elements)
            /\ \A i \in DOMAIN value.v : Fits(t.elements[i], value.v[i])
      [] is_bounded_vec_struct(t) ->
            /\ value.kind = "array" /\ Len(value.v) <= t.fields[1].typ.length
            /\ \A i \in DOMAIN value.v : Fits(t.fields[1].typ.element, value.v[i])
      [] is_option_struct(t) ->
            \/ value.kind # "struct" /\ Fits(t.fields[2].typ, value)
            \/ /\ value.kind = "struct" /\ DOMAIN value.v = {"_is_some", "_value"}
               /\ Fits(Boolean, value.v["_is_some"]) /\ Fits(t.fields[2].typ, value.v["_value"])
      [] is_address_struct(t) -> value.kind = "field"
      [] OTHER ->
            /\ value.kind = "struct" /\ DOMAIN value.v = {t.fields[i].name : i \in DOMAIN t.fields}
            /\ \A i \in DOMAIN t.fields : Fits(t.fields[i].typ, value.v[t.fields[i].name])

\* The AbiDecoded that stands for a value
RECURSIVE Decoded(_, _)
Decoded(t, value) ==
    CASE t.kind \in {"field", "bool", "int", "string"} -> value
      [] t.kind = "array" -> V("array", [i \in DOMAIN value.v |-> Decoded(t.element, value.v[i])])
      [] t.kind = "tuple" -> V("tuple", [i \in DOMAIN value.v |-> Decoded(t.elements[i], value.v[i])])
      [] is_bounded_vec_struct(t) ->
            V("array", [i \in DOMAIN value.v |-> Decoded(t.fields[1].typ.element, value.v[i])])
      [] is_option_struct(t) ->
            IF value.kind # "struct" THEN Decoded(t.fields[2].typ, value)
            ELSE IF value.v["_is_some"].v THEN Decoded(t.fields[2].typ, value.v["_value"])
            ELSE V("none", <<>>)
      [] t.name = "AztecAddress" -> V("address", value.v)
      [] t.name = "EthAddress" -> value
      [] OTHER -> V("struct", [n \in DOMAIN value.v |->
                      Decoded(t.fields[CHOOSE i \in DOMAIN t.fields : t.fields[i].name = n].typ,
                              value.v[n])])

\* A value whose flattening needs no type: no padding, no option flag, no
\* negative integer of another width than 64, and fields declared in key order
RECURSIVE SelfDescribing(_, _)
SelfDescribing(t, value) ==
    CASE t.kind \in {"field", "bool"} -> TRUE
      [] t.kind = "int" -> value.v >= 0 \/ t.width = W64
      [] t.kind = "string" -> Len(value.v) = t.length
      [] t.kind = "array" -> \A i \in DOMAIN value.v : SelfDescribing(t.element, value.v[i])
      [] t.kind = "tuple" -> \A i \in DOMAIN value.v : SelfDescribing(t.elements[i], value.v[i])
      [] is_address_struct(t) -> TRUE
      [] is_bounded_vec_struct(t) \/ is_option_struct(t) -> FALSE
      [] OTHER ->
            /\ [i \in DOMAIN t.fields |-> t.fields[i].name]
                   = SelectSeq(KeyOrder, LAMBDA k : k \in DOMAIN value.v)
            /\ \A i \in DOMAIN t.fields : SelfDescribing(t.fields[i].typ, value.v[t.fields[i].name])

\* encode_value writes as many fields as abi_type_size counts, and decode_next
\* reads exactly those fields and gives the value back
RoundTrips(t, value) ==
    Fits(t, value) =>
        LET e == encode_value(t, value)
        IN /\ e # Err
           /\ Len(e[1]) = abi_type_size(t)
           /\ decode_next(t, e[1] \o <<Num(1)>>, 1) = <<Decoded(t, value), abi_type_size(t) + 1>>

\* The fields an argument hash is computed over are the fields the circuit is
\* given, for every value that needs no type information
HashedAsEncoded(t, value) ==
    Fits(t, value) /\ SelfDescribing(t, value) =>
        Ok(flatten_abi_value(value)) = encode_value(t, value)
=============================================================================
