------------------------------ MODULE TxRequest ------------------------------
(***************************************************************************)
(* How the calls an application asks for become the calls the PXE runs:    *)
(* ContractFunctionInteraction / BatchCall / DeployAccountMethod           *)
(* (crates/contract, crates/account) build an ExecutionPayload, BaseWallet *)
(* (crates/wallet) merges the options into it, the account provider        *)
(* encodes it as the arguments of the account's entrypoint and signs       *)
(* them (crates/account/entrypoint), and EmbeddedPxe (crates/pxe) decodes  *)
(* the arguments back into calls.  Each ask of the application goes        *)
(* through these four steps once.                                          *)
(*                                                                         *)
(* Addresses and selectors are numbers, 0 the zero address and the empty   *)
(* selector.  A hash is the tuple of its domain and its preimage.          *)
(***************************************************************************)
EXTENDS AbiCodec

CONSTANTS AppMaxCalls,     \* APP_MAX_CALLS (5)
          Account,         \* the address of the account
          Sponsor,         \* the address of the sponsoring contract
          FeeJuice,        \* the address of the fee juice contract
          MultiCall,       \* the address of the multi-call entrypoint
          Entrypoint,      \* the selector of both entrypoint functions
          Nonce,           \* the tx nonce drawn for a payload
          Asked            \* a sequence of call sequences applications ask for

VARIABLES ask,        \* what the application asked for, and through which API
          stage,      \* the step that comes next
          payload,    \* the ExecutionPayload as it stands
          request,    \* the TxExecutionRequest, or <<>>
          executed    \* the calls the PXE runs

vars == <<ask, stage, payload, request, executed>>

-----------------------------------------------------------------------------
(* Calls, payloads, hashed values *)
Call(to, selector, args, public, static, hide) ==
    [to |-> to, selector |-> selector, args |-> args,
     public |-> public, static |-> static, hide |-> hide]
EmptyCall == Call(0, 0, <<>>, FALSE, FALSE, FALSE)

NoPayer == 0
Payload(calls, auth, hashed, payer) ==
    [calls |-> calls, auth |-> auth, hashed |-> hashed, payer |-> payer]

compute_var_args_hash(fields) == IF fields = <<>> THEN Num(0) ELSE <<"args", fields>>
from_args(fields) == [values |-> fields, hash |-> compute_var_args_hash(fields)]
from_calldata(fields) == [values |-> fields, hash |-> <<"calldata", fields>>]

\* The fields before other appended to the payload's; the payer replaced if named
Extend(p, other) ==
    Payload(p.calls \o other.calls, p.auth \o other.auth, p.hashed \o other.hashed,
            IF other.payer = NoPayer THEN p.payer ELSE other.payer)

\* ExecutionPayload::merge of two payloads: their payers must agree
merge(p, q) ==
    IF p.payer # NoPayer /\ q.payer # NoPayer /\ p.payer # q.payer
    THEN Err ELSE Ok(Extend(p, q))

-----------------------------------------------------------------------------
(* crates/fee: the payload of each payment method *)
NativeFee == Payload(<<>>, <<>>, <<>>, Account)
ClaimFee ==
    Payload(<<Call(FeeJuice, 7, <<V("field", Num(Account)), V("int", 3),
                                  V("field", Num(5)), V("field", Num(1))>>,
                   FALSE, FALSE, FALSE)>>, <<>>, <<>>, Account)
SponsoredFee == Payload(<<Call(Sponsor, 6, <<>>, FALSE, FALSE, FALSE)>>, <<>>, <<>>, Sponsor)

FeePayload(fee) ==
    CASE fee = "native" -> NativeFee [] fee = "claim" -> ClaimFee
      [] fee = "sponsored" -> SponsoredFee

\* merge_fee_payload, and the same lines in BaseWallet::simulate_tx and send_tx
merge_fee_payload(p, fee) == IF fee = "none" THEN p ELSE Extend(p, FeePayload(fee))

-----------------------------------------------------------------------------
(* crates/account/entrypoint: the arguments of the entrypoint *)
EncodedCallOf(c) ==
    LET fields == abi_values_to_fields(c.args)
        hashed == IF c.public THEN from_calldata(<<Num(c.selector)>> \o fields)
                  ELSE from_args(fields)
    IN [hashed |-> hashed, args_hash |-> hashed.hash, function_selector |-> Num(c.selector),
        target_address |-> Num(c.to), is_public |-> c.public,
        hide_msg_sender |-> c.hide, is_static |-> c.static]

\* EncodedAppEntrypointCalls::create: an error, or AppMaxCalls encoded calls
CreateEncoded(calls) ==
    IF Len(calls) > AppMaxCalls THEN Err
    ELSE Ok([i \in 1..AppMaxCalls |->
                EncodedCallOf(IF i <= Len(calls) THEN calls[i] ELSE EmptyCall)])

HashedArgs(encoded) == [i \in DOMAIN encoded |-> encoded[i].hashed]

Flag(b) == Num(IF b THEN 1 ELSE 0)

\* A slip in the code: the target written before the selector
EncodedCallFieldsSwapped(e) ==
    <<e.args_hash, e.target_address, e.function_selector,
      Flag(e.is_public), Flag(e.hide_msg_sender), Flag(e.is_static)>>

\* EncodedCall::to_fields
EncodedCallFields(e) ==
    <<e.args_hash, e.function_selector, e.target_address,
      Flag(e.is_public), Flag(e.hide_msg_sender), Flag(e.is_static)>>

\* EncodedAppEntrypointCalls::hash
PayloadHash(encoded) ==
    <<"payload", FlattenSeq([i \in DOMAIN encoded |-> EncodedCallFields(encoded[i])])
                 \o <<Num(Nonce)>>>>

FunctionCallStruct ==
    Struct("FunctionCall",
           <<Param("args_hash", Field),
             Param("function_selector",
                   Struct("FunctionSelector", <<Param("inner", Integer(FALSE, W64))>>)),
             Param("target_address", Struct("AztecAddress", <<Param("inner", Field)>>)),
             Param("is_public", Boolean),
             Param("hide_msg_sender", Boolean),
             Param("is_static", Boolean)>>)
AppPayloadStruct ==
    Struct("AppPayload", <<Param("function_calls", Array(FunctionCallStruct, AppMaxCalls)),
                           Param("tx_nonce", Field)>>)

\* The parameter types of the account's entrypoint, and of the multi-call one
entrypoint_abi == <<AppPayloadStruct, Integer(FALSE, W64), Boolean>>
MultiCallAbi == <<AppPayloadStruct>>

build_encoded_call_value(e) ==
    V("struct", [args_hash |-> V("field", e.args_hash),
                 function_selector |-> V("field", e.function_selector),
                 target_address |-> V("field", e.target_address),
                 is_public |-> V("bool", e.is_public),
                 hide_msg_sender |-> V("bool", e.hide_msg_sender),
                 is_static |-> V("bool", e.is_static)])
build_app_payload_value(encoded) ==
    V("struct", [function_calls |-> V("array", [i \in DOMAIN encoded |->
                                                   build_encoded_call_value(encoded[i])]),
                 tx_nonce |-> V("field", Num(Nonce))])

\* The fee payment method: 0 External, 1 PreexistingFeeJuice, 2 FeeJuiceWithClaim
EntrypointValues(encoded, method) ==
    <<build_app_payload_value(encoded), V("int", method), V("bool", FALSE)>>

\* AuthorizationProvider::create_auth_wit of the account's signing key
create_auth_wit(hash) == [hash |-> hash, key |-> Account]

\* What both entrypoints make of the encoded calls and their own arguments
RequestFor(origin, encoded, args, auth, p) ==
    LET first == from_args(args)
    IN [origin |-> origin, selector |-> Entrypoint, first |-> first.hash,
        args |-> HashedArgs(encoded) \o <<first>> \o p.hashed, auth |-> auth,
        payer |-> IF p.payer = origin THEN NoPayer ELSE p.payer]

\* DefaultAccountEntrypoint::create_tx_execution_request, which signs the calls
create_tx_execution_request(p, method) ==
    LET encoded == CreateEncoded(p.calls)
    IN IF encoded = Err THEN Err
       ELSE Ok(RequestFor(Account, encoded[1],
                          encode_arguments(entrypoint_abi, EntrypointValues(encoded[1], method))[1],
                          Append(p.auth, create_auth_wit(PayloadHash(encoded[1]))), p))

\* DefaultMultiCallEntrypoint's, for the account that has no key
MultiCallRequest(p) ==
    LET encoded == CreateEncoded(p.calls)
    IN IF encoded = Err THEN Err
       ELSE Ok(RequestFor(MultiCall, encoded[1],
                          encode_arguments(MultiCallAbi, <<build_app_payload_value(encoded[1])>>)[1],
                          p.auth, p))

\* SchnorrAccount::wrap_execution_payload: the default options, whatever was asked
wrap_execution_payload(p, options) ==
    LET encoded == CreateEncoded(p.calls)
        method == 0
    IN IF encoded = Err THEN Err
       ELSE Ok(Payload(<<Call(Account, Entrypoint, EntrypointValues(encoded[1], method),
                              FALSE, FALSE, FALSE)>>,
                       <<create_auth_wit(PayloadHash(encoded[1]))>> \o p.auth,
                       HashedArgs(encoded[1]) \o p.hashed,
                       IF p.payer = NoPayer THEN Account ELSE p.payer))

\* AccountEntrypointMetaPaymentMethod: the option the inner method calls for
MetaOption(fee) ==
    IF fee = "none" THEN 1
    ELSE IF FeePayload(fee).payer # Account THEN 0
    ELSE IF FeePayload(fee).calls = <<>> THEN 1 ELSE 2
MetaPayload(fee) ==
    wrap_execution_payload(IF fee = "none" THEN Payload(<<>>, <<>>, <<>>, NoPayer)
                           ELSE FeePayload(fee), MetaOption(fee))

-----------------------------------------------------------------------------
(* The steps of an ask *)
Routes == {"interaction", "wallet", "deploy", "self_deploy"}
Operations == {"simulate", "profile", "send"}
Fees == {"none", "native", "claim", "sponsored"}

\* A deployment names its fee in the deploy options, the others in the wallet's.
\* DeployAccountMethod has no profile.
Asks ==
    {a \in [calls : DOMAIN Asked, route : Routes, op : Operations, fee : Fees,
            entry : {"account", "multicall"}, foreign : BOOLEAN] :
        /\ a.route \in {"deploy", "self_deploy"} => a.op # "profile"
        /\ a.route = "self_deploy" => a.entry = "account"}

WalletFee == IF ask.route \in {"interaction", "wallet"} THEN ask.fee ELSE "none"

Init ==
    /\ ask \in Asks
    /\ stage = "gather"
    /\ payload = Payload(<<>>, <<>>, <<>>, NoPayer)
    /\ request = <<>>
    /\ executed = <<>>

Fail == stage' = "failed" /\ UNCHANGED <<payload, request, executed>>

\* The calls of the caller, with a witness another account signed if it has one
OwnPayload == Payload(Asked[ask.calls],
                      IF ask.foreign THEN <<[hash |-> <<"intent", 1>>, key |-> Sponsor]>>
                      ELSE <<>>, <<>>, NoPayer)

\* DeployMethod's requests lead with the fee of the deploy options
DeployPayload == IF ask.fee = "none" THEN Ok(OwnPayload)
                 ELSE merge(FeePayload(ask.fee), OwnPayload)

\* DeployAccountMethod::request: the deployed account pays through its own
\* entrypoint, after it is deployed
SelfDeployPayload == LET meta == MetaPayload(ask.fee)
                     IN IF meta = Err THEN Err ELSE merge(OwnPayload, meta[1])

\* ContractFunctionInteraction and BatchCall merge the fee themselves
Gather ==
    /\ stage = "gather"
    /\ LET gathered ==
              CASE ask.route = "interaction" -> Ok(merge_fee_payload(OwnPayload, ask.fee))
                [] ask.route = "wallet" -> Ok(OwnPayload)
                [] ask.route = "deploy" -> DeployPayload
                [] ask.route = "self_deploy" -> SelfDeployPayload
       IN \/ gathered = Err /\ Fail
          \/ /\ gathered # Err
             /\ payload' = gathered[1]
             /\ stage' = "merge"
             /\ UNCHANGED <<request, executed>>
    /\ UNCHANGED ask

\* BaseWallet::simulate_tx and send_tx merge the fee of the options; profile_tx
\* does not
WalletMerge ==
    /\ stage = "merge"
    /\ payload' = IF ask.op = "profile" THEN payload ELSE merge_fee_payload(payload, WalletFee)
    /\ stage' = "create"
    /\ UNCHANGED <<ask, request, executed>>

\* SingleAccountProvider::create_tx_execution_request; send_tx asks for the
\* claim method whenever there is a fee payload
CreateRequest ==
    /\ stage = "create"
    /\ LET method == IF ask.op = "send" /\ WalletFee # "none" THEN 2 ELSE 0
           created == IF ask.entry = "account"
                      THEN create_tx_execution_request(payload, method)
                      ELSE MultiCallRequest(payload)
       IN \/ created = Err /\ Fail
          \/ /\ created # Err
             /\ request' = created
             /\ stage' = "execute"
             /\ UNCHANGED <<payload, executed>>
    /\ UNCHANGED ask

-----------------------------------------------------------------------------
(* crates/pxe: the request decoded and run *)
Find(args, hash) == SelectSeq(args, LAMBDA hv : hv.hash = hash)

parse_encoded_calls(fields) ==
    IF Len(fields) < 6 * AppMaxCalls + 1 THEN Err
    ELSE Ok([i \in 1..AppMaxCalls |->
                LET at(k) == fields[(i - 1) * 6 + k]
                IN [args_hash |-> at(1), selector |-> at(2), to |-> at(3),
                    public |-> at(4) # Num(0), hide |-> at(5) # Num(0), static |-> at(6) # Num(0)]])

\* A slip in the code: the selector of a public call left in its arguments
DecodedArgsWhole(c, values) == values

DecodedArgs(c, values) == IF c.public THEN Tail(values) ELSE values

\* decode_entrypoint_calls: an error if some arguments are missing
decode_entrypoint_calls(r) ==
    LET first == Find(r.args, r.first)
        parsed == IF first = <<>> THEN Err ELSE parse_encoded_calls(first[1].values)
    IN IF parsed = Err THEN Err
       ELSE LET calls == SelectSeq(parsed[1], LAMBDA c : c.to # Num(0) /\ c.selector # Num(0))
            IN IF \E i \in DOMAIN calls : Find(r.args, calls[i].args_hash) = <<>> THEN Err
               ELSE Ok([i \in DOMAIN calls |->
                           [to |-> calls[i].to, selector |-> calls[i].selector,
                            args |-> DecodedArgs(calls[i],
                                         Find(r.args, calls[i].args_hash)[1].values),
                            public |-> calls[i].public,
                            hide |-> calls[i].hide, static |-> calls[i].static]])

\* build_public_call_execution enqueues the hash of selector and arguments; a
\* private call is run with its arguments as they are
Run(c) ==
    [to |-> c.to, selector |-> c.selector, static |-> c.static,
     input |-> IF c.public THEN from_calldata(<<c.selector>> \o c.args).hash ELSE c.args,
     sender |-> IF c.public /\ c.hide THEN Num(0) ELSE Num(request[1].origin)]

\* verify_auth_witness_signatures: every signature checked against the key of
\* the origin, when the PXE holds a note with that key
verify_auth_witness_signatures(r, keyKnown) ==
    keyKnown /\ r.origin = Account => \A i \in DOMAIN r.auth : r.auth[i].key = r.origin

\* EmbeddedPxe::simulate_tx, prove_tx and profile_tx.  Profiling verifies no
\* signature.
Execute ==
    /\ stage = "execute"
    /\ \E keyKnown \in BOOLEAN :
         LET calls == decode_entrypoint_calls(request[1])
         IN IF /\ calls # Err
               /\ ask.op # "profile" => verify_auth_witness_signatures(request[1], keyKnown)
            THEN /\ executed' = [i \in DOMAIN calls[1] |-> Run(calls[1][i])]
                 /\ stage' = "done"
                 /\ UNCHANGED <<payload, request>>
            ELSE Fail
    /\ UNCHANGED ask

Next == Gather \/ WalletMerge \/ CreateRequest \/ Execute

Spec == Init /\ [][Next]_vars

-----------------------------------------------------------------------------
(* What the pipeline promises *)
Stages == {"gather", "merge", "create", "execute", "done", "failed"}

\* The shape of the state
TypeOK ==
    /\ ask \in Asks
    /\ stage \in Stages
    /\ DOMAIN payload = {"calls", "auth", "hashed", "payer"}
    /\ Len(request) <= 1
    /\ Len(executed) <= AppMaxCalls

\* What running a call of a payload must be given: written from the call alone
Due(c) ==
    LET fields == abi_values_to_fields(c.args)
        origin == IF ask.entry = "account" THEN Account ELSE MultiCall
    IN [to |-> Num(c.to), selector |-> Num(c.selector), static |-> c.static,
        input |-> IF c.public THEN <<"calldata", <<Num(c.selector)>> \o fields>> ELSE fields,
        sender |-> IF c.public /\ c.hide THEN Num(0) ELSE Num(origin)]

\* The calls the PXE runs are the calls of the merged payload, all of them and
\* in their order, each with its own arguments found again through their hash
\* (decode_entrypoint_calls), and the fee payer is the payload's or the origin
RequestDecodes ==
    stage = "done" =>
        /\ executed = [i \in DOMAIN payload.calls |-> Due(payload.calls[i])]
        /\ request[1].payer \in {NoPayer, payload.payer}
        /\ request[1].payer = NoPayer => payload.payer \in {NoPayer, request[1].origin}

\* The account's circuit hashes the encoded calls it is given, and asks for a
\* witness of that hash: the hash EncodedAppEntrypointCalls::hash signs is the
\* hash of the fields encode_arguments writes
SignedIsExecuted ==
    stage \in {"execute", "done"} /\ ask.entry = "account" =>
        LET args == Find(request[1].args, request[1].first)[1].values
        IN \E i \in DOMAIN request[1].auth :
              /\ request[1].auth[i].key = Account
              /\ request[1].auth[i].hash = <<"payload", SubSeq(args, 1, 6 * AppMaxCalls + 1)>>

\* The fee payload is merged into the transaction (docs: "The wallet merges the
\* payload from a FeePaymentMethod into the user's execution payload"): the
\* calls run are the calls asked for and those of the fee method, once.  It does
\* not hold: interaction and wallet both merge it
FeePayloadMergedOnce ==
    stage = "done" /\ ask.route \in {"interaction", "wallet"} =>
        Len(executed) = Len(Asked[ask.calls])
            + (IF ask.fee = "none" THEN 0 ELSE Len(FeePayload(ask.fee).calls))

\* AccountEntrypointMetaPaymentMethod wraps the fee calls as a call of the
\* account's entrypoint "with the appropriate fee payment method option": the
\* last call of a self-deployment is given what that entrypoint's ABI encodes.
\* It does not hold: the option is dropped, and the arguments flattened
MetaPaymentDecodes ==
    stage = "done" /\ ask.route = "self_deploy" =>
        LET inner == IF ask.fee = "none" THEN <<>> ELSE FeePayload(ask.fee).calls
            encoded == CreateEncoded(inner)
        IN executed[Len(executed)].input
               = encode_arguments(entrypoint_abi,
                     EntrypointValues(encoded[1], MetaOption(ask.fee)))[1]
=============================================================================
