------------------------------ MODULE AuthWit ------------------------------
(***************************************************************************)
(* Authorization witnesses.  An intent names what is authorised as a raw   *)
(* hash, as a call with its caller, or as a consumer with an inner hash;   *)
(* the wallet signs its message hash (Schnorr over Grumpkin), or has the   *)
(* AuthRegistry remember it on chain (SetPublicAuthWitInteraction), and    *)
(* lookup_validity asks for both.  The two questions are separate calls,   *)
(* between which the chain moves.                                          *)
(*                                                                         *)
(* Points are multiples of the generator, numbers modulo the prime Order   *)
(* (as in AccountRegistry); a point and its inverse share an x coordinate. *)
(* Blake2s and the Pedersen hash are the constant operator Digest, with    *)
(* values beyond Order; the Poseidon hashes are tuples.                    *)
(***************************************************************************)
EXTENDS Integers, SequencesExt

CONSTANTS Order, Digest(_, _, _),
          Account,       \* accounts of the wallet
          SigningKey,    \* their signing keys
          Stranger,      \* an address without an account
          Action,        \* calls to authorise: caller, to, selector, args
          ChainInfo,     \* <<chain_id, version>>
          Selector,      \* of CallAuthorizationRequest
          MaxTxs         \* bound on the registry's transactions

VARIABLES witness,    \* the witness last made, with the account it was asked of
          approved,   \* AuthRegistry: the storage slots that are set
          pending,    \* set_authorized transactions on their way
          lookup,     \* the lookup_validity call in progress or answered
          txs,
          made,       \* history: who the witness is from, and for which action
          granted,    \* history: what is authorised, as accounts and actions
          moved       \* history: the registry changed during the lookup

vars == <<witness, approved, pending, lookup, txs, made, granted, moved>>

---------------------------------------------------------------------------
(* Schnorr. *)
XOf(p) == IF p <= Order - p THEN p ELSE Order - p
scalar_mul(k, p) == (k * p) % Order
generate_nonce(key, message) == Digest(key, 0, message) % Order
compute_challenge(r, pk, message) == Digest(XOf(r), pk, message)

schnorr_sign(key, message) ==
    LET k == generate_nonce(key, message)
        e == compute_challenge(scalar_mul(k, 1), scalar_mul(key, 1), message)
    IN  [s |-> (k - key * (e % Order)) % Order, e |-> e]

schnorr_verify(pk, message, signature) ==
    LET r == (scalar_mul(signature.s, 1) + scalar_mul(signature.e % Order, pk)) % Order
    IN  signature.e = compute_challenge(r, pk, message)

---------------------------------------------------------------------------
(* Message hashes. *)
compute_var_args_hash(args) == IF args = <<>> THEN <<0>> ELSE <<"args", args>>
compute_inner_auth_wit_hash(fields) == <<"inner", fields>>
compute_inner_auth_wit_hash_from_action(a) ==
    compute_inner_auth_wit_hash(<<a.caller, a.selector, compute_var_args_hash(a.args)>>)
OuterWithoutConsumer(consumer, chain, inner) == <<"outer", chain[1], chain[2], inner, inner>>
compute_outer_auth_wit_hash(consumer, chain, inner) ==
    <<"outer", consumer, chain[1], chain[2], inner>>

(* MessageHashOrIntent: one action in its three forms. *)
Hash(hash) == [kind |-> "hash", hash |-> hash]
Intent(a) == [kind |-> "intent", action |-> a]
InnerHash(consumer, inner) == [kind |-> "inner", consumer |-> consumer, inner |-> inner]

compute_auth_wit_message_hash(intent, chain) ==
    CASE intent.kind = "hash"   -> intent.hash
      [] intent.kind = "intent" -> compute_outer_auth_wit_hash(intent.action.to, chain,
                                      compute_inner_auth_wit_hash_from_action(intent.action))
      [] intent.kind = "inner"  -> compute_outer_auth_wit_hash(intent.consumer, chain, intent.inner)

(* CallAuthorizationRequest::from_fields on what a call emitted. *)
from_fields(fields) ==
    IF Len(fields) < 5 \/ fields[1] # Selector THEN <<>>
    ELSE <<[inner_hash |-> fields[2], msg_sender |-> fields[3], function_selector |-> fields[4],
            args_hash |-> fields[5], args |-> SubSeq(fields, 6, Len(fields))]>>
Emitted(a) == <<Selector, compute_inner_auth_wit_hash_from_action(a), a.caller, a.selector,
                compute_var_args_hash(a.args)>> \o a.args

Forms(a) == <<Intent(a),
              InnerHash(a.to, compute_inner_auth_wit_hash_from_action(a)),
              InnerHash(a.to, from_fields(Emitted(a))[1].inner_hash),
              Hash(compute_auth_wit_message_hash(Intent(a), ChainInfo))>>

(* SingleAccountProvider::create_auth_wit resolves the intent, then the    *)
(* account signs the hash.                                                 *)
CreateAuthWit(from, intent) ==
    LET hash == compute_auth_wit_message_hash(intent, ChainInfo)
    IN  IF from \notin Account THEN <<>>
        ELSE <<[request_hash |-> hash, fields |-> schnorr_sign(SigningKey[from], hash)]>>

(* The oracle's get_auth_witness, and the account contract's check of the  *)
(* witness it gets (external).                                             *)
get_auth_witness(witnesses, hash) ==
    LET found == SelectSeq(witnesses, LAMBDA w : w.request_hash = hash)
    IN  IF found = <<>> THEN <<>> ELSE <<found[1].fields>>
AccountAccepts(account, hash, witnesses) ==
    LET fields == get_auth_witness(witnesses, hash)
    IN  fields # <<>> /\ schnorr_verify(scalar_mul(SigningKey[account], 1), hash, fields[1])

(* lookup_validity on the account contract computes the outer hash again   *)
(* from the consumer and the inner hash it is given.                       *)
check_private_validity(account, consumer, inner, witnesses) ==
    /\ account \in Account
    /\ AccountAccepts(account, compute_outer_auth_wit_hash(consumer, ChainInfo, inner), witnesses)

(* The storage slot of the registry's approved_actions. *)
StorageSlotByHash(account, hash) == <<"slot", hash>>
StorageSlot(account, hash) == <<"slot", <<"slot", 2, account>>, hash>>

---------------------------------------------------------------------------
NoLookup == [at |-> "idle"]

Init == /\ witness = <<>> /\ approved = {} /\ pending = {}
        /\ lookup = NoLookup /\ txs = 0
        /\ made = <<>> /\ granted = {} /\ moved = FALSE

(* BaseWallet::create_auth_wit, for any form of an action. *)
create_auth_wit(from, a, form) ==
    /\ lookup.at = "idle"
    /\ witness' = CreateAuthWit(from, Forms(a)[form])
    /\ made' = <<from, a>>
    /\ UNCHANGED <<approved, pending, lookup, txs, granted, moved>>

(* SetPublicAuthWitInteraction::create and send: the sender is `from`. *)
SetPublicAuthWit(from, a, form, authorized) ==
    /\ txs < MaxTxs
    /\ txs' = txs + 1
    /\ pending' = pending \cup
          {[slot |-> StorageSlot(from, compute_auth_wit_message_hash(Forms(a)[form], ChainInfo)),
            authorized |-> authorized, of |-> <<from, a>>]}
    /\ UNCHANGED <<witness, approved, lookup, made, granted, moved>>

(* External: a block includes a set_authorized call, or a public call that *)
(* consumes an authorization.                                              *)
Disturbs == moved' = (moved \/ lookup.at # "idle")
Include(t) ==
    /\ approved' = IF t.authorized THEN approved \cup {t.slot} ELSE approved \ {t.slot}
    /\ granted' = IF t.authorized THEN granted \cup {t.of} ELSE granted \ {t.of}
    /\ pending' = pending \ {t}
    /\ Disturbs
    /\ UNCHANGED <<witness, lookup, txs, made>>
Consume(account, a) ==
    /\ <<account, a>> \in granted
    /\ approved' = approved \ {StorageSlot(account, compute_auth_wit_message_hash(Intent(a), ChainInfo))}
    /\ granted' = granted \ {<<account, a>>}
    /\ Disturbs
    /\ UNCHANGED <<witness, pending, lookup, txs, made>>

(* lookup_validity: chain info, then the account contract, then the        *)
(* registry at the node's latest block; a raw hash has no consumer, so its *)
(* private half is not asked.  A failing read counts as not valid.         *)
BeginLookup(account, a, form) ==
    /\ lookup.at = "idle" /\ witness # <<>>
    /\ lookup' = [at |-> IF Forms(a)[form].kind = "hash" THEN "public" ELSE "private",
                  account |-> account, action |-> a, form |-> form,
                  private |-> FALSE, public |-> FALSE, failed |-> FALSE]
    /\ moved' = FALSE
    /\ UNCHANGED <<witness, approved, pending, txs, made, granted>>

LookupPrivate ==
    /\ lookup.at = "private"
    /\ LET intent == Forms(lookup.action)[lookup.form]
           consumer == IF intent.kind = "intent" THEN intent.action.to ELSE intent.consumer
           inner == IF intent.kind = "intent"
                    THEN compute_inner_auth_wit_hash_from_action(intent.action) ELSE intent.inner
       IN  lookup' = [lookup EXCEPT !.at = "public",
                         !.private = check_private_validity(lookup.account, consumer, inner, witness)]
    /\ UNCHANGED <<witness, approved, pending, txs, made, granted, moved>>

LookupPublic(readable) ==
    /\ lookup.at = "public"
    /\ LET hash == compute_auth_wit_message_hash(Forms(lookup.action)[lookup.form], ChainInfo)
       IN  lookup' = [lookup EXCEPT !.at = "answered", !.failed = ~readable,
                         !.public = readable /\ StorageSlot(lookup.account, hash) \in approved]
    /\ UNCHANGED <<witness, approved, pending, txs, made, granted, moved>>

Forget == /\ lookup.at = "answered"
          /\ lookup' = NoLookup
          /\ moved' = FALSE
          /\ UNCHANGED <<witness, approved, pending, txs, made, granted>>

Next ==
    \/ \E from \in Account \cup {Stranger}, a \in Action, form \in 1..4 : create_auth_wit(from, a, form)
    \/ \E from \in Account, a \in Action, form \in 1..4, b \in BOOLEAN : SetPublicAuthWit(from, a, form, b)
    \/ \E t \in pending : Include(t)
    \/ \E account \in Account, a \in Action : Consume(account, a)
    \/ \E account \in Account \cup {Stranger}, a \in Action, form \in 1..4 : BeginLookup(account, a, form)
    \/ LookupPrivate
    \/ \E readable \in BOOLEAN : LookupPublic(readable)
    \/ Forget

Spec == Init /\ [][Next]_vars

---------------------------------------------------------------------------
(* The variables' ranges. *)
TypeOK == /\ Len(witness) \in 0..1
          /\ lookup.at \in {"idle", "private", "public", "answered"}
          /\ txs \in 0..MaxTxs /\ moved \in BOOLEAN
          /\ granted \subseteq Account \X Action
          /\ \A t \in pending : t.of \in Account \X Action

(* What lookup_validity answers is the authorisation the account gave, in  *)
(* whatever form each side named the action.  Its private half is true     *)
(* exactly for a witness the asked account made for this very action (a    *)
(* raw hash is never valid in private).  Its public half is what the       *)
(* registry holds for this account and action, unless the registry changed *)
(* since the lookup began or could not be read.                            *)
LookupAnswers ==
    lookup.at = "answered" =>
        /\ lookup.private <=> lookup.form # 4 /\ made = <<lookup.account, lookup.action>>
        /\ ~moved /\ ~lookup.failed
              => (lookup.public <=> <<lookup.account, lookup.action>> \in granted)
=============================================================================
