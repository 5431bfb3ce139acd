-------------------------- MODULE AccountRegistry --------------------------
(***************************************************************************)
(* The accounts and senders a PXE knows (KeyStore, AddressStore and        *)
(* SenderStore), the keys derived from an account's secret, and the        *)
(* secrets by which a sender and a recipient find and open each other's    *)
(* messages.  The Grumpkin curve is a cyclic group of odd order: a point   *)
(* is its multiple of the generator, a point and its negation share the    *)
(* x-coordinate, and one of the two has the positive y.  Hashes are terms. *)
(***************************************************************************)
EXTENDS Integers, Sequences, SequencesExt, FiniteSets

CONSTANTS
    Order,          \* the number of points of the curve
    Positive,       \* the points whose y-coordinate is positive
    Secret,         \* account secret keys
    Partial,        \* partial addresses
    Master,         \* master secret scalars: secret -> key type -> scalar
    Preaddress,     \* hash of the public keys and the partial address
    App,            \* contract addresses
    OffCurve,       \* an address that is no x-coordinate of the curve
    Zero, Denied, Err

VARIABLES
    keys,           \* key:account:<hash of public keys>: the stored secrets
    addresses,      \* address:<address>: the stored complete addresses
    senders,        \* sender:<address>
    account,        \* the register_account in progress: its remaining writes
    sender,         \* the register_sender in progress, after its check
    known           \* addresses a caller was told are registered senders

vars == <<keys, addresses, senders, account, sender, known>>

KeyType == {"nullifier", "incoming", "outgoing", "tagging"}
Complete == [secret : Secret, partial : Partial]
NoCall == [todo |-> <<>>]

-----------------------------------------------------------------------------
(* The curve. *)
scalar_mul(k, p) == (k * p) % Order
point_add(p, q) == (p + q) % Order
XOf(p) == IF p \in Positive THEN p ELSE Order - p
has_positive_y(p) == p = 0 \/ p \in Positive
point_from_x(x) == IF x \in Positive THEN x ELSE Err

(* derive_keys: each master public key is a multiple of the generator. *)
PublicKey(s, t) == scalar_mul(Master[s][t], 1)

(* compute_app_secret_key: the key's scalar, the contract and the key type. *)
compute_app_secret_key(s, t, app) == <<Master[s][t], app, t>>

(* The x-coordinate of preaddress * G + ivpk; the point at infinity is refused. *)
compute_address(c) ==
    LET p == point_add(scalar_mul(Preaddress[c.secret][c.partial], 1),
                       PublicKey(c.secret, "incoming"))
    IN  IF p = 0 THEN Err ELSE XOf(p)

(* Mutant: the secret keeps its sign whatever the y-coordinate of its point. *)
AddressSecretUnsigned(c) ==
    (Master[c.secret]["incoming"] + Preaddress[c.secret][c.partial]) % Order

(* The scalar whose point is the one the address's x-coordinate stands for. *)
compute_address_secret(c) ==
    LET k == (Master[c.secret]["incoming"] + Preaddress[c.secret][c.partial]) % Order
    IN  IF has_positive_y(scalar_mul(k, 1)) THEN k ELSE Order - k

compute_directional_tagging_secret(local, external, app, recipient) ==
    IF point_from_x(external) = Err THEN Err
    ELSE << <<scalar_mul(compute_address_secret(local), point_from_x(external)), app>>,
            recipient >>

-----------------------------------------------------------------------------
(* The stores. *)
Stored(x) == {c \in addresses : compute_address(c) = x}
Registered(x) == \E c \in Stored(x) : c.secret \in keys
get_registered_accounts == {c \in addresses : c.secret \in keys}

(* KeyStore get_key_validation_request: the first account and key type whose
   public key has the hash, with the key for the asking contract. *)
KeyOf(pk, app) ==
    LET owned == {k \in keys \X KeyType : PublicKey(k[1], k[2]) = pk}
        k == CHOOSE k \in owned : TRUE
    IN  IF owned = {} THEN Zero ELSE <<pk, compute_app_secret_key(k[1], k[2], app)>>

InScope(pk, scopes) ==
    \E x \in scopes, c \in addresses, t \in KeyType :
        compute_address(c) = x /\ PublicKey(c.secret, t) = pk

(* The utility oracle's key request; the private oracle's skips the scope
   check when it was given no scopes. *)
get_key_validation_request(pk, scopes, app) ==
    IF InScope(pk, scopes) THEN KeyOf(pk, app) ELSE Denied
get_secret_key(pk, scopes, app) ==
    IF scopes = {} \/ InScope(pk, scopes) THEN KeyOf(pk, app) ELSE Denied

(* The private oracle's get_next_app_tag_as_sender, up to the tag's index. *)
SecretAsSender(from, to, app) ==
    IF \E c \in Stored(from) : c.secret \in keys
    THEN compute_directional_tagging_secret(
             CHOOSE c \in Stored(from) : c.secret \in keys, to, app, to)
    ELSE Err

(* Mutant: every stored address is listed again beside the senders. *)
PossibleSendersTwice(recipient) ==
    SetToSeq(senders) \o SetToSeq({compute_address(c) : c \in addresses})

(* The addresses tagging_secrets_for_recipient scans: the senders, then every
   stored address and the recipient, each unless it is already listed. *)
PossibleSenders(recipient) ==
    SetToSeq(senders)
        \o SetToSeq({compute_address(c) : c \in addresses} \ senders)
        \o (IF recipient \in senders \/ Stored(recipient) # {} THEN <<>> ELSE <<recipient>>)

(* One tagging secret for each of them; one that fails fails the call. *)
tagging_secrets_for_recipient(recipient, app) ==
    IF ~Registered(recipient) THEN <<>>
    ELSE LET local == CHOOSE c \in Stored(recipient) : TRUE
             from == PossibleSenders(recipient)
             secrets == [i \in DOMAIN from |->
                 compute_directional_tagging_secret(local, from[i], app, recipient)]
         IN  IF \E i \in DOMAIN secrets : secrets[i] = Err THEN Err ELSE secrets

(* get_shared_secret: the recipient's address secret times the ephemeral key. *)
get_shared_secret(recipient, eph) ==
    IF eph = 0 THEN 0
    ELSE IF ~Registered(recipient) THEN Err
    ELSE scalar_mul(compute_address_secret(CHOOSE c \in Stored(recipient) : TRUE), eph)

-----------------------------------------------------------------------------
Init ==
    /\ keys = {} /\ addresses = {} /\ senders = {}
    /\ account = NoCall /\ sender = Zero /\ known = {}

(* Mutant: the address is stored before the key. *)
AccountWritesAddressFirst(c) ==
    IF compute_address(c) = Err THEN <<"key">> ELSE <<"address", "key">>

(* register_account stores the secret key, derives the address, stores it. *)
AccountWrites(c) ==
    IF compute_address(c) = Err THEN <<"key">> ELSE <<"key", "address">>

RegisterAccount(c) ==
    /\ account = NoCall
    /\ account' = [todo |-> AccountWrites(c), of |-> c]
    /\ UNCHANGED <<keys, addresses, senders, sender, known>>

WriteAccount ==
    /\ account # NoCall
    /\ IF Head(account.todo) = "key"
       THEN keys' = keys \cup {account.of.secret} /\ UNCHANGED addresses
       ELSE addresses' = addresses \cup {account.of} /\ UNCHANGED keys
    /\ account' = IF Len(account.todo) = 1 THEN NoCall
                  ELSE [account EXCEPT !.todo = Tail(@)]
    /\ UNCHANGED <<senders, sender, known>>

(* register_sender leaves a registered account out of the sender store. *)
RegisterSender(x) ==
    /\ sender = Zero
    /\ IF Registered(x)
       THEN known' = known \cup {x} /\ UNCHANGED sender
       ELSE sender' = x /\ UNCHANGED known
    /\ UNCHANGED <<keys, addresses, senders, account>>

AddSender ==
    /\ sender # Zero
    /\ senders' = senders \cup {sender}
    /\ known' = known \cup {sender}
    /\ sender' = Zero
    /\ UNCHANGED <<keys, addresses, account>>

remove_sender(x) ==
    /\ senders' = senders \ {x}
    /\ known' = known \ {x}
    /\ UNCHANGED <<keys, addresses, account, sender>>

(* The process stops: the calls in progress are lost, the stores stay. *)
Crash ==
    /\ account # NoCall \/ sender # Zero
    /\ account' = NoCall /\ sender' = Zero
    /\ UNCHANGED <<keys, addresses, senders, known>>

Sender == ({compute_address(c) : c \in Complete} \ {Err}) \cup {OffCurve}

Next ==
    \/ \E c \in Complete : RegisterAccount(c)
    \/ WriteAccount
    \/ \E x \in Sender : RegisterSender(x) \/ remove_sender(x)
    \/ AddSender
    \/ Crash

Spec == Init /\ [][Next]_vars

-----------------------------------------------------------------------------
TypeOK ==
    /\ keys \subseteq Secret /\ addresses \subseteq Complete
    /\ senders \subseteq Sender /\ known \subseteq Sender
    /\ sender \in Sender \cup {Zero}
    /\ account = NoCall \/ account.of \in Complete

(* A message from a sender the caller was told is registered, or from one of
   the PXE's own accounts, to one of its accounts: the recipient scans the
   sender's tagging secret, exactly once, and opens the payload with the
   secret the sender sealed it with.  One registered sender that is not on
   the curve makes tagging_secrets_for_recipient fail for every recipient. *)
MessagesFound ==
    OffCurve \notin senders =>
        \A r \in get_registered_accounts, s \in Complete, app \in App :
            LET to == compute_address(r)
                from == compute_address(s)
                sent == compute_directional_tagging_secret(s, to, app, to)
                scanned == tagging_secrets_for_recipient(to, app)
            IN  /\ \/ from = Err
                   \/ from \notin known /\ s \notin get_registered_accounts
                   \/ Cardinality({i \in DOMAIN scanned : scanned[i] = sent}) = 1
                /\ \A e \in 1 .. Order - 1 :
                       get_shared_secret(to, scalar_mul(e, 1))
                           = scalar_mul(e, point_from_x(to))

(* A key request in scope is answered with the asked public key and a secret
   of the account in scope, never with the all-zero placeholder, whatever the
   point register_account was cut at; out of scope it is denied. *)
KeyRequestsAnswered ==
    \A scopes \in SUBSET {compute_address(c) : c \in addresses}, s \in Secret,
       t \in KeyType, app \in App :
        LET pk == PublicKey(s, t)
            owned == \E c \in addresses : c.secret = s /\ compute_address(c) \in scopes
            answer == IF owned THEN <<pk, compute_app_secret_key(s, t, app)>> ELSE Denied
        IN  /\ get_key_validation_request(pk, scopes, app) = answer
            /\ scopes # {} => get_secret_key(pk, scopes, app) = answer

=============================================================================
