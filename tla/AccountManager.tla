--------------------------- MODULE AccountManager ---------------------------
(***************************************************************************)
(* The address of an account contract.  It is worked out in five places:   *)
(* before anything exists (get_account_contract_address), by the account   *)
(* manager when it is created, again as the complete address the account   *)
(* signs with, by the deployment the manager hands out, and by the wallet  *)
(* which is given a secret key and a partial address.                      *)
(*                                                                         *)
(* Hash values, keys and curve points are terms: the name of what made     *)
(* them and what it was made of.  Two terms are the same value exactly     *)
(* when they are the same term.  Results are <<>> for an error and <<x>>   *)
(* for a value, and so are optional values.                                *)
(***************************************************************************)
EXTENDS Naturals, Sequences, SequencesExt

Term(name, of) == [name |-> name, of |-> of]
Zero == Term("0", <<>>)

-----------------------------------------------------------------------------
(* Keys. *)
derive_public_key_from_secret_key(secret) == Term("point", <<secret>>)

derive_keys(secret) ==
    [n \in {"nhk_m", "ivsk_m", "ovsk_m", "tsk_m"} |->
        derive_public_key_from_secret_key(Term(n, <<secret>>))]

KeyFields(keys) == <<keys["nhk_m"], keys["ivsk_m"], keys["ovsk_m"], keys["tsk_m"]>>

is_empty(keys) == \A n \in DOMAIN keys : keys[n] = Zero

PublicKeysHash(keys) == IF is_empty(keys) THEN Zero ELSE Term("public_keys", KeyFields(keys))

-----------------------------------------------------------------------------
(* Addresses. *)
compute_salted_initialization_hash(salt, init_hash, deployer) ==
    Term("partial_address", <<salt, init_hash, deployer>>)

compute_partial_address(class_id, salted) == Term("partial_address", <<class_id, salted>>)

compute_address(keys, partial) ==
    LET pre == Term("contract_address", <<PublicKeysHash(keys), partial>>) IN
    IF keys["ivsk_m"] = Zero THEN Term("x", <<pre>>) ELSE Term("x", <<pre, keys["ivsk_m"]>>)

PartialAddress(i) ==
    compute_partial_address(i.class_id,
        compute_salted_initialization_hash(i.salt, i.init_hash, i.deployer))

compute_contract_address_from_instance(i) == compute_address(i.keys, PartialAddress(i))

complete_address_from_secret_key_and_partial_address(secret, partial) ==
    [address |-> compute_address(derive_keys(secret), partial),
     keys |-> derive_keys(secret), partial |-> partial]

-----------------------------------------------------------------------------
(* The instance a class, a constructor call, a salt, keys and a deployer   *)
(* make.  A function is found by its name; the selector is the artifact's  *)
(* or worked out from the name and the parameters.                         *)
find_function(artifact, name) ==
    LET found == SelectSeq(artifact.functions, LAMBDA f : f.name = name) IN
    IF found = <<>> THEN <<>> ELSE <<found[1]>>

FunctionSelector(f) ==
    IF f.selector # <<>> THEN f.selector[1]
    ELSE Term("selector", <<Term(f.name, <<>>)>> \o [i \in 1..f.params |-> Term("Field", <<>>)])

compute_initialization_hash(init_fn, args) ==
    CASE init_fn = <<>> -> <<Zero>>
      [] init_fn # <<>> /\ Len(args) # init_fn[1].params -> <<>>
      [] OTHER -> <<Term("initializer",
                      <<FunctionSelector(init_fn[1]), Term("args", args)>>)>>

ClassId(artifact) == Term("class", <<Term(artifact.name, <<>>)>>)

(* The helper program of a real-proof run works the class id out again,     *)
(* and the address from it (external).                                      *)
HelperClass(class_id) == Term("helper_class", <<class_id>>)

canonicalize_instance_with_bbjs(i) ==
    LET canonical == [i EXCEPT !.class_id = HelperClass(i.class_id)] IN
    [canonical EXCEPT !.address = compute_contract_address_from_instance(canonical)]

(* A constructor name the artifact does not have is an error. *)
get_contract_instance_from_instantiation_params(artifact, p, real) ==
    LET init_fn == IF p.constructor = <<>> THEN <<>> ELSE find_function(artifact, p.constructor[1])
        hash == compute_initialization_hash(init_fn, p.args)
        raw == [class_id |-> ClassId(artifact), init_hash |-> hash[1], salt |-> p.salt,
                keys |-> p.keys, deployer |-> p.deployer, address |-> Zero]
        whole == [raw EXCEPT !.address = compute_contract_address_from_instance(raw)]
    IN  IF hash = <<>> \/ (p.constructor # <<>> /\ init_fn = <<>>) THEN <<>>
        ELSE IF real THEN <<canonicalize_instance_with_bbjs(whole)>> ELSE <<whole>>

-----------------------------------------------------------------------------
(* The contract: an artifact and, optionally, the initializer's name and    *)
(* arguments.                                                               *)
constructor_artifact == [name |-> "constructor", init |-> TRUE, params |-> 2, selector |-> <<>>]

contract_artifact ==
    [name |-> "SchnorrAccount",
     functions |-> <<constructor_artifact,
                     [name |-> "entrypoint", init |-> FALSE, params |-> 3, selector |-> <<>>]>>]

initialization_function_and_args(signing) ==
    LET public == derive_public_key_from_secret_key(signing) IN
    <<[name |-> "constructor", args |-> <<Term("x", <<public>>), Term("y", <<public>>)>>]>>

new_with_signing_key(signing) ==
    [artifact |-> contract_artifact, spec |-> initialization_function_and_args(signing)]

SchnorrNew(secret) == new_with_signing_key(Term("signing", <<secret>>))

-----------------------------------------------------------------------------
(* The manager. *)
ConstructorName(c) == IF c.spec = <<>> THEN <<>> ELSE <<c.spec[1].name>>
ConstructorArgs(c) == IF c.spec = <<>> THEN <<>> ELSE c.spec[1].args

get_account_contract_address(c, secret, salt, real) ==
    LET i == get_contract_instance_from_instantiation_params(c.artifact,
                 [constructor |-> ConstructorName(c), args |-> ConstructorArgs(c),
                  salt |-> salt, keys |-> derive_keys(secret), deployer |-> Zero], real)
    IN  IF i = <<>> THEN <<>> ELSE <<i[1].address>>

(* The named initializer exists, is one, and takes as many arguments. *)
InitializerOk(artifact, name, args) ==
    LET f == find_function(artifact, name) IN
    f # <<>> /\ f[1].init /\ f[1].params = Len(args)

create(c, secret, salt, real) ==
    LET i == get_contract_instance_from_instantiation_params(c.artifact,
                 [constructor |-> ConstructorName(c), args |-> ConstructorArgs(c),
                  salt |-> salt, keys |-> derive_keys(secret), deployer |-> Zero], real)
    IN  IF (c.spec # <<>> /\ ~InitializerOk(c.artifact, c.spec[1].name, c.spec[1].args))
               \/ i = <<>>
        THEN <<>>
        ELSE <<[contract |-> c, secret |-> secret, salt |-> salt, instance |-> i[1]]>>

complete_address(m) ==
    LET partial == PartialAddress(m.instance) IN
    [address |-> compute_address(derive_keys(m.secret), partial),
     keys |-> derive_keys(m.secret), partial |-> partial]

(* ContractDeployer::deploy: the constructor asked for, or else the first    *)
(* initializer of the artifact, or else none.                                *)
Initializers(artifact) == SelectSeq(artifact.functions, LAMBDA f : f.init)

deploy(artifact, keys, name, args) ==
    LET chosen == IF name # <<>> THEN name
                  ELSE IF Initializers(artifact) # <<>> THEN <<Initializers(artifact)[1].name>>
                  ELSE <<>>
    IN  IF (chosen # <<>> /\ ~InitializerOk(artifact, chosen[1], args))
               \/ (chosen = <<>> /\ args # <<>>)
        THEN <<>>
        ELSE <<[artifact |-> artifact, keys |-> keys, constructor |-> chosen, args |-> args,
                default_salt |-> Term("random", <<>>)]>>

GetInstanceOwnSalt(d, opts, real) ==            \* mutant: the options' salt is not used
    get_contract_instance_from_instantiation_params(d.artifact,
        [constructor |-> d.constructor, args |-> d.args, salt |-> d.default_salt,
         keys |-> d.keys, deployer |-> Zero], real)

get_instance(d, opts, real) ==
    get_contract_instance_from_instantiation_params(d.artifact,
        [constructor |-> d.constructor, args |-> d.args, keys |-> d.keys,
         salt |-> IF opts.salt = <<>> THEN d.default_salt ELSE opts.salt[1],
         deployer |-> IF opts.universal \/ opts.from = <<>> THEN Zero ELSE opts.from[1]], real)

deploy_method(m, real) ==
    LET inner == deploy(m.contract.artifact, m.instance.keys, ConstructorName(m.contract),
                        ConstructorArgs(m.contract))
    IN  IF inner = <<>> THEN <<>>
        ELSE <<[inner |-> inner[1],
                inner_instance |-> get_instance(inner[1],
                    [salt |-> <<m.salt>>, universal |-> FALSE, from |-> <<>>], real)[1]]>>

to_deploy_options(d) ==
    [salt |-> <<d.inner_instance.salt>>, universal |-> TRUE, from |-> <<>>]

(* DeployAccountMethod::send returns the instance of its own options. *)
SentInstance(d, real) == get_instance(d.inner, to_deploy_options(d), real)[1]

-----------------------------------------------------------------------------
NamesInitializer(c) == c.spec # <<>> \/ Initializers(c.artifact) = <<>>

(* All five places agree: the address computed beforehand, the manager's, the *)
(* complete address, the wallet's from the secret key and partial address,    *)
(* and the instance that is deployed, when the account contract names its     *)
(* initializer if it has one.  (get_account_contract_address,                 *)
(* AccountManager::create, complete_address, deploy_method and                *)
(* DeployAccountMethod::send.)                                                *)
AddressesAgree(c, secret, salt, real) ==
    LET m == create(c, secret, salt, real) IN m # <<>> =>
        LET address == m[1].instance.address
            complete == complete_address(m[1])
            d == deploy_method(m[1], real)
        IN  /\ get_account_contract_address(c, secret, salt, real) = <<address>>
            /\ complete.address = address
            /\ complete_address_from_secret_key_and_partial_address(secret, complete.partial)
                   = complete
            /\ NamesInitializer(c) =>
                   d # <<>> /\ {d[1].inner_instance.address, SentInstance(d[1], real).address} = {address}

(* Two accounts that differ in the secret key, the salt or the signing key    *)
(* have different addresses.  (new_with_signing_key: accounts may share the   *)
(* secret key and differ in the signing key.)                                 *)
AddressesDiffer(signing1, secret1, salt1, signing2, secret2, salt2, real) ==
    get_account_contract_address(new_with_signing_key(signing1), secret1, salt1, real)
        = get_account_contract_address(new_with_signing_key(signing2), secret2, salt2, real)
    => <<signing1, secret1, salt1>> = <<signing2, secret2, salt2>>
=============================================================================
