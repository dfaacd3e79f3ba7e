----------------------------- MODULE TxSigning -----------------------------
(***************************************************************************)
(* A transaction travelling from the wallet to the node.  The chain state  *)
(* is the active and owner authority of every account; the transaction is *)
(* a sequence of operations whose required authorities are fixed when it  *)
(* is built.  Signatures are appended one at a time                        *)
(* (signed_transaction::sign) or all at once by the wallet from            *)
(* minimize_required_signatures; the node recovers the signature keys      *)
(* (get_signature_keys) and verifies them (signed_transaction::            *)
(* verify_authority), recording the outcome in verdict.                    *)
(***************************************************************************)
EXTENDS AuthorityEngine

CONSTANTS
    Accounts,        \* account ids, ordered as account_id_type
    Keys,            \* public keys, ordered as public_key_type
    ChainIds,        \* chain ids a signer may sign for
    ChainId,         \* the chain id of this node (database::get_chain_id)
    MaxRecursion,    \* GRAPHENE_MAX_SIG_CHECK_DEPTH
    MaxSigs,         \* bound on the number of signatures on a transaction
    ActiveChoices,   \* the active authorities an account may have
    OwnerChoices,    \* the owner authorities an account may have
    TxChoices,       \* the operation sequences a transaction may carry
    WalletKeySets    \* the key sets a wallet may hold

ASSUME ChainId \in ChainIds /\ MaxRecursion \in Nat /\ MaxSigs \in Nat
ASSUME WalletKeySets \subseteq SUBSET Keys

VARIABLES
    active,    \* account -> active authority (account_object::active)
    owner,     \* account -> owner authority (account_object::owner)
    ops,       \* transaction::operations
    sigs,      \* signed_transaction::signatures, each [key, chain]
    verdict,   \* "none" before the first push, then the node's outcome
    wallet     \* TRUE when sigs are the wallet's minimized signature set

vars == <<active, owner, ops, sigs, verdict, wallet>>

Signature == [key : Keys, chain : ChainIds]

TypeOK ==
    /\ active \in [Accounts -> ActiveChoices]
    /\ owner \in [Accounts -> OwnerChoices]
    /\ ops \in TxChoices
    /\ sigs \in Seq(Signature) /\ Len(sigs) <= MaxSigs
    /\ verdict \in {"none", "ok"} \cup Errors
    /\ wallet \in BOOLEAN

\* The keys the node recovers from the signatures.
SigKeys == SignatureKeys(sigs, ChainId)

Init ==
    /\ active \in [Accounts -> ActiveChoices]
    /\ owner \in [Accounts -> OwnerChoices]
    /\ ops \in TxChoices
    /\ sigs = <<>>
    /\ verdict = "none"
    /\ wallet = FALSE

(***************************************************************************)
(* signed_transaction::sign: append a compact signature of the sig_digest  *)
(* for chain c by key k.  The result is a new transaction, not yet pushed. *)
(***************************************************************************)
Sign(k, c) ==
    /\ Len(sigs) < MaxSigs
    /\ sigs' = Append(sigs, [key |-> k, chain |-> c])
    /\ wallet' = FALSE
    /\ verdict' = "none"
    /\ UNCHANGED <<active, owner, ops>>

(***************************************************************************)
(* The wallet signs an unsigned transaction with the keys                  *)
(* minimize_required_signatures picks from the keys it holds; when that    *)
(* call throws the wallet signs nothing.                                   *)
(***************************************************************************)
\* Mutant: the wallet appends its signatures to those already present.
WalletSignAppend(available) ==
    LET m == MinimizeRequiredSignatures(ops, {}, available, active, owner, MaxRecursion)
    IN  /\ m.ok
        /\ Cardinality(m.keys) <= MaxSigs
        /\ sigs' = sigs \o [i \in 1..Cardinality(m.keys) |->
                       [key |-> Ascending(m.keys)[i], chain |-> ChainId]]
        /\ wallet' = TRUE
        /\ verdict' = "none"
        /\ UNCHANGED <<active, owner, ops>>

WalletSign(available) ==
    LET m == MinimizeRequiredSignatures(ops, {}, available, active, owner, MaxRecursion)
    IN  /\ sigs = <<>>
        /\ m.ok
        /\ Cardinality(m.keys) <= MaxSigs
        /\ sigs' = [i \in 1..Cardinality(m.keys) |->
                       [key |-> Ascending(m.keys)[i], chain |-> ChainId]]
        /\ wallet' = TRUE
        /\ verdict' = "none"
        /\ UNCHANGED <<active, owner, ops>>

(***************************************************************************)
(* The node checks the pushed transaction: at least one operation, no two  *)
(* signatures recovering to one key, then the authorities.                 *)
(***************************************************************************)
Push ==
    /\ Len(ops) > 0
    /\ verdict' = IF HasDuplicateKey(sigs, ChainId) THEN "DuplicateSignature"
                  ELSE SignedVerifyAuthority(ops, SigKeys, active, owner, MaxRecursion)
    /\ UNCHANGED <<active, owner, ops, sigs, wallet>>

Next ==
    \/ \E k \in Keys, c \in ChainIds : Sign(k, c)
    \/ \E available \in WalletKeySets : WalletSign(available)
    \/ Push

Spec == Init /\ [][Next]_vars

(***************************************************************************)
(* Properties.                                                             *)
(***************************************************************************)

\* The node accepts a transaction only when the keys that signed it satisfy
\* every required authority under the reference semantics: the memo of
\* approved accounts, the depth bound and the one-signature fast path of
\* check_authority never let through what the signatures do not authorise.
AcceptedOnlyIfAuthorized ==
    verdict = "ok" => RefAuthorized(ops, SigKeys, active, owner)

\* When the general path rejects a transaction only for IrrelevantSignature,
\* dropping exactly the keys remove_unused_signatures found unused yields a
\* signature set it accepts: a signer can always repair that rejection.
IrrelevantRejectionRecoverable ==
    verdict = "IrrelevantSignature" =>
        LET unused == UnusedSignatures(
                VerifyAuthorityState(ops, SigKeys, active, owner, MaxRecursion,
                                     FALSE, {}, {}).st)
        IN  VerifyAuthority(ops, SigKeys \ unused, active, owner, MaxRecursion) = "ok"

\* A signature made for another chain id never helps a transaction through:
\* sig_digest binds the chain id, so the recovered key is one no authority
\* lists, and the unused-signature check (or, on the fast path, the failing
\* authority check) rejects the transaction.
ForeignSignatureNeverAccepted ==
    verdict = "ok" => \A i \in DOMAIN sigs : sigs[i].chain = ChainId

\* minimize_required_signatures catches only the Missing*Auth exceptions
\* while it re-verifies smaller key sets; any other (IrrelevantSignature
\* when a removal leaves a key unused, InvalidCommitteeApproval) escapes
\* and the wallet signs nothing.  That must happen only for a transaction
\* that no key set the wallet holds gets through verify_authority.
MinimizeFailsOnlyIfUnsignable ==
    sigs = <<>> =>
        \A available \in WalletKeySets :
            ~MinimizeRequiredSignatures(ops, {}, available, active, owner, MaxRecursion).ok =>
                \A S \in SUBSET available : VerifyAuthority(ops, S, active, owner, MaxRecursion) # "ok"

\* Spec: the single-signature fast path (verify_authority1) reaches the same
\* decision as the general path (verify_authority) for the same key.
FastPathAgrees ==
    Cardinality(SigKeys) = 1 =>
        VerifyAuthority1(ops, CHOOSE k \in SigKeys : TRUE, active, owner, MaxRecursion)
            = VerifyAuthority(ops, SigKeys, active, owner, MaxRecursion)

\* Spec: the output of minimize_required_signatures, used as the sole
\* signature set, passes verify_authority: a transaction the wallet signed
\* is accepted by the node.
WalletSignaturesSuffice ==
    wallet /\ verdict # "none" => verdict = "ok"

\* The keys of S that some authority satisfied under the reference semantics
\* counts: a key of a satisfied inline authority, of the authority that
\* satisfied a required active or owner account, or of an approved account.
CountedKeys(S) ==
    LET X == RefApproved(S, active)
        Sat(au) == RefSatisfied(au, S, active)
        others == RequiredOther(ops)
        used == {others[i] : i \in DOMAIN others} \cup {owner[a] : a \in RequiredOwner(ops)}
                \cup {owner[a] : a \in RequiredActive(ops) \ X} \cup {active[a] : a \in X \ {TempAccount}}
    IN  S \cap UNION {DOMAIN au.keys : au \in {u \in used : Sat(u)}}

\* Spec: a provided key's "used" flag flips once the key is counted toward
\* satisfying some authority, and a key never so counted is rejected as
\* IrrelevantSignature; so an accepted transaction carries only counted keys.
AcceptedKeysAllCounted ==
    verdict = "ok" => SigKeys \subseteq CountedKeys(SigKeys)

\* Spec: one extra valid but unnecessary signature on top of a minimal
\* satisfying key set makes verification fail with IrrelevantSignature.
UnnecessarySignatureRejected ==
    LET V(S) == SignedVerifyAuthority(ops, S, active, owner, MaxRecursion)
        Minimal(S) == V(S) = "ok" /\ \A k \in S : V(S \ {k}) # "ok"
    IN  \A S \in SUBSET Keys, x \in Keys : Minimal(S) /\ x \notin S => V(S \cup {x}) = "IrrelevantSignature"

=============================================================================
