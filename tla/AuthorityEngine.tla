-------------------------- MODULE AuthorityEngine --------------------------
(***************************************************************************)
(* The transaction authority-verification engine of                        *)
(* src/libraries/chain/protocol/transaction.cpp, as operators.             *)
(*                                                                         *)
(* An authority is a record [keys, accts, thr]: keys and accts are         *)
(* functions from a key (an account) to its weight, thr is the             *)
(* weight_threshold.  The code iterates key_auths and account_auths, which *)
(* are flat_maps, in ascending key order; keys and accounts are integers   *)
(* here so that this order is "<".                                         *)
(*                                                                         *)
(* A sign state is the record the C++ structs sign_state and sign_state1   *)
(* hold:                                                                   *)
(*   single   TRUE for sign_state1 (the one-signature fast path)           *)
(*   key      the one provided key of sign_state1                          *)
(*   prov     provided_signatures: key -> "used" flag (sign_state)         *)
(*   avail    available_keys (sign_state)                                  *)
(*   appr     approved_by                                                  *)
(*   maxrec   max_recursion                                                *)
(*   active   the get_active callback, as a table account -> authority     *)
(* Every operator that changes the sign state returns [ok, st].            *)
(***************************************************************************)
EXTENDS Integers, Sequences, FiniteSets, SequencesExt

CONSTANTS
    TempAccount,     \* GRAPHENE_TEMP_ACCOUNT, pre-approved in every sign state
    MinerAccount     \* GRAPHENE_MINER_ACCOUNT, the committee account

\* Outcomes of a verification: "ok" or the exception it throws.
Errors == {"InvalidCommitteeApproval", "MissingOtherAuth", "MissingActiveAuth",
           "MissingOwnerAuth", "IrrelevantSignature", "DuplicateSignature"}

\* Iteration order of a flat_map / flat_set.
Ascending(S) == SetToSortSeq(S, <)

\* The sum of the weights in f of the members of S.
RECURSIVE WeightOf(_, _)
WeightOf(f, S) ==
    IF S = {} THEN 0
    ELSE LET x == CHOOSE y \in S : TRUE
         IN f[x] + WeightOf(f, S \ {x})

(***************************************************************************)
(* sign_state / sign_state1 construction.                                  *)
(***************************************************************************)
NewSignState(sigs, active) ==
    [single |-> FALSE, key |-> 0, prov |-> [k \in sigs |-> FALSE],
     avail |-> {}, appr |-> {TempAccount}, maxrec |-> 0, active |-> active]

NewSignState1(sig, active) ==
    [single |-> TRUE, key |-> sig, prov |-> <<>>,
     avail |-> {}, appr |-> {TempAccount}, maxrec |-> 0, active |-> active]

(***************************************************************************)
(* signed_by: sign_state marks a provided key used the moment it is        *)
(* looked at, and adopts an available key as provided; sign_state1 only    *)
(* compares with its one key.                                              *)
(***************************************************************************)
\* Mutant: a provided key is reported signed without being marked used.
SignedByNoMark(k, st) ==
    IF st.single THEN [ok |-> k = st.key, st |-> st]
    ELSE IF k \in DOMAIN st.prov THEN [ok |-> TRUE, st |-> st]
    ELSE IF k \in st.avail
         THEN [ok |-> TRUE, st |-> [st EXCEPT !.prov = [j \in DOMAIN @ \cup {k} |->
                                                   IF j = k THEN TRUE ELSE @[j]]]]
    ELSE [ok |-> FALSE, st |-> st]

SignedBy(k, st) ==
    IF st.single THEN [ok |-> k = st.key, st |-> st]
    ELSE IF k \in DOMAIN st.prov
         THEN [ok |-> TRUE, st |-> [st EXCEPT !.prov[k] = TRUE]]
    ELSE IF k \in st.avail
         THEN [ok |-> TRUE, st |-> [st EXCEPT !.prov = [j \in DOMAIN @ \cup {k} |->
                                                   IF j = k THEN TRUE ELSE @[j]]]]
    ELSE [ok |-> FALSE, st |-> st]

(***************************************************************************)
(* check_authority(const authority*, depth): first the key_auths, then the *)
(* account_auths, returning as soon as the threshold is reached.  An       *)
(* account not yet approved is checked through its active authority one    *)
(* level deeper and memoised in approved_by on success; reaching such an   *)
(* account at depth = max_recursion fails the whole authority.             *)
(***************************************************************************)
RECURSIVE CheckAuthority(_, _, _), KeyLoop(_, _, _, _, _), AccountLoop(_, _, _, _, _)

CheckAuthority(au, depth, st) == KeyLoop(au, Ascending(DOMAIN au.keys), 0, depth, st)

KeyLoop(au, ks, total, depth, st) ==
    IF ks = <<>> THEN AccountLoop(au, Ascending(DOMAIN au.accts), total, depth, st)
    ELSE LET k == Head(ks)
             r == SignedBy(k, st)
             t == total + au.keys[k]
         IN IF r.ok /\ t >= au.thr THEN [ok |-> TRUE, st |-> r.st]
            ELSE KeyLoop(au, Tail(ks), IF r.ok THEN t ELSE total, depth, r.st)

\* Mutant: approved_by.insert placed outside the success branch.
AccountLoopApproveOnFailure(au, as, total, depth, st) ==
    IF as = <<>> THEN [ok |-> total >= au.thr, st |-> st]
    ELSE LET a == Head(as)
             t == total + au.accts[a]
         IN IF a \in st.appr
            THEN IF t >= au.thr THEN [ok |-> TRUE, st |-> st]
                 ELSE AccountLoop(au, Tail(as), t, depth, st)
            ELSE IF depth = st.maxrec THEN [ok |-> FALSE, st |-> st]
            ELSE LET r == CheckAuthority(st.active[a], depth + 1, st)
                     st2 == [r.st EXCEPT !.appr = @ \cup {a}]
                 IN IF ~r.ok THEN AccountLoop(au, Tail(as), total, depth, st2)
                    ELSE IF t >= au.thr THEN [ok |-> TRUE, st |-> st2]
                    ELSE AccountLoop(au, Tail(as), t, depth, st2)

AccountLoop(au, as, total, depth, st) ==
    IF as = <<>> THEN [ok |-> total >= au.thr, st |-> st]
    ELSE LET a == Head(as)
             t == total + au.accts[a]
         IN IF a \in st.appr
            THEN IF t >= au.thr THEN [ok |-> TRUE, st |-> st]
                 ELSE AccountLoop(au, Tail(as), t, depth, st)
            ELSE IF depth = st.maxrec THEN [ok |-> FALSE, st |-> st]
            ELSE LET r == CheckAuthority(st.active[a], depth + 1, st)
                     st2 == [r.st EXCEPT !.appr = @ \cup {a}]
                 IN IF ~r.ok THEN AccountLoop(au, Tail(as), total, depth, r.st)
                    ELSE IF t >= au.thr THEN [ok |-> TRUE, st |-> st2]
                    ELSE AccountLoop(au, Tail(as), t, depth, st2)

\* check_authority(account_id_type): approved accounts pass without a look.
CheckAccount(id, st) ==
    IF id \in st.appr THEN [ok |-> TRUE, st |-> st]
    ELSE CheckAuthority(st.active[id], 0, st)

\* remove_unused_signatures: the provided keys never looked at.
UnusedSignatures(st) ==
    IF st.single THEN {} ELSE {k \in DOMAIN st.prov : ~st.prov[k]}

(***************************************************************************)
(* A transaction is a sequence of operations; each operation contributes   *)
(* the accounts whose active and owner authority it requires and inline    *)
(* "other" authorities (operation_get_required_authorities).               *)
(***************************************************************************)
RequiredActive(ops) == UNION {ops[i].active : i \in DOMAIN ops}
RequiredOwner(ops)  == UNION {ops[i].owner : i \in DOMAIN ops}
RequiredOther(ops)  == FoldLeft(LAMBDA acc, op : acc \o op.other, <<>>, ops)

(***************************************************************************)
(* The three loops of verify_authority / verify_authority1, each stopping  *)
(* at the first authority that fails.                                      *)
(***************************************************************************)
RECURSIVE OtherLoop(_, _)
OtherLoop(others, st) ==
    IF others = <<>> THEN [ok |-> TRUE, st |-> st]
    ELSE LET r == CheckAuthority(Head(others), 0, st)
         IN IF r.ok THEN OtherLoop(Tail(others), r.st) ELSE r

\* Each required active account: its active authority, else its owner one.
RECURSIVE ActiveLoop(_, _, _)
ActiveLoop(ids, owner, st) ==
    IF ids = <<>> THEN [ok |-> TRUE, st |-> st]
    ELSE LET id == Head(ids)
             r1 == CheckAccount(id, st)
             r2 == CheckAuthority(owner[id], 0, r1.st)
         IN IF r1.ok THEN ActiveLoop(Tail(ids), owner, r1.st)
            ELSE IF r2.ok THEN ActiveLoop(Tail(ids), owner, r2.st)
            ELSE r2

\* Each required owner account: an owner approval, else its owner authority.
RECURSIVE OwnerLoop(_, _, _, _)
OwnerLoop(ids, owner, ownerApprovals, st) ==
    IF ids = <<>> THEN [ok |-> TRUE, st |-> st]
    ELSE LET id == Head(ids)
             r == CheckAuthority(owner[id], 0, st)
         IN IF id \in ownerApprovals THEN OwnerLoop(Tail(ids), owner, ownerApprovals, st)
            ELSE IF r.ok THEN OwnerLoop(Tail(ids), owner, ownerApprovals, r.st)
            ELSE r

(***************************************************************************)
(* verify_authority: the general path.  Returns [res, st] where res is     *)
(* "ok" or the exception thrown and st the final sign state.               *)
(***************************************************************************)
VerifyAuthorityState(ops, sigs, active, owner, maxrec, allowCommittee, activeApprovals, ownerApprovals) ==
    LET s0 == [NewSignState(sigs, active) EXCEPT
                  !.maxrec = maxrec,
                  !.appr = @ \cup activeApprovals \cup ownerApprovals]
        o == OtherLoop(RequiredOther(ops), s0)
        a == ActiveLoop(Ascending(RequiredActive(ops)), owner, o.st)
        w == OwnerLoop(Ascending(RequiredOwner(ops)), owner, ownerApprovals, a.st)
    IN  IF ~allowCommittee /\ MinerAccount \in RequiredActive(ops)
            THEN [res |-> "InvalidCommitteeApproval", st |-> s0]
        ELSE IF ~o.ok THEN [res |-> "MissingOtherAuth", st |-> o.st]
        ELSE IF ~a.ok THEN [res |-> "MissingActiveAuth", st |-> a.st]
        ELSE IF ~w.ok THEN [res |-> "MissingOwnerAuth", st |-> w.st]
        ELSE IF UnusedSignatures(w.st) # {} THEN [res |-> "IrrelevantSignature", st |-> w.st]
        ELSE [res |-> "ok", st |-> w.st]

VerifyAuthority(ops, sigs, active, owner, maxrec) ==
    VerifyAuthorityState(ops, sigs, active, owner, maxrec, FALSE, {}, {}).res

(***************************************************************************)
(* verify_authority1: the one-signature fast path.  No committee check,    *)
(* no approvals, no unused-signature check.                                *)
(***************************************************************************)
VerifyAuthority1(ops, sig, active, owner, maxrec) ==
    LET s0 == [NewSignState1(sig, active) EXCEPT !.maxrec = maxrec]
        o == OtherLoop(RequiredOther(ops), s0)
        a == ActiveLoop(Ascending(RequiredActive(ops)), owner, o.st)
        w == OwnerLoop(Ascending(RequiredOwner(ops)), owner, {}, a.st)
    IN  IF ~o.ok THEN "MissingOtherAuth"
        ELSE IF ~a.ok THEN "MissingActiveAuth"
        ELSE IF ~w.ok THEN "MissingOwnerAuth"
        ELSE "ok"

\* signed_transaction::verify_authority: one key takes the fast path.
SignedVerifyAuthority(ops, sigKeys, active, owner, maxrec) ==
    IF Cardinality(sigKeys) = 1
    THEN VerifyAuthority1(ops, CHOOSE k \in sigKeys : TRUE, active, owner, maxrec)
    ELSE VerifyAuthority(ops, sigKeys, active, owner, maxrec)

(***************************************************************************)
(* get_signature_keys: the set of recovered keys, or DuplicateSignature    *)
(* when two signatures recover to the same key.  A signature is a record   *)
(* [key, chain]; recovering it against a digest of another chain id        *)
(* yields a key no account lists, written 100 * chain + key.              *)
(***************************************************************************)
\* Mutant: sig_digest does not bind the chain id.
RecoverKeyAnyChain(sig, chainId) == sig.key

RecoverKey(sig, chainId) == IF sig.chain = chainId THEN sig.key ELSE 100 * sig.chain + sig.key

HasDuplicateKey(sigs, chainId) ==
    \E i, j \in DOMAIN sigs : i < j /\ RecoverKey(sigs[i], chainId) = RecoverKey(sigs[j], chainId)

SignatureKeys(sigs, chainId) == {RecoverKey(sigs[i], chainId) : i \in DOMAIN sigs}

(***************************************************************************)
(* get_required_signatures: run the checks over the transaction's own     *)
(* signature keys plus the available keys (others, then owners, then      *)
(* actives through check_authority(id) only), drop the unused keys and    *)
(* return the used keys that are available.                               *)
(***************************************************************************)
RECURSIVE CheckEach(_, _)
CheckEach(aus, st) ==
    IF aus = <<>> THEN st ELSE CheckEach(Tail(aus), CheckAuthority(Head(aus), 0, st).st)

RECURSIVE CheckEachAccount(_, _)
CheckEachAccount(ids, st) ==
    IF ids = <<>> THEN st ELSE CheckEachAccount(Tail(ids), CheckAccount(Head(ids), st).st)

GetRequiredSignatures(ops, txKeys, available, active, owner, maxrec) ==
    LET s0 == [NewSignState(txKeys, active) EXCEPT !.avail = available, !.maxrec = maxrec]
        s1 == CheckEach(RequiredOther(ops), s0)
        s2 == CheckEach([i \in 1..Cardinality(RequiredOwner(ops)) |->
                            owner[Ascending(RequiredOwner(ops))[i]]], s1)
        s3 == CheckEachAccount(Ascending(RequiredActive(ops)), s2)
    IN  {k \in DOMAIN s3.prov : s3.prov[k] /\ k \in available}

(***************************************************************************)
(* minimize_required_signatures: one greedy pass over the required keys in *)
(* ascending order; a key stays erased when verify_authority (the general *)
(* path) accepts the rest, is put back on a Missing*Auth exception, and    *)
(* any other exception escapes.  Returns [ok, keys] or [ok, err].          *)
(***************************************************************************)
MissingAuth == {"MissingOtherAuth", "MissingActiveAuth", "MissingOwnerAuth"}

RECURSIVE MinimizeLoop(_, _, _, _, _, _)
\* Mutant: tx_missing_owner_auth_exception is missing from the catch list.
MinimizeLoopNoOwnerCatch(ks, result, ops, active, owner, maxrec) ==
    IF ks = <<>> THEN [ok |-> TRUE, keys |-> result]
    ELSE LET k == Head(ks)
             v == VerifyAuthority(ops, result \ {k}, active, owner, maxrec)
         IN IF v = "ok" THEN MinimizeLoop(Tail(ks), result \ {k}, ops, active, owner, maxrec)
            ELSE IF v \in MissingAuth \ {"MissingOwnerAuth"}
                 THEN MinimizeLoop(Tail(ks), result, ops, active, owner, maxrec)
            ELSE [ok |-> FALSE, err |-> v]

MinimizeLoop(ks, result, ops, active, owner, maxrec) ==
    IF ks = <<>> THEN [ok |-> TRUE, keys |-> result]
    ELSE LET k == Head(ks)
             v == VerifyAuthority(ops, result \ {k}, active, owner, maxrec)
         IN IF v = "ok" THEN MinimizeLoop(Tail(ks), result \ {k}, ops, active, owner, maxrec)
            ELSE IF v \in MissingAuth THEN MinimizeLoop(Tail(ks), result, ops, active, owner, maxrec)
            ELSE [ok |-> FALSE, err |-> v]

MinimizeRequiredSignatures(ops, txKeys, available, active, owner, maxrec) ==
    LET s == GetRequiredSignatures(ops, txKeys, available, active, owner, maxrec)
    IN  MinimizeLoop(Ascending(s), s, ops, active, owner, maxrec)

(***************************************************************************)
(* Reference semantics (spec section 3, "Authority"): an authority is      *)
(* satisfied by a key set S when the weights of its keys in S and of its   *)
(* accounts whose active authority is itself satisfied reach the           *)
(* threshold.  The satisfied accounts are the least fixpoint of that rule, *)
(* with no depth bound, no order and no memo.                              *)
(***************************************************************************)
RefWeight(au, S, X) ==
    WeightOf(au.keys, DOMAIN au.keys \cap S) + WeightOf(au.accts, DOMAIN au.accts \cap X)

RECURSIVE RefApprovedFrom(_, _, _)
RefApprovedFrom(X, S, active) ==
    LET Y == X \cup {a \in DOMAIN active : RefWeight(active[a], S, X) >= active[a].thr}
    IN  IF Y = X THEN X ELSE RefApprovedFrom(Y, S, active)

RefApproved(S, active) == RefApprovedFrom({TempAccount}, S, active)

RefSatisfied(au, S, active) == RefWeight(au, S, RefApproved(S, active)) >= au.thr

\* The operations' authorities are all satisfied by the key set S.
RefAuthorized(ops, S, active, owner) ==
    LET X == RefApproved(S, active)
        others == RequiredOther(ops)
    IN  /\ \A i \in DOMAIN others : RefWeight(others[i], S, X) >= others[i].thr
        /\ \A a \in RequiredActive(ops) : a \in X \/ RefWeight(owner[a], S, X) >= owner[a].thr
        /\ \A a \in RequiredOwner(ops) : RefWeight(owner[a], S, X) >= owner[a].thr

=============================================================================
