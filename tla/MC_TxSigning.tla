---------------------------- MODULE MC_TxSigning ----------------------------
(***************************************************************************)
(* Model for TxSigning: accounts 1 and 2 with free authorities, account 3  *)
(* the miner (committee) account, account 0 the temp account; keys 1 and 2 *)
(* appear in active authorities, key 3 only in owner authorities.          *)
(***************************************************************************)
EXTENDS TxSigning

MC_Accounts == {1, 2, 3}
MC_Keys == {1, 2, 3}

\* One authority: keys and accounts with weight 1.
Auth(ks, as, t) == [keys |-> [k \in ks |-> 1], accts |-> [a \in as |-> 1], thr |-> t]

\* The miner account's active authority is fixed: both keys 1 and 2.
MinerActive == Auth({1, 2}, {}, 2)

\* The active authorities account a may have: any keys of {1, 2}, at most the
\* other ordinary account (so 1 and 2 may reference each other, a cycle the
\* depth bound has to cut), threshold 1 or 2.  Authorities whose total
\* weight is below the threshold are left out: no key set satisfies them,
\* so every check of one fails the same way.
FreeActive(a) ==
    {au \in {Auth(ks, as, t) : ks \in SUBSET {1, 2}, as \in {{}, {3 - a}}, t \in {1, 2}} :
        au.thr <= Cardinality(DOMAIN au.keys) + Cardinality(DOMAIN au.accts)}

MC_ActiveChoices == FreeActive(1) \cup FreeActive(2) \cup {MinerActive}

MC_OwnerChoices == {Auth({3}, {}, 1), Auth({1}, {}, 1)}

\* Operations: required active accounts, required owner accounts, inline
\* authorities.
Op(a, o, x) == [active |-> a, owner |-> o, other |-> x]

TxOf(actives) ==
    { <<Op(a, o, x)>> : a \in actives,
                        o \in {{}, {1}},
                        x \in {<<>>, <<Auth({2}, {1}, 2)>>} }

MC_TxChoices == TxOf({{1}, {2}, {1, 2}, {3}})

\* Transactions none of whose operations requires the committee account.
MC_TxChoicesNoCommittee == TxOf({{1}, {2}, {1, 2}})

\* Transactions requiring the active authority of one ordinary account.
MC_TxChoicesSingle == TxOf({{1}, {2}})

\* Transactions for the chain-id run, which doubles the signatures.
MC_TxChoicesChain == {<<Op({1}, {}, <<>>)>>, <<Op({1, 2}, {1}, <<>>)>>,
                      <<Op({2}, {}, <<Auth({2}, {1}, 2)>>)>>, <<Op({3}, {}, <<>>)>>}

\* A wallet may hold any set of keys.
MC_WalletKeySets == SUBSET MC_Keys

MC_Init ==
    /\ Init
    /\ active[3] = MinerActive
    /\ \A a \in {1, 2} : active[a] \in FreeActive(a)
    /\ owner[2] = Auth({3}, {}, 1)
    /\ owner[3] = Auth({1}, {}, 1)

=============================================================================
