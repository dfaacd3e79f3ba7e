------------------------ MODULE MC_BroadcastCallbacks ------------------------
(***************************************************************************)
(* Model for BroadcastCallbacks: three transactions, one of which           *)
(* push_transaction rejects, chains of up to two blocks and one fork      *)
(* switch; the sessions log in with the credentials MC_LoginInputs lists. *)
(***************************************************************************)
EXTENDS BroadcastCallbacks

CONSTANTS t1, t2, t3, c1, c2, k1, k2

MC_Trxs == {t1, t2, t3}

\* api_access: admin's hash is of password p1; guest takes any password
\* but may only read; broken's stored hash has the wrong length; the
\* entry "bogus_api" is a name enable_api does not know.
MC_Access ==
    [u \in {"admin", "guest", "broken"} |->
        CASE u = "admin"  -> [hash |-> "p1", allowed |-> {"database_api", "network_broadcast_api"}]
          [] u = "guest"  -> [hash |-> "*", allowed |-> {"database_api", "bogus_api"}]
          [] u = "broken" -> [hash |-> "BadLength", allowed |-> {"network_broadcast_api"}]]

\* Logins: admin with the right and a wrong password, guest, broken, and
\* a user api_access does not list.
MC_LoginInputs ==
    {<<"admin", "p1">>, <<"admin", "p2">>, <<"guest", "p2">>,
     <<"broken", "p1">>, <<"nobody", "p1">>}

\* The fork-stealing model: only admin's correct login.
MC_AdminLogin == {<<"admin", "p1">>}

=============================================================================
