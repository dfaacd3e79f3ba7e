------------------------- MODULE MC_AccountHistory -------------------------
(***************************************************************************)
(* Model for AccountHistory: two accounts, so that one of them owns the    *)
(* first entry of the by_op index and the other does not; pages of two     *)
(* operations, so that a history of up to four operations spans several    *)
(* pages and page boundaries fall on every id.                             *)
(***************************************************************************)
EXTENDS AccountHistory

MC_Accounts == {1, 2}

\* Operations impacting one or both accounts, matching the search filters
\* for every impacted account or for none.
MC_OpChoices == {[accts |-> A, rel |-> R] : A \in SUBSET MC_Accounts \ {{}}, R \in {{}}}
                \cup {[accts |-> A, rel |-> A] : A \in SUBSET MC_Accounts \ {{}}}

=============================================================================
