--------------------------- MODULE MC_ObjectStore ---------------------------
(***************************************************************************)
(* Model for ObjectStore: two accounts, two instance ids, two nested      *)
(* sessions and three undo entries, so that a session can create and then *)
(* modify or remove the same object and an inner session can commit into *)
(* an outer one that is then undone.                                       *)
(***************************************************************************)
EXTENDS ObjectStore

CONSTANTS a1, a2

MC_Accounts == {a1, a2}

\* A message from a1 to a1, one from a1 to a2 and one from a2 to a1: a
\* modify can change the sender, the receiver or both.
MC_Messages == {[sender |-> a1, receivers |-> {a1}], [sender |-> a1, receivers |-> {a2}],
                [sender |-> a2, receivers |-> {a1}]}

=============================================================================
