-------------------------- MODULE MC_WalletConnect --------------------------
(***************************************************************************)
(* Model for WalletConnect: two client threads, three calls each, so that *)
(* a thread can connect and run a command while the other connects.       *)
(***************************************************************************)
EXTENDS WalletConnect

CONSTANTS th1, th2

MC_Threads == {th1, th2}

=============================================================================
