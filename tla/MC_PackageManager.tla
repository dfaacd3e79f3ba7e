------------------------- MODULE MC_PackageManager -------------------------
(***************************************************************************)
(* Model for PackageManager: the detailed PackageInfo with three task starts *)
(* and both of its constructors, one more restored PackageInfo, one url    *)
(* PackageInfo, and up to two pointers held per PackageInfo.               *)
(***************************************************************************)
EXTENDS PackageManager

=============================================================================
