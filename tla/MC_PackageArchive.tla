------------------------- MODULE MC_PackageArchive -------------------------
(***************************************************************************)
(* Model for PackageArchive: two or three files of zero to two bytes, so  *)
(* that an archive holds a file after an empty one and after a non-empty  *)
(* one, under both copy_n builds.                                          *)
(***************************************************************************)
EXTENDS PackageArchive

CONSTANTS f1, f2, f3

MC_Names == {f1, f2, f3}

=============================================================================
