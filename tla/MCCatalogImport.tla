--------------------------- MODULE MCCatalogImport ---------------------------
(***************************************************************************)
(* CatalogImport on small instances.                                        *)
(***************************************************************************)
EXTENDS CatalogImport, TLC

\* Administrators are interchangeable (safety runs only).
AdminSymmetry == Permutations(Admins)

=============================================================================
