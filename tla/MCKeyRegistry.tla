--------------------------- MODULE MCKeyRegistry ---------------------------
(***************************************************************************)
(* Small instances of the key registry.  A certificate's NotBefore is a    *)
(* whole second.                                                           *)
(***************************************************************************)
EXTENDS KeyRegistry

SomeImports == {0, 2}
=============================================================================
