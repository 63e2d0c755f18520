------------------------------ MODULE MCSystem ------------------------------
(***************************************************************************)
(* Small instances of the process of the controller.                       *)
(***************************************************************************)
EXTENDS System

CONSTANTS own, other

\* As in --additional-namespaces=other,own,other.
OtherOwnOther == <<other, own, other>>
=============================================================================
