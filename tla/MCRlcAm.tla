------------------------------ MODULE MCRlcAm ------------------------------
(***************************************************************************)
(* Instances of RlcAm: the lengths of the SDUs.                            *)
(***************************************************************************)
EXTENDS RlcAm

Lengths == <<2, 1>>
Ones == <<1, 1, 1, 1>>
NotAhead == ~ahead
=============================================================================
