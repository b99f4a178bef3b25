----------------------------- MODULE MCE42Xapp -----------------------------
(* TLC instances of E42Xapp, with the inductive invariant of its proofs.   *)
EXTENDS E42Xapp_proofs
=============================================================================
