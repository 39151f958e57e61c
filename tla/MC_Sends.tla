------------------------------ MODULE MC_Sends ------------------------------
(***************************************************************************)
(* Instances of Sends for TLC.                                              *)
(***************************************************************************)
EXTENDS Sends, TLC

CONSTANTS s1, s2, r1, r2, eu

\* An outbound bind: two successive (or overlapping) sessions, one name.
BindName == [s \in {s1, s2} |-> eu]

BindKinds == r1 :> "paced" @@ r2 :> "direct"
=============================================================================
