----------------------------- MODULE MC_Gateway -----------------------------
(***************************************************************************)
(* Instances of Gateway for TLC.  An ESME that reconnects: its messages go   *)
(* out over two binds whose upstreams use the same ids, and one nowhere,     *)
(* with two receipts for one of them, and a message comes in for it.  And    *)
(* the sessions alone.                                                      *)
(***************************************************************************)
EXTENDS Gateway, TLC

Reconnecting == "s1" :> "acme" @@ "s2" :> "acme"
MCFrom == "m1" :> "s1" @@ "m2" :> "s1" @@ "m3" :> "s2"
MCRoute == "m1" :> "eu" @@ "m2" :> "us" @@ "m3" :> "noroute"
MCUpstreamId == "m1" :> "id1" @@ "m2" :> "id1" @@ "m3" :> "id1"
MCAbout == "r1" :> "m1" @@ "r2" :> "m1"
MCOwner == "x1" :> "acme"
Nothing == <<>>
=============================================================================
