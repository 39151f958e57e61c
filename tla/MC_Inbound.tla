----------------------------- MODULE MC_Inbound -----------------------------
(***************************************************************************)
(* Instances of Inbound for TLC.                                            *)
(***************************************************************************)
EXTENDS Inbound, TLC

\* Two messages race for the one token of s1 while an operation comes in on
\* s2 and an alert on a bind.
AllOrigins == "m1" :> "s1" @@ "m2" :> "s1" @@ "op" :> "s2" @@ "alert" :> "onbind"
AllCommands == "m1" :> "submit_sm" @@ "m2" :> "data_sm"
                 @@ "op" :> "cancel_sm" @@ "alert" :> "alert_notification"

Origins == [p \in Pdus |-> AllOrigins[p]]
CommandsOf == [p \in Pdus |-> AllCommands[p]]
=============================================================================
