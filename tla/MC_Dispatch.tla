----------------------------- MODULE MC_Dispatch -----------------------------
(***************************************************************************)
(* Instances of Dispatch for TLC: a session event and a bind, and a script   *)
(* that is reloaded with its session handlers rearranged.                   *)
(***************************************************************************)
EXTENDS Dispatch, TLC

\* a and c are `async def` session handlers, b a plain one; v answers binds.
AsyncOf == [h \in {"a", "b", "c", "v"} |-> h # "b"]
HandlesOf == [h \in {"a", "b", "c", "v"} |-> IF h = "v" THEN {"bind"} ELSE {"up"}]
KindOf == "up" :> "session" @@ "bind" :> "bind"
Versions == "old" :> <<"a", "v", "c">> @@ "new" :> <<"b", "a">>
OldToNew == {<<"old", "new">>}
=============================================================================
