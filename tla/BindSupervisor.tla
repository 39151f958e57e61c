--------------------------- MODULE BindSupervisor ---------------------------
(***************************************************************************)
(* run_bind_loop (runtime.rs): the task that keeps one configured outbound  *)
(* bind up.  It starts a client, polls it until the bind completes, fails   *)
(* or a deadline passes, holds a bound session by polling is_alive(), backs *)
(* off and starts over.  Beside it run the client's own tasks (smpp34),     *)
(* which call the BindListener hooks: on_connection_failed raises the flag  *)
(* the supervisor watches, on_smsc_bound and on_smsc_unbound mark the two    *)
(* ends of a session (what they do to the registry is in Sends).            *)
(*                                                                          *)
(* Time is in ticks; Poll, Deadline, Healthy, Base and MaxBackoff stand for *)
(* the code's 1 s, 15 s, 30 s, 1 s and 60 s.  Several ticks to a poll let   *)
(* things happen between two polls.  The supervisor is assumed to be        *)
(* scheduled on time: no tick passes while one of its steps is due.         *)
(*                                                                          *)
(* Taken of smpp34 and tokio: dropping the client aborts its tasks, and an  *)
(* aborted task ends at its next await.  on_connection_failed has none, so  *)
(* one that has begun runs to its end although its attempt is over; like    *)
(* the supervisor's steps it takes less than a tick.                        *)
(***************************************************************************)
EXTENDS Integers

CONSTANTS Poll, Deadline, Healthy, Base, MaxBackoff,
  Streaks      \* how far attempts in a row are counted (bound on `streak`)

\* Base * 2^n.
Doubled[n \in 0 .. Streaks] == IF n = 0 THEN Base ELSE 2 * Doubled[n - 1]

ASSUME SupervisorAssumption ==
  /\ Poll \in Nat \ {0}
  /\ Deadline \in Nat \ {0}
  /\ Healthy \in Nat
  /\ Base \in Nat \ {0}
  /\ MaxBackoff \in Nat
  /\ Base <= MaxBackoff
  /\ Streaks \in Nat \ {0}

\* The bound is past the point where the cap is reached.
ASSUME StreaksAssumption == Doubled[Streaks - 1] >= MaxBackoff

VARIABLES
  \* the supervisor
  sup,            \* where it is; see Stages
  nap,            \* ticks left of the sleep it is in
  waited,         \* bind_started.elapsed(), saturating past the deadline
  heldFor,        \* bound_at.elapsed(), saturating at Healthy
  backoff,        \* backoff_ms
  connectFailed,  \* the flag it shares with the listener
  \* the client and its session
  client,         \* "none", "connecting", "failing", "alive" or "dead"
  straggler,      \* on_connection_failed of a dropped client is still running
  peerUp,         \* the far end is reachable and accepts the bind
  \* history
  failedIn,       \* the attempt the flag was raised in: "none", "this", "older"
  failedFor,      \* ticks since it was raised, while the supervisor waits
  upFor,          \* how long the attempt's session was up, saturating
  deadFor,        \* ticks since it went down, until the supervisor notices
  uncounted,      \* a session dropped and no reconnect has been recorded for it
  streak          \* attempts that ended in a row without a healthy session (and
                  \* the healthy one before them), saturating at Streaks

supvars == <<sup, nap, waited, heldFor, backoff>>
history == <<failedIn, failedFor, upFor, deadFor, uncounted, streak>>
vars == <<sup, nap, waited, heldFor, backoff, connectFailed, client, straggler,
          peerUp, failedIn, failedFor, upFor, deadFor, uncounted, streak>>

\* "wait": phase 1; "decide": between the loop's last look at is_alive() and
\* the next one; "held": phase 2; "backoff": asleep before the next attempt.
Stages == {"start", "wait", "decide", "held", "backoff"}

Init ==
  /\ sup = "start"
  /\ nap = 0
  /\ waited = 0
  /\ heldFor = 0
  /\ backoff = Base
  /\ connectFailed = FALSE
  /\ client = "none"
  /\ straggler = FALSE
  /\ peerUp \in BOOLEAN
  /\ failedIn = "none"
  /\ failedFor = 0
  /\ upFor = 0
  /\ deadFor = 0
  /\ uncounted = FALSE
  /\ streak = 0

IsAlive == client = "alive"

-----------------------------------------------------------------------------
(* The supervisor.                                                          *)

\* Clear the flag, make a client, start it.
Start ==
  /\ sup = "start"
  /\ connectFailed' = FALSE
  /\ failedIn' = "none"
  /\ client' = "connecting"
  /\ sup' = "wait" /\ nap' = 0 /\ waited' = 0
  /\ failedFor' = 0 /\ upFor' = 0 /\ deadFor' = 0 /\ uncounted' = FALSE
  /\ UNCHANGED <<heldFor, backoff, straggler, peerUp, streak>>

\* Mutants of awaiting_bind: the flag ignored, the deadline ignored.
AwaitingBind_DeadlineOnly == ~IsAlive /\ waited < Deadline
AwaitingBind_NoDeadline == ~IsAlive /\ ~connectFailed

\* awaiting_bind.
AwaitingBind == ~IsAlive /\ ~connectFailed /\ waited < Deadline

\* Phase 1: one turn of the while loop.
PollWait ==
  /\ sup = "wait" /\ nap = 0
  /\ \/ AwaitingBind /\ nap' = Poll /\ UNCHANGED sup
     \/ ~AwaitingBind /\ sup' = "decide" /\ UNCHANGED nap
  /\ UNCHANGED <<waited, heldFor, backoff, connectFailed, client, straggler, peerUp, history>>

Hold_FromStart ==  \* mutant: bound_at is when the attempt was started
  /\ sup = "decide" /\ IsAlive
  /\ sup' = "held" /\ nap' = 0
  /\ heldFor' = IF waited < Healthy THEN waited ELSE Healthy
  /\ UNCHANGED <<waited, backoff, connectFailed, client, straggler, peerUp, history>>

\* Phase 2 is entered if the session is (still) up; its loop begins by
\* looking again.
Hold ==
  /\ sup = "decide" /\ IsAlive
  /\ sup' = "held" /\ nap' = 0 /\ heldFor' = 0
  /\ UNCHANGED <<waited, backoff, connectFailed, client, straggler, peerUp, history>>

PollHeld ==
  /\ sup = "held" /\ nap = 0 /\ IsAlive
  /\ nap' = Poll
  /\ UNCHANGED <<sup, waited, heldFor, backoff, connectFailed, client, straggler, peerUp, history>>

Unbroken(wasHeld) == ~(wasHeld /\ heldFor >= Healthy)

AttemptOver_NoSleep(wasHeld) ==  \* mutant: the first retry is made at once
  /\ LET b == IF wasHeld /\ heldFor >= Healthy THEN Base ELSE backoff
     IN  backoff' = b /\ nap' = IF b = Base THEN 0 ELSE b
  /\ streak' = IF Unbroken(wasHeld) THEN IF streak < Streaks THEN streak + 1 ELSE streak ELSE 1
  /\ uncounted' = IF wasHeld THEN FALSE ELSE uncounted
  /\ client' = "none" /\ straggler' = (client = "failing")
  /\ sup' = "backoff"
  /\ UNCHANGED <<waited, heldFor, connectFailed, peerUp, failedIn, failedFor, upFor, deadFor>>

\* The attempt is over: reset the backoff after a healthy session, count a
\* reconnect if a session was held, drop the client (stop() ends its tasks
\* and with them a session that came up at the last moment, but not a callback
\* that has begun), go to sleep.
AttemptOver(wasHeld) ==
  /\ LET b == IF wasHeld /\ heldFor >= Healthy THEN Base ELSE backoff
     IN  backoff' = b /\ nap' = b
  /\ streak' = IF Unbroken(wasHeld) THEN IF streak < Streaks THEN streak + 1 ELSE streak ELSE 1
  /\ uncounted' = IF wasHeld THEN FALSE ELSE uncounted
  /\ client' = "none" /\ straggler' = (client = "failing")
  /\ sup' = "backoff"
  /\ UNCHANGED <<waited, heldFor, connectFailed, peerUp, failedIn, failedFor, upFor, deadFor>>

NotBound == sup = "decide" /\ ~IsAlive /\ AttemptOver(FALSE)

BindDown == sup = "held" /\ nap = 0 /\ ~IsAlive /\ AttemptOver(TRUE)

\* Mutants: no cap, and linear growth.
NextBackoff_NoCap == 2 * backoff
NextBackoff_Linear == IF backoff + Base <= MaxBackoff THEN backoff + Base ELSE MaxBackoff

NextBackoff == IF 2 * backoff <= MaxBackoff THEN 2 * backoff ELSE MaxBackoff

BackoffOver ==
  /\ sup = "backoff" /\ nap = 0
  /\ backoff' = NextBackoff
  /\ sup' = "start"
  /\ UNCHANGED <<nap, waited, heldFor, connectFailed, client, straggler, peerUp, history>>

Supervisor == Start \/ PollWait \/ Hold \/ PollHeld \/ NotBound \/ BindDown \/ BackoffOver

-----------------------------------------------------------------------------
(* The client's tasks and the hooks they call.                              *)

\* The connect fails, no session is started, and on_connection_failed is called.
ConnectFails ==
  /\ client = "connecting" /\ ~peerUp
  /\ client' = "failing"
  /\ UNCHANGED <<supvars, connectFailed, straggler, peerUp, history>>

\* on_connection_failed raises the flag.
OnConnectionFailed ==
  /\ client = "failing"
  /\ client' = "dead"
  /\ connectFailed' = TRUE
  /\ failedIn' = "this" /\ failedFor' = 0
  /\ UNCHANGED <<supvars, straggler, peerUp, upFor, deadFor, uncounted, streak>>

\* The same, for an attempt that was given up meanwhile.
OnConnectionFailedLate ==
  /\ straggler
  /\ straggler' = FALSE
  /\ connectFailed' = TRUE
  /\ failedIn' = "older" /\ failedFor' = 0
  /\ UNCHANGED <<supvars, client, peerUp, upFor, deadFor, uncounted, streak>>

\* The peer refused the bind, or session_init ran out: no hook is called.
BindRejected ==
  /\ client = "connecting" /\ ~peerUp
  /\ client' = "dead"
  /\ UNCHANGED <<supvars, connectFailed, straggler, peerUp, history>>

\* The bind response arrives: is_alive() turns true, on_smsc_bound runs.
OnSmscBound ==
  /\ client = "connecting" /\ peerUp
  /\ client' = "alive"
  /\ upFor' = 0
  /\ UNCHANGED <<supvars, connectFailed, straggler, peerUp, failedIn, failedFor, deadFor, uncounted, streak>>

\* The session ends, for whatever reason: is_alive() turns false and
\* on_smsc_unbound runs.
OnSmscUnbound ==
  /\ client = "alive" /\ ~peerUp
  /\ client' = "dead"
  /\ deadFor' = 0
  /\ uncounted' = TRUE
  /\ UNCHANGED <<supvars, connectFailed, straggler, peerUp, failedIn, failedFor, upFor, streak>>

\* The far end goes away or comes back, whenever it likes.
PeerChanges ==
  /\ peerUp' = ~peerUp
  /\ UNCHANGED <<supvars, connectFailed, client, straggler, history>>

\* The supervisor has a step to take now, or a callback is running.
Due == sup \in {"start", "decide"} \/ nap = 0 \/ client = "failing" \/ straggler

Tick ==
  /\ ~Due
  /\ nap' = nap - 1
  /\ waited' = IF sup = "wait" /\ waited < Deadline + Poll THEN waited + 1 ELSE waited
  /\ heldFor' = IF sup = "held" /\ heldFor < Healthy THEN heldFor + 1 ELSE heldFor
  /\ failedFor' = IF sup = "wait" /\ connectFailed THEN failedFor + 1 ELSE failedFor
  /\ upFor' = IF client = "alive" /\ upFor < Healthy THEN upFor + 1 ELSE upFor
  /\ deadFor' = IF sup = "held" /\ client = "dead" THEN deadFor + 1 ELSE deadFor
  /\ UNCHANGED <<sup, backoff, connectFailed, client, straggler, peerUp, failedIn, uncounted, streak>>

Callback == OnConnectionFailed \/ OnConnectionFailedLate

Client == ConnectFails \/ Callback \/ BindRejected \/ OnSmscBound \/ OnSmscUnbound

Next == Supervisor \/ Client \/ PeerChanges \/ Tick

Spec == Init /\ [][Next]_vars

(***************************************************************************)
(* The supervisor and the callbacks run, and time passes.  A connection     *)
(* attempt to a peer that is up may be slower than the deadline once, or    *)
(* often, but not on every attempt for ever: strong fairness of             *)
(* OnSmscBound.                                                             *)
(***************************************************************************)
Fairness ==
  WF_vars(Supervisor) /\ WF_vars(Callback) /\ WF_vars(Tick) /\ SF_vars(OnSmscBound)

FairSpec == Spec /\ Fairness
-----------------------------------------------------------------------------
TypeOK ==
  /\ sup \in Stages
  /\ nap \in Nat
  /\ waited \in Nat
  /\ heldFor \in 0 .. Healthy
  /\ backoff \in Base .. MaxBackoff
  /\ connectFailed \in BOOLEAN
  /\ client \in {"none", "connecting", "failing", "alive", "dead"}
  /\ straggler \in BOOLEAN
  /\ peerUp \in BOOLEAN
  /\ failedIn \in {"none", "this", "older"}
  /\ failedFor \in Nat
  /\ upFor \in 0 .. Healthy
  /\ deadFor \in Nat
  /\ uncounted \in BOOLEAN
  /\ streak \in 0 .. Streaks

\* "Fresh attempt: any failure recorded belongs to this one" (line 359): while
\* the supervisor waits on the flag it is not one that an earlier attempt
\* raised, not even in a callback that was still running when that attempt's
\* client was dropped.  The flag is cleared after the backoff's sleep, and that
\* sleep is what lets such a callback end first.
FailureIsThisAttempts == sup \in {"wait", "decide"} /\ connectFailed => failedIn = "this"

\* A refused connect is acted on at the next poll, not at the deadline.
FailureSeenPromptly == sup = "wait" /\ connectFailed => failedFor <= Poll

\* An attempt that gets nowhere is given up within a poll of the deadline.
AttemptBounded == sup = "wait" => waited < Deadline + Poll

\* Only a session that really was up for the healthy threshold, give or take
\* the poll that notices its end, resets the backoff.
ResetEarned == sup = "held" /\ ~IsAlive /\ heldFor >= Healthy => upFor + Poll >= Healthy

\* "Reconnect after exponential backoff (capped at 60s)" (line 315): the sleep
\* after the n-th attempt in a row that was no healthy session is 2^(n-1) times
\* the base, or the cap; a peer that accepts binds and drops them at once is
\* left alone as long as one that refuses them.
BackoffGrows ==
  sup = "backoff" =>
    /\ streak > 0
    /\ backoff = IF Doubled[streak - 1] <= MaxBackoff THEN Doubled[streak - 1] ELSE MaxBackoff

\* Once the far end is back for good the bind comes up and stays up, whatever
\* went on before.
BindComesBack == <>[]peerUp => <>[]IsAlive

\* siphon_smpp_bind_reconnects_total counts "an established session dropped"
\* (metrics.rs 105): no session that came up and went down is left out.
EveryDropCounted == sup = "backoff" => ~uncounted
=============================================================================
