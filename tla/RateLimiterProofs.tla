-------------------------- MODULE RateLimiterProofs --------------------------
(***************************************************************************)
(* The throughput cap and the sleep bound of RateLimiter, for every rate,   *)
(* every clock resolution and every set of callers.                         *)
(***************************************************************************)
EXTENDS RateLimiter, TLAPS

\* A product of naturals is a natural: stated for the two products the
\* bucket's arithmetic is made of, which the SMT backend treats as opaque.
LEMMA ProductNat == \A m, n \in Nat : m * n \in Nat
  OBVIOUS

\* One more tick adds one more Rate.
LEMMA NextProduct == \A m, n \in Int : (m + 1) * n = m * n + n
  OBVIOUS

\* A full bucket holds at least one token and one tick's refill.
LEMMA MaxIsNat == Max \in Nat /\ Token \in Nat /\ Token >= 1 /\ Max >= Token /\ Rate <= Max
<1>1. Rate \in Nat /\ TicksPerSec \in Nat /\ Rate >= 1 /\ TicksPerSec >= 1
  BY RateAssumption
<1>2. PICK r \in Nat : Rate = r + 1
  BY <1>1
<1>3. PICK t \in Nat : TicksPerSec = t + 1
  BY <1>1
<1>4. r * t \in Nat /\ (r + 1) * (t + 1) = r * t + r + t + 1
  OBVIOUS
<1> QED
  BY <1>1, <1>2, <1>3, <1>4 DEF Max, Token

\* The refill yields a level between what was stored and a full bucket.
LEMMA RefilledBounds ==
  ASSUME TypeOK
  PROVE  Refilled \in 0 .. Max /\ tokens <= Refilled
<1>1. elapsed * Rate \in Nat
  BY RateAssumption, ProductNat DEF TypeOK
<1> QED
  BY <1>1, MaxIsNat DEF TypeOK, Refilled

\* The sleep acquire computes is a natural number, and is the smallest that
\* makes up the deficit.
LEMMA SleepForBounds ==
  ASSUME NEW have \in Nat, have < Token
  PROVE  /\ SleepFor(have) \in Nat
         /\ have + SleepFor(have) * Rate >= Token
         /\ have + (SleepFor(have) - 1) * Rate < Token
<1>1. Rate \in Nat /\ Rate >= 1 /\ Token \in Nat
  BY RateAssumption, MaxIsNat
<1> DEFINE d == Token - have
           q == (d + Rate - 1) \div Rate
<1>2. d \in Nat /\ d >= 1
  BY <1>1
<1>3. q \in Int /\ q * Rate <= d + Rate - 1 /\ d + Rate - 1 < q * Rate + Rate
  BY <1>1, <1>2
<1>4. SleepFor(have) = q
  BY DEF SleepFor
<1>5. (q - 1) * Rate = q * Rate - Rate
  BY <1>1, <1>3
<1>6. q >= 0
  <2>1. SUFFICES ASSUME q <= -1 PROVE FALSE
    BY <1>3
  <2>2. q * Rate <= -Rate
    BY <2>1, <1>1, <1>3
  <2> QED BY <2>2, <1>1, <1>2, <1>3
<1>7. q * Rate \in Int
  BY <1>1, <1>3
<1> QED
  BY <1>1, <1>2, <1>3, <1>4, <1>5, <1>6, <1>7

-----------------------------------------------------------------------------
\* Every step preserves the types.
LEMMA TypeStep == TypeOK /\ [Next]_vars => TypeOK'
<1> SUFFICES ASSUME TypeOK, [Next]_vars PROVE TypeOK'
  OBVIOUS
<1> USE RateAssumption, MaxIsNat, RefilledBounds
<1>1. ASSUME NEW c \in Callers, NEW r \in {"free", "paced"}, Take(c, r)
      PROVE  /\ tokens' \in 0 .. Max /\ elapsed' \in 0 .. TicksPerSec
             /\ verdict' \in [Callers -> {"none", "free", "paced", "denied"}]
             /\ robbed' \in [Callers -> BOOLEAN]
             /\ winTicks' \in 0 .. Window /\ winGrants' \in Nat
  BY <1>1 DEF TypeOK, Take
<1>2. ASSUME Miss
      PROVE  /\ tokens' \in 0 .. Max /\ elapsed' \in 0 .. TicksPerSec
             /\ winTicks' \in 0 .. Window /\ winGrants' \in Nat
             /\ SleepFor(Refilled) \in Nat
  BY <1>2, SleepForBounds DEF TypeOK, Miss, window
<1>3. ASSUME NEW c \in Pacers, AcquireFree(c) PROVE TypeOK'
  <2>1. c \in Callers /\ Take(c, "free")
    BY <1>3 DEF AcquireFree, Callers
  <2> QED BY <1>3, <1>1, <2>1 DEF AcquireFree, TypeOK
<1>4. ASSUME NEW c \in Pacers, AcquireSleep(c) PROVE TypeOK'
  BY <1>4, <1>2 DEF AcquireSleep, TypeOK, Callers
<1>5. ASSUME NEW c \in Pacers, AcquirePaced(c) PROVE TypeOK'
  <2>1. c \in Callers /\ Take(c, "paced")
    BY <1>5 DEF AcquirePaced, Callers
  <2> QED BY <1>5, <1>1, <2>1 DEF AcquirePaced, TypeOK
<1>6. ASSUME NEW c \in Pacers, AcquireAgain(c) PROVE TypeOK'
  BY <1>6, <1>2 DEF AcquireAgain, TypeOK, Callers
<1>7. ASSUME NEW c \in Gaters, TryAcquire(c) PROVE TypeOK'
  <2>0. c \in Callers
    BY DEF Callers
  <2>1. CASE Take(c, "free")
    BY <1>7, <1>1, <2>0, <2>1 DEF TryAcquire, TypeOK
  <2>2. CASE Miss /\ verdict' = [verdict EXCEPT ![c] = "denied"] /\ UNCHANGED robbed
    BY <1>7, <1>2, <2>0, <2>2 DEF TryAcquire, TypeOK
  <2> QED BY <1>7, <2>1, <2>2 DEF TryAcquire
<1>8. CASE Tick
  BY <1>8 DEF Tick, TypeOK
<1>9. CASE OpenWindow
  BY <1>9 DEF OpenWindow, TypeOK
<1>10. CASE UNCHANGED vars
  BY <1>10 DEF vars, TypeOK
<1> QED
  BY <1>3, <1>4, <1>5, <1>6, <1>7, <1>8, <1>9, <1>10 DEF Next, Acquire

\* The bucket never holds less than nothing nor more than a second's worth,
\* and every other variable keeps its type.
THEOREM TypeCorrect == Spec => []TypeOK
<1>1. Init => TypeOK
  BY RateAssumption, MaxIsNat DEF Init, TypeOK
<1> QED
  BY <1>1, TypeStep, PTL DEF Spec

-----------------------------------------------------------------------------
\* What one step does to the level of the bucket: this is all the later
\* proofs need to know of the refill.
LEMMA LevelAfter ==
  ASSUME TypeOK
  PROVE  /\ \A c, r : Take(c, r) => Refilled >= Token /\ Refilled' = Refilled - Token
         /\ Miss => Refilled < Token /\ Refilled' = Refilled
         /\ Tick => Refilled' = IF Refilled + Rate <= Max THEN Refilled + Rate ELSE Max
<1> USE RateAssumption, MaxIsNat, RefilledBounds
<1>1. ASSUME NEW c, NEW r, Take(c, r)
      PROVE  Refilled >= Token /\ Refilled' = Refilled - Token
  <2>1. tokens' = Refilled - Token /\ elapsed' = 0 /\ Refilled >= Token
    BY <1>1 DEF Take
  <2>2. elapsed' * Rate = 0
    BY <2>1
  <2> QED BY <2>1, <2>2 DEF Refilled, Max, Token
<1>2. ASSUME Miss PROVE Refilled < Token /\ Refilled' = Refilled
  <2>1. tokens' = Refilled /\ elapsed' = 0 /\ Refilled < Token
    BY <1>2 DEF Miss
  <2>2. elapsed' * Rate = 0
    BY <2>1
  <2>3. Refilled' = IF tokens' + elapsed' * Rate <= Max THEN tokens' + elapsed' * Rate ELSE Max
    BY DEF Refilled, Max
  <2> QED BY <2>1, <2>2, <2>3
<1>3. ASSUME Tick
      PROVE  Refilled' = IF Refilled + Rate <= Max THEN Refilled + Rate ELSE Max
  <2>1. tokens' = tokens
    BY <1>3 DEF Tick
  <2>2. Refilled' = IF tokens' + elapsed' * Rate <= Max THEN tokens' + elapsed' * Rate ELSE Max
    BY DEF Refilled, Max
  <2>3. elapsed * Rate \in Nat /\ tokens \in Nat /\ elapsed \in Nat
    BY ProductNat DEF TypeOK
  <2>4. CASE elapsed < TicksPerSec
    <3>1. elapsed' = elapsed + 1
      BY <2>4, <1>3 DEF Tick
    <3>2. elapsed' * Rate = elapsed * Rate + Rate
      BY <3>1, <2>3, NextProduct
    <3> QED BY <2>1, <2>2, <2>3, <3>2 DEF Refilled
  <2>5. CASE elapsed = TicksPerSec
    <3>1. elapsed' = elapsed
      BY <2>5, <1>3 DEF Tick
    <3>2. elapsed * Rate = Max
      BY <2>5 DEF Max
    <3> QED BY <2>1, <2>2, <2>3, <3>1, <3>2 DEF Refilled
  <2> QED BY <2>4, <2>5 DEF TypeOK
<1> QED
  BY <1>1, <1>2, <1>3

\* The cap with the unspent allowance added: what makes RateCap inductive.
\* A window can only open on a bucket that is at most full.
Conserved == Refilled + winGrants * Token <= Max + winTicks * Rate

\* No step makes a token that the ticks of the window do not pay for.
LEMMA ConservedStep == TypeOK /\ Conserved /\ [Next]_vars => Conserved'
<1> SUFFICES ASSUME TypeOK, Conserved, [Next]_vars PROVE Conserved'
  OBVIOUS
<1> USE RateAssumption, MaxIsNat
<1>a. Max' = Max /\ Token' = Token
  BY DEF Max, Token
<1>0. /\ Refilled \in Nat /\ Refilled <= Max
      /\ winGrants * Token \in Nat /\ winTicks * Rate \in Nat
      /\ winGrants \in Nat /\ winTicks \in Nat
  BY RefilledBounds, ProductNat DEF TypeOK
<1>1. ASSUME NEW c, NEW r, Take(c, r) PROVE Conserved'
  <2>1. winGrants' * Token = winGrants * Token + Token /\ winTicks' = winTicks
    BY <1>0, <1>1, NextProduct DEF Take
  <2>2. Refilled' = Refilled - Token
    BY <1>1, LevelAfter
  <2> QED BY <1>0, <2>1, <2>2, <1>a DEF Conserved
<1>2. ASSUME Miss PROVE Conserved'
  <2>1. winGrants' = winGrants /\ winTicks' = winTicks /\ Refilled' = Refilled
    BY <1>2, LevelAfter DEF Miss, window
  <2> QED BY <2>1, <1>a DEF Conserved
<1>3. CASE Tick
  <2>1. Refilled' <= Refilled + Rate /\ Refilled' <= Max /\ Refilled' \in Nat
    BY <1>0, <1>3, LevelAfter
  <2>2. CASE winTicks < Window /\ winTicks' = winTicks + 1 /\ UNCHANGED winGrants
    <3>1. winTicks' * Rate = winTicks * Rate + Rate
      BY <1>0, <2>2, NextProduct
    <3>2. winGrants' * Token' = winGrants * Token
      BY <2>2, <1>a
    <3>3. Refilled + winGrants * Token <= Max + winTicks * Rate
      BY DEF Conserved
    <3>4. PICK g \in Nat : g = winGrants * Token
      BY <1>0
    <3>5. PICK w \in Nat : w = winTicks * Rate
      BY <1>0
    <3>6. PICK l \in Nat : l = Refilled
      BY <1>0
    <3>7. PICK l1 \in Nat : l1 = Refilled'
      BY <2>1
    <3>8. l1 <= l + Rate /\ l + g <= Max + w
      BY <2>1, <3>3, <3>4, <3>5, <3>6, <3>7
    <3>9. l1 + g <= Max + (w + Rate)
      BY <3>8
    <3> QED BY <1>a, <3>1, <3>2, <3>4, <3>5, <3>7, <3>9 DEF Conserved
  <2>3. CASE winTicks' = 0 /\ winGrants' = 0
    <3>1. winGrants' * Token' = 0 /\ winTicks' * Rate = 0
      BY <2>3, <1>a
    <3> QED BY <2>1, <3>1, <1>a DEF Conserved
  <2> QED BY <1>3, <2>2, <2>3 DEF Tick
<1>4. CASE OpenWindow
  <2>1. Refilled' = Refilled /\ winTicks' = 0 /\ winGrants' = 0
    BY <1>4 DEF OpenWindow, Refilled, Max
  <2> QED BY <1>0, <2>1, <1>a DEF Conserved
<1>5. CASE UNCHANGED vars
  BY <1>5 DEF vars, Conserved, Refilled, Max, Token
<1>6. ASSUME NEW c \in Pacers, Acquire(c) PROVE Conserved'
  BY <1>6, <1>1, <1>2
  DEF Acquire, AcquireFree, AcquireSleep, AcquirePaced, AcquireAgain
<1>7. ASSUME NEW c \in Gaters, TryAcquire(c) PROVE Conserved'
  BY <1>7, <1>1, <1>2 DEF TryAcquire
<1> QED
  BY <1>3, <1>4, <1>5, <1>6, <1>7 DEF Next

\* Tokens are not made: what is in the bucket and what was granted in the
\* window never exceed a full bucket and what the window's time refills.
LEMMA ConservedHolds == Spec => []Conserved
<1>1. Init => Conserved
  BY RateAssumption, MaxIsNat DEF Init, Conserved, Refilled
<1> QED
  BY <1>1, TypeCorrect, ConservedStep, PTL DEF Spec

\* The throughput cap of max_msg_per_sec: over any window, at most one
\* second's burst plus the configured rate.
THEOREM RateCapHolds == Spec => []RateCap
<1>2. TypeOK /\ Conserved => RateCap
  <2> SUFFICES ASSUME TypeOK, Conserved PROVE RateCap
    OBVIOUS
  <2>1. /\ Refilled \in Nat /\ winGrants * Token \in Nat /\ winTicks * Rate \in Nat
    BY RefilledBounds, ProductNat, MaxIsNat, RateAssumption DEF TypeOK
  <2> QED BY <2>1, MaxIsNat DEF Conserved, RateCap
<1> QED
  BY <1>2, TypeCorrect, ConservedHolds, PTL

-----------------------------------------------------------------------------
\* No step leaves a sleeper, that nobody robbed, short of its token.
LEMMA SleepStep == TypeOK /\ SleepSuffices /\ [Next]_vars => SleepSuffices'
<1> SUFFICES ASSUME TypeOK, SleepSuffices, [Next]_vars,
                    NEW p \in Pacers, pc'[p] = "asleep", ~robbed'[p]
             PROVE  Refilled' + sleep'[p] * Rate >= Token
  <2>1. Token' = Token
    BY DEF Token
  <2> QED BY <2>1 DEF SleepSuffices
<1> USE RateAssumption, MaxIsNat
<1>0. /\ p \in Callers /\ sleep[p] \in Nat /\ sleep[p] * Rate \in Nat
      /\ Refilled \in Nat /\ Refilled <= Max
  BY RefilledBounds, ProductNat DEF TypeOK, Callers
<1>1. ASSUME NEW c \in Callers, NEW r, Take(c, r), pc'[p] = "asleep" => pc[p] = "asleep" /\ p # c
      PROVE  FALSE
  BY <1>0, <1>1 DEF Take
<1>2. ASSUME Miss PROVE Refilled' = Refilled /\ Refilled < Token
  BY <1>2, LevelAfter
<1>3. ASSUME pc[p] = "asleep", ~robbed[p], Refilled' = Refilled, sleep'[p] = sleep[p]
      PROVE  Refilled' + sleep'[p] * Rate >= Token
  BY <1>3 DEF SleepSuffices
<1>4. ASSUME Miss, sleep'[p] = SleepFor(Refilled)
      PROVE  Refilled' + sleep'[p] * Rate >= Token
  <2>1. Refilled + SleepFor(Refilled) * Rate >= Token
    BY <1>0, <1>2, <1>4, SleepForBounds
  <2> QED BY <1>2, <1>4, <2>1
<1>5. ASSUME NEW c \in Pacers, AcquireFree(c)
      PROVE  Refilled' + sleep'[p] * Rate >= Token
  BY <1>0, <1>1, <1>5 DEF AcquireFree, Callers
<1>6. ASSUME NEW c \in Pacers, AcquireSleep(c)
      PROVE  Refilled' + sleep'[p] * Rate >= Token
  <2>1. CASE p = c
    BY <1>0, <1>4, <1>6, <2>1 DEF AcquireSleep, TypeOK
  <2>2. CASE p # c
    BY <1>0, <1>2, <1>3, <1>6, <2>2 DEF AcquireSleep, TypeOK
  <2> QED BY <2>1, <2>2
<1>7. ASSUME NEW c \in Pacers, AcquirePaced(c)
      PROVE  Refilled' + sleep'[p] * Rate >= Token
  <2>1. p # c /\ pc[p] = "asleep"
    BY <1>0, <1>7 DEF AcquirePaced, TypeOK
  <2> QED BY <1>0, <1>1, <1>7, <2>1 DEF AcquirePaced, Callers
<1>8. ASSUME NEW c \in Pacers, AcquireAgain(c)
      PROVE  Refilled' + sleep'[p] * Rate >= Token
  <2>1. CASE p = c
    BY <1>0, <1>4, <1>8, <2>1 DEF AcquireAgain, TypeOK
  <2>2. CASE p # c
    BY <1>0, <1>2, <1>3, <1>8, <2>2 DEF AcquireAgain, TypeOK
  <2> QED BY <2>1, <2>2
<1>9. ASSUME NEW c \in Gaters, TryAcquire(c)
      PROVE  Refilled' + sleep'[p] * Rate >= Token
  <2>1. p # c /\ pc[p] = "asleep" /\ c \in Callers
    BY <1>9 DEF TryAcquire, Callers
  <2>2. CASE Take(c, "free")
    BY <1>1, <2>1, <2>2
  <2>3. CASE Miss /\ UNCHANGED robbed
    BY <1>2, <1>3, <1>9, <2>1, <2>3 DEF TryAcquire
  <2> QED BY <1>9, <2>2, <2>3 DEF TryAcquire
<1>10. CASE Tick
  <2>1. pc[p] = "asleep" /\ ~robbed[p]
    BY <1>10 DEF Tick
  <2>2. Refilled + sleep[p] * Rate >= Token
    BY <2>1 DEF SleepSuffices
  <2>3. Refilled' = IF Refilled + Rate <= Max THEN Refilled + Rate ELSE Max
    BY <1>10, LevelAfter
  <2>4. CASE sleep[p] = 0
    <3>1. sleep'[p] = 0 /\ sleep[p] * Rate = 0
      BY <1>0, <1>10, <2>4 DEF Tick
    <3>2. Refilled' >= Token
      BY <1>0, <2>2, <2>3, <3>1
    <3> QED BY <1>0, <2>3, <3>1, <3>2
  <2>5. CASE sleep[p] > 0
    <3>1. sleep'[p] = sleep[p] - 1
      BY <1>0, <1>10, <2>5 DEF Tick
    <3> DEFINE n == sleep[p] - 1
    <3>2. n \in Nat /\ sleep[p] = n + 1
      BY <1>0, <2>5
    <3> HIDE DEF n
    <3>a. sleep'[p] = n
      BY <3>1 DEF n
    <3>3. sleep[p] * Rate = n * Rate + Rate
      BY <3>2, NextProduct
    <3>4. PICK m \in Nat : m = n * Rate
      BY <3>2, ProductNat
    <3>5. PICK l \in Nat : l = Refilled
      BY <1>0
    <3>6. l + (m + Rate) >= Token
      BY <2>2, <3>3, <3>4, <3>5
    <3>7. (IF l + Rate <= Max THEN l + Rate ELSE Max) + m >= Token
      BY <3>6
    <3> QED BY <2>3, <3>a, <3>4, <3>5, <3>7
  <2> QED BY <1>0, <2>4, <2>5
<1>11. CASE OpenWindow
  <2>1. Refilled' = Refilled
    BY <1>11 DEF OpenWindow, Refilled, Max
  <2> QED BY <1>3, <1>11, <2>1 DEF OpenWindow
<1>12. CASE UNCHANGED vars
  <2>1. Refilled' = Refilled
    BY <1>12 DEF vars, Refilled, Max
  <2> QED BY <1>3, <1>12, <2>1 DEF vars
<1> QED
  BY <1>5, <1>6, <1>7, <1>8, <1>9, <1>10, <1>11, <1>12 DEF Next, Acquire

\* A paced caller goes round acquire's loop again only because a competitor
\* took the token it slept for.
THEOREM SleepSufficesHolds == Spec => []SleepSuffices
<1>1. Init => SleepSuffices
  BY DEF Init, SleepSuffices, Callers
<1> QED
  BY <1>1, TypeCorrect, SleepStep, PTL DEF Spec

\* acquire never oversleeps: a tick less would not have made up the deficit it
\* saw, for every rate and every clock resolution.
THEOREM SleepIsTightHolds == Spec => SleepIsTight
<1>1. TypeOK /\ [Next]_vars =>
        [\A c \in Pacers :
           (AcquireSleep(c) \/ AcquireAgain(c)) => tokens' + (sleep'[c] - 1) * Rate < Token]_vars
  <2> SUFFICES ASSUME TypeOK, NEW c \in Pacers, AcquireSleep(c) \/ AcquireAgain(c)
               PROVE  tokens' + (sleep'[c] - 1) * Rate < Token
    BY Zenon
  <2>1. Refilled \in Nat /\ Refilled < Token /\ tokens' = Refilled
    BY RefilledBounds, MaxIsNat DEF AcquireSleep, AcquireAgain, Miss
  <2>2. sleep'[c] = SleepFor(Refilled)
    BY DEF AcquireSleep, AcquireAgain, TypeOK, Callers
  <2>3. QED
    BY <2>1, <2>2, SleepForBounds
<1>2. QED
  BY <1>1, TypeCorrect, PTL DEF Spec, SleepIsTight

-----------------------------------------------------------------------------
\* Refilling lazily, on demand, is refilling continuously: the limiter grants
\* and refuses exactly as TokenBucket allows.
THEOREM ImplementsEagerBucket == Spec => EagerBucket
<1>1. Init => Eager!TBInit
  BY RateAssumption, MaxIsNat DEF Init, Eager!TBInit, Refilled, Max
<1>2. TypeOK /\ [Next]_vars => [Eager!TBNext]_<<Refilled, verdict>>
  <2> SUFFICES ASSUME TypeOK, [Next]_vars
               PROVE  Eager!TBNext \/ (Refilled' = Refilled /\ verdict' = verdict)
    OBVIOUS
  <2> USE RateAssumption
  <2>1. ASSUME NEW c \in Callers, NEW r \in {"free", "paced"}, Take(c, r) PROVE Eager!Grant(c)
    BY <2>1, LevelAfter DEF Take, Eager!Grant, Token
  <2>2. ASSUME Miss PROVE Refilled' = Refilled /\ Refilled < TicksPerSec
    BY <2>2, LevelAfter DEF Token
  <2>3. ASSUME NEW c \in Pacers, Acquire(c)
        PROVE  Eager!TBNext \/ (Refilled' = Refilled /\ verdict' = verdict)
    <3>0. c \in Callers
      BY DEF Callers
    <3>1. CASE AcquireFree(c)
      BY <2>1, <3>0, <3>1 DEF AcquireFree, Eager!TBNext
    <3>2. CASE AcquirePaced(c)
      BY <2>1, <3>0, <3>2 DEF AcquirePaced, Eager!TBNext
    <3>3. CASE AcquireSleep(c) \/ AcquireAgain(c)
      BY <2>2, <3>3 DEF AcquireSleep, AcquireAgain
    <3> QED BY <2>3, <3>1, <3>2, <3>3 DEF Acquire
  <2>4. ASSUME NEW c \in Gaters, TryAcquire(c) PROVE Eager!TBNext
    <3>0. c \in Callers
      BY DEF Callers
    <3>1. CASE Take(c, "free")
      BY <2>1, <3>0, <3>1 DEF Eager!TBNext
    <3>2. CASE Miss /\ verdict' = [verdict EXCEPT ![c] = "denied"]
      BY <2>2, <3>0, <3>2 DEF Eager!Deny, Eager!TBNext
    <3> QED BY <2>4, <3>1, <3>2 DEF TryAcquire
  <2>5. CASE Tick
    <3>1. Refilled' = IF Refilled + Rate <= Max THEN Refilled + Rate ELSE Max
      BY <2>5, LevelAfter
    <3>2. verdict' = verdict
      BY <2>5 DEF Tick
    <3> QED BY <3>1, <3>2 DEF Eager!Fill, Eager!TBNext, Max
  <2>6. CASE OpenWindow \/ UNCHANGED vars
    BY <2>6 DEF OpenWindow, vars, Refilled, Max
  <2> QED
    BY <2>3, <2>4, <2>5, <2>6 DEF Next
<1> QED
  BY <1>1, <1>2, TypeCorrect, PTL DEF Spec, EagerBucket, Eager!TBSpec, Eager!tbvars
=============================================================================
