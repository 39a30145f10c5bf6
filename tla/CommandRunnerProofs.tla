------------------------- MODULE CommandRunnerProofs -------------------------
(* Proofs about the runner of one command: its attempts, its cancellation, the       *)
(* remote call it implements, and its delays, which form a doubling series.          *)
EXTENDS CommandRunner, SequenceFacts, TLAPS

\* The invariant holds before the command is run.
LEMMA InitInv == Init => Inv
<1> SUFFICES ASSUME Init PROVE Inv
  OBVIOUS
<1> USE RunnerAssumption DEF Init
<1>1. TypeOK
  <2>1. cancelRequested \in BOOLEAN /\ taskCancelled \in BOOLEAN
    BY Zenon
  <2>2. attempts \in 0 .. MaxAttempts
    OBVIOUS
  <2> QED BY <2>1, <2>2 DEF TypeOK, Phase, Ending
<1>2. WireAccounts
  BY DEF WireAccounts
<1>3. AttemptsLeft
  BY DEF AttemptsLeft, Allowed
<1>4. NothingOpensAfterCancel /\ (phase # "done" <=> result = "none")
  BY DEF NothingOpensAfterCancel
<1>5. ~cancelRequested /\ ~taskCancelled /\ ~cancelledInTime
  BY Zenon
<1>6. CancelIsPassedOn /\ CancelledIsReported
  BY <1>5 DEF CancelIsPassedOn, CancelledIsReported, LookAhead
<1> QED BY <1>1, <1>2, <1>3, <1>4, <1>6 DEF Inv

\* Every step of the runner, the wire and the caller keeps the invariant: one
\* step per action.
LEMMA NextKeepsInv == Inv /\ [Next]_vars => Inv'
<1> SUFFICES ASSUME Inv, [Next]_vars PROVE Inv'
  OBVIOUS
<1> USE RunnerAssumption
    DEF Inv, TypeOK, WireAccounts, AttemptsLeft, NothingOpensAfterCancel,
        CancelIsPassedOn, CancelledIsReported, LookAhead,
        Phase, Ending, attemptVars, wireVars, cancelVars, lookVars, Allowed
<1>1. CASE RunCommand
  BY <1>1 DEF RunCommand, Complete, TokenCancelled
<1>2. CASE CheckToken
  BY <1>2 DEF CheckToken, TokenCancelled
<1>3. CASE RegisterObserver
  BY <1>3 DEF RegisterObserver
<1>4. CASE ResumeDataTask
  BY <1>4 DEF ResumeDataTask
<1>5. ASSUME NEW how \in Ending, AttemptEnds(how) PROVE Inv'
  BY <1>5 DEF AttemptEnds, CanEnd
<1>6. CASE ContinueAfterAttempt
  BY <1>6 DEF ContinueAfterAttempt, Settle, Repeated, Retries, Reported, TokenCancelled
<1>7. CASE DelayElapses
  BY <1>7 DEF DelayElapses, Settle, Repeated, NextDelay, TokenCancelled
<1>8. CASE RequestLands
  BY <1>8 DEF RequestLands
<1>9. CASE LateRequestLands
  BY <1>9 DEF LateRequestLands
<1>10. CASE CancelCalled
  <2> USE <1>10 DEF CancelCalled
  <2>1. TypeOK' /\ WireAccounts' /\ AttemptsLeft' /\ NothingOpensAfterCancel'
    OBVIOUS
  <2>2. cancelRequested' /\ (cancelledInTime' <=> LookAhead)
    BY Zenon
  <2>3. /\ ~cancelledInTime
        /\ retryIfFailed => result # "cancelled"
        /\ phase = "settling" => verdict # "cancelled"
    OBVIOUS
  <2>4. CancelIsPassedOn' /\ CancelledIsReported'
    BY <2>2, <2>3
  <2> QED BY <2>1, <2>4
<1>11. CASE ReturnAttempt
  BY <1>11 DEF ReturnAttempt, Complete, Reported
<1>12. CASE LookAtToken
  BY <1>12 DEF LookAtToken, Settle, Passed, TokenCancelled
<1>13. CASE SetOutcome
  BY <1>13 DEF SetOutcome, Complete
<1>14. CASE UNCHANGED vars
  BY <1>14 DEF vars
<1> QED
  BY <1>1, <1>2, <1>3, <1>4, <1>5, <1>6, <1>7, <1>8, <1>9, <1>10, <1>11, <1>12, <1>13,
     <1>14 DEF Next, Runner

\* However many attempts are allowed, the bookkeeping of attempts, requests and
\* cancellation stays consistent.
THEOREM RunnerInvariant == Spec => []Inv
BY InitInv, NextKeepsInv, PTL DEF Spec

\* A command never goes out more often than it may.
THEOREM NeverSentTooOften == Spec => []SentAtMostAllowed
<1>1. Inv => SentAtMostAllowed
  BY RunnerAssumption DEF Inv, TypeOK, AttemptsLeft, SentAtMostAllowed, Allowed
<1> QED BY <1>1, RunnerInvariant, PTL

\* After a cancellation at most the attempt under way goes out.
THEOREM CancelStopsRetries == Spec => []OneRequestAfterCancel
<1>1. Inv => OneRequestAfterCancel
  BY DEF Inv, NothingOpensAfterCancel, OneRequestAfterCancel
<1> QED BY <1>1, RunnerInvariant, PTL

\* However many attempts and looks there are, a retrying command reports a cancellation
\* that came before the last look, and only that.
THEOREM CancelIsReported == Spec => []CancelledIsReported
<1>1. Inv => CancelledIsReported
  BY DEF Inv
<1> QED BY <1>1, RunnerInvariant, PTL

\* What the steps of the runner are to the caller of a remote call.
LEMMA NextIsCallStep == Inv /\ [Next]_vars => [Abstract!Next]_(Abstract!callVars)
<1> SUFFICES ASSUME Inv, [Next]_vars
             PROVE  Abstract!Next \/ UNCHANGED Abstract!callVars
  OBVIOUS
<1> USE RunnerAssumption
    DEF Inv, TypeOK, WireAccounts, AttemptsLeft, Allowed, Phase, Ending, attemptVars,
        wireVars, cancelVars, lookVars, CallerKnows, Abstract!callVars
<1>1. CASE RunCommand
  <2>1. CASE TokenCancelled
    BY <1>1, <2>1 DEF RunCommand, Complete, TokenCancelled
  <2>2. CASE ~TokenCancelled
    <3>1. phase = "idle" /\ phase' = "starting" /\ attempts = 0
      BY <1>1, <2>2 DEF RunCommand
    <3>2. attempts' # 0 /\ sent' = sent /\ landed' = landed
      BY <1>1, <2>2 DEF RunCommand
    <3>3. Abstract!Start("command")
      BY <3>1, <3>2 DEF Abstract!Start
    <3> QED BY <3>3 DEF Abstract!Next
  <2> QED BY <2>1, <2>2
<1>2. CASE CheckToken
  BY <1>2 DEF CheckToken
<1>3. CASE RegisterObserver
  BY <1>3 DEF RegisterObserver
<1>4. CASE ResumeDataTask
  <2>1. CASE taskCancelled
    BY <1>4, <2>1 DEF ResumeDataTask
  <2>2. CASE ~taskCancelled
    <3>1. Abstract!Send("command")
      BY <1>4, <2>2 DEF ResumeDataTask, Abstract!Send
    <3> QED BY <3>1 DEF Abstract!Next
  <2> QED BY <2>1, <2>2
<1>5. ASSUME NEW how \in Ending, AttemptEnds(how)
      PROVE  UNCHANGED Abstract!callVars
  BY <1>5 DEF AttemptEnds
<1>6. CASE ContinueAfterAttempt \/ LookAtToken
  BY <1>6 DEF ContinueAfterAttempt, LookAtToken, Settle
<1>7. CASE DelayElapses
  BY <1>7 DEF DelayElapses, Settle
<1>12. ASSUME UNCHANGED <<attempts, sent, landed>>, attempts # 0, phase # "done",
              phase' = "done", result' \in {"success", "failure", "cancelled"},
              result' = "success" => landed > 0
       PROVE  Abstract!Next
  <2>1. CASE result' = "success"
    <3>1. Abstract!Succeed("command")
      BY <1>12, <2>1 DEF Abstract!Succeed
    <3> QED BY <3>1 DEF Abstract!Next
  <2>2. CASE result' # "success"
    <3>1. Abstract!Fail("command")
      BY <1>12, <2>2 DEF Abstract!Fail
    <3> QED BY <3>1 DEF Abstract!Next
  <2> QED BY <2>1, <2>2
<1>13. CASE ReturnAttempt
  BY <1>12, <1>13 DEF ReturnAttempt, Complete, Reported
<1>14. CASE SetOutcome
  BY <1>12, <1>14 DEF SetOutcome, Complete, CancelIsPassedOn
<1>8. CASE RequestLands
  <2>1. Abstract!Land("command")
    BY <1>8 DEF RequestLands, Abstract!Land
  <2> QED BY <2>1 DEF Abstract!Next
<1>9. CASE LateRequestLands
  <2>1. Abstract!Land("command")
    BY <1>9 DEF LateRequestLands, Abstract!Land
  <2> QED BY <2>1 DEF Abstract!Next
<1>10. CASE CancelCalled
  BY <1>10 DEF CancelCalled
<1>11. CASE UNCHANGED vars
  BY <1>11 DEF vars
<1> QED
  BY <1>1, <1>2, <1>3, <1>4, <1>5, <1>6, <1>7, <1>8, <1>9, <1>10, <1>11, <1>13, <1>14
     DEF Next, Runner

\* The runner implements RemoteCall, which the photo stream takes for its uploads.
THEOREM RunnerImplementsCall == Spec => ImplementsRemoteCall
<1>1. Init => Abstract!Init
  <2> SUFFICES ASSUME attempts = 0, sent = 0, landed = 0 PROVE Abstract!Init
    BY DEF Init
  <2> QED BY DEF CallerKnows, Abstract!Init
<1> QED BY <1>1, RunnerInvariant, NextIsCallStep, PTL
        DEF Spec, ImplementsRemoteCall, Abstract!Spec

-----------------------------------------------------------------------------
\* The powers of two are what their definition says; they exist by induction.
LEMMA TwoToUnfolds ==
    /\ TwoTo[0] = 1
    /\ \A n \in 1 .. MaxAttempts : TwoTo[n] = 2 * TwoTo[n - 1]
<1> DEFINE Step(h, m) == [n \in 0 .. m |-> IF n = 0 THEN 1 ELSE 2 * h[n - 1]]
           S == {m \in Nat : \E h : h = Step(h, m)}
<1>1. 0 \in S
  <2>1. [n \in 0 .. 0 |-> 1] = Step([n \in 0 .. 0 |-> 1], 0)
    OBVIOUS
  <2> QED BY <2>1
<1>2. ASSUME NEW m \in Nat, m \in S PROVE m + 1 \in S
  <2>1. PICK f : f = Step(f, m)
    BY <1>2
  <2> DEFINE g == [n \in 0 .. m + 1 |-> IF n = m + 1 THEN 2 * f[m] ELSE f[n]]
  <2>2. g = Step(g, m + 1)
    <3>1. \A n \in 0 .. m : f[n] = IF n = 0 THEN 1 ELSE 2 * f[n - 1]
      BY <2>1
    <3>2. \A n \in 0 .. m + 1 : g[n] = IF n = 0 THEN 1 ELSE 2 * g[n - 1]
      BY <3>1
    <3> QED BY <3>2
  <2>3. \E h : h = Step(h, m + 1)
    <3> HIDE DEF g
    <3>1. g = Step(g, m + 1)
      BY <2>2
    <3> HIDE DEF Step
    <3> QED BY <3>1
  <2> HIDE DEF Step
  <2> QED BY <2>3
<1>3. MaxAttempts \in S
  <2> HIDE DEF S
  <2> QED BY <1>1, <1>2, NatSetInduction, RunnerAssumption
<1>4. TwoTo = Step(TwoTo, MaxAttempts)
  <2>1. PICK f : f = Step(f, MaxAttempts)
    BY <1>3
  <2>2. TwoTo = CHOOSE h : h = Step(h, MaxAttempts)
    BY DEF TwoTo
  <2> HIDE DEF Step
  <2> QED BY <2>1, <2>2
<1> HIDE DEF S
<1>5. \A n \in 0 .. MaxAttempts : TwoTo[n] = IF n = 0 THEN 1 ELSE 2 * TwoTo[n - 1]
  BY <1>4
<1> HIDE DEF Step
<1>6. TwoTo[0] = 1
  BY <1>5, RunnerAssumption
<1>7. \A n \in 1 .. MaxAttempts : TwoTo[n] = 2 * TwoTo[n - 1]
  BY <1>5
<1> QED BY <1>6, <1>7

\* They are numbers, and grow.
LEMMA TwoToGrows ==
    /\ \A n \in 0 .. MaxAttempts : TwoTo[n] \in Nat
    /\ \A m, n \in 0 .. MaxAttempts : m <= n => TwoTo[m] <= TwoTo[n]
<1> DEFINE S == {n \in Nat : n <= MaxAttempts =>
                    /\ TwoTo[n] \in Nat
                    /\ \A m \in 0 .. n : TwoTo[m] \in Nat /\ TwoTo[m] <= TwoTo[n]}
<1>1. 0 \in S
  BY TwoToUnfolds
<1>2. ASSUME NEW n \in Nat, n \in S PROVE n + 1 \in S
  <2> SUFFICES ASSUME n + 1 <= MaxAttempts
               PROVE  /\ TwoTo[n + 1] \in Nat
                      /\ \A m \in 0 .. n + 1 : TwoTo[m] \in Nat /\ TwoTo[m] <= TwoTo[n + 1]
    OBVIOUS
  <2>1. TwoTo[n + 1] = 2 * TwoTo[n]
    BY TwoToUnfolds, RunnerAssumption
  <2>2. TwoTo[n] \in Nat /\ \A m \in 0 .. n : TwoTo[m] \in Nat /\ TwoTo[m] <= TwoTo[n]
    BY <1>2, RunnerAssumption
  <2>3. TwoTo[n + 1] \in Nat /\ TwoTo[n] <= TwoTo[n + 1]
    BY <2>1, <2>2
  <2>4. ASSUME NEW m \in 0 .. n + 1
        PROVE  TwoTo[m] \in Nat /\ TwoTo[m] <= TwoTo[n + 1]
    <3>1. CASE m = n + 1
      BY <2>3, <3>1
    <3>2. CASE m # n + 1
      <4>1. m \in 0 .. n
        BY <3>2
      <4>2. TwoTo[m] \in Nat /\ TwoTo[m] <= TwoTo[n]
        BY <2>2, <4>1
      <4> QED BY <2>2, <2>3, <4>2
    <3> QED BY <3>1, <3>2
  <2> QED BY <2>3, <2>4
<1>3. \A n \in Nat : n \in S
  <2> HIDE DEF S
  <2> QED BY <1>1, <1>2, NatSetInduction
<1> QED BY <1>3, RunnerAssumption

\* The next delay of a command that has an attempt left.
LEMMA DelayDoubles ==
    ASSUME NEW f \in Nat, NEW allowed \in 1 .. MaxAttempts, NEW n \in 2 .. allowed
    PROVE  /\ 2 * (f * TwoTo[allowed - n]) = f * TwoTo[allowed - (n - 1)]
           /\ f * TwoTo[allowed - n] \in Nat
<1>1. /\ allowed - n \in 0 .. MaxAttempts /\ allowed - (n - 1) \in 1 .. MaxAttempts
      /\ allowed - (n - 1) - 1 = allowed - n
  BY RunnerAssumption
<1>2. TwoTo[allowed - (n - 1)] = 2 * TwoTo[allowed - n] /\ TwoTo[allowed - n] \in Nat
  BY <1>1, TwoToUnfolds, TwoToGrows
<1> QED BY <1>2

\* A delay is at most the one of the last attempt.
LEMMA DelayAtMost ==
    ASSUME NEW f \in Nat, NEW n \in 0 .. MaxAttempts - 1
    PROVE  /\ f * TwoTo[n] \in Nat /\ TwoTo[MaxAttempts - 1] \in Nat
           /\ f * TwoTo[n] - f <= f * (TwoTo[MaxAttempts - 1] - 1)
<1>1. /\ n \in 0 .. MaxAttempts /\ MaxAttempts - 1 \in 0 .. MaxAttempts
      /\ n <= MaxAttempts - 1
  BY RunnerAssumption
<1>2. TwoTo[n] \in Nat /\ TwoTo[MaxAttempts - 1] \in Nat /\ TwoTo[n] <= TwoTo[MaxAttempts - 1]
  BY <1>1, TwoToGrows
<1>3. ASSUME NEW a \in Nat, NEW b \in Nat, a <= b
      PROVE  f * a \in Nat /\ f * a - f <= f * (b - 1)
  <2>1. f * (b - a) \in Nat
    BY <1>3
  <2>2. f * (b - a) = f * b - f * a /\ f * (b - 1) = f * b - f /\ f * a \in Nat /\ f * b \in Nat
    BY <1>3
  <2> QED BY <2>1, <2>2
<1> QED BY <1>2, <1>3

\* Every step keeps the delays a doubling series.
LEMMA NextKeepsDelays == Inv /\ DelaysDouble /\ [Next]_vars => DelaysDouble'
<1> SUFFICES ASSUME Inv, DelaysDouble, [Next]_vars PROVE DelaysDouble'
  OBVIOUS
<1>0. /\ attempts \in 0 .. MaxAttempts
      /\ delay \in Nat /\ firstDelay \in Nat /\ waited \in Nat /\ Allowed \in 1 .. MaxAttempts
      /\ attempts <= Allowed
      /\ phase = "waiting" => attempts > 1
      /\ phase = "idle" => attempts = 0
      /\ attempts = 0 => phase \in {"idle", "done"}
  BY RunnerAssumption DEF Inv, TypeOK, AttemptsLeft, DelaysDouble, Allowed
<1>1. CASE RunCommand
  <2>1. CASE UNCHANGED attemptVars
    <3>1. Allowed' = Allowed
      BY <1>1 DEF RunCommand, Allowed
    <3>2. UNCHANGED <<attempts, delay, firstDelay, waited>> /\ phase # "done" /\ attempts = 0
      BY <1>0, <1>1, <2>1 DEF RunCommand, attemptVars
    <3> QED BY <3>1, <3>2 DEF DelaysDouble
  <2>2. CASE phase' = "starting"
    <3>1. /\ attempts' = Allowed /\ Allowed' = Allowed /\ delay' = firstDelay'
          /\ waited' = waited /\ retryIfFailed' = retryIfFailed
      BY <1>1, <2>2, RunnerAssumption DEF RunCommand, Complete, Allowed
    <3>0. firstDelay' \in Nat
      BY <1>1, <2>2, RunnerAssumption DEF RunCommand, Complete
    <3>2. waited = 0
      BY <1>0, <1>1 DEF DelaysDouble, RunCommand
    <3>3. TwoTo[Allowed - Allowed] = 1
      BY <1>0, TwoToUnfolds
    <3>4. attempts' # 0
      BY <1>0, <3>1
    <3>7. \A d \in Nat : d * 1 = d /\ 0 + d = d
      OBVIOUS
    <3>6. waited' + firstDelay' = delay'
      BY <3>0, <3>1, <3>2, <3>7, Zenon
    <3>8. Allowed' - attempts' = Allowed - Allowed
      BY <3>1
    <3>5. delay' = firstDelay' * TwoTo[Allowed' - attempts']
      BY <3>0, <3>1, <3>3, <3>7, <3>8, Zenon
    <3> QED BY <3>4, <3>5, <3>6 DEF DelaysDouble
  <2> QED BY <1>1, <2>1, <2>2 DEF RunCommand
<1>2. CASE DelayElapses
  <2>1. /\ phase = "waiting" /\ attempts > 1 /\ waited' = waited + delay
        /\ Allowed' = Allowed /\ firstDelay' = firstDelay
    BY <1>0, <1>2 DEF DelayElapses, Allowed
  <2>2. /\ waited + firstDelay = delay /\ delay = firstDelay * TwoTo[Allowed - attempts]
    BY <1>0, <2>1 DEF DelaysDouble
  <2>3. CASE phase' = "settling" /\ UNCHANGED <<attempts, delay>>
    BY <1>0, <2>1, <2>2, <2>3 DEF DelaysDouble
  <2>4. CASE attempts' = attempts - 1 /\ delay' = 2 * delay
    <3>1. /\ 2 * (firstDelay * TwoTo[Allowed - attempts])
               = firstDelay * TwoTo[Allowed - (attempts - 1)]
      <4>1. attempts \in 2 .. Allowed
        BY <1>0, <2>1
      <4> QED BY <1>0, <4>1, DelayDoubles
    <3>2. delay' = firstDelay' * TwoTo[Allowed' - attempts']
      BY <2>1, <2>2, <2>4, <3>1
    <3>3. waited' + firstDelay' = delay' /\ attempts' > 0
      BY <1>0, <2>1, <2>2, <2>4
    <3>4. attempts' # 0
      BY <1>0, <2>1, <2>4
    <3> QED BY <3>2, <3>3, <3>4 DEF DelaysDouble
  <2> QED BY <1>2, <2>3, <2>4 DEF DelayElapses, Settle, NextDelay
<1>3. ASSUME UNCHANGED <<attempts, delay, firstDelay, waited, retryIfFailed>>,
             phase \in {"settling", "done"} => phase' \in {"settling", "done"}
      PROVE  DelaysDouble'
  <2>1. Allowed' = Allowed
    BY <1>3 DEF Allowed
  <2> QED BY <1>3, <2>1 DEF DelaysDouble
<1>4. CASE \/ CheckToken \/ RegisterObserver \/ ResumeDataTask
           \/ \E how \in Ending : AttemptEnds(how)
           \/ ReturnAttempt \/ ContinueAfterAttempt \/ LookAtToken \/ SetOutcome
  BY <1>3, <1>4 DEF CheckToken, RegisterObserver, ResumeDataTask, AttemptEnds, ReturnAttempt,
     ContinueAfterAttempt, LookAtToken, SetOutcome, Settle, Complete, attemptVars
<1>5. CASE RequestLands \/ LateRequestLands \/ CancelCalled \/ UNCHANGED vars
  <2>1. UNCHANGED <<phase, attempts, delay, firstDelay, waited, retryIfFailed>>
    BY <1>5 DEF RequestLands, LateRequestLands, CancelCalled, vars, attemptVars
  <2>2. Allowed' = Allowed
    BY <2>1 DEF Allowed
  <2> QED BY <2>1, <2>2 DEF DelaysDouble
<1> QED BY <1>1, <1>2, <1>4, <1>5 DEF Next, Runner

\* For any number of attempts and any initial delay, a caller waits at most the sum of the
\* doubling series: _performCommandRunningBlock: never waits after the last attempt.
THEOREM BackOffStaysBounded == Spec => []BackOffBounded
<1>1. Init => DelaysDouble
  BY RunnerAssumption DEF Init, DelaysDouble, Allowed
<1>2. Inv /\ DelaysDouble => BackOffBounded
  <2> SUFFICES ASSUME Inv, DelaysDouble PROVE BackOffBounded
    OBVIOUS
  <2>0. /\ attempts \in 0 .. MaxAttempts /\ delay \in Nat /\ firstDelay \in Nat /\ waited \in Nat
        /\ Allowed \in 1 .. MaxAttempts /\ attempts <= Allowed /\ MaxAttempts \in Nat \ {0}
    BY RunnerAssumption DEF Inv, TypeOK, AttemptsLeft, Allowed
  <2>1. CASE attempts = 0
    <3>1. waited = 0 /\ firstDelay = 0
      BY <2>0, <2>1 DEF DelaysDouble
    <3> QED BY <3>1, <2>0, DelayAtMost DEF BackOffBounded
  <2>2. CASE attempts > 0 /\ waited + firstDelay = delay
    <3>1. Allowed - attempts \in 0 .. MaxAttempts - 1 /\ delay = firstDelay * TwoTo[Allowed - attempts]
      BY <2>0, <2>2 DEF DelaysDouble
    <3> QED BY <3>1, <2>0, <2>2, DelayAtMost DEF BackOffBounded
  <2>3. CASE attempts > 1 /\ waited + firstDelay = 2 * delay
    <3>1. /\ Allowed - (attempts - 1) \in 0 .. MaxAttempts - 1
          /\ 2 * delay = firstDelay * TwoTo[Allowed - (attempts - 1)]
      <4>1. attempts \in 2 .. Allowed
        BY <2>0, <2>3
      <4>2. delay = firstDelay * TwoTo[Allowed - attempts]
        BY <2>0, <2>3 DEF DelaysDouble
      <4>3. 2 * delay = firstDelay * TwoTo[Allowed - (attempts - 1)]
        BY <2>0, <4>1, <4>2, DelayDoubles
      <4>4. Allowed - (attempts - 1) \in 0 .. MaxAttempts - 1
        BY <2>0, <4>1
      <4> QED BY <4>3, <4>4
    <3> QED BY <3>1, <2>0, <2>3, DelayAtMost DEF BackOffBounded
  <2> QED BY <2>0, <2>1, <2>2, <2>3 DEF DelaysDouble
<1> QED BY <1>1, <1>2, RunnerInvariant, NextKeepsDelays, PTL DEF Spec
=============================================================================
