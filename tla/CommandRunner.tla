---------------------------- MODULE CommandRunner ----------------------------
(***************************************************************************)
(* PFURLSessionCommandRunner running one data command: attempts, the wait  *)
(* before each retry, and the caller's cancellation token.                 *)
(*                                                                         *)
(* The blocks of the runner, the completion of the data task and the       *)
(* caller's cancel run on different threads: each is an action.  So are    *)
(* each look of a continuation at the token and the setting of the         *)
(* caller's task: no lock is held from the one to the other.  The network  *)
(* is what can happen to the request of an attempt: it reaches the server  *)
(* before the attempt ends, after it, or never.                            *)
(***************************************************************************)
EXTENDS Naturals

CONSTANTS MaxAttempts,   \* retryAttempts
          InitialDelays  \* the delays _performCommandRunningBlock may draw

ASSUME RunnerAssumption == /\ MaxAttempts \in Nat \ {0}
                           /\ InitialDelays \subseteq Nat

VARIABLES phase,            \* where the command is, see Phase
          retryIfFailed,    \* the option PFCommandRunningOptionRetryIfFailed
          attempts,         \* the parameter forAttempts: of the current block
          delay,            \* the parameter delay: of the current block
          ending,           \* how the task of the last attempt completed
          verdict,          \* how the innermost of the tasks around the attempts
                            \* that are not set yet will complete
          looks,            \* how many of them have still to look at the token
          result,           \* how the task the caller holds completed
          cancelRequested,  \* the caller's cancellation token
          taskCancelled,    \* [dataTask cancel] was called for this attempt
          current,          \* the request of the current attempt
          late,             \* requests of earlier attempts still on the wire
          sent, landed,     \* requests sent, requests the server carried out
          firstDelay, waited,  \* history: the delay drawn, all delays waited
          sentBeforeCancel,    \* history: requests sent when cancel was called
          cancelledInTime      \* history: cancel was called with a look ahead

attemptVars == <<attempts, delay, firstDelay, waited>>
wireVars    == <<current, late, sent, landed>>
cancelVars  == <<cancelRequested, taskCancelled, sentBeforeCancel, cancelledInTime>>
lookVars    == <<verdict, looks>>
vars == <<phase, retryIfFailed, attemptVars, ending, lookVars, result, cancelVars,
          wireVars>>

\* "lost": the attempt will never complete, see ResumeDataTask.
Phase  == {"idle", "starting", "opening", "registered", "running", "lost",
           "ended", "waiting", "settling", "done"}
Ending == {"success", "temporary", "permanent", "cancelled"}

TokenCancelled == cancelRequested

Init == /\ phase = "idle"
        /\ retryIfFailed \in BOOLEAN
        /\ attempts = 0 /\ delay = 0 /\ firstDelay = 0 /\ waited = 0
        /\ ending = "none" /\ result = "none"
        /\ verdict = "none" /\ looks = 0
        /\ cancelRequested = FALSE /\ taskCancelled = FALSE
        /\ current = "none" /\ late = 0 /\ sent = 0 /\ landed = 0
        /\ sentBeforeCancel = 0 /\ cancelledInTime = FALSE

\* Without the option a command has one attempt.
Allowed == IF retryIfFailed THEN MaxAttempts ELSE 1

Complete(how) == phase' = "done" /\ result' = how

\* _performCommandRunningBlock:withOptions:cancellationToken:
RunCommand ==
    /\ phase = "idle"
    /\ IF TokenCancelled
       THEN /\ Complete("cancelled")
            /\ UNCHANGED attemptVars
       ELSE /\ phase' = "starting"
            /\ attempts' = Allowed
            /\ \E d \in InitialDelays : delay' = d /\ firstDelay' = d
            /\ UNCHANGED <<result, waited>>
    /\ UNCHANGED <<retryIfFailed, ending, lookVars, cancelVars, wireVars>>

\* performDataURLRequestAsync: looks at the token, here and on its executor.
CheckToken ==
    /\ phase = "starting"
    /\ IF TokenCancelled
       THEN phase' = "ended" /\ ending' = "cancelled"
       ELSE phase' = "opening" /\ UNCHANGED ending
    /\ UNCHANGED <<retryIfFailed, attemptVars, lookVars, result, cancelVars, wireVars>>

\* The data task is made, its delegate registers with the token. A token
\* cancelled since CheckToken does not notify the delegate any more.
RegisterObserver ==
    /\ phase = "opening"
    /\ phase' = "registered"
    /\ taskCancelled' = FALSE
    /\ UNCHANGED <<retryIfFailed, attemptVars, ending, lookVars, result,
                   cancelRequested, sentBeforeCancel, cancelledInTime, wireVars>>

\* setDelegate:forDataTask: and resume. A data task cancelled since it was made
\* sends nothing, and its completion may have come before it had a delegate:
\* then nobody hears of it.
ResumeDataTask ==
    /\ phase = "registered"
    /\ \/ /\ ~taskCancelled
          /\ phase' = "running"
          /\ current' = "wire"
          /\ sent' = sent + 1
       \/ /\ taskCancelled
          /\ phase' \in {"running", "lost"}
          /\ UNCHANGED <<current, sent>>
    /\ UNCHANGED <<retryIfFailed, attemptVars, ending, lookVars, result, cancelVars,
                   late, landed>>

\* The server carries out the request of the current attempt ...
RequestLands ==
    /\ current = "wire"
    /\ current' = "landed"
    /\ landed' = landed + 1
    /\ UNCHANGED <<phase, retryIfFailed, attemptVars, ending, lookVars, result,
                   cancelVars, late, sent>>

\* ... or one whose attempt has ended, since the client cannot call it back.
LateRequestLands ==
    /\ late > 0
    /\ late' = late - 1
    /\ landed' = landed + 1
    /\ UNCHANGED <<phase, retryIfFailed, attemptVars, ending, lookVars, result,
                   cancelVars, current, sent>>

\* Faulty: any answer, even of a proxy, is a success.
CanEndUnheard(how) == IF how = "cancelled" THEN taskCancelled
                                          ELSE current # "none"

\* Faulty: a lost connection is not noticed.
CanEndAnswered(how) == IF how = "cancelled" THEN taskCancelled
                                           ELSE current = "landed"

\* Which endings _taskDidFinish and _taskDidCancel can report for the request.
\* No answer, or one of 500 and above, is temporary; one of 400 to 499, and an
\* answer that is no JSON, is not.
CanEnd(how) ==
    CASE how = "success"   -> current = "landed"
      [] how = "cancelled" -> taskCancelled
      [] OTHER             -> current # "none"

\* A request without an answer from the server may still reach it.
AttemptEnds(how) ==
    /\ phase = "running"
    /\ CanEnd(how)
    /\ phase' = "ended"
    /\ ending' = how
    /\ current' = "none"
    /\ late' = IF current = "wire" THEN late + 1 ELSE late
    /\ UNCHANGED <<retryIfFailed, attemptVars, lookVars, result, cancelVars, sent,
                   landed>>

\* Faulty: no limit.
RetriesAlways == ending = "temporary"

\* The test for another attempt.
Retries == ending = "temporary" /\ attempts > 1

\* What the caller sees: "temporary" errors are errors to it like any other.
Reported == IF ending \in {"success", "cancelled"} THEN ending ELSE "failure"

\* Without the option the caller holds the task of the attempt itself.
ReturnAttempt ==
    /\ phase = "ended" /\ ~retryIfFailed
    /\ Complete(Reported)
    /\ UNCHANGED <<retryIfFailed, attemptVars, ending, lookVars, cancelVars, wireVars>>

\* The attempts that were repeated. Each left two tasks around the next attempt: that
\* of its own continuation and that of the continuation of its delay.
Repeated == Allowed - attempts

\* A continuation knows how its task will end, with n more around it to look.
Settle(how, n) == phase' = "settling" /\ verdict' = how /\ looks' = n

\* The continuation of the attempt looks at the token, and its block at the attempt.
\* When the block returns the attempt its task has still to look (setupWithTask).
ContinueAfterAttempt ==
    /\ phase = "ended" /\ retryIfFailed
    /\ \/ TokenCancelled /\ Settle("cancelled", 2 * Repeated)
       \/ ~TokenCancelled /\ Retries /\ phase' = "waiting" /\ UNCHANGED lookVars
       \/ ~TokenCancelled /\ ~Retries /\ Settle(Reported, 2 * Repeated + 1)
    /\ UNCHANGED <<retryIfFailed, attemptVars, ending, result, cancelVars, wireVars>>

\* Faulty: setupWithTask does not look at the token.
PassedUnseen == verdict

\* What setupWithTask makes of the task it follows.
Passed == IF TokenCancelled THEN "cancelled" ELSE verdict

\* The next task looks at the token and at the one it follows, which has been set.
LookAtToken ==
    /\ phase = "settling" /\ looks > 0
    /\ Settle(Passed, looks - 1)
    /\ UNCHANGED <<retryIfFailed, attemptVars, ending, result, cancelVars, wireVars>>

\* The task the caller holds is set, whatever has become of the token since the look.
SetOutcome ==
    /\ phase = "settling" /\ looks = 0
    /\ Complete(verdict)
    /\ UNCHANGED <<retryIfFailed, attemptVars, ending, lookVars, cancelVars, wireVars>>

\* Faulty: grows too fast.
TripledDelay == 3 * delay

NextDelay == 2 * delay

\* taskWithDelay: has completed; its continuation looks at the token.
DelayElapses ==
    /\ phase = "waiting"
    /\ IF TokenCancelled
       THEN Settle("cancelled", 2 * Repeated + 1) /\ UNCHANGED <<attempts, delay>>
       ELSE /\ phase' = "starting"
            /\ attempts' = attempts - 1
            /\ delay' = NextDelay
            /\ UNCHANGED lookVars
    /\ waited' = waited + delay
    /\ UNCHANGED <<retryIfFailed, firstDelay, ending, result, cancelVars, wireVars>>

\* A look at the token is still to come.
LookAhead == phase # "done" /\ ~(phase = "settling" /\ looks = 0)

\* The caller cancels (PFQuery cancel). The observer of an attempt cancels its
\* data task.
CancelCalled ==
    /\ ~cancelRequested
    /\ cancelRequested' = TRUE
    /\ taskCancelled' = (phase \in {"registered", "running"})
    /\ sentBeforeCancel' = sent
    /\ cancelledInTime' = LookAhead
    /\ UNCHANGED <<phase, retryIfFailed, attemptVars, ending, lookVars, result, wireVars>>

Runner == \/ RunCommand \/ CheckToken \/ RegisterObserver \/ ResumeDataTask
          \/ \E how \in Ending : AttemptEnds(how)
          \/ ReturnAttempt \/ ContinueAfterAttempt \/ DelayElapses
          \/ LookAtToken \/ SetOutcome

Next == Runner \/ RequestLands \/ LateRequestLands \/ CancelCalled

Spec == Init /\ [][Next]_vars

\* The executors run every block, and an attempt ends: NSURLSession times out.
FairSpec == Spec /\ WF_vars(Runner)

-----------------------------------------------------------------------------
(***************************************************************************)
(* Properties                                                              *)
(***************************************************************************)

\* The shape of the state.
TypeOK == /\ phase \in Phase
          /\ retryIfFailed \in BOOLEAN
          /\ attempts \in 0 .. MaxAttempts
          /\ delay \in Nat /\ firstDelay \in Nat /\ waited \in Nat
          /\ ending \in Ending \cup {"none"}
          /\ verdict \in {"none", "success", "failure", "cancelled"} /\ looks \in Nat
          /\ result \in {"none", "success", "failure", "cancelled"}
          /\ cancelRequested \in BOOLEAN /\ taskCancelled \in BOOLEAN
          /\ current \in {"none", "wire", "landed"}
          /\ late \in Nat /\ sent \in Nat /\ landed \in Nat
          /\ sentBeforeCancel \in Nat /\ cancelledInTime \in BOOLEAN

\* A command goes out at most MaxAttempts times, and once without the option:
\* without it the server never carries a command out twice.
SentAtMostAllowed == sent <= Allowed

\* The powers of two.
TwoTo[n \in 0 .. MaxAttempts] == IF n = 0 THEN 1 ELSE 2 * TwoTo[n - 1]

\* The back-off: all delays together stay below the sum of the doubling series
\* 1 + 2 + 4 + ... with a term per retry, so a caller waits a bounded time.
BackOffBounded == waited <= firstDelay * (TwoTo[MaxAttempts - 1] - 1)

\* Cancelling stops the retries: at most the one attempt that passed the check
\* of the token before the call still goes out.
OneRequestAfterCancel == cancelRequested => sent <= sentBeforeCancel + 1

\* What went on the wire is there still, has been carried out, or was lost.
WireAccounts ==
    /\ landed + late + (IF current = "wire" THEN 1 ELSE 0) <= sent
    /\ current # "none" => phase = "running"
    /\ current = "landed" => landed > 0
    /\ "success" \in {ending, verdict, result} => landed > 0

\* Every attempt made uses up one of those the command has left.
AttemptsLeft ==
    /\ attempts <= Allowed
    /\ phase = "idle" => attempts = 0 /\ sent = 0
    /\ attempts = 0 => phase \in {"idle", "done"} /\ sent = 0
    /\ phase = "waiting" => attempts > 1
    /\ attempts > 0 => sent + attempts <= Allowed + 1
    /\ phase \in {"starting", "opening", "registered"}
          => sent + attempts <= Allowed

\* No attempt is opened once the caller has cancelled.
NothingOpensAfterCancel ==
    cancelRequested => /\ sent <= sentBeforeCancel + 1
                       /\ phase \in {"opening", "registered"}
                             => sent = sentBeforeCancel

\* The delay has doubled with every attempt that was used up, and what was waited is
\* the sum of those before it; with the last one, when the wait was in vain.
DelaysDouble ==
    /\ attempts = 0 => firstDelay = 0 /\ delay = 0
    /\ attempts > 0 => delay = firstDelay * TwoTo[Allowed - attempts]
    /\ \/ waited + firstDelay = delay
       \/ phase \in {"settling", "done"} /\ attempts > 1 /\ waited + firstDelay = 2 * delay

\* A retrying command tells its caller of a cancellation exactly when that came before
\* the last look at the token: in an attempt that succeeds all the same, in a delay, or
\* between the looks. One that comes later, though before completion, goes unreported.
CancelledIsReported ==
    retryIfFailed /\ result # "none" => (result = "cancelled" <=> cancelledInTime)

\* Why it does: whoever looks sees a cancellation that came in time, and passes it on.
CancelIsPassedOn ==
    /\ cancelledInTime \/ "cancelled" \in {verdict, ending} \/ taskCancelled
          => cancelRequested
    /\ cancelRequested /\ LookAhead => cancelledInTime
    /\ phase = "settling" =>
          /\ retryIfFailed /\ verdict # "none"
          /\ verdict = "cancelled" => cancelledInTime
          /\ cancelledInTime /\ looks = 0 => verdict = "cancelled"

\* The inductive invariant of the runner.
Inv == /\ TypeOK
       /\ WireAccounts
       /\ AttemptsLeft
       /\ NothingOpensAfterCancel
       /\ CancelIsPassedOn /\ CancelledIsReported
       /\ phase # "done" <=> result = "none"

CallerKnows == IF attempts = 0 THEN "idle"
               ELSE IF phase # "done" THEN "pending"
               ELSE IF result = "success" THEN "success" ELSE "failure"

Abstract == INSTANCE RemoteCall
    WITH Call    <- {"command"},
         outcome <- [c \in {"command"} |-> CallerKnows],
         sent    <- [c \in {"command"} |-> sent],
         landed  <- [c \in {"command"} |-> landed]

\* The runner keeps the promise the uploads of the photo stream rely on. A
\* command cancelled before it starts is no call at all.
ImplementsRemoteCall == Abstract!Spec

\* Every command that is run completes, unless the caller cancels it between
\* the registration of an attempt and the resumption of its data task.
CommandCompletes ==
    phase = "starting" ~> phase = "done" \/ (phase = "lost" /\ cancelRequested)
=============================================================================
