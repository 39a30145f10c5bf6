-------------------------------- MODULE Task --------------------------------
(***************************************************************************)
(* A BFTask shared by several threads, at the granularity of its lock and  *)
(* its condition: one thread completes it, others continue it or wait for  *)
(* it, and a continuation may itself continue the task it runs for.        *)
(*                                                                         *)
(* The lock is recursive and held while the continuations run; what is     *)
(* done under it in one go is one action.  An executor runs a block in     *)
(* place or posts it to a queue, which any idle thread serves: the default *)
(* executor does either, depending on the depth of the stack, that of the  *)
(* main thread posts from every other thread.                              *)
(***************************************************************************)
EXTENDS Naturals, Sequences, SequencesExt

CONSTANTS Thread,
          Waiter,        \* the threads that may wait for the task
          Continuation,  \* the calls of continueWith...
          SuccessOnly    \* those of them made by continueWithSuccessBlock

ASSUME TaskAssumption == /\ Waiter \subseteq Thread
                         /\ SuccessOnly \subseteq Continuation
                         /\ "nobody" \notin Thread

VARIABLES outcome,    \* "none" until completed, then how
          callbacks,  \* the wrapped blocks not yet run
          next,       \* the position runContinuations has reached
          lock,       \* the thread in @synchronized(self.lock), or "nobody"
          condition,  \* the thread in [condition lock], or "nobody"
          pc,         \* per thread, where it is in trySet... or wait
          blocks,     \* per thread, the blocks it is in, the innermost last
          posted,     \* blocks an executor has put on a queue
          requested,  \* continuations whose cancellation token is cancelled
          asked,      \* the continuations the task was given
          called,     \* per continuation, how often its wrapped block was entered
          ran,        \* continuations whose own block was called
          derived     \* per continuation, the outcome of the task it returned,
                      \* "awaiting" while that follows the task of its block

syncVars == <<lock, condition, pc>>
listVars == <<callbacks, next>>
contVars == <<blocks, posted, asked, called, ran, derived>>
vars == <<outcome, listVars, syncVars, contVars, requested>>

Outcome == {"result", "error", "exception", "cancelled"}
Step == {"idle", "broadcast", "run", "toCondition", "atWait", "asleep", "woken"}

completed == outcome # "none"

\* Faulty: a cancelled task is not seen to have failed.
Faulted == outcome \in {"error", "exception"}

\* Faulted or cancelled: what continueWithSuccessBlock passes on.
Failed == outcome \in {"error", "exception", "cancelled"}

Goes(t, step) == pc' = [pc EXCEPT ![t] = step]

Mine(t) == lock \in {"nobody", t}

Init == /\ outcome = "none"
        /\ callbacks = <<>> /\ next = 1
        /\ lock = "nobody" /\ condition = "nobody"
        /\ pc = [t \in Thread |-> "idle"]
        /\ blocks = [t \in Thread |-> <<>>]
        /\ posted = {} /\ requested = {} /\ asked = {} /\ ran = {}
        /\ called = [c \in Continuation |-> 0]
        /\ derived = [c \in Continuation |-> "pending"]

-----------------------------------------------------------------------------
\* Faulty: trySet... without the test for completed.
TrySetAgain(t, o) ==
    /\ pc[t] = "idle" /\ blocks[t] = <<>> /\ lock = "nobody"
    /\ outcome' = o
    /\ lock' = t
    /\ Goes(t, "broadcast")
    /\ UNCHANGED <<listVars, condition, contVars, requested>>

\* trySetResult: and its three siblings; "returns NO" changes nothing.
TrySet(t, o) ==
    /\ pc[t] = "idle" /\ blocks[t] = <<>> /\ lock = "nobody"
    /\ IF completed
       THEN UNCHANGED vars
       ELSE /\ outcome' = o
            /\ lock' = t
            /\ Goes(t, "broadcast")
            /\ UNCHANGED <<listVars, condition, contVars, requested>>

\* Faulty: broadcasts without [condition lock].
BroadcastUnlocked(t) ==
    /\ pc[t] = "broadcast"
    /\ next' = 1
    /\ pc' = [w \in Thread |-> CASE w = t            -> "run"
                                 [] pc[w] = "asleep" -> "woken"
                                 [] OTHER            -> pc[w]]
    /\ UNCHANGED <<outcome, callbacks, lock, condition, contVars, requested>>

\* runContinuations wakes the waiters ...
Broadcast(t) ==
    /\ pc[t] = "broadcast" /\ condition = "nobody"
    /\ next' = 1
    /\ pc' = [w \in Thread |-> CASE w = t            -> "run"
                                 [] pc[w] = "asleep" -> "woken"
                                 [] OTHER            -> pc[w]]
    /\ UNCHANGED <<outcome, callbacks, lock, condition, contVars, requested>>

\* The wrapped block runs on thread t: a cancelled token ends it here; else the
\* block is called, unless it is for successes only and there is none.
Enter(c, t) ==
    /\ called' = [called EXCEPT ![c] = @ + 1]
    /\ IF c \in requested
       THEN /\ derived' = [derived EXCEPT ![c] = "cancelled"]
            /\ UNCHANGED <<blocks, ran>>
       ELSE /\ blocks' = [blocks EXCEPT ![t] = Append(@, c)]
            /\ ran' = IF c \in SuccessOnly /\ Failed THEN ran ELSE ran \cup {c}
            /\ UNCHANGED derived

\* [executor execute:]
Execute(c, t) ==
    \/ Enter(c, t) /\ UNCHANGED posted
    \/ posted' = posted \cup {c} /\ UNCHANGED <<blocks, called, ran, derived>>

\* ... and executes the callbacks, one after the other, with the lock held.
RunCallback(t) ==
    /\ pc[t] = "run" /\ blocks[t] = <<>>
    /\ next <= Len(callbacks)
    /\ next' = next + 1
    /\ Execute(callbacks[next], t)
    /\ UNCHANGED <<outcome, callbacks, syncVars, asked, requested>>

\* removeAllObjects; the lock is released.
FinishRun(t) ==
    /\ pc[t] = "run" /\ blocks[t] = <<>>
    /\ next > Len(callbacks)
    /\ callbacks' = <<>> /\ next' = 1
    /\ lock' = "nobody"
    /\ Goes(t, "idle")
    /\ UNCHANGED <<outcome, condition, contVars, requested>>

-----------------------------------------------------------------------------
\* A thread can call the task from outside or from a block it is in.
CanCall(t) == \/ pc[t] = "idle" /\ blocks[t] = <<>>
              \/ blocks[t] # <<>> /\ Last(blocks[t]) \in ran

Fresh(c) == c \notin asked /\ derived[c] = "pending"

\* continueWithSuccessBlock on a cancelled token does not ask the task at all.
Decline(t, c) ==
    /\ CanCall(t) /\ Fresh(c)
    /\ c \in SuccessOnly \cap requested
    /\ derived' = [derived EXCEPT ![c] = "cancelled"]
    /\ UNCHANGED <<outcome, listVars, syncVars, blocks, posted, asked, called,
                   ran, requested>>

\* Faulty: adds the callback whether or not the task has completed.
ContinueUntested(t, c) ==
    /\ CanCall(t) /\ Fresh(c) /\ Mine(t)
    /\ asked' = asked \cup {c}
    /\ callbacks' = Append(callbacks, c)
    /\ UNCHANGED <<outcome, next, syncVars, blocks, posted, called, ran, derived,
                   requested>>

\* Faulty: the test for completed is the wrong way round.
ContinueInverted(t, c) ==
    /\ CanCall(t) /\ Fresh(c) /\ Mine(t)
    /\ asked' = asked \cup {c}
    /\ IF completed
       THEN /\ callbacks' = Append(callbacks, c)
            /\ UNCHANGED <<blocks, posted, called, ran, derived>>
       ELSE /\ Execute(c, t)
            /\ UNCHANGED callbacks
    /\ UNCHANGED <<outcome, next, syncVars, requested>>

\* continueWithExecutor: adds the callback, or executes it if the task has
\* completed; a task that has completed stays so, the lock may be released first.
Continue(t, c) ==
    /\ CanCall(t) /\ Fresh(c) /\ Mine(t)
    /\ c \in SuccessOnly => c \notin requested
    /\ asked' = asked \cup {c}
    /\ IF completed
       THEN /\ Execute(c, t)
            /\ UNCHANGED callbacks
       ELSE /\ callbacks' = Append(callbacks, c)
            /\ UNCHANGED <<blocks, posted, called, ran, derived>>
    /\ UNCHANGED <<outcome, next, syncVars, requested>>

\* An idle thread takes a block from a queue.
Dispatch(t, c) ==
    /\ pc[t] = "idle" /\ blocks[t] = <<>>
    /\ c \in posted
    /\ posted' = posted \ {c}
    /\ Enter(c, t)
    /\ UNCHANGED <<outcome, listVars, syncVars, asked, requested>>

\* setupWithTask: the derived task ends as the task of the block did.
Follow(c, o) == IF c \in requested THEN "cancelled" ELSE o

\* The block of the innermost continuation returns a value, a task that has not
\* completed, or one that has; or it raises.  Without a success a block for
\* successes returns the task it continues.
Return(t) ==
    /\ blocks[t] # <<>>
    /\ LET c == Last(blocks[t])
       IN  /\ blocks' = [blocks EXCEPT ![t] = Front(@)]
           /\ \E how \in IF c \in ran
                         THEN {"result", "exception", "awaiting"}
                                \cup {Follow(c, o) : o \in Outcome}
                         ELSE {Follow(c, outcome)} :
                 derived' = [derived EXCEPT ![c] = how]
    /\ UNCHANGED <<outcome, listVars, syncVars, posted, asked, called, ran, requested>>

\* The task a block returned completes.
InnerCompletes(c, o) ==
    /\ derived[c] = "awaiting"
    /\ derived' = [derived EXCEPT ![c] = Follow(c, o)]
    /\ UNCHANGED <<outcome, listVars, syncVars, blocks, posted, asked, called, ran,
                   requested>>

\* Somebody cancels the token that was passed with the continuation.
RequestCancel(c) ==
    /\ c \notin requested
    /\ requested' = requested \cup {c}
    /\ UNCHANGED <<outcome, listVars, syncVars, contVars>>

-----------------------------------------------------------------------------
\* Faulty: waits without [condition lock].
WaitUnlocked(t) ==
    /\ t \in Waiter
    /\ pc[t] = "idle" /\ blocks[t] = <<>> /\ lock = "nobody"
    /\ IF completed
       THEN UNCHANGED vars
       ELSE /\ Goes(t, "atWait")
            /\ UNCHANGED <<outcome, listVars, lock, condition, contVars, requested>>

\* waitUntilFinished: with the lock held, returns at once or goes for the
\* condition ...
Wait(t) ==
    /\ t \in Waiter
    /\ pc[t] = "idle" /\ blocks[t] = <<>> /\ lock = "nobody"
    /\ IF completed
       THEN UNCHANGED vars
       ELSE /\ lock' = t
            /\ Goes(t, "toCondition")
            /\ UNCHANGED <<outcome, listVars, condition, contVars, requested>>

\* ... and releases the lock once it has it.
TakeCondition(t) ==
    /\ pc[t] = "toCondition" /\ condition = "nobody"
    /\ condition' = t
    /\ lock' = "nobody"
    /\ Goes(t, "atWait")
    /\ UNCHANGED <<outcome, listVars, contVars, requested>>

\* [condition wait] releases the condition and sleeps in one step.
Sleep(t) ==
    /\ pc[t] = "atWait"
    /\ condition' = "nobody"
    /\ Goes(t, "asleep")
    /\ UNCHANGED <<outcome, listVars, lock, contVars, requested>>

\* [condition wait] may return without a broadcast.
WakeSpuriously(t) ==
    /\ pc[t] = "asleep"
    /\ Goes(t, "woken")
    /\ UNCHANGED <<outcome, listVars, lock, condition, contVars, requested>>

\* The wait has the condition again, which is unlocked: the waiter returns.
StopWaiting(t) ==
    /\ pc[t] = "woken" /\ condition = "nobody"
    /\ Goes(t, "idle")
    /\ UNCHANGED <<outcome, listVars, lock, condition, contVars, requested>>

-----------------------------------------------------------------------------
\* What a thread that is in a call of the task does next.
Proceed(t) == \/ Broadcast(t) \/ RunCallback(t) \/ FinishRun(t) \/ Return(t)
              \/ TakeCondition(t) \/ Sleep(t) \/ StopWaiting(t)

Next == \/ \E t \in Thread : \/ \E o \in Outcome : TrySet(t, o)
                             \/ \E c \in Continuation : \/ Decline(t, c)
                                                        \/ Continue(t, c)
                                                        \/ Dispatch(t, c)
                             \/ Wait(t) \/ WakeSpuriously(t) \/ Proceed(t)
        \/ \E c \in Continuation : \/ RequestCancel(c)
                                   \/ \E o \in Outcome : InnerCompletes(c, o)

Spec == Init /\ [][Next]_vars

\* A thread goes on, a condition is handed to those who wait for it, a queue is
\* served; blocks return.
Fairness == /\ \A t \in Thread : WF_vars(Proceed(t))
            /\ \A c \in Continuation : WF_vars(\E t \in Thread : Dispatch(t, c))

FairSpec == Spec /\ Fairness

-----------------------------------------------------------------------------
TypeOK ==
    /\ outcome \in Outcome \cup {"none"}
    /\ callbacks \in Seq(Continuation) /\ next \in Nat \ {0}
    /\ lock \in Thread \cup {"nobody"} /\ condition \in Thread \cup {"nobody"}
    /\ pc \in [Thread -> Step]
    /\ blocks \in [Thread -> Seq(Continuation)]
    /\ posted \in SUBSET Continuation /\ requested \in SUBSET Continuation
    /\ asked \in SUBSET Continuation /\ ran \in SUBSET Continuation
    /\ called \in [Continuation -> Nat]
    /\ derived \in [Continuation -> Outcome \cup {"pending", "awaiting"}]

\* The lock belongs to the thread that completes the task or is about to wait,
\* and to no other; the condition to the thread that will sleep next.
LockIsOwned ==
    /\ \A t \in Thread : pc[t] \in {"broadcast", "run", "toCondition"} => lock = t
    /\ lock # "nobody" => pc[lock] \in {"broadcast", "run", "toCondition"}
    /\ \A t \in Thread : pc[t] = "atWait" => condition = t

\* Only a completed task broadcasts, runs callbacks or keeps blocks on a queue;
\* the list is enumerated from its beginning, by one thread, and then emptied.
RunsWhenCompleted ==
    /\ \A t \in Thread : pc[t] \in {"broadcast", "run"} => completed
    /\ posted # {} => completed
    /\ next # 1 => \E t \in Thread : pc[t] = "run"
    /\ completed /\ callbacks # <<>>
          => \E t \in Thread : pc[t] \in {"broadcast", "run"}

\* A continuation that is still in the list or on a queue has not been called,
\* and is in one of them only; its task is pending.
NotYetCalled ==
    /\ \A i, j \in 1 .. Len(callbacks) : callbacks[i] = callbacks[j] => i = j
    /\ \A i \in 1 .. Len(callbacks) :
          /\ callbacks[i] \in asked
          /\ i >= next => called[callbacks[i]] = 0 /\ callbacks[i] \notin posted
    /\ \A c \in posted : called[c] = 0 /\ c \in asked
    /\ \A c \in asked : called[c] = 0 => derived[c] = "pending"

\* A block in progress, and one whose task is awaited, has been called.
InProgressIsCalled ==
    /\ \A t \in Thread : \A i \in 1 .. Len(blocks[t]) : called[blocks[t][i]] > 0
    /\ \A c \in Continuation : derived[c] = "awaiting" => called[c] > 0
    /\ \A c \in ran : called[c] > 0

\* While runContinuations enumerates the callbacks nobody adds one, not even a
\* block that continues the task it runs for: the array would raise.
CallbacksFrozen == [][\A t \in Thread : pc[t] = "run" /\ pc'[t] = "run"
                                          => callbacks' = callbacks]_vars

\* A task completes once, however many threads try.
OutcomeIsSetOnce == [][completed => outcome' = outcome]_vars

\* A continuation is called once, after completion, whichever thread gave it to
\* the task and whenever.
CalledOnceAfterCompletion ==
    \A c \in Continuation : /\ called[c] <= 1
                            /\ called[c] > 0 => completed /\ c \in asked

\* A success block is never called for a task that failed, and what the next
\* task in the chain reports is that failure.
FailurePropagates ==
    \A c \in SuccessOnly :
        /\ c \in ran => outcome = "result"
        /\ Failed /\ called[c] > 0 =>
              derived[c] \in {"pending", outcome, "cancelled"}

\* When no thread is between two steps of a call, a completed task is unlocked
\* and has forgotten its callbacks.
QuietTaskIsFree ==
    completed /\ (\A t \in Thread : pc[t] = "idle")
        => lock = "nobody" /\ callbacks = <<>>

\* No wake-up is lost: a thread that found the task not completed, and is on its
\* way to sleep or sleeps, has the broadcast of the completion still before it
\* (waitUntilFinished gives the lock away before it waits).
NoWakeUpIsLost ==
    completed /\ (\E t \in Thread : pc[t] \in {"toCondition", "atWait", "asleep"})
        => \E t \in Thread : pc[t] = "broadcast"

\* The inductive invariant.
Inv == /\ TypeOK /\ LockIsOwned /\ RunsWhenCompleted /\ NotYetCalled
       /\ InProgressIsCalled /\ CalledOnceAfterCompletion /\ FailurePropagates
       /\ NoWakeUpIsLost

\* A completed task lets every waiter go.
WaitersReturn ==
    \A t \in Thread : pc[t] \in {"toCondition", "atWait", "asleep", "woken"}
                          /\ completed ~> pc[t] = "idle"

\* The continuations see what Promise promises, in time.
P == INSTANCE Promise
KeepsPromise == P!FairSpec
=============================================================================
