----------------------------- MODULE BoltsProofs -----------------------------
(***************************************************************************)
(* Proofs about what the application uses of Bolts, for any number of      *)
(* threads, continuations, children and observers.                         *)
(*                                                                         *)
(* The task.  Inv is inductive.  Of the properties it implies, two need    *)
(* the rest of it: that a continuation is called once needs NotYetCalled   *)
(* (what is in the list or posted has not been called, and is in one       *)
(* place only), and that the list stays as it is while it is enumerated    *)
(* needs RunsWhenCompleted and LockIsOwned (who enumerates holds the lock  *)
(* of a completed task, so nobody else gets to add or to clear).  The      *)
(* three ways in which a block starts (from the list, from a queue, or at  *)
(* once) have one lemma, BlockStarts; each action only shows its           *)
(* hypotheses.                                                             *)
(*                                                                         *)
(* The group.  GroupInv says where each child is between its outcome and   *)
(* the completion: the counter is the number of children not counted, so   *)
(* it is 0 for one continuation only, and that one comes when every child  *)
(* is noted.  The worst outcome is then a matter of the operators, shown   *)
(* apart (WorstOfAll, WorstIsNotInvented).                                 *)
(*                                                                         *)
(* The token.  TokenInv adds to Inv that what is to be treated or disposed *)
(* of was made, and that who is in a block is in a cancel.  A step is      *)
(* described once for both uses of the token, with and without assertions. *)
(***************************************************************************)
EXTENDS Bolts, SequenceFacts, FiniteSetTheorems, TLAPS

\* A thread that calls trySet... completes the task, or finds it completed.
LEMMA TrySetKeepsInv ==
    ASSUME Inv, NEW t \in Thread, NEW o \in Outcome, TrySet(t, o)
    PROVE  Inv'
<1> USE TaskAssumption DEF TrySet, Goes, listVars, syncVars, contVars, vars, Outcome,
    Step, completed
<1>1. TypeOK'
  BY DEF Inv, TypeOK, RunsWhenCompleted, CalledOnceAfterCompletion, InProgressIsCalled
<1>2. LockIsOwned'
  BY DEF Inv, TypeOK, LockIsOwned
<1>3. RunsWhenCompleted'
  BY DEF Inv, TypeOK, LockIsOwned, RunsWhenCompleted
<1>4. NotYetCalled'
  BY DEF Inv, TypeOK, LockIsOwned, RunsWhenCompleted, NotYetCalled,
      CalledOnceAfterCompletion, InProgressIsCalled
<1>5. InProgressIsCalled'
  BY DEF Inv, TypeOK, InProgressIsCalled
<1>6. CalledOnceAfterCompletion'
  BY DEF Inv, TypeOK, RunsWhenCompleted, NotYetCalled, CalledOnceAfterCompletion
<1>7. FailurePropagates'
  BY DEF Inv, TypeOK, RunsWhenCompleted, NotYetCalled, InProgressIsCalled,
      CalledOnceAfterCompletion, FailurePropagates, Failed
<1>8. NoWakeUpIsLost'
  BY DEF Inv, TypeOK, LockIsOwned, RunsWhenCompleted, NoWakeUpIsLost
<1> QED BY <1>1, <1>2, <1>3, <1>4, <1>5, <1>6, <1>7, <1>8 DEF Inv

\* The completing thread wakes the waiters and begins to enumerate the callbacks.
LEMMA BroadcastKeepsInv ==
    ASSUME Inv, NEW t \in Thread, Broadcast(t)
    PROVE  Inv'
<1> USE TaskAssumption DEF Broadcast, listVars, syncVars, contVars, vars, Outcome, Step,
    completed
<1>1. TypeOK'
  BY DEF Inv, TypeOK, RunsWhenCompleted, CalledOnceAfterCompletion, InProgressIsCalled
<1>2. LockIsOwned'
  BY DEF Inv, TypeOK, LockIsOwned
<1>3. RunsWhenCompleted'
  BY DEF Inv, TypeOK, LockIsOwned, RunsWhenCompleted
<1>4. NotYetCalled'
  BY DEF Inv, TypeOK, LockIsOwned, RunsWhenCompleted, NotYetCalled,
      CalledOnceAfterCompletion, InProgressIsCalled
<1>5. NoWakeUpIsLost'
  BY DEF Inv, TypeOK, LockIsOwned, RunsWhenCompleted, NoWakeUpIsLost
<1>6. InProgressIsCalled' /\ CalledOnceAfterCompletion' /\ FailurePropagates'
  BY DEF Inv, InProgressIsCalled, CalledOnceAfterCompletion, FailurePropagates, Failed
<1> QED BY <1>1, <1>2, <1>3, <1>4, <1>5, <1>6 DEF Inv

\* The completing thread has called the callbacks, empties their list and unlocks.
LEMMA FinishRunKeepsInv ==
    ASSUME Inv, NEW t \in Thread, FinishRun(t)
    PROVE  Inv'
<1> USE TaskAssumption DEF FinishRun, Goes, listVars, syncVars, contVars, vars, Outcome,
    Step, completed
<1>1. TypeOK'
  BY DEF Inv, TypeOK, RunsWhenCompleted, CalledOnceAfterCompletion, InProgressIsCalled
<1>2. LockIsOwned'
  BY DEF Inv, TypeOK, LockIsOwned
<1>3. RunsWhenCompleted'
  BY DEF Inv, TypeOK, LockIsOwned, RunsWhenCompleted
<1>4. NotYetCalled'
  BY DEF Inv, TypeOK, LockIsOwned, RunsWhenCompleted, NotYetCalled,
      CalledOnceAfterCompletion, InProgressIsCalled
<1>5. NoWakeUpIsLost'
  BY DEF Inv, TypeOK, LockIsOwned, RunsWhenCompleted, NoWakeUpIsLost
<1>6. InProgressIsCalled' /\ CalledOnceAfterCompletion' /\ FailurePropagates'
  BY DEF Inv, InProgressIsCalled, CalledOnceAfterCompletion, FailurePropagates, Failed
<1> QED BY <1>1, <1>2, <1>3, <1>4, <1>5, <1>6 DEF Inv

\* A continuation whose token is cancelled already is not added; its task is cancelled.
LEMMA DeclineKeepsInv ==
    ASSUME Inv, NEW t \in Thread, NEW c \in Continuation, Decline(t, c)
    PROVE  Inv'
<1> USE TaskAssumption DEF Decline, Fresh, listVars, syncVars, contVars, vars, Outcome,
    Step, completed
<1>1. TypeOK'
  BY DEF Inv, TypeOK, RunsWhenCompleted, CalledOnceAfterCompletion, InProgressIsCalled
<1>2. NotYetCalled'
  BY DEF Inv, TypeOK, LockIsOwned, RunsWhenCompleted, NotYetCalled,
      CalledOnceAfterCompletion, InProgressIsCalled
<1>3. InProgressIsCalled'
  BY DEF Inv, TypeOK, InProgressIsCalled
<1>4. FailurePropagates'
  BY DEF Inv, TypeOK, RunsWhenCompleted, NotYetCalled, InProgressIsCalled,
      CalledOnceAfterCompletion, FailurePropagates, Failed
<1>5. LockIsOwned' /\ RunsWhenCompleted' /\ CalledOnceAfterCompletion' /\
    NoWakeUpIsLost'
  BY DEF Inv, LockIsOwned, RunsWhenCompleted, CalledOnceAfterCompletion, NoWakeUpIsLost
<1> QED BY <1>1, <1>2, <1>3, <1>4, <1>5 DEF Inv

\* The task that a block returned completes, and the derived task follows it.
LEMMA InnerCompletesKeepsInv ==
    ASSUME Inv, NEW c \in Continuation, NEW o \in Outcome, InnerCompletes(c, o)
    PROVE  Inv'
<1> USE TaskAssumption DEF InnerCompletes, Follow, listVars, syncVars, contVars, vars,
    Outcome, Step, completed
<1>1. TypeOK'
  BY DEF Inv, TypeOK, RunsWhenCompleted, CalledOnceAfterCompletion, InProgressIsCalled
<1>2. NotYetCalled'
  BY DEF Inv, TypeOK, LockIsOwned, RunsWhenCompleted, NotYetCalled,
      CalledOnceAfterCompletion, InProgressIsCalled
<1>3. InProgressIsCalled'
  BY DEF Inv, TypeOK, InProgressIsCalled
<1>4. FailurePropagates'
  BY DEF Inv, TypeOK, RunsWhenCompleted, NotYetCalled, InProgressIsCalled,
      CalledOnceAfterCompletion, FailurePropagates, Failed
<1>5. LockIsOwned' /\ RunsWhenCompleted' /\ CalledOnceAfterCompletion' /\
    NoWakeUpIsLost'
  BY DEF Inv, LockIsOwned, RunsWhenCompleted, CalledOnceAfterCompletion, NoWakeUpIsLost
<1> QED BY <1>1, <1>2, <1>3, <1>4, <1>5 DEF Inv

\* The token of a continuation is cancelled.
LEMMA RequestCancelKeepsInv ==
    ASSUME Inv, NEW c \in Continuation, RequestCancel(c)
    PROVE  Inv'
<1> USE TaskAssumption DEF RequestCancel, listVars, syncVars, contVars, vars, Outcome,
    Step, completed
<1>1. TypeOK'
  BY DEF Inv, TypeOK, RunsWhenCompleted, CalledOnceAfterCompletion, InProgressIsCalled
<1>2. LockIsOwned' /\ RunsWhenCompleted' /\ NotYetCalled' /\ InProgressIsCalled' /\
    CalledOnceAfterCompletion' /\ FailurePropagates' /\ NoWakeUpIsLost'
  BY DEF Inv, LockIsOwned, RunsWhenCompleted, NotYetCalled, InProgressIsCalled,
      CalledOnceAfterCompletion, FailurePropagates, NoWakeUpIsLost, Failed
<1> QED BY <1>1, <1>2 DEF Inv

\* A thread looks at the task's completion under the lock and returns, or goes on to wait.
LEMMA WaitKeepsInv ==
    ASSUME Inv, NEW t \in Thread, Wait(t)
    PROVE  Inv'
<1> USE TaskAssumption DEF Wait, Goes, listVars, syncVars, contVars, vars, Outcome,
    Step, completed
<1>1. TypeOK'
  <2>1. CASE completed
    BY <2>1 DEF Inv, TypeOK
  <2>2. CASE ~completed
    BY <2>2 DEF Inv, TypeOK
  <2> QED BY <2>1, <2>2
<1>2. LockIsOwned'
  BY DEF Inv, TypeOK, LockIsOwned
<1>3. RunsWhenCompleted'
  BY DEF Inv, TypeOK, LockIsOwned, RunsWhenCompleted
<1>4. NotYetCalled'
  BY DEF Inv, TypeOK, LockIsOwned, RunsWhenCompleted, NotYetCalled,
      CalledOnceAfterCompletion, InProgressIsCalled
<1>5. InProgressIsCalled'
  BY DEF Inv, TypeOK, InProgressIsCalled
<1>6. CalledOnceAfterCompletion'
  BY DEF Inv, TypeOK, RunsWhenCompleted, NotYetCalled, CalledOnceAfterCompletion
<1>7. FailurePropagates'
  BY DEF Inv, TypeOK, RunsWhenCompleted, NotYetCalled, InProgressIsCalled,
      CalledOnceAfterCompletion, FailurePropagates, Failed
<1>8. NoWakeUpIsLost'
  BY DEF Inv, TypeOK, LockIsOwned, RunsWhenCompleted, NoWakeUpIsLost
<1> QED BY <1>1, <1>2, <1>3, <1>4, <1>5, <1>6, <1>7, <1>8 DEF Inv

\* A waiter locks the condition and releases the task.
LEMMA TakeConditionKeepsInv ==
    ASSUME Inv, NEW t \in Thread, TakeCondition(t)
    PROVE  Inv'
<1> USE TaskAssumption DEF TakeCondition, Goes, listVars, syncVars, contVars, vars,
    Outcome, Step, completed
<1>1. TypeOK'
  BY DEF Inv, TypeOK, RunsWhenCompleted, CalledOnceAfterCompletion, InProgressIsCalled
<1>2. LockIsOwned'
  BY DEF Inv, TypeOK, LockIsOwned
<1>3. RunsWhenCompleted'
  BY DEF Inv, TypeOK, LockIsOwned, RunsWhenCompleted
<1>4. NoWakeUpIsLost'
  BY DEF Inv, TypeOK, LockIsOwned, RunsWhenCompleted, NoWakeUpIsLost
<1>5. NotYetCalled' /\ InProgressIsCalled' /\ CalledOnceAfterCompletion' /\
    FailurePropagates'
  BY DEF Inv, NotYetCalled, InProgressIsCalled, CalledOnceAfterCompletion,
      FailurePropagates, Failed
<1> QED BY <1>1, <1>2, <1>3, <1>4, <1>5 DEF Inv

\* A waiter goes to sleep and releases the condition.
LEMMA SleepKeepsInv ==
    ASSUME Inv, NEW t \in Thread, Sleep(t)
    PROVE  Inv'
<1> USE TaskAssumption DEF Sleep, Goes, listVars, syncVars, contVars, vars, Outcome,
    Step, completed
<1>1. TypeOK'
  BY DEF Inv, TypeOK, RunsWhenCompleted, CalledOnceAfterCompletion, InProgressIsCalled
<1>2. LockIsOwned'
  BY DEF Inv, TypeOK, LockIsOwned
<1>3. RunsWhenCompleted'
  BY DEF Inv, TypeOK, LockIsOwned, RunsWhenCompleted
<1>4. NoWakeUpIsLost'
  BY DEF Inv, TypeOK, LockIsOwned, RunsWhenCompleted, NoWakeUpIsLost
<1>5. NotYetCalled' /\ InProgressIsCalled' /\ CalledOnceAfterCompletion' /\
    FailurePropagates'
  BY DEF Inv, NotYetCalled, InProgressIsCalled, CalledOnceAfterCompletion,
      FailurePropagates, Failed
<1> QED BY <1>1, <1>2, <1>3, <1>4, <1>5 DEF Inv

\* A waiter wakes without a broadcast.
LEMMA WakeSpuriouslyKeepsInv ==
    ASSUME Inv, NEW t \in Thread, WakeSpuriously(t)
    PROVE  Inv'
<1> USE TaskAssumption DEF WakeSpuriously, Goes, listVars, syncVars, contVars, vars,
    Outcome, Step, completed
<1>1. TypeOK'
  BY DEF Inv, TypeOK, RunsWhenCompleted, CalledOnceAfterCompletion, InProgressIsCalled
<1>2. LockIsOwned'
  BY DEF Inv, TypeOK, LockIsOwned
<1>3. RunsWhenCompleted'
  BY DEF Inv, TypeOK, LockIsOwned, RunsWhenCompleted
<1>4. NoWakeUpIsLost'
  BY DEF Inv, TypeOK, LockIsOwned, RunsWhenCompleted, NoWakeUpIsLost
<1>5. NotYetCalled' /\ InProgressIsCalled' /\ CalledOnceAfterCompletion' /\
    FailurePropagates'
  BY DEF Inv, NotYetCalled, InProgressIsCalled, CalledOnceAfterCompletion,
      FailurePropagates, Failed
<1> QED BY <1>1, <1>2, <1>3, <1>4, <1>5 DEF Inv

\* A waiter that was woken returns.
LEMMA StopWaitingKeepsInv ==
    ASSUME Inv, NEW t \in Thread, StopWaiting(t)
    PROVE  Inv'
<1> USE TaskAssumption DEF StopWaiting, Goes, listVars, syncVars, contVars, vars,
    Outcome, Step, completed
<1>1. TypeOK'
  BY DEF Inv, TypeOK, RunsWhenCompleted, CalledOnceAfterCompletion, InProgressIsCalled
<1>2. LockIsOwned'
  BY DEF Inv, TypeOK, LockIsOwned
<1>3. RunsWhenCompleted'
  BY DEF Inv, TypeOK, LockIsOwned, RunsWhenCompleted
<1>4. NoWakeUpIsLost'
  BY DEF Inv, TypeOK, LockIsOwned, RunsWhenCompleted, NoWakeUpIsLost
<1>5. NotYetCalled' /\ InProgressIsCalled' /\ CalledOnceAfterCompletion' /\
    FailurePropagates'
  BY DEF Inv, NotYetCalled, InProgressIsCalled, CalledOnceAfterCompletion,
      FailurePropagates, Failed
<1> QED BY <1>1, <1>2, <1>3, <1>4, <1>5 DEF Inv


\* The innermost block and those around it.
LEMMA LastAndFront ==
    ASSUME NEW S, NEW s \in Seq(S), s # <<>>
    PROVE  /\ Len(s) \in 1 .. Len(s)
           /\ Last(s) = s[Len(s)] /\ Last(s) \in S
           /\ Front(s) \in Seq(S)
           /\ Len(Front(s)) = Len(s) - 1
           /\ \A i \in 1 .. Len(s) - 1 : Front(s)[i] = s[i]
<1>1. Len(s) \in Nat /\ Len(s) # 0
  OBVIOUS
<1>2. Len(s) \in 1 .. Len(s) /\ Len(s) - 1 \in 0 .. Len(s)
  BY <1>1
<1>3. /\ SubSeq(s, 1, Len(s) - 1) \in Seq(S)
      /\ Len(SubSeq(s, 1, Len(s) - 1)) = Len(s) - 1
      /\ \A i \in 1 .. Len(s) - 1 : SubSeq(s, 1, Len(s) - 1)[i] = s[i]
  BY <1>2, PrefixType
<1>4. s[Len(s)] \in S
  BY <1>2
<1> QED BY <1>2, <1>3, <1>4 DEF Last, Front

\* The innermost block of a thread returns.
LEMMA ReturnKeepsInv ==
    ASSUME Inv, NEW t \in Thread, Return(t)
    PROVE  Inv'
<1> DEFINE s == blocks[t]
           c == Last(s)
<1>1. /\ s \in Seq(Continuation) /\ s # <<>>
      /\ blocks' = [blocks EXCEPT ![t] = Front(s)]
      /\ UNCHANGED <<outcome, listVars, syncVars, posted, asked, called, ran, requested>>
  BY DEF Inv, TypeOK, Return
<1>2. PICK how \in Outcome \cup {"awaiting"} \cup {Follow(c, outcome)} :
         /\ derived' = [derived EXCEPT ![c] = how]
         /\ c \notin ran => how = Follow(c, outcome)
  BY DEF Return, Follow, Outcome
<1>3. /\ c \in Continuation /\ c = s[Len(s)] /\ Len(s) \in 1 .. Len(s)
      /\ Front(s) \in Seq(Continuation) /\ Len(Front(s)) = Len(s) - 1
      /\ \A i \in 1 .. Len(s) - 1 : Front(s)[i] = s[i]
  BY <1>1, LastAndFront
<1>4. called[c] > 0 /\ completed /\ c \in asked
  BY <1>3 DEF Inv, InProgressIsCalled, CalledOnceAfterCompletion
<1>5. how \in Outcome \cup {"awaiting"}
  BY <1>4 DEF Inv, TypeOK, completed, Follow, Outcome
<1> HIDE DEF s, c
<1>6. TypeOK'
  BY <1>1, <1>2, <1>3, <1>5 DEF Inv, TypeOK, listVars, syncVars
<1>7. NotYetCalled'
  BY <1>1, <1>2, <1>3, <1>4 DEF Inv, TypeOK, NotYetCalled, listVars
<1>8. InProgressIsCalled'
  <2>1. ASSUME NEW u \in Thread, NEW i \in 1 .. Len(blocks'[u]) PROVE
      called[blocks'[u][i]] > 0
    <3>1. CASE u = t
      <4>1. blocks'[t] = Front(s)
        BY <1>1 DEF Inv, TypeOK
      <4>2. i \in 1 .. Len(s) /\ blocks'[t][i] = s[i]
        BY <1>3, <2>1, <3>1, <4>1
      <4> QED BY <3>1, <4>2 DEF Inv, InProgressIsCalled, s
    <3>2. CASE u # t
      <4>1. blocks'[u] = blocks[u]
        BY <1>1, <3>2 DEF Inv, TypeOK
      <4> QED BY <2>1, <4>1 DEF Inv, InProgressIsCalled
    <3> QED BY <3>1, <3>2
  <2> QED BY <2>1, <1>1, <1>2, <1>3, <1>4 DEF Inv, TypeOK, InProgressIsCalled
<1>9. FailurePropagates'
  <2>1. outcome' = outcome /\ ran' = ran /\ called' = called
    BY <1>1
  <2>2. ASSUME NEW d \in SuccessOnly, Failed, called[d] > 0
        PROVE  derived'[d] \in {"pending", outcome, "cancelled"}
    <3>1. CASE d # c
      BY <1>2, <2>2, <3>1, TaskAssumption DEF Inv, TypeOK, FailurePropagates
    <3>2. CASE d = c
      <4>1. c \notin ran
        BY <2>2, <3>2 DEF Inv, FailurePropagates, Failed
      <4> QED BY <1>2, <1>3, <3>2, <4>1 DEF Inv, TypeOK, Follow
    <3> QED BY <3>1, <3>2
  <2> QED BY <2>1, <2>2 DEF Inv, FailurePropagates, Failed
<1>10. LockIsOwned' /\ RunsWhenCompleted' /\ CalledOnceAfterCompletion' /\
    NoWakeUpIsLost'
  BY <1>1 DEF Inv, LockIsOwned, RunsWhenCompleted, CalledOnceAfterCompletion,
              NoWakeUpIsLost, completed, listVars, syncVars
<1> QED BY <1>6, <1>7, <1>8, <1>9, <1>10 DEF Inv

\* What it means for a wrapped block to be entered.
LEMMA EnterEffects ==
    ASSUME TypeOK, NEW c \in Continuation, NEW t \in Thread, Enter(c, t)
    PROVE  /\ called' \in [Continuation -> Nat] /\ called'[c] = called[c] + 1
           /\ \A d \in Continuation \ {c} :
                 called'[d] = called[d] /\ derived'[d] = derived[d]
           /\ derived' \in [Continuation -> Outcome \cup {"pending", "awaiting"}]
           /\ derived'[c] \in {derived[c], "cancelled"}
           /\ blocks' \in [Thread -> Seq(Continuation)]
           /\ \A u \in Thread : \A i \in 1 .. Len(blocks'[u]) :
                 \/ blocks'[u][i] = c
                 \/ i \in 1 .. Len(blocks[u]) /\ blocks'[u][i] = blocks[u][i]
           /\ ran' \in SUBSET Continuation
           /\ \A d \in ran' : d \in ran \/ (d = c /\ ~(c \in SuccessOnly /\ Failed))
<1>1. /\ called' \in [Continuation -> Nat] /\ called'[c] = called[c] + 1
      /\ \A d \in Continuation \ {c} : called'[d] = called[d]
  BY DEF TypeOK, Enter
<1>2. /\ \A d \in Continuation \ {c} : derived'[d] = derived[d]
      /\ derived' \in [Continuation -> Outcome \cup {"pending", "awaiting"}]
      /\ derived'[c] \in {derived[c], "cancelled"}
  BY DEF TypeOK, Enter, Outcome
<1>3. ran' \in SUBSET Continuation
      /\ \A d \in ran' : d \in ran \/ (d = c /\ ~(c \in SuccessOnly /\ Failed))
  BY DEF TypeOK, Enter
<1>4. /\ blocks' \in [Thread -> Seq(Continuation)]
      /\ \A u \in Thread : \A i \in 1 .. Len(blocks'[u]) :
            \/ blocks'[u][i] = c
            \/ i \in 1 .. Len(blocks[u]) /\ blocks'[u][i] = blocks[u][i]
  <2>1. CASE blocks' = blocks
    BY <2>1 DEF TypeOK
  <2>2. CASE blocks' = [blocks EXCEPT ![t] = Append(@, c)]
    <3>1. blocks[t] \in Seq(Continuation)
      BY DEF TypeOK
    <3>2. /\ blocks'[t] = Append(blocks[t], c)
          /\ \A u \in Thread \ {t} : blocks'[u] = blocks[u]
      BY <2>2 DEF TypeOK
    <3>3. /\ Append(blocks[t], c) \in Seq(Continuation)
          /\ Len(Append(blocks[t], c)) = Len(blocks[t]) + 1
          /\ \A i \in 1 .. Len(blocks[t]) : Append(blocks[t], c)[i] = blocks[t][i]
          /\ Append(blocks[t], c)[Len(blocks[t]) + 1] = c
          /\ Len(blocks[t]) \in Nat
      BY <3>1
    <3>4. blocks' \in [Thread -> Seq(Continuation)]
      BY <2>2, <3>3 DEF TypeOK
    <3>5. ASSUME NEW u \in Thread, NEW i \in 1 .. Len(blocks'[u])
          PROVE  \/ blocks'[u][i] = c
                 \/ i \in 1 .. Len(blocks[u]) /\ blocks'[u][i] = blocks[u][i]
      <4>1. CASE u # t
        BY <3>2, <4>1
      <4>2. CASE u = t
        <5>1. i \in 1 .. Len(blocks[t]) \/ i = Len(blocks[t]) + 1
          BY <3>2, <3>3, <3>5, <4>2
        <5> QED BY <3>2, <3>3, <4>2, <5>1
      <4> QED BY <4>1, <4>2
    <3> QED BY <3>4, <3>5
  <2> QED BY <2>1, <2>2 DEF Enter
<1> QED BY <1>1, <1>2, <1>3, <1>4

\* A block of a completed task that has not been called is entered, or put on a
\* queue, and leaves the place where it was kept.
LEMMA BlockStarts ==
    ASSUME Inv, NEW c \in Continuation, NEW t \in Thread,
           completed, called[c] = 0, derived[c] = "pending",
           asked' \in {asked, asked \cup {c}}, c \in asked',
           UNCHANGED <<outcome, callbacks, syncVars, requested>>,
           next' \in Nat \ {0}, next' >= next,
           next' # 1 => \E u \in Thread : pc[u] = "run",
           \A i \in 1 .. Len(callbacks) : i >= next' => callbacks[i] # c,
           \/ Enter(c, t) /\ posted' = posted \ {c}
           \/ posted' = posted \cup {c} /\ UNCHANGED <<blocks, called, ran, derived>>
    PROVE  Inv'
<1> USE DEF syncVars
<1>1. LockIsOwned' /\ RunsWhenCompleted' /\ NoWakeUpIsLost'
  BY DEF Inv, TypeOK, LockIsOwned, RunsWhenCompleted, NoWakeUpIsLost, completed
<1>2. CASE Enter(c, t) /\ posted' = posted \ {c}
  <2> DEFINE Effects ==
       /\ called' \in [Continuation -> Nat] /\ called'[c] = called[c] + 1
       /\ \A d \in Continuation \ {c} : called'[d] = called[d] /\ derived'[d] = derived[d]
       /\ derived' \in [Continuation -> Outcome \cup {"pending", "awaiting"}]
       /\ derived'[c] \in {derived[c], "cancelled"}
       /\ blocks' \in [Thread -> Seq(Continuation)]
       /\ \A u \in Thread : \A i \in 1 .. Len(blocks'[u]) :
             \/ blocks'[u][i] = c
             \/ i \in 1 .. Len(blocks[u]) /\ blocks'[u][i] = blocks[u][i]
       /\ ran' \in SUBSET Continuation
       /\ \A d \in ran' : d \in ran \/ (d = c /\ ~(c \in SuccessOnly /\ Failed))
  <2>1. Effects
    BY <1>2, EnterEffects DEF Inv
  <2>2. TypeOK'
    BY <1>2, <2>1 DEF Inv, TypeOK
  <2>3. NotYetCalled'
    <3>1. \A i \in 1 .. Len(callbacks) : i >= next' => callbacks[i] \in Continuation \ {c}
      BY DEF Inv, TypeOK
    <3>2. \A i \in 1 .. Len(callbacks) : callbacks[i] \in asked'
      BY DEF Inv, NotYetCalled
    <3>3. \A i \in 1 .. Len(callbacks) :
             i >= next' => called'[callbacks[i]] = 0 /\ callbacks[i] \notin posted'
      <4> SUFFICES ASSUME NEW i \in 1 .. Len(callbacks), i >= next'
                   PROVE  called'[callbacks[i]] = 0 /\ callbacks[i] \notin posted'
        OBVIOUS
      <4>1. i \in Nat /\ i >= next
        BY DEF Inv, TypeOK
      <4>2. called[callbacks[i]] = 0 /\ callbacks[i] \notin posted
        BY <4>1 DEF Inv, NotYetCalled
      <4>3. callbacks[i] \in Continuation \ {c}
        BY <3>1
      <4> QED BY <1>2, <2>1, <4>2, <4>3
    <3>4. \A d \in posted' : called'[d] = 0 /\ d \in asked'
      BY <1>2, <2>1 DEF Inv, TypeOK, NotYetCalled
    <3>5. \A d \in asked' : called'[d] = 0 => derived'[d] = "pending"
      BY <2>1 DEF Inv, TypeOK, NotYetCalled
    <3> QED BY <3>2, <3>3, <3>4, <3>5 DEF Inv, NotYetCalled
  <2>4. InProgressIsCalled'
    <3>1. ASSUME NEW d \in Continuation, called[d] > 0 PROVE called'[d] > 0
      <4>1. CASE d = c
        BY <2>1, <4>1
      <4>2. CASE d # c
        BY <2>1, <3>1, <4>2
      <4> QED BY <4>1, <4>2
    <3>2. ASSUME NEW u \in Thread, NEW i \in 1 .. Len(blocks'[u])
          PROVE  called'[blocks'[u][i]] > 0
      <4>1. CASE blocks'[u][i] = c
        BY <2>1, <4>1
      <4>2. CASE i \in 1 .. Len(blocks[u]) /\ blocks'[u][i] = blocks[u][i]
        <5>1. blocks[u][i] \in Continuation /\ called[blocks[u][i]] > 0
          BY <4>2 DEF Inv, TypeOK, InProgressIsCalled
        <5> QED BY <3>1, <4>2, <5>1
      <4> QED BY <2>1, <4>1, <4>2
    <3>3. \A d \in Continuation : derived'[d] = "awaiting" => called'[d] > 0
      BY <2>1 DEF Inv, TypeOK, InProgressIsCalled
    <3>4. \A d \in ran' : called'[d] > 0
      BY <2>1 DEF Inv, TypeOK, InProgressIsCalled
    <3> QED BY <3>2, <3>3, <3>4 DEF InProgressIsCalled
  <2>5. CalledOnceAfterCompletion'
    <3> SUFFICES ASSUME NEW d \in Continuation
                 PROVE  called'[d] <= 1 /\ (called'[d] > 0 => outcome' # "none" /\ d \in
                     asked')
      BY DEF CalledOnceAfterCompletion, completed
    <3>1. CASE d = c
      BY <2>1, <3>1 DEF completed
    <3>2. CASE d # c
      BY <2>1, <3>2 DEF Inv, CalledOnceAfterCompletion, completed
    <3> QED BY <3>1, <3>2
  <2>6. FailurePropagates'
    BY <2>1, TaskAssumption DEF Inv, TypeOK, FailurePropagates, Failed, completed, Outcome
  <2> QED BY <1>1, <2>2, <2>3, <2>4, <2>5, <2>6 DEF Inv
<1>3. CASE posted' = posted \cup {c} /\ UNCHANGED <<blocks, called, ran, derived>>
  <2>1. TypeOK'
    BY <1>3 DEF Inv, TypeOK
  <2>2. NotYetCalled'
    BY <1>3 DEF Inv, TypeOK, NotYetCalled
  <2>3. InProgressIsCalled' /\ CalledOnceAfterCompletion' /\ FailurePropagates'
    BY <1>3 DEF Inv, TypeOK, InProgressIsCalled, CalledOnceAfterCompletion,
                FailurePropagates, Failed, completed
  <2> QED BY <1>1, <2>1, <2>2, <2>3 DEF Inv
<1> QED BY <1>2, <1>3

\* The next callback is executed by the thread that completed the task.
LEMMA RunCallbackKeepsInv ==
    ASSUME Inv, NEW t \in Thread, RunCallback(t)
    PROVE  Inv'
<1> DEFINE c == callbacks[next]
<1>1. /\ c \in Continuation /\ next \in 1 .. Len(callbacks) /\ next' = next + 1
      /\ pc[t] = "run" /\ completed
      /\ UNCHANGED <<outcome, callbacks, syncVars, asked, requested>>
  BY DEF Inv, TypeOK, RunsWhenCompleted, RunCallback
<1>2. /\ called[c] = 0 /\ c \notin posted /\ c \in asked /\ derived[c] = "pending"
      /\ \A i \in 1 .. Len(callbacks) : i >= next + 1 => callbacks[i] # c
  BY <1>1 DEF Inv, TypeOK, NotYetCalled
<1>3. \/ Enter(c, t) /\ posted' = posted \ {c}
      \/ posted' = posted \cup {c} /\ UNCHANGED <<blocks, called, ran, derived>>
  BY <1>2 DEF RunCallback, Execute
<1> HIDE DEF c
<1> QED BY <1>1, <1>2, <1>3, BlockStarts

\* A thread takes a block from a queue.
LEMMA DispatchKeepsInv ==
    ASSUME Inv, NEW t \in Thread, NEW c \in Continuation, Dispatch(t, c)
    PROVE  Inv'
<1>1. /\ c \in posted /\ posted' = posted \ {c} /\ Enter(c, t)
      /\ UNCHANGED <<outcome, listVars, syncVars, asked, requested>>
  BY DEF Dispatch
<1>2. /\ completed /\ called[c] = 0 /\ c \in asked /\ derived[c] = "pending"
      /\ \A i \in 1 .. Len(callbacks) : i >= next => callbacks[i] # c
  BY <1>1 DEF Inv, TypeOK, RunsWhenCompleted, NotYetCalled
<1>3. /\ next \in Nat \ {0} /\ next' = next /\ callbacks' = callbacks
      /\ next # 1 => \E u \in Thread : pc[u] = "run"
  BY <1>1 DEF Inv, TypeOK, RunsWhenCompleted, listVars
<1> QED BY <1>1, <1>2, <1>3, BlockStarts

\* A continuation is added to the list, or starts if the task has completed.
LEMMA ContinueKeepsInv ==
    ASSUME Inv, NEW t \in Thread, NEW c \in Continuation, Continue(t, c)
    PROVE  Inv'
<1>1. /\ c \notin asked /\ derived[c] = "pending" /\ asked' = asked \cup {c}
      /\ UNCHANGED <<outcome, next, syncVars, requested>>
  BY DEF Continue, Fresh
<1>2. /\ called[c] = 0 /\ c \notin posted
      /\ \A i \in 1 .. Len(callbacks) : callbacks[i] # c
  BY <1>1 DEF Inv, TypeOK, CalledOnceAfterCompletion, NotYetCalled
<1>3. /\ next \in Nat \ {0}
      /\ next # 1 => \E u \in Thread : pc[u] = "run"
  BY DEF Inv, TypeOK, RunsWhenCompleted
<1>4. CASE completed
  <2>1. callbacks' = callbacks
    BY <1>4 DEF Continue
  <2>2. \/ Enter(c, t) /\ posted' = posted \ {c}
        \/ posted' = posted \cup {c} /\ UNCHANGED <<blocks, called, ran, derived>>
    BY <1>2, <1>4 DEF Continue, Execute
  <2> QED BY <1>1, <1>2, <1>3, <1>4, <2>1, <2>2, BlockStarts
<1>5. CASE ~completed
  <2>1. /\ callbacks' = Append(callbacks, c)
        /\ UNCHANGED <<blocks, posted, called, ran, derived>>
    BY <1>5 DEF Continue
  <2>2. callbacks \in Seq(Continuation)
    BY DEF Inv, TypeOK
  <2>3. /\ callbacks' \in Seq(Continuation) /\ Len(callbacks) \in Nat
        /\ Len(callbacks') = Len(callbacks) + 1
        /\ \A i \in 1 .. Len(callbacks) : callbacks'[i] = callbacks[i]
        /\ callbacks'[Len(callbacks) + 1] = c
    BY <2>1, <2>2
  <2>4. \A i \in 1 .. Len(callbacks') : i \in 1 .. Len(callbacks) \/ i = Len(callbacks)
      + 1
    BY <2>3
  <2>5. TypeOK'
    BY <1>1, <2>1, <2>3 DEF Inv, TypeOK, syncVars
  <2>6. NotYetCalled'
    <3>1. \A i, j \in 1 .. Len(callbacks') : callbacks'[i] = callbacks'[j] => i = j
      BY <1>2, <2>3, <2>4 DEF Inv, NotYetCalled
    <3>2. \A i \in 1 .. Len(callbacks') :
             /\ callbacks'[i] \in asked'
             /\ i >= next' => called'[callbacks'[i]] = 0 /\ callbacks'[i] \notin posted'
      BY <1>1, <1>2, <2>1, <2>3, <2>4 DEF Inv, NotYetCalled
    <3>3. /\ \A d \in posted' : called'[d] = 0 /\ d \in asked'
          /\ \A d \in asked' : called'[d] = 0 => derived'[d] = "pending"
      BY <1>1, <2>1 DEF Inv, NotYetCalled
    <3> QED BY <3>1, <3>2, <3>3 DEF NotYetCalled
  <2>7. RunsWhenCompleted' /\ LockIsOwned' /\ NoWakeUpIsLost'
    BY <1>1, <1>5, <2>1 DEF Inv, RunsWhenCompleted, LockIsOwned, NoWakeUpIsLost,
                            completed, syncVars
  <2>8. InProgressIsCalled' /\ CalledOnceAfterCompletion' /\ FailurePropagates'
    BY <1>1, <2>1 DEF Inv, TypeOK, InProgressIsCalled, CalledOnceAfterCompletion,
                      FailurePropagates, Failed, completed
  <2> QED BY <2>5, <2>6, <2>7, <2>8 DEF Inv
<1> QED BY <1>4, <1>5

\* The invariant holds at first ...
LEMMA InitInv == Init => Inv
<1> SUFFICES ASSUME Init PROVE Inv
  OBVIOUS
<1> USE TaskAssumption DEF Init
<1>1. TypeOK
  BY DEF TypeOK, Outcome, Step
<1>2. LockIsOwned /\ RunsWhenCompleted /\ NotYetCalled
  BY DEF LockIsOwned, RunsWhenCompleted, NotYetCalled, completed
<1>3. InProgressIsCalled /\ CalledOnceAfterCompletion
  BY DEF InProgressIsCalled, CalledOnceAfterCompletion
<1>4. FailurePropagates /\ NoWakeUpIsLost
  BY DEF FailurePropagates, Failed, NoWakeUpIsLost
<1> QED BY <1>1, <1>2, <1>3, <1>4 DEF Inv

\* ... and every step keeps it.
LEMMA NextKeepsInv == Inv /\ [Next]_vars => Inv'
<1> SUFFICES ASSUME Inv, [Next]_vars PROVE Inv'
  OBVIOUS
<1>1. CASE UNCHANGED vars
  BY <1>1 DEF Inv, TypeOK, LockIsOwned, RunsWhenCompleted, NotYetCalled,
      InProgressIsCalled, CalledOnceAfterCompletion, FailurePropagates,
      NoWakeUpIsLost, completed, Failed, vars, listVars, syncVars, contVars
<1>2. ASSUME NEW t \in Thread, NEW o \in Outcome, TrySet(t, o) PROVE Inv'
  BY <1>2, TrySetKeepsInv
<1>3. ASSUME NEW t \in Thread, NEW c \in Continuation,
             Decline(t, c) \/ Continue(t, c) \/ Dispatch(t, c)
      PROVE  Inv'
  BY <1>3, DeclineKeepsInv, ContinueKeepsInv, DispatchKeepsInv
<1>4. ASSUME NEW t \in Thread, Wait(t) \/ WakeSpuriously(t) PROVE Inv'
  BY <1>4, WaitKeepsInv, WakeSpuriouslyKeepsInv
<1>5. ASSUME NEW t \in Thread, Proceed(t) PROVE Inv'
  BY <1>5, BroadcastKeepsInv, RunCallbackKeepsInv, FinishRunKeepsInv, ReturnKeepsInv,
     TakeConditionKeepsInv, SleepKeepsInv, StopWaitingKeepsInv DEF Proceed
<1>6. ASSUME NEW c \in Continuation, RequestCancel(c) PROVE Inv'
  BY <1>6, RequestCancelKeepsInv
<1>7. ASSUME NEW c \in Continuation, NEW o \in Outcome, InnerCompletes(c, o) PROVE Inv'
  BY <1>7, InnerCompletesKeepsInv
<1> QED BY <1>1, <1>2, <1>3, <1>4, <1>5, <1>6, <1>7 DEF Next

-----------------------------------------------------------------------------
\* The invariant of the task, for any number of threads and continuations.
THEOREM TaskInvariant == Spec => []Inv
BY InitInv, NextKeepsInv, PTL DEF Spec

\* A continuation is called at most once, and after the task has completed
\* (runContinuations and continueWithExecutor:block:cancellationToken:).
THEOREM ContinuationsCalledOnce == Spec => []CalledOnceAfterCompletion
<1>1. Inv => CalledOnceAfterCompletion
  BY DEF Inv
<1> QED BY <1>1, TaskInvariant, PTL

\* A failure passes by the blocks for successes (continueWithSuccessBlock).
THEOREM FailuresPropagate == Spec => []FailurePropagates
<1>1. Inv => FailurePropagates
  BY DEF Inv
<1> QED BY <1>1, TaskInvariant, PTL

\* Between calls a completed task is unlocked and has no callbacks.
THEOREM QuietTaskFree == Spec => []QuietTaskIsFree
<1>1. Inv => QuietTaskIsFree
  BY DEF Inv, TypeOK, LockIsOwned, RunsWhenCompleted, QuietTaskIsFree
<1> QED BY <1>1, TaskInvariant, PTL

\* Nobody adds a callback while they are enumerated (runContinuations).
THEOREM CallbacksStayFrozen == Spec => CallbacksFrozen
<1>1. Inv /\ [Next]_vars =>
        [\A t \in Thread : pc[t] = "run" /\ pc'[t] = "run" => callbacks' = callbacks]_vars
  <2> SUFFICES ASSUME Inv, Next, NEW t \in Thread, pc[t] = "run", pc'[t] = "run"
               PROVE  callbacks' = callbacks
    BY DEF vars
  <2>1. completed /\ lock = t
    BY DEF Inv, RunsWhenCompleted, LockIsOwned
  <2>2. ASSUME NEW u \in Thread, NEW o \in Outcome, TrySet(u, o) PROVE callbacks' =
      callbacks
    BY <2>2 DEF TrySet, listVars, vars
  <2>3. ASSUME NEW u \in Thread, NEW c \in Continuation,
               Decline(u, c) \/ Continue(u, c) \/ Dispatch(u, c)
        PROVE  callbacks' = callbacks
    BY <2>1, <2>3 DEF Decline, Continue, Dispatch, listVars
  <2>4. ASSUME NEW u \in Thread, Wait(u) \/ WakeSpuriously(u) PROVE callbacks' = callbacks
    BY <2>4 DEF Wait, WakeSpuriously, listVars, vars
  <2>5. ASSUME NEW u \in Thread, FinishRun(u) PROVE callbacks' = callbacks
    <3>1. u = t
      BY <2>1, <2>5 DEF Inv, LockIsOwned, FinishRun
    <3>2. pc'[t] = "idle"
      BY <2>5, <3>1 DEF Inv, TypeOK, FinishRun, Goes
    <3> QED BY <3>2
  <2>6. ASSUME NEW u \in Thread, Proceed(u) PROVE callbacks' = callbacks
    BY <2>5, <2>6 DEF Proceed, Broadcast, RunCallback, Return, TakeCondition, Sleep,
                      StopWaiting, listVars
  <2>7. ASSUME NEW c \in Continuation, RequestCancel(c) PROVE callbacks' = callbacks
    BY <2>7 DEF RequestCancel, listVars
  <2>8. ASSUME NEW c \in Continuation, NEW o \in Outcome, InnerCompletes(c, o)
        PROVE  callbacks' = callbacks
    BY <2>8 DEF InnerCompletes, listVars
  <2> QED BY <2>2, <2>3, <2>4, <2>6, <2>7, <2>8 DEF Next
<1> QED BY <1>1, TaskInvariant, PTL DEF Spec, CallbacksFrozen

\* A task completes once (the four trySet... methods).
THEOREM OutcomeSetOnce == Spec => OutcomeIsSetOnce
<1>1. [Next]_vars => [completed => outcome' = outcome]_vars
  BY DEF Next, Proceed, TrySet, Decline, Continue, Dispatch, Wait, WakeSpuriously,
      Broadcast, RunCallback, FinishRun, Return, TakeCondition, Sleep, StopWaiting,
      RequestCancel, InnerCompletes, vars
<1> QED BY <1>1, PTL DEF Spec, OutcomeIsSetOnce

\* Whoever waits for a task that completes is woken, however the steps of both
\* threads interleave (waitUntilFinished, runContinuations).
THEOREM WakeUpsAreNotLost == Spec => []NoWakeUpIsLost
<1>1. Inv => NoWakeUpIsLost
  BY DEF Inv
<1> QED BY <1>1, TaskInvariant, PTL

\* What the continuations see of a task is a Promise: each step is a completion,
\* a continuation asked or called, or nothing.
THEOREM TaskImplementsPromise == Spec => P!Spec
<1>1. Init => P!Init
  BY DEF Init, P!Init
<1>2. Inv /\ [Next]_vars => [P!Next]_P!promiseVars
  <2> SUFFICES ASSUME Inv, [Next]_vars PROVE [P!Next]_P!promiseVars
    OBVIOUS
  <2>1. CASE UNCHANGED vars
    BY <2>1 DEF vars, contVars, P!promiseVars
  <2>2. ASSUME NEW t \in Thread, NEW o \in Outcome, TrySet(t, o)
        PROVE  [P!Next]_P!promiseVars
    BY <2>2 DEF TrySet, completed, vars, contVars, P!Next, P!Complete, P!promiseVars
  <2>3. ASSUME NEW t \in Thread, RunCallback(t) PROVE [P!Next]_P!promiseVars
    <3> DEFINE c == callbacks[next]
    <3>1. /\ c \in Continuation /\ next \in 1 .. Len(callbacks) /\ completed
      BY <2>3 DEF Inv, TypeOK, RunsWhenCompleted, RunCallback
    <3>2. called[c] = 0 /\ c \in asked
      BY <3>1 DEF Inv, TypeOK, NotYetCalled
    <3>3. UNCHANGED <<outcome, asked>> /\ Execute(c, t)
      BY <2>3 DEF RunCallback
    <3>4. CASE Enter(c, t)
      <4>1. called' = [called EXCEPT ![c] = 1]
        BY <3>2, <3>4 DEF Inv, TypeOK, Enter
      <4> QED BY <3>1, <3>2, <3>3, <4>1 DEF P!Next, P!Call, completed
    <3>5. CASE called' = called
      BY <3>3, <3>5 DEF P!promiseVars
    <3> QED BY <3>3, <3>4, <3>5 DEF Execute
  <2>4. ASSUME NEW t \in Thread, NEW c \in Continuation, Dispatch(t, c)
        PROVE  [P!Next]_P!promiseVars
    <3>1. completed /\ called[c] = 0 /\ c \in asked
      BY <2>4 DEF Dispatch, Inv, RunsWhenCompleted, NotYetCalled
    <3>2. UNCHANGED <<outcome, asked>> /\ called' = [called EXCEPT ![c] = 1]
      BY <2>4, <3>1 DEF Dispatch, Enter, Inv, TypeOK
    <3> QED BY <3>1, <3>2 DEF P!Next, P!Call, completed
  <2>5. ASSUME NEW t \in Thread, NEW c \in Continuation, Continue(t, c)
        PROVE  [P!Next]_P!promiseVars
    <3>1. c \notin asked /\ asked' = asked \cup {c} /\ outcome' = outcome
      BY <2>5 DEF Continue, Fresh
    <3>2. called[c] = 0
      BY <3>1 DEF Inv, TypeOK, CalledOnceAfterCompletion
    <3>3. CASE called' = called
      BY <3>1, <3>3 DEF P!Next, P!Ask
    <3>4. CASE completed /\ Enter(c, t)
      <4>1. called' = [called EXCEPT ![c] = 1]
        BY <3>2, <3>4 DEF Enter, Inv, TypeOK
      <4> QED BY <3>1, <3>2, <3>4, <4>1 DEF P!Next, P!AskAndCall, completed
    <3> QED BY <2>5, <3>3, <3>4 DEF Continue, Execute
  <2>6. ASSUME NEW t \in Thread, NEW c \in Continuation, Decline(t, c)
        PROVE  [P!Next]_P!promiseVars
    BY <2>6 DEF Decline, P!promiseVars
  <2>7. ASSUME NEW t \in Thread,
               \/ Wait(t) \/ WakeSpuriously(t) \/ Broadcast(t) \/ FinishRun(t)
               \/ Return(t) \/ TakeCondition(t) \/ Sleep(t) \/ StopWaiting(t)
        PROVE  [P!Next]_P!promiseVars
    BY <2>7 DEF Wait, WakeSpuriously, Broadcast, FinishRun, Return, TakeCondition,
                Sleep, StopWaiting, vars, contVars, P!promiseVars
  <2>8. ASSUME NEW c \in Continuation,
               RequestCancel(c) \/ (\E o \in Outcome : InnerCompletes(c, o))
        PROVE  [P!Next]_P!promiseVars
    BY <2>8 DEF RequestCancel, InnerCompletes, contVars, P!promiseVars
  <2> QED BY <2>1, <2>2, <2>3, <2>4, <2>5, <2>6, <2>7, <2>8 DEF Next, Proceed
<1> QED BY <1>1, <1>2, TaskInvariant, PTL DEF Spec, P!Spec

\* In the composition the task makes the steps of a task, so the theorems above hold
\* of it too.
LEMMA TaskInComposition == BoltsSpec => Spec
<1>1. BoltsInit => Init
  BY DEF BoltsInit
<1>2. [BoltsNext]_boltsVars => [Next]_vars
  BY DEF BoltsNext, boltsVars
<1> QED BY <1>1, <1>2, PTL DEF BoltsSpec, Spec

-----------------------------------------------------------------------------
\* The children that a set of them has with an outcome.
Having(ks, o) == {k \in ks : child[k] = o}

\* What the last continuation does to the group, as far as it sees the children ks.
Reports(ks) == groupOutcome' = Group!Worst([o \in Group!Outcome |-> Cardinality(Having(ks, o))])

\* The invariant of the group, ordered or not.
GroupInv ==
    /\ Group!Inv /\ Group!CompletesAfterAll /\ LooseGroup!NothingInvented
    /\ \A k \in Group!Child : /\ at[k] # "waiting" <=> k \in noted
                              /\ at[k] # "waiting" => child[k] # "none"

\* What a set of children has is counted.
LEMMA HavingCounted ==
    ASSUME NEW ks \in SUBSET Group!Child, NEW o
    PROVE  /\ Cardinality(Having(ks, o)) \in Nat
           /\ Cardinality(Having(ks, o)) = 0 <=> \A k \in ks : child[k] # o
           /\ Cardinality(Having(ks, o)) > 1 =>
                 \E k, l \in ks : k # l /\ child[k] = o /\ child[l] = o
<1>1. IsFiniteSet(Group!Child)
  <2>1. Children \in Int /\ 1 \in Int
    BY BoltsAssumption DEF Group!GroupAssumption
  <2> QED BY <2>1, FS_Interval DEF Group!Child
<1>2. Having(ks, o) \in SUBSET Group!Child
  BY DEF Having
<1>3. IsFiniteSet(Having(ks, o))
  BY <1>1, <1>2, FS_Subset
<1>4. Cardinality(Having(ks, o)) \in Nat
  BY <1>3, FS_CardinalityType
<1>5. Cardinality(Having(ks, o)) = 0 <=> Having(ks, o) = {}
  BY <1>3, FS_EmptySet
<1>6. ASSUME Cardinality(Having(ks, o)) > 1
      PROVE  \E k, l \in ks : k # l /\ child[k] = o /\ child[l] = o
  <2>1. Having(ks, o) # {} /\ ~\E k : Having(ks, o) = {k}
    BY <1>3, <1>4, <1>5, <1>6, FS_Singleton
  <2>2. PICK k \in Having(ks, o) : TRUE
    BY <2>1
  <2>3. PICK l \in Having(ks, o) : l # k
    BY <2>1, <2>2
  <2> QED BY <2>2, <2>3 DEF Having
<1> QED BY <1>4, <1>5, <1>6 DEF Having

\* The instances mean the same.
LEMMA SameGroups ==
    /\ LooseGroup!Child = Group!Child /\ LooseGroup!Outcome = Group!Outcome
    /\ \A how : LooseGroup!Worst(how) = Group!Worst(how)
    /\ \A ks : Group!Tally(ks) = [o \in Group!Outcome |-> Cardinality(Having(ks, o))]
    /\ \A ks : LooseGroup!Tally(ks) = Group!Tally(ks)
BY DEF LooseGroup!Child, Group!Child, LooseGroup!Outcome, Group!Outcome, LooseGroup!Worst,
   Group!Worst, Group!OneOrMore, LooseGroup!OneOrMore, Group!Tally, LooseGroup!Tally, Having, Group!Cardinality,
   LooseGroup!Cardinality, Cardinality

\* At first no child is counted.
LEMMA GroupInitInv == Group!Init => GroupInv
<1> SUFFICES ASSUME Group!Init PROVE GroupInv
  OBVIOUS
<1>1. Children \in Nat
  BY BoltsAssumption DEF Group!GroupAssumption
<1>2. /\ child = [k \in Group!Child |-> "none"] /\ at = [k \in Group!Child |-> "waiting"]
      /\ registered = 0 /\ noted = {} /\ total = Children
      /\ groupOutcome = IF Children = 0 THEN "result" ELSE "none"
  BY DEF Group!Init
<1>3. Group!TypeOK
  BY <1>1, <1>2 DEF Group!TypeOK, Group!At, Group!Outcome
<1>4. Group!Uncounted = 1 .. Children /\ Cardinality(1 .. Children) = Children
  <2>1. Children \in Int /\ 1 \in Int
    BY <1>1
  <2>2. Cardinality(1 .. Children) = Children
    BY <1>1, <2>1, FS_Interval
  <2> QED BY <1>2, <2>2 DEF Group!Uncounted, Group!Child
<1>5. Group!OneIsLast
  BY <1>2, <1>4 DEF Group!OneIsLast, Group!Cardinality, Cardinality
<1>6. Group!CompletesAfterAll /\ LooseGroup!NothingInvented
  BY <1>1, <1>2 DEF Group!CompletesAfterAll, LooseGroup!NothingInvented, Group!Child
<1> QED BY <1>2, <1>3, <1>5, <1>6 DEF GroupInv, Group!Inv

\* The worst of the outcomes of some children, one of them at least, is no invention.
LEMMA WorstIsNotInvented ==
    ASSUME NEW ks \in SUBSET Group!Child, NEW k \in ks, Reports(ks),
           \A l \in ks : child[l] \in Group!Outcome
    PROVE  /\ groupOutcome' \in Group!Outcome \cup {"errors", "exceptions"}
           /\ \/ groupOutcome' \in {"result", "error", "exception", "cancelled"}
                   /\ \E l \in ks : child[l] = groupOutcome'
              \/ groupOutcome' \in {"errors", "exceptions"}
                   /\ \E l, m \in ks : /\ l # m /\ child[l] = child[m]
                                       /\ child[l] \in {"error", "exception"}
<1> DEFINE N(o) == Cardinality(Having(ks, o))
           how == [o \in Group!Outcome |-> N(o)]
<1>1. groupOutcome' = Group!Worst(how)
  BY DEF Reports
<1>2. \A o \in Group!Outcome : how[o] = N(o)
  OBVIOUS
<1>3. "exception" \in Group!Outcome /\ "error" \in Group!Outcome /\ "cancelled" \in Group!Outcome
  BY DEF Group!Outcome
<1>4. \A o : /\ N(o) \in Nat /\ (N(o) = 0 <=> \A l \in ks : child[l] # o)
             /\ N(o) > 1 => \E l, m \in ks : l # m /\ child[l] = o /\ child[m] = o
  BY HavingCounted
<1>11. /\ N("exception") \in Nat /\ N("error") \in Nat /\ N("cancelled") \in Nat
  BY <1>4
<1> HIDE DEF N, how
<1>5. CASE N("exception") = 1
  <2>1. groupOutcome' = "exception"
    BY <1>1, <1>2, <1>3, <1>5 DEF Group!Worst, Group!OneOrMore
  <2>2. \E l \in ks : child[l] = "exception"
    BY <1>4, <1>5
  <2> QED BY <2>1, <2>2 DEF Group!Outcome
<1>6. CASE N("exception") > 1
  <2>1. groupOutcome' = "exceptions"
    BY <1>1, <1>2, <1>3, <1>11, <1>6 DEF Group!Worst, Group!OneOrMore
  <2>2. \E l, m \in ks : l # m /\ child[l] = "exception" /\ child[m] = "exception"
    BY <1>4, <1>6
  <2> QED BY <2>1, <2>2
<1>7. CASE N("exception") = 0 /\ N("error") = 1
  <2>1. groupOutcome' = "error"
    BY <1>1, <1>2, <1>3, <1>7 DEF Group!Worst, Group!OneOrMore
  <2>2. \E l \in ks : child[l] = "error"
    BY <1>4, <1>7
  <2> QED BY <2>1, <2>2 DEF Group!Outcome
<1>8. CASE N("exception") = 0 /\ N("error") > 1
  <2>1. groupOutcome' = "errors"
    BY <1>1, <1>2, <1>3, <1>11, <1>8 DEF Group!Worst, Group!OneOrMore
  <2>2. \E l, m \in ks : l # m /\ child[l] = "error" /\ child[m] = "error"
    BY <1>4, <1>8
  <2> QED BY <2>1, <2>2
<1>9. CASE N("exception") = 0 /\ N("error") = 0 /\ N("cancelled") > 0
  <2>1. groupOutcome' = "cancelled"
    BY <1>1, <1>2, <1>3, <1>9 DEF Group!Worst, Group!OneOrMore
  <2>2. \E l \in ks : child[l] = "cancelled"
    BY <1>4, <1>9
  <2> QED BY <2>1, <2>2 DEF Group!Outcome
<1>10. CASE N("exception") = 0 /\ N("error") = 0 /\ N("cancelled") = 0
  <2>1. groupOutcome' = "result"
    BY <1>1, <1>2, <1>3, <1>10 DEF Group!Worst, Group!OneOrMore
  <2>2. child[k] = "result"
    BY <1>4, <1>10 DEF Group!Outcome
  <2> QED BY <2>1, <2>2 DEF Group!Outcome
<1> QED BY <1>5, <1>6, <1>7, <1>8, <1>9, <1>10, <1>11

\* The worst of the outcomes of all children.
LEMMA WorstOfAll ==
    ASSUME Reports(Group!Child), groupOutcome' # "none"
    PROVE  LET Some(o) == \E k \in Group!Child : child[k] = o
           IN  /\ groupOutcome' \in {"exception", "exceptions"} <=> Some("exception")
               /\ groupOutcome' \in {"error", "errors"} <=> Some("error") /\ ~Some("exception")
               /\ groupOutcome' = "cancelled"
                     <=> Some("cancelled") /\ ~Some("error") /\ ~Some("exception")
<1> DEFINE N(o) == Cardinality(Having(Group!Child, o))
           how == [o \in Group!Outcome |-> N(o)]
           Some(o) == \E k \in Group!Child : child[k] = o
<1>1. groupOutcome' = Group!Worst(how)
  BY DEF Reports
<1>2. \A o \in Group!Outcome : how[o] = N(o)
  OBVIOUS
<1>3. "exception" \in Group!Outcome /\ "error" \in Group!Outcome /\ "cancelled" \in Group!Outcome
  BY DEF Group!Outcome
<1>4. \A o : N(o) \in Nat /\ (N(o) = 0 <=> ~Some(o))
  BY HavingCounted
<1>5. /\ N("exception") \in Nat /\ (N("exception") = 0 <=> ~Some("exception"))
      /\ N("error") \in Nat /\ (N("error") = 0 <=> ~Some("error"))
      /\ N("cancelled") \in Nat /\ (N("cancelled") = 0 <=> ~Some("cancelled"))
  BY <1>4
<1> HIDE DEF N, how, Some
<1>6. /\ groupOutcome' \in {"exception", "exceptions"} <=> Some("exception")
      /\ groupOutcome' \in {"error", "errors"} <=> Some("error") /\ ~Some("exception")
      /\ groupOutcome' = "cancelled" <=> Some("cancelled") /\ ~Some("error") /\ ~Some("exception")
  BY <1>1, <1>2, <1>3, <1>5 DEF Group!Worst, Group!OneOrMore
<1> QED BY <1>6 DEF Some

\* A child completes, or the loop gets to the next one.
LEMMA ChildKeepsGroupInv ==
    ASSUME GroupInv,
           \/ Group!Register
           \/ \E k \in Group!Child, o \in Group!Outcome : Group!ChildCompletes(k, o)
    PROVE  GroupInv' /\ (Group!ReportsTheWorst => Group!ReportsTheWorst')
<1> USE DEF GroupInv, Group!Inv
<1>1. CASE Group!Register
  <2>1. UNCHANGED <<child, at, noted, total, groupOutcome>> /\ registered' \in 0 .. Children
    BY <1>1, BoltsAssumption DEF Group!Register, Group!TypeOK, Group!GroupAssumption
  <2>2. Group!TypeOK'
    BY <2>1 DEF Group!TypeOK
  <2>3. Group!OneIsLast'
    BY <2>1 DEF Group!OneIsLast, Group!Uncounted
  <2> QED BY <2>1, <2>2, <2>3 DEF Group!CompletesAfterAll, LooseGroup!NothingInvented,
             LooseGroup!Child, Group!ReportsTheWorst
<1>2. ASSUME NEW k \in Group!Child, NEW o \in Group!Outcome, Group!ChildCompletes(k, o)
      PROVE  GroupInv' /\ (Group!ReportsTheWorst => Group!ReportsTheWorst')
  <2>1. /\ child[k] = "none" /\ child' = [child EXCEPT ![k] = o]
        /\ UNCHANGED <<registered, at, noted, total, groupOutcome>>
    BY <1>2 DEF Group!ChildCompletes
  <2>2. groupOutcome = "none"
    BY <2>1 DEF Group!CompletesAfterAll
  <2>3. Group!TypeOK'
    BY <2>1 DEF Group!TypeOK
  <2>4. Group!OneIsLast'
    BY <2>1 DEF Group!OneIsLast, Group!Uncounted
  <2>5. \A l \in Group!Child : child[l] # "none" => child'[l] # "none"
    BY <2>1 DEF Group!TypeOK, Group!Outcome
  <2>6. groupOutcome' = "none"
    BY <2>1, <2>2
  <2> QED BY <2>1, <2>3, <2>4, <2>5, <2>6 DEF Group!CompletesAfterAll,
             LooseGroup!NothingInvented, Group!ReportsTheWorst
<1> QED BY <1>1, <1>2

\* A continuation looks at its child.
LEMMA NoteKeepsGroupInv ==
    ASSUME GroupInv, NEW k \in Group!Child, Group!Note(k)
    PROVE  GroupInv' /\ (Group!ReportsTheWorst => Group!ReportsTheWorst')
<1> USE DEF GroupInv, Group!Inv
<1>1. /\ child[k] # "none" /\ at[k] = "waiting" /\ at' = [at EXCEPT ![k] = "noted"]
      /\ noted' = noted \cup {k} /\ UNCHANGED <<child, registered, total, groupOutcome>>
  BY DEF Group!Note
<1>2. at \in [Group!Child -> Group!At] /\ at' \in [Group!Child -> Group!At]
  BY <1>1 DEF Group!TypeOK, Group!At
<1>3. groupOutcome = "none" /\ groupOutcome' = "none"
  BY <1>1 DEF Group!CompletesAfterAll
<1>4. Group!TypeOK'
  BY <1>1, <1>2 DEF Group!TypeOK
<1>5. Group!OneIsLast'
  <2>1. Group!Uncounted' = Group!Uncounted
    BY <1>1, <1>2 DEF Group!Uncounted
  <2> QED BY <1>1, <1>2, <2>1 DEF Group!OneIsLast
<1> QED BY <1>1, <1>2, <1>3, <1>4, <1>5 DEF Group!CompletesAfterAll,
           LooseGroup!NothingInvented, Group!ReportsTheWorst

\* A continuation counts down.
LEMMA CountKeepsGroupInv ==
    ASSUME GroupInv, NEW k \in Group!Child, Group!Count(k)
    PROVE  GroupInv' /\ (Group!ReportsTheWorst => Group!ReportsTheWorst')
<1> USE DEF GroupInv, Group!Inv
<1>1. /\ at[k] = "noted" /\ total' = total - 1
      /\ at' = [at EXCEPT ![k] = IF total' = 0 THEN "last" ELSE "done"]
      /\ UNCHANGED <<child, registered, noted, groupOutcome>>
  BY DEF Group!Count
<1>2. at \in [Group!Child -> Group!At] /\ at' \in [Group!Child -> Group!At]
  BY <1>1 DEF Group!TypeOK, Group!At
<1>3. groupOutcome = "none" /\ groupOutcome' = "none"
  BY <1>1 DEF Group!CompletesAfterAll
<1>4. k \in Group!Uncounted /\ Group!Uncounted' = Group!Uncounted \ {k}
  BY <1>1, <1>2 DEF Group!Uncounted
<1>5. IsFiniteSet(Group!Uncounted) /\ Cardinality(Group!Uncounted) = total
  <2>1. IsFiniteSet(Group!Child)
    <3>1. Children \in Int /\ 1 \in Int
      BY BoltsAssumption DEF Group!GroupAssumption
    <3> QED BY <3>1, FS_Interval DEF Group!Child
  <2>2. Group!Uncounted \in SUBSET Group!Child
    BY DEF Group!Uncounted
  <2> QED BY <2>1, <2>2, FS_Subset DEF Group!OneIsLast, Group!Cardinality, Cardinality
<1>6. /\ Cardinality(Group!Uncounted') = total - 1
      /\ total > 0 /\ total' \in 0 .. Children
  <2>1. Cardinality(Group!Uncounted') = total - 1
    BY <1>4, <1>5, FS_RemoveElement
  <2>2. Cardinality(Group!Uncounted) # 0
    BY <1>4, <1>5, FS_EmptySet
  <2>3. total > 0 /\ total - 1 \in 0 .. Children
    BY <1>5, <2>2, BoltsAssumption DEF Group!TypeOK, Group!GroupAssumption
  <2> QED BY <1>1, <2>1, <2>3
<1>7. Group!TypeOK'
  BY <1>1, <1>2, <1>6 DEF Group!TypeOK
<1>8. Group!OneIsLast'
  <2>1. total' = Group!Cardinality(Group!Uncounted')
    BY <1>1, <1>6 DEF Group!Cardinality, Cardinality
  <2>2. \A l \in Group!Child : at[l] # "last"
    BY <1>6 DEF Group!OneIsLast
  <2>3. \A l \in Group!Child : at'[l] = "last" => l = k /\ total' = 0
    BY <1>1, <1>2, <2>2
  <2> QED BY <1>3, <2>1, <2>3 DEF Group!OneIsLast
<1>9. \A l \in Group!Child : at'[l] # "waiting" <=> at[l] # "waiting"
  BY <1>1, <1>2
<1> QED BY <1>1, <1>3, <1>7, <1>8, <1>9 DEF Group!CompletesAfterAll,
           LooseGroup!NothingInvented, Group!ReportsTheWorst

\* The last continuation completes the group; it sees all children, or some.
LEMMA SettleKeepsGroupInv ==
    ASSUME GroupInv, NEW k \in Group!Child, at[k] = "last", NEW ks \in SUBSET noted, k \in ks,
           Reports(ks), at' = [at EXCEPT ![k] = "done"],
           UNCHANGED <<child, registered, noted, total>>
    PROVE  GroupInv' /\ (ks = noted => Group!ReportsTheWorst')
<1> USE DEF GroupInv, Group!Inv
<1>1. at \in [Group!Child -> Group!At] /\ at' \in [Group!Child -> Group!At]
      /\ noted \subseteq Group!Child /\ child \in [Group!Child -> Group!Outcome \cup {"none"}]
  BY DEF Group!TypeOK, Group!At
<1>2. total = 0 /\ \A l \in Group!Child : at[l] = "last" => l = k
  BY DEF Group!OneIsLast
<1>3. Group!Uncounted = {}
  <2>1. IsFiniteSet(Group!Child)
    <3>1. Children \in Int /\ 1 \in Int
      BY BoltsAssumption DEF Group!GroupAssumption
    <3> QED BY <3>1, FS_Interval DEF Group!Child
  <2>2. Group!Uncounted \in SUBSET Group!Child
    BY DEF Group!Uncounted
  <2>3. IsFiniteSet(Group!Uncounted)
    BY <2>1, <2>2, FS_Subset
  <2>4. Cardinality(Group!Uncounted) = 0
    BY <1>2 DEF Group!OneIsLast, Group!Cardinality, Cardinality
  <2> QED BY <2>3, <2>4, FS_EmptySet
<1>4. \A l \in Group!Child : at[l] \in {"last", "done"} /\ at'[l] = "done"
  BY <1>1, <1>2, <1>3 DEF Group!Uncounted, Group!At
<1>5. noted = Group!Child /\ \A l \in Group!Child : child[l] # "none"
  BY <1>1, <1>4
<1>6. ks \in SUBSET Group!Child /\ \A l \in ks : child[l] \in Group!Outcome
  BY <1>1, <1>5
<1>7. /\ groupOutcome' \in Group!Outcome \cup {"errors", "exceptions"}
      /\ \/ groupOutcome' \in {"result", "error", "exception", "cancelled"}
               /\ \E l \in ks : child[l] = groupOutcome'
         \/ groupOutcome' \in {"errors", "exceptions"}
               /\ \E l, m \in ks : /\ l # m /\ child[l] = child[m]
                                   /\ child[l] \in {"error", "exception"}
  BY <1>6, WorstIsNotInvented
<1>8. LooseGroup!NothingInvented'
  BY <1>6, <1>7, SameGroups DEF LooseGroup!NothingInvented
<1>9. Group!TypeOK'
  BY <1>1, <1>7 DEF Group!TypeOK
<1>10. Group!OneIsLast'
  <2>1. Group!Uncounted' = Group!Uncounted
    BY <1>3, <1>4 DEF Group!Uncounted
  <2> QED BY <1>4, <2>1 DEF Group!OneIsLast
<1>11. Group!CompletesAfterAll'
  BY <1>4, <1>5 DEF Group!CompletesAfterAll
<1>12. ASSUME ks = noted PROVE Group!ReportsTheWorst'
  <2>1. Reports(Group!Child) /\ groupOutcome' # "none"
    BY <1>5, <1>7, <1>12 DEF Group!Outcome
  <2> QED BY <2>1, WorstOfAll DEF Group!ReportsTheWorst
<1> QED BY <1>4, <1>5, <1>8, <1>9, <1>10, <1>11, <1>12

\* Every step of the group, whichever it is.
LEMMA NextKeepsGroupInv ==
    ASSUME GroupInv, [Group!Next \/ LooseGroup!Next]_groupVars
    PROVE  /\ GroupInv'
           /\ [Group!Next]_groupVars /\ Group!ReportsTheWorst => Group!ReportsTheWorst'
<1>1. CASE UNCHANGED groupVars
  <2>1. UNCHANGED <<child, registered, at, noted, total, groupOutcome>>
    BY <1>1 DEF groupVars
  <2>2. Group!Inv'
    BY <2>1 DEF GroupInv, Group!Inv, Group!TypeOK, Group!OneIsLast, Group!Uncounted
  <2> QED BY <2>1, <2>2 DEF GroupInv, Group!CompletesAfterAll, LooseGroup!NothingInvented,
             Group!ReportsTheWorst
<1>2. CASE \/ Group!Register \/ LooseGroup!Register
           \/ \E k \in Group!Child, o \in Group!Outcome :
                 Group!ChildCompletes(k, o) \/ LooseGroup!ChildCompletes(k, o)
  <2>1. \/ Group!Register
        \/ \E k \in Group!Child, o \in Group!Outcome : Group!ChildCompletes(k, o)
    BY <1>2 DEF Group!Register, LooseGroup!Register, Group!ChildCompletes, LooseGroup!ChildCompletes
  <2> QED BY <2>1, ChildKeepsGroupInv
<1>3. ASSUME NEW k \in Group!Child,
             Group!Note(k) \/ LooseGroup!Note(k) \/ Group!Count(k) \/ LooseGroup!Count(k)
      PROVE  GroupInv' /\ (Group!ReportsTheWorst => Group!ReportsTheWorst')
  <2>1. Group!Note(k) \/ Group!Count(k)
    BY <1>3 DEF Group!Note, LooseGroup!Note, Group!Count, LooseGroup!Count
  <2> QED BY <2>1, NoteKeepsGroupInv, CountKeepsGroupInv
<1>4. ASSUME NEW k \in Group!Child, Group!Settle(k)
      PROVE  GroupInv' /\ Group!ReportsTheWorst'
  <2>1. /\ at[k] = "last" /\ at' = [at EXCEPT ![k] = "done"]
        /\ UNCHANGED <<child, registered, noted, total>> /\ Reports(noted)
    BY <1>4, SameGroups DEF Group!Settle, Group!Seen, Reports
  <2>2. k \in noted /\ noted \in SUBSET noted
    BY <2>1 DEF GroupInv
  <2> QED BY <2>1, <2>2, SettleKeepsGroupInv
<1>5. ASSUME NEW k \in Group!Child, LooseGroup!Settle(k)
      PROVE  GroupInv'
  <2>1. PICK ks \in SUBSET noted :
            /\ k \in ks /\ at[k] = "last" /\ at' = [at EXCEPT ![k] = "done"]
            /\ UNCHANGED <<child, registered, noted, total>> /\ Reports(ks)
    BY <1>5, SameGroups DEF LooseGroup!Settle, LooseGroup!Seen, Reports
  <2> QED BY <2>1, SettleKeepsGroupInv
<1>6. CASE Group!Next
  BY <1>2, <1>3, <1>4, <1>6 DEF Group!Next, Group!Loop
<1>7. CASE LooseGroup!Next /\ ~[Group!Next]_groupVars
  BY <1>2, <1>3, <1>5, <1>7, SameGroups DEF LooseGroup!Next, LooseGroup!Loop
<1>8. CASE LooseGroup!Next /\ [Group!Next]_groupVars
  BY <1>1, <1>6, <1>8
<1> QED BY <1>1, <1>6, <1>7, <1>8

\* A step of the composition is one of the group or leaves it alone.
LEMMA GroupMoves ==
    ASSUME [BoltsNext]_boltsVars
    PROVE  /\ UNCHANGED subject
           /\ [Group!Next \/ LooseGroup!Next]_groupVars
           /\ subject = "group" => [Group!Next]_groupVars
BY DEF BoltsNext, boltsVars

\* taskForCompletionOfAllTasks:, for any number of children: one continuation is the
\* last, and what it reports is the worst of them, or no invention.
THEOREM GroupTellsTheWorst == BoltsSpec => []GroupReports
<1> DEFINE I == GroupInv /\ (subject = "group" => Group!ReportsTheWorst)
<1>1. BoltsInit => I
  <2>1. Group!Init => Group!ReportsTheWorst
    BY DEF Group!Init, Group!ReportsTheWorst, Group!Child
  <2> QED BY <2>1, GroupInitInv DEF BoltsInit
<1>2. I /\ [BoltsNext]_boltsVars => I'
  BY GroupMoves, NextKeepsGroupInv
<1>3. I => GroupReports
  BY DEF GroupReports, GroupInv
<1> QED BY <1>1, <1>2, <1>3, PTL DEF BoltsSpec

-----------------------------------------------------------------------------
\* What is disposed of or treated was made; and who is in a block is in a cancel.
TokenInv ==
    /\ Token!Inv /\ Token!ToldOnce
    /\ registrations \subseteq made
    /\ \A t \in Thread : /\ todo[t] \subseteq made
                         /\ disposing[t] # "none" => disposing[t] \in regDisposed
                         /\ inBlock[t] # "none" => stage[t] = "cancel"
    /\ scheduled \subseteq Timers \cup Owners

\* With one thread that uses delays.
DelaysInv == Token!NothingDueOnceStopped /\ scheduled \subseteq Timers

\* The initial state.
LEMMA TokenInitInv == Token!Init => TokenInv /\ DelaysInv
BY DEF Token!Init, TokenInv, Token!Inv, Token!TypeOK, Token!OneCanceller,
       Token!RaisesOnlyAfterDispose, Token!ToldOnce, DelaysInv, Token!NothingDueOnceStopped

\* An observer registers.
LEMMA RegisterKeepsTokenInv ==
    ASSUME TokenInv, NEW t \in Thread, NEW r \in Observer,
           Token!Register(t, r) \/ OwnedToken!Register(t, r)
    PROVE  TokenInv'
<1>1. /\ made' = made \cup {r} /\ registrations' = registrations \cup {r}
      /\ UNCHANGED <<tokenRequested, disposed, scheduled, tokenLock, regDisposed, released,
                     stage, todo, inBlock, disposing, unregistered, notified, renotified,
                     raised, stopped>>
  BY DEF Token!Register, OwnedToken!Register, Token!threadVars, OwnedToken!threadVars,
     Token!history, OwnedToken!history
<1>2. Token!TypeOK'
  BY <1>1 DEF TokenInv, Token!Inv, Token!TypeOK
<1>3. Token!OneCanceller' /\ Token!RaisesOnlyAfterDispose' /\ Token!ToldOnce'
  BY <1>1 DEF TokenInv, Token!Inv, Token!OneCanceller, Token!RaisesOnlyAfterDispose, Token!ToldOnce
<1> QED BY <1>1, <1>2, <1>3 DEF TokenInv, Token!Inv

\* A thread cancels, now or when its delay has passed.
LEMMA CancelKeepsTokenInv ==
    ASSUME TokenInv, NEW t \in Thread, NEW due \in SUBSET scheduled,
           Token!Cancel(t, due) \/ OwnedToken!Cancel(t, due)
    PROVE  TokenInv'
<1>1. /\ Token!Idle(t) /\ scheduled' \subseteq scheduled
      /\ UNCHANGED <<disposed, registrations, tokenLock, made, regDisposed, released,
                     inBlock, disposing, unregistered, notified, renotified, stopped>>
      /\ \/ /\ UNCHANGED <<tokenRequested, stage, todo>>
            /\ raised' = raised \/ (raised' = raised \cup {"cancel"} /\ disposed)
         \/ /\ ~tokenRequested /\ tokenRequested' = TRUE /\ raised' = raised
            /\ stage' = [stage EXCEPT ![t] = "cancel"]
            /\ todo' = [todo EXCEPT ![t] = registrations]
  BY DEF Token!Cancel, OwnedToken!Cancel, Token!Idle, OwnedToken!Idle, Token!Raise,
     OwnedToken!Raise, Token!regVars, OwnedToken!regVars
<1>2. /\ stage \in [Thread -> {"idle", "cancel", "dispose"}] /\ todo \in [Thread -> SUBSET Observer]
      /\ registrations \subseteq Observer
  BY DEF TokenInv, Token!Inv, Token!TypeOK
<1>3. CASE UNCHANGED <<tokenRequested, stage, todo>>
  <2>1. raised' = raised \/ (raised' = raised \cup {"cancel"} /\ disposed)
    BY <1>1, <1>2, <1>3 DEF TokenInv, Token!Inv, Token!OneCanceller
  <2>2. Token!TypeOK'
    BY <1>1, <1>3, <2>1 DEF TokenInv, Token!Inv, Token!TypeOK, Token!Operation
  <2>3. Token!OneCanceller' /\ Token!ToldOnce'
    BY <1>1, <1>3 DEF TokenInv, Token!Inv, Token!OneCanceller, Token!ToldOnce
  <2>4. Token!RaisesOnlyAfterDispose'
    BY <1>1, <2>1 DEF TokenInv, Token!Inv, Token!RaisesOnlyAfterDispose
  <2> QED BY <1>1, <1>3, <2>2, <2>3, <2>4 DEF TokenInv, Token!Inv
<1>4. CASE /\ ~tokenRequested /\ tokenRequested' = TRUE /\ raised' = raised
           /\ stage' = [stage EXCEPT ![t] = "cancel"]
           /\ todo' = [todo EXCEPT ![t] = registrations]
  <2>1. Token!TypeOK'
    BY <1>1, <1>4 DEF TokenInv, Token!Inv, Token!TypeOK
  <2>2. notified = {} /\ \A u \in Thread : stage[u] # "cancel"
    BY <1>4 DEF TokenInv, Token!Inv, Token!OneCanceller, Token!ToldOnce
  <2>3. Token!OneCanceller' /\ Token!ToldOnce'
    BY <1>1, <1>2, <1>4, <2>2 DEF TokenInv, Token!Inv, Token!OneCanceller, Token!ToldOnce
  <2>4. Token!RaisesOnlyAfterDispose'
    BY <1>1, <1>4 DEF TokenInv, Token!Inv, Token!RaisesOnlyAfterDispose
  <2>5. \A u \in Thread : /\ todo'[u] \subseteq made'
                          /\ inBlock'[u] # "none" => stage'[u] = "cancel"
    BY <1>1, <1>2, <1>4 DEF TokenInv
  <2> QED BY <1>1, <2>1, <2>3, <2>4, <2>5 DEF TokenInv, Token!Inv
<1> QED BY <1>1, <1>3, <1>4

\* A cancel tells the next observer, or raises at it.
LEMMA NotifyKeepsTokenInv ==
    ASSUME TokenInv, NEW t \in Thread, NEW r \in Observer,
           Token!Notify(t, r) \/ OwnedToken!Notify(t, r)
    PROVE  TokenInv'
<1>1. /\ stage[t] = "cancel" /\ inBlock[t] = "none" /\ r \in todo[t]
      /\ UNCHANGED <<tokenRequested, disposed, registrations, scheduled, tokenLock, made,
                     regDisposed, released, disposing, unregistered, stopped>>
      /\ \/ /\ r \in released \cup regDisposed /\ raised' = raised \cup {"cancel"}
            /\ stage' = [stage EXCEPT ![t] = "idle"] /\ todo' = [todo EXCEPT ![t] = {}]
            /\ UNCHANGED <<inBlock, notified, renotified>>
         \/ /\ inBlock' = [inBlock EXCEPT ![t] = r] /\ todo' = [todo EXCEPT ![t] = @ \ {r}]
            /\ notified' = notified \cup {r}
            /\ renotified' = IF r \in notified THEN renotified \cup {r} ELSE renotified
            /\ UNCHANGED <<stage, raised>>
  BY DEF Token!Notify, OwnedToken!Notify, Token!Raise, OwnedToken!Raise, Token!tokenVars,
     OwnedToken!tokenVars, Token!regVars, OwnedToken!regVars
<1>2. /\ stage \in [Thread -> {"idle", "cancel", "dispose"}] /\ todo \in [Thread -> SUBSET Observer]
      /\ inBlock \in [Thread -> Observer \cup {"none"}] /\ "none" \notin Observer
      /\ released \subseteq regDisposed /\ tokenRequested
      /\ r \notin notified /\ \A u \in Thread : stage[u] = "cancel" => u = t
  BY <1>1, BoltsAssumption DEF TokenInv, Token!Inv, Token!TypeOK, Token!OneCanceller, Token!TokenAssumption
<1>3. CASE /\ r \in released \cup regDisposed /\ raised' = raised \cup {"cancel"}
           /\ stage' = [stage EXCEPT ![t] = "idle"] /\ todo' = [todo EXCEPT ![t] = {}]
           /\ UNCHANGED <<inBlock, notified, renotified>>
  <2>1. Token!TypeOK'
    BY <1>1, <1>3 DEF TokenInv, Token!Inv, Token!TypeOK, Token!Operation
  <2>2. Token!OneCanceller' /\ Token!ToldOnce'
    BY <1>1, <1>2, <1>3 DEF TokenInv, Token!Inv, Token!OneCanceller, Token!ToldOnce
  <2>3. Token!RaisesOnlyAfterDispose'
    BY <1>1, <1>2, <1>3 DEF Token!RaisesOnlyAfterDispose
  <2>4. \A u \in Thread : /\ todo'[u] \subseteq made'
                          /\ inBlock'[u] # "none" => stage'[u] = "cancel"
    BY <1>1, <1>2, <1>3 DEF TokenInv
  <2> QED BY <1>1, <2>1, <2>2, <2>3, <2>4 DEF TokenInv, Token!Inv
<1>4. CASE /\ inBlock' = [inBlock EXCEPT ![t] = r] /\ todo' = [todo EXCEPT ![t] = @ \ {r}]
           /\ notified' = notified \cup {r}
           /\ renotified' = IF r \in notified THEN renotified \cup {r} ELSE renotified
           /\ UNCHANGED <<stage, raised>>
  <2>0. renotified' = renotified
    BY <1>2, <1>4
  <2>1. Token!TypeOK'
    BY <1>1, <1>4, <2>0 DEF TokenInv, Token!Inv, Token!TypeOK
  <2>2. Token!OneCanceller' /\ Token!ToldOnce'
    BY <1>1, <1>2, <1>4, <2>0 DEF TokenInv, Token!Inv, Token!OneCanceller, Token!ToldOnce
  <2>3. Token!RaisesOnlyAfterDispose'
    BY <1>1, <1>4 DEF TokenInv, Token!Inv, Token!RaisesOnlyAfterDispose
  <2>4. \A u \in Thread : /\ todo'[u] \subseteq made'
                          /\ inBlock'[u] # "none" => stage'[u] = "cancel"
    BY <1>1, <1>2, <1>4 DEF TokenInv
  <2> QED BY <1>1, <2>1, <2>2, <2>3, <2>4 DEF TokenInv, Token!Inv
<1> QED BY <1>1, <1>3, <1>4

\* A block ends, a cancel returns, a delay is set or stopped.
LEMMA ReturnKeepsTokenInv ==
    ASSUME TokenInv, NEW t \in Thread,
           \/ Token!BlockEnds(t) \/ OwnedToken!BlockEnds(t)
           \/ Token!CancelReturns(t) \/ OwnedToken!CancelReturns(t)
           \/ \E due \in BOOLEAN : Token!CancelAfterDelay(t, due) \/ OwnedToken!CancelAfterDelay(t, due)
    PROVE  TokenInv'
<1>0. /\ stage \in [Thread -> {"idle", "cancel", "dispose"}]
      /\ inBlock \in [Thread -> Observer \cup {"none"}]
      /\ Timers \cup Owners \subseteq Thread
  BY BoltsAssumption DEF TokenInv, Token!Inv, Token!TypeOK, Token!TokenAssumption, OwnedToken!TokenAssumption
<1>1. CASE Token!BlockEnds(t) \/ OwnedToken!BlockEnds(t)
  <2>1. /\ inBlock' = [inBlock EXCEPT ![t] = "none"]
        /\ UNCHANGED <<tokenRequested, disposed, registrations, scheduled, tokenLock, made,
                       regDisposed, released, stage, todo, disposing, unregistered, notified,
                       renotified, raised, stopped>>
    BY <1>1 DEF Token!BlockEnds, OwnedToken!BlockEnds, Token!tokenVars, OwnedToken!tokenVars,
       Token!regVars, OwnedToken!regVars, Token!history, OwnedToken!history
  <2>2. Token!TypeOK'
    BY <2>1 DEF TokenInv, Token!Inv, Token!TypeOK
  <2>3. Token!OneCanceller' /\ Token!ToldOnce' /\ Token!RaisesOnlyAfterDispose'
    BY <2>1 DEF TokenInv, Token!Inv, Token!OneCanceller, Token!ToldOnce, Token!RaisesOnlyAfterDispose
  <2>4. \A u \in Thread : inBlock'[u] # "none" => stage'[u] = "cancel"
    BY <1>0, <2>1 DEF TokenInv
  <2> QED BY <2>1, <2>2, <2>3, <2>4 DEF TokenInv, Token!Inv
<1>2. CASE Token!CancelReturns(t) \/ OwnedToken!CancelReturns(t)
  <2>1. /\ stage' = [stage EXCEPT ![t] = "idle"] /\ inBlock[t] = "none"
        /\ UNCHANGED <<tokenRequested, disposed, registrations, scheduled, tokenLock, made,
                       regDisposed, released, inBlock, todo, disposing, unregistered, notified,
                       renotified, raised, stopped>>
    BY <1>2 DEF Token!CancelReturns, OwnedToken!CancelReturns, Token!tokenVars, OwnedToken!tokenVars,
       Token!regVars, OwnedToken!regVars, Token!history, OwnedToken!history
  <2>2. Token!TypeOK'
    BY <2>1 DEF TokenInv, Token!Inv, Token!TypeOK
  <2>3. \A u \in Thread : stage'[u] = "cancel" => stage[u] = "cancel"
    BY <1>0, <2>1
  <2>4. Token!OneCanceller' /\ Token!ToldOnce' /\ Token!RaisesOnlyAfterDispose'
    BY <2>1, <2>3 DEF TokenInv, Token!Inv, Token!OneCanceller, Token!ToldOnce, Token!RaisesOnlyAfterDispose
  <2>5. \A u \in Thread : inBlock'[u] # "none" => stage'[u] = "cancel"
    BY <1>0, <2>1 DEF TokenInv
  <2> QED BY <2>1, <2>2, <2>4, <2>5 DEF TokenInv, Token!Inv
<1>3. ASSUME NEW due \in BOOLEAN, Token!CancelAfterDelay(t, due) \/ OwnedToken!CancelAfterDelay(t, due)
      PROVE  TokenInv'
  <2>1. /\ UNCHANGED <<tokenRequested, disposed, registrations, tokenLock, made,
                       regDisposed, released, stage, todo, inBlock, disposing, unregistered,
                       notified, renotified>>
        /\ raised' = raised \/ (raised' = raised \cup {"delay"} /\ disposed)
        /\ stopped' \in BOOLEAN \/ stopped' = stopped
        /\ scheduled' \subseteq scheduled \cup {t} /\ t \in Timers \cup Owners
    BY <1>3 DEF Token!CancelAfterDelay, OwnedToken!CancelAfterDelay, Token!Raise, OwnedToken!Raise,
       Token!regVars, OwnedToken!regVars, Token!threadVars, OwnedToken!threadVars
  <2>2. Token!TypeOK'
    BY <2>1 DEF TokenInv, Token!Inv, Token!TypeOK, Token!Operation
  <2>3. Token!OneCanceller' /\ Token!ToldOnce'
    BY <2>1 DEF TokenInv, Token!Inv, Token!OneCanceller, Token!ToldOnce
  <2>4. Token!RaisesOnlyAfterDispose'
    BY <2>1 DEF TokenInv, Token!Inv, Token!RaisesOnlyAfterDispose
  <2> QED BY <2>1, <2>2, <2>3, <2>4 DEF TokenInv, Token!Inv
<1> QED BY <1>1, <1>2, <1>3

\* Disposing of a registration.
LEMMA DisposeKeepsTokenInv ==
    ASSUME TokenInv, NEW t \in Thread,
           \/ \E r \in Observer : Token!Dispose(t, r) \/ OwnedToken!Dispose(t, r)
           \/ Token!Unregister(t) \/ OwnedToken!Unregister(t)
           \/ Token!Release(t) \/ OwnedToken!Release(t)
    PROVE  TokenInv'
<1>0. disposing \in [Thread -> Observer \cup {"none"}] /\ made \subseteq Observer
  BY DEF TokenInv, Token!Inv, Token!TypeOK
<1>1. ASSUME NEW r \in Observer, Token!Dispose(t, r) \/ OwnedToken!Dispose(t, r)
      PROVE  TokenInv'
  <2>1. /\ r \in made \ regDisposed /\ regDisposed' = regDisposed \cup {r}
        /\ disposing' = [disposing EXCEPT ![t] = r]
        /\ unregistered' = [unregistered EXCEPT ![t] = FALSE]
        /\ UNCHANGED <<tokenRequested, disposed, registrations, scheduled, tokenLock, made,
                       released, stage, todo, inBlock, notified, renotified, raised, stopped>>
    BY <1>1 DEF Token!Dispose, OwnedToken!Dispose, Token!tokenVars, OwnedToken!tokenVars,
       Token!history, OwnedToken!history
  <2>2. Token!TypeOK'
    BY <2>1 DEF TokenInv, Token!Inv, Token!TypeOK
  <2>3. Token!OneCanceller' /\ Token!ToldOnce' /\ Token!RaisesOnlyAfterDispose'
    BY <2>1 DEF TokenInv, Token!Inv, Token!OneCanceller, Token!ToldOnce, Token!RaisesOnlyAfterDispose
  <2>4. \A u \in Thread : disposing'[u] # "none" => disposing'[u] \in regDisposed'
    BY <1>0, <2>1 DEF TokenInv
  <2> QED BY <2>1, <2>2, <2>3, <2>4 DEF TokenInv, Token!Inv
<1>2. CASE Token!Unregister(t) \/ OwnedToken!Unregister(t)
  <2>1. /\ UNCHANGED <<tokenRequested, disposed, scheduled, tokenLock, made, regDisposed,
                       released, stage, todo, inBlock, notified, renotified, stopped>>
        /\ \/ /\ disposed /\ raised' = raised \cup {"unregister"}
              /\ disposing' = [disposing EXCEPT ![t] = "none"]
              /\ UNCHANGED <<registrations, unregistered>>
           \/ /\ registrations' \subseteq registrations
              /\ unregistered' = [unregistered EXCEPT ![t] = TRUE]
              /\ UNCHANGED <<raised, disposing>>
    BY <1>2 DEF Token!Unregister, OwnedToken!Unregister, Token!Raise, OwnedToken!Raise,
       Token!regVars, OwnedToken!regVars
  <2>2. Token!TypeOK'
    BY <2>1 DEF TokenInv, Token!Inv, Token!TypeOK, Token!Operation
  <2>3. Token!OneCanceller' /\ Token!ToldOnce'
    BY <2>1 DEF TokenInv, Token!Inv, Token!OneCanceller, Token!ToldOnce
  <2>4. Token!RaisesOnlyAfterDispose'
    BY <2>1 DEF TokenInv, Token!Inv, Token!RaisesOnlyAfterDispose
  <2>5. \A u \in Thread : disposing'[u] # "none" => disposing'[u] \in regDisposed'
    BY <1>0, <2>1 DEF TokenInv
  <2>6. registrations' \subseteq made'
    BY <2>1 DEF TokenInv
  <2> QED BY <2>1, <2>2, <2>3, <2>4, <2>5, <2>6 DEF TokenInv, Token!Inv
<1>3. CASE Token!Release(t) \/ OwnedToken!Release(t)
  <2>1. /\ disposing[t] # "none" /\ released' = released \cup {disposing[t]}
        /\ disposing' = [disposing EXCEPT ![t] = "none"]
        /\ UNCHANGED <<tokenRequested, disposed, registrations, scheduled, tokenLock, made,
                       regDisposed, stage, todo, inBlock, unregistered, notified, renotified,
                       raised, stopped>>
    BY <1>3 DEF Token!Release, OwnedToken!Release, Token!tokenVars, OwnedToken!tokenVars,
       Token!history, OwnedToken!history
  <2>2. disposing[t] \in regDisposed
    BY <2>1 DEF TokenInv
  <2>3. Token!TypeOK'
    BY <2>1, <2>2 DEF TokenInv, Token!Inv, Token!TypeOK
  <2>4. Token!OneCanceller' /\ Token!ToldOnce' /\ Token!RaisesOnlyAfterDispose'
    BY <2>1 DEF TokenInv, Token!Inv, Token!OneCanceller, Token!ToldOnce, Token!RaisesOnlyAfterDispose
  <2>5. \A u \in Thread : disposing'[u] # "none" => disposing'[u] \in regDisposed'
    BY <1>0, <2>1 DEF TokenInv
  <2> QED BY <2>1, <2>3, <2>4, <2>5 DEF TokenInv, Token!Inv
<1> QED BY <1>1, <1>2, <1>3

\* Disposing of the token.
LEMMA DisposeTokenKeepsTokenInv ==
    ASSUME TokenInv, NEW t \in Thread,
           \/ Token!DisposeToken(t) \/ OwnedToken!DisposeToken(t)
           \/ Token!DisposeNext(t) \/ OwnedToken!DisposeNext(t)
           \/ Token!TokenDisposed(t) \/ OwnedToken!TokenDisposed(t)
    PROVE  TokenInv'
<1>0. /\ stage \in [Thread -> {"idle", "cancel", "dispose"}] /\ todo \in [Thread -> SUBSET Observer]
      /\ registrations \subseteq made /\ made \subseteq Observer
  BY DEF TokenInv, Token!Inv, Token!TypeOK
<1>1. CASE Token!DisposeToken(t) \/ OwnedToken!DisposeToken(t)
  <2>1. /\ stage[t] = "idle" /\ disposed' = TRUE /\ tokenLock' = t
        /\ stage' = [stage EXCEPT ![t] = "dispose"] /\ todo' = [todo EXCEPT ![t] = registrations]
        /\ UNCHANGED <<tokenRequested, registrations, scheduled, made, regDisposed, released,
                       inBlock, disposing, unregistered, notified, renotified, raised, stopped>>
    BY <1>1 DEF Token!DisposeToken, OwnedToken!DisposeToken, Token!Idle, OwnedToken!Idle,
       Token!regVars, OwnedToken!regVars, Token!history, OwnedToken!history
  <2>2. Token!TypeOK'
    BY <1>0, <2>1 DEF TokenInv, Token!Inv, Token!TypeOK
  <2>3. \A u \in Thread : stage'[u] = "cancel" => stage[u] = "cancel" /\ todo'[u] = todo[u]
    BY <1>0, <2>1
  <2>4. Token!OneCanceller' /\ Token!ToldOnce' /\ Token!RaisesOnlyAfterDispose'
    BY <2>1, <2>3 DEF TokenInv, Token!Inv, Token!OneCanceller, Token!ToldOnce, Token!RaisesOnlyAfterDispose
  <2>5. \A u \in Thread : /\ todo'[u] \subseteq made'
                          /\ inBlock'[u] # "none" => stage'[u] = "cancel"
    BY <1>0, <2>1 DEF TokenInv
  <2> QED BY <2>1, <2>2, <2>4, <2>5 DEF TokenInv, Token!Inv
<1>2. CASE Token!DisposeNext(t) \/ OwnedToken!DisposeNext(t)
  <2>1. PICK r \in todo[t] :
        /\ stage[t] = "dispose"
        /\ UNCHANGED <<tokenRequested, disposed, registrations, scheduled, made, released,
                       inBlock, disposing, unregistered, notified, renotified, stopped>>
        /\ \/ /\ todo' = [todo EXCEPT ![t] = @ \ {r}]
              /\ UNCHANGED <<regDisposed, stage, tokenLock, raised>>
           \/ /\ regDisposed' = regDisposed \cup {r} /\ raised' = raised \cup {"dispose"}
              /\ todo' = [todo EXCEPT ![t] = {}] /\ stage' = [stage EXCEPT ![t] = "idle"]
              /\ tokenLock' = "nobody"
    BY <1>2 DEF Token!DisposeNext, OwnedToken!DisposeNext, Token!Raise, OwnedToken!Raise
  <2>2. r \in made /\ inBlock[t] = "none"
    BY <2>1 DEF TokenInv
  <2>3. CASE /\ todo' = [todo EXCEPT ![t] = @ \ {r}]
             /\ UNCHANGED <<regDisposed, stage, tokenLock, raised>>
    <3>1. Token!TypeOK'
      BY <2>1, <2>3 DEF TokenInv, Token!Inv, Token!TypeOK
    <3>2. \A u \in Thread : todo'[u] \subseteq todo[u]
      BY <1>0, <2>3
    <3>3. Token!OneCanceller' /\ Token!ToldOnce' /\ Token!RaisesOnlyAfterDispose'
      BY <2>1, <2>3, <3>2 DEF TokenInv, Token!Inv, Token!OneCanceller, Token!ToldOnce, Token!RaisesOnlyAfterDispose
    <3> QED BY <2>1, <2>3, <3>1, <3>2, <3>3 DEF TokenInv, Token!Inv
  <2>4. CASE /\ regDisposed' = regDisposed \cup {r} /\ raised' = raised \cup {"dispose"}
             /\ todo' = [todo EXCEPT ![t] = {}] /\ stage' = [stage EXCEPT ![t] = "idle"]
             /\ tokenLock' = "nobody"
    <3>1. Token!TypeOK'
      BY <2>1, <2>2, <2>4 DEF TokenInv, Token!Inv, Token!TypeOK, Token!Operation
    <3>2. \A u \in Thread : /\ todo'[u] \subseteq todo[u]
                            /\ stage'[u] = "cancel" => stage[u] = "cancel"
                            /\ inBlock'[u] # "none" => stage'[u] = "cancel"
      BY <1>0, <2>1, <2>2, <2>4 DEF TokenInv
    <3>3. Token!OneCanceller' /\ Token!ToldOnce'
      BY <2>1, <3>2 DEF TokenInv, Token!Inv, Token!OneCanceller, Token!ToldOnce
    <3>4. Token!RaisesOnlyAfterDispose'
      BY <2>4 DEF Token!RaisesOnlyAfterDispose
    <3> QED BY <2>1, <2>4, <3>1, <3>2, <3>3, <3>4 DEF TokenInv, Token!Inv
  <2> QED BY <2>1, <2>3, <2>4
<1>3. CASE Token!TokenDisposed(t) \/ OwnedToken!TokenDisposed(t)
  <2>1. /\ stage[t] = "dispose" /\ registrations' = {} /\ tokenLock' = "nobody"
        /\ stage' = [stage EXCEPT ![t] = "idle"]
        /\ UNCHANGED <<tokenRequested, disposed, scheduled, made, regDisposed, released, todo,
                       inBlock, disposing, unregistered, notified, renotified, raised, stopped>>
    BY <1>3 DEF Token!TokenDisposed, OwnedToken!TokenDisposed, Token!regVars, OwnedToken!regVars,
       Token!history, OwnedToken!history
  <2>2. Token!TypeOK'
    BY <2>1 DEF TokenInv, Token!Inv, Token!TypeOK
  <2>3. \A u \in Thread : /\ stage'[u] = "cancel" => stage[u] = "cancel"
                          /\ inBlock'[u] # "none" => stage'[u] = "cancel"
    BY <1>0, <2>1 DEF TokenInv
  <2>4. Token!OneCanceller' /\ Token!ToldOnce' /\ Token!RaisesOnlyAfterDispose'
    BY <2>1, <2>3 DEF TokenInv, Token!Inv, Token!OneCanceller, Token!ToldOnce, Token!RaisesOnlyAfterDispose
  <2> QED BY <2>1, <2>2, <2>3, <2>4 DEF TokenInv, Token!Inv
<1> QED BY <1>1, <1>2, <1>3

\* Every step of the token, whichever it is.
LEMMA NextKeepsTokenInv ==
    ASSUME TokenInv, [Token!Next \/ OwnedToken!Next]_tokenVars
    PROVE  TokenInv'
<1>1. CASE UNCHANGED tokenVars
  <2>1. UNCHANGED <<tokenRequested, disposed, registrations, scheduled, tokenLock, made,
                    regDisposed, released, stage, todo, inBlock, disposing, unregistered,
                    notified, renotified, raised, stopped>>
    BY <1>1 DEF tokenVars
  <2>2. Token!TypeOK'
    BY <2>1 DEF TokenInv, Token!Inv, Token!TypeOK
  <2>3. Token!OneCanceller' /\ Token!ToldOnce' /\ Token!RaisesOnlyAfterDispose'
    BY <2>1 DEF TokenInv, Token!Inv, Token!OneCanceller, Token!ToldOnce,
       Token!RaisesOnlyAfterDispose
  <2> QED BY <2>1, <2>2, <2>3 DEF TokenInv, Token!Inv
<1>2. ASSUME NEW t \in Thread,
             \/ Token!Cancel(t, scheduled) \/ OwnedToken!Cancel(t, scheduled)
             \/ Token!TimerFires(t) \/ OwnedToken!TimerFires(t)
      PROVE  TokenInv'
  <2>1. PICK due \in SUBSET scheduled : Token!Cancel(t, due) \/ OwnedToken!Cancel(t, due)
    BY <1>2 DEF Token!TimerFires, OwnedToken!TimerFires
  <2> QED BY <2>1, CancelKeepsTokenInv
<1>3. ASSUME NEW t \in Thread, Token!Proceed(t) \/ OwnedToken!Proceed(t)
      PROVE  TokenInv'
  BY <1>3, NotifyKeepsTokenInv, ReturnKeepsTokenInv, DisposeKeepsTokenInv,
     DisposeTokenKeepsTokenInv DEF Token!Proceed, OwnedToken!Proceed
<1>4. CASE Token!Next
  BY <1>2, <1>3, <1>4, RegisterKeepsTokenInv, ReturnKeepsTokenInv, DisposeKeepsTokenInv,
     DisposeTokenKeepsTokenInv DEF Token!Next
<1>5. CASE OwnedToken!Next
  BY <1>2, <1>3, <1>5, RegisterKeepsTokenInv, ReturnKeepsTokenInv, DisposeKeepsTokenInv,
     DisposeTokenKeepsTokenInv DEF OwnedToken!Next
<1> QED BY <1>1, <1>4, <1>5

\* A delay is taken back by the thread that uses delays.
LEMMA NextKeepsDelaysInv ==
    ASSUME TokenInv, DelaysInv, [Token!Next]_tokenVars
    PROVE  DelaysInv'
<1>1. CASE \E t \in Thread, due \in BOOLEAN : Token!CancelAfterDelay(t, due)
  <2>1. PICK t \in Timers, due \in BOOLEAN :
            \/ UNCHANGED <<scheduled, stopped>>
            \/ /\ stopped' = ~due
               /\ \/ scheduled' = scheduled \ {t}
                  \/ due /\ scheduled' = scheduled \cup {t}
    BY <1>1 DEF Token!CancelAfterDelay
  <2>2. CASE UNCHANGED <<scheduled, stopped>>
    BY <2>2 DEF DelaysInv, Token!NothingDueOnceStopped
  <2>3. CASE due /\ stopped' = ~due /\ scheduled' = scheduled \cup {t}
    BY <2>3 DEF DelaysInv, Token!NothingDueOnceStopped
  <2>4. CASE scheduled' = scheduled \ {t}
    BY <2>4 DEF DelaysInv, Token!NothingDueOnceStopped
  <2> QED BY <2>1, <2>2, <2>3, <2>4
<1>2. ASSUME NEW t \in Thread,
             Token!Cancel(t, scheduled) \/ Token!TimerFires(t)
      PROVE  scheduled' \subseteq scheduled /\ stopped' = stopped
  BY <1>2 DEF Token!TimerFires, Token!Cancel
<1>3. ASSUME NEW t \in Thread,
             \/ \E r \in Observer : Token!Register(t, r) \/ Token!Dispose(t, r)
             \/ Token!DisposeToken(t)
             \/ Token!BlockEnds(t) \/ Token!CancelReturns(t)
             \/ Token!Unregister(t) \/ Token!Release(t)
             \/ Token!DisposeNext(t) \/ Token!TokenDisposed(t)
      PROVE  scheduled' = scheduled /\ stopped' = stopped
  BY <1>3 DEF Token!Register, Token!Dispose, Token!DisposeToken, Token!BlockEnds,
     Token!CancelReturns, Token!Unregister, Token!Release, Token!DisposeNext,
     Token!TokenDisposed, Token!tokenVars, Token!history
<1>4. ASSUME NEW t \in Thread, NEW r \in Observer, Token!Notify(t, r)
      PROVE  scheduled' = scheduled /\ stopped' = stopped
  BY <1>4 DEF Token!Notify, Token!tokenVars
<1>5. CASE ~\E t \in Thread, due \in BOOLEAN : Token!CancelAfterDelay(t, due)
  <2>1. scheduled' \subseteq scheduled /\ stopped' = stopped
    BY <1>2, <1>3, <1>4, <1>5 DEF Token!Next, Token!Proceed, tokenVars
  <2> QED BY <2>1 DEF DelaysInv, Token!NothingDueOnceStopped
<1> QED BY <1>1, <1>5

\* A step of the composition is one of the token or leaves it alone.
LEMMA TokenMoves ==
    ASSUME [BoltsNext]_boltsVars
    PROVE  /\ UNCHANGED subject
           /\ [Token!Next \/ OwnedToken!Next]_tokenVars
           /\ subject = "token" => [Token!Next]_tokenVars
BY DEF BoltsNext, boltsVars

\* The invariant of the token in the composition.
TokenAlways == TokenInv /\ (subject = "token" => DelaysInv)

LEMMA TokenAlwaysHolds == BoltsSpec => []TokenAlways
<1>1. BoltsInit => TokenAlways
  BY TokenInitInv DEF BoltsInit, TokenAlways
<1>2. TokenAlways /\ [BoltsNext]_boltsVars => TokenAlways'
  BY TokenMoves, NextKeepsTokenInv, NextKeepsDelaysInv DEF TokenAlways
<1> QED BY <1>1, <1>2, PTL DEF BoltsSpec

\* cancel, cancelAfterDelay: and dispose, for any number of threads and observers: one
\* thread notifies, each observer once, and nothing is due once it was stopped.
THEOREM TokenTellsOnce == BoltsSpec => []TokenTells
<1>1. TokenAlways => TokenTells
  BY DEF TokenAlways, TokenTells, TokenInv, DelaysInv
<1> QED BY <1>1, TokenAlwaysHolds, PTL

\* [registration dispose] waits for the block of that registration.
LEMMA DisposeFindsNobodyInBlock ==
    ASSUME TokenInv, [Token!Next \/ OwnedToken!Next]_tokenVars,
           NEW r \in regDisposed' \ regDisposed, NEW u \in Thread, inBlock[u] = r
    PROVE  disposing'[u] = r
<1>0. disposing \in [Thread -> Observer \cup {"none"}] /\ todo \in [Thread -> SUBSET Observer]
  BY DEF TokenInv, Token!Inv, Token!TypeOK
<1>1. ASSUME NEW t \in Thread, NEW s \in Observer,
             Token!Dispose(t, s) \/ OwnedToken!Dispose(t, s)
      PROVE  disposing'[u] = r
  BY <1>0, <1>1 DEF Token!Dispose, OwnedToken!Dispose, Token!RegFree, OwnedToken!RegFree
<1>2. ASSUME NEW t \in Thread, Token!DisposeNext(t) \/ OwnedToken!DisposeNext(t)
      PROVE  FALSE
  <2>1. stage[t] = "dispose" /\ r \in todo[t] /\ Token!RegFree(r, t)
    BY <1>2 DEF Token!DisposeNext, OwnedToken!DisposeNext, Token!RegFree, OwnedToken!RegFree
  <2>2. u = t /\ r \in Observer
    BY <1>0, <2>1 DEF Token!RegFree
  <2> QED BY <2>1, <2>2, BoltsAssumption DEF TokenInv, Token!TokenAssumption
<1>3. ASSUME NEW t \in Thread,
             \/ \E due \in SUBSET scheduled : Token!Cancel(t, due) \/ OwnedToken!Cancel(t, due)
             \/ \E s \in Observer : \/ Token!Register(t, s) \/ OwnedToken!Register(t, s)
                                    \/ Token!Notify(t, s) \/ OwnedToken!Notify(t, s)
             \/ \E due \in BOOLEAN : \/ Token!CancelAfterDelay(t, due)
                                     \/ OwnedToken!CancelAfterDelay(t, due)
      PROVE  regDisposed' = regDisposed
  BY <1>3 DEF Token!Cancel, OwnedToken!Cancel, Token!Register, OwnedToken!Register,
     Token!Notify, OwnedToken!Notify, Token!CancelAfterDelay, OwnedToken!CancelAfterDelay,
     Token!regVars, OwnedToken!regVars
<1>4. ASSUME NEW t \in Thread,
             \/ Token!DisposeToken(t) \/ OwnedToken!DisposeToken(t)
             \/ Token!BlockEnds(t) \/ OwnedToken!BlockEnds(t)
             \/ Token!CancelReturns(t) \/ OwnedToken!CancelReturns(t)
             \/ Token!Unregister(t) \/ OwnedToken!Unregister(t)
             \/ Token!Release(t) \/ OwnedToken!Release(t)
             \/ Token!TokenDisposed(t) \/ OwnedToken!TokenDisposed(t)
      PROVE  regDisposed' = regDisposed
  BY <1>4 DEF Token!DisposeToken, OwnedToken!DisposeToken, Token!BlockEnds,
     OwnedToken!BlockEnds, Token!CancelReturns, OwnedToken!CancelReturns, Token!Unregister,
     OwnedToken!Unregister, Token!Release, OwnedToken!Release, Token!TokenDisposed,
     OwnedToken!TokenDisposed, Token!regVars, OwnedToken!regVars
<1>5. CASE Token!Next
  BY <1>1, <1>2, <1>3, <1>4, <1>5 DEF Token!Next, Token!Proceed, Token!TimerFires
<1>6. CASE OwnedToken!Next
  BY <1>1, <1>2, <1>3, <1>4, <1>6 DEF OwnedToken!Next, OwnedToken!Proceed, OwnedToken!TimerFires
<1> QED BY <1>5, <1>6 DEF tokenVars

\* With assertions, notifyDelegate: calls no block of a disposed registration.
LEMMA DisposedIsNotTold ==
    ASSUME [Token!Next]_tokenVars
    PROVE  ~Token!ToldWhenDisposed
<1>1. ASSUME NEW t \in Thread, NEW r \in Observer, Token!Notify(t, r)
      PROVE  ~Token!ToldWhenDisposed
  BY <1>1 DEF Token!Notify, Token!ToldWhenDisposed
<1>2. ASSUME NEW t \in Thread,
             \/ \E due \in SUBSET scheduled : Token!Cancel(t, due)
             \/ \E r \in Observer : Token!Register(t, r) \/ Token!Dispose(t, r)
             \/ \E due \in BOOLEAN : Token!CancelAfterDelay(t, due)
             \/ Token!DisposeToken(t)
             \/ Token!BlockEnds(t) \/ Token!CancelReturns(t)
             \/ Token!Unregister(t) \/ Token!Release(t)
             \/ Token!DisposeNext(t) \/ Token!TokenDisposed(t)
      PROVE  notified' = notified
  BY <1>2 DEF Token!Cancel, Token!Register, Token!Dispose, Token!CancelAfterDelay,
     Token!DisposeToken, Token!BlockEnds, Token!CancelReturns, Token!Unregister, Token!Release,
     Token!DisposeNext, Token!TokenDisposed, Token!history
<1>3. CASE Token!Next
  BY <1>1, <1>2, <1>3 DEF Token!Next, Token!Proceed, Token!TimerFires, Token!ToldWhenDisposed
<1> QED BY <1>3 DEF tokenVars, Token!ToldWhenDisposed

\* [registration dispose]: when it returns the block does not run, in another thread than
\* the one that disposes; with assertions it is not called later either.
THEOREM DisposeIsFinal == BoltsSpec => DisposeSilences
<1> DEFINE Waits == \A r \in regDisposed' \ regDisposed, t \in Thread :
                       inBlock[t] = r => disposing'[t] = r
<1>1. TokenAlways /\ [BoltsNext]_boltsVars => Waits
  BY TokenMoves, DisposeFindsNobodyInBlock DEF TokenAlways
<1>2. [BoltsNext]_boltsVars => (subject = "token" => ~Token!ToldWhenDisposed)
  BY TokenMoves, DisposedIsNotTold
<1>3. TokenAlways /\ [BoltsNext]_boltsVars => [Waits]_Token!vars
  BY <1>1
<1>4. [BoltsNext]_boltsVars => [subject = "token" => ~Token!ToldWhenDisposed]_boltsVars
  BY <1>2
<1> QED BY <1>3, <1>4, TokenAlwaysHolds, PTL DEF BoltsSpec, DisposeSilences, Token!DisposeWaits
=============================================================================
