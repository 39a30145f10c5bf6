----------------------------- MODULE ParseProofs -----------------------------
(***************************************************************************)
(* Proofs about what the application uses of Parse, for any number of      *)
(* commands, operations, objects, keys and calls.  Each part has an        *)
(* invariant of its own that every step of the composition keeps, since    *)
(* a step moves one part and leaves the others alone.                      *)
(*                                                                         *)
(* QueueInv: an operation is in an object's line once its loop has passed  *)
(* the object, and as long as it enqueues it has the mutexes of all its    *)
(* objects; so nobody comes between, and two operations are in the same    *)
(* order in every line they share.                                         *)
(*                                                                         *)
(* QueryInv: a call with a block that has neither been answered nor        *)
(* cancelled is the one whose source the query holds.                      *)
(*                                                                         *)
(* DataInv: the estimate is the end of a trace that applies the operation  *)
(* sets one by one to the server's data; lemmas on traces, by induction    *)
(* over their length, say what a change, a new set, a merge and a saved    *)
(* set do to it.  What the user made of a key is decided by the last set   *)
(* with an operation on the key.  Alone adds what holds without children:  *)
(* the server has what the object takes it to have, as far as it knows.    *)
(***************************************************************************)
EXTENDS Parse, SequenceFacts, FiniteSetTheorems, TLAPS

\* Every step of a call keeps the invariant: one step per action.
LEMMA CallNextKeepsInv == Inv /\ [Next]_callVars => Inv'
<1> SUFFICES ASSUME Inv, [Next]_callVars PROVE Inv'
  OBVIOUS
<1> USE RemoteCallAssumption DEF Inv, TypeOK, LandsAtMostAsSent, SuccessIsReal,
        IdleIsUnsent, Outcome
<1>1. ASSUME NEW c \in Call, Start(c) PROVE Inv'
  BY <1>1 DEF Start
<1>2. ASSUME NEW c \in Call, Send(c) PROVE Inv'
  BY <1>2 DEF Send
<1>3. ASSUME NEW c \in Call, Land(c) PROVE Inv'
  BY <1>3 DEF Land
<1>4. ASSUME NEW c \in Call, Succeed(c) PROVE Inv'
  BY <1>4 DEF Succeed
<1>5. ASSUME NEW c \in Call, Fail(c) PROVE Inv'
  BY <1>5 DEF Fail
<1>6. CASE AbandonAll
  BY <1>6 DEF AbandonAll
<1>7. CASE UNCHANGED callVars
  BY <1>7 DEF callVars
<1> QED BY <1>1, <1>2, <1>3, <1>4, <1>5, <1>6, <1>7 DEF Next

\* The invariant holds before any call is started.
LEMMA CallInitInv == Init => Inv
BY RemoteCallAssumption
   DEF Init, Inv, TypeOK, LandsAtMostAsSent, SuccessIsReal, IdleIsUnsent, Outcome

\* Any number of calls, each attempted any number of times: the server carries
\* none out more often than it was sent, and a reported success is real.
THEOREM RemoteCallInvariant == Spec => []Inv
BY CallInitInv, CallNextKeepsInv, PTL DEF Spec

-----------------------------------------------------------------------------
\* x has passed its object o in its loop.
Passed(x, o) == \E i \in 1 .. Len(objects[x]) : i < at[x] /\ objects[x][i] = o

\* What an operation's loop has done by when.
LoopFollowsThePhase ==
    \A x \in Op :
        /\ phase[x] = "new" => at[x] = 0
        /\ phase[x] = "locking" => at[x] = 1
        /\ phase[x] = "enqueueing" => at[x] > 0
        /\ phase[x] \in {"waiting", "running", "ended"} => at[x] > Len(objects[x])
        /\ at[x] <= Len(objects[x]) + 1

\* While it enqueues, an operation has the mutexes of all its objects.
HasItsMutexes ==
    \A x \in Op : phase[x] = "enqueueing" =>
        \A o \in Queue!Range(objects[x]) : mutex[o] = x

\* An operation is in an object's line from the moment its loop has passed the object.
LineIsThePassed ==
    \A o \in QueuedObject, x \in Op :
        x \in Queue!Range(line[o]) <=> Passed(x, o)

\* Nobody comes behind an operation while it enqueues.
LastWhileEnqueueing ==
    \A o \in QueuedObject : \A i \in 1 .. Len(line[o]) :
        phase[line[o][i]] = "enqueueing" => i = Len(line[o])

\* An operation runs only after those it waits for have ended.
RunsWhenReady == \A x \in Op : phase[x] = "running" => Queue!Ready(x)

\* The inductive invariant of the queues.
QueueInv == /\ Queue!Inv /\ LoopFollowsThePhase /\ HasItsMutexes /\ LineIsThePassed
            /\ LastWhileEnqueueing /\ RunsWhenReady /\ Queue!SameOrderInAllQueues

\* What an operation's array of objects is.
LEMMA ArrayType ==
    ASSUME MaxObjects \in Nat, NEW s \in {<<>>} \cup Queue!Array
    PROVE  /\ s \in Seq(QueuedObject) /\ Len(s) \in 0 .. MaxObjects
           /\ Queue!Range(s) = {s[i] : i \in 1 .. Len(s)}
           /\ Queue!Range(s) \subseteq QueuedObject
           /\ \A i, j \in 1 .. Len(s) : s[i] = s[j] => i = j
           /\ s # <<>> => Len(s) > 0
<1>1. CASE s = <<>>
  BY <1>1 DEF Queue!Range
<1>2. CASE s \in Queue!Array
  <2>1. PICK n \in 1 .. MaxObjects : s \in [1 .. n -> QueuedObject] /\ Queue!IsInjective(s)
    BY <1>2 DEF Queue!Array
  <2>2. s \in Seq(QueuedObject) /\ Len(s) = n
    BY <2>1
  <2> QED BY <2>1, <2>2 DEF Queue!IsInjective, Queue!Range
<1> QED BY <1>1, <1>2

\* The line of an object.
LEMMA LineType ==
    ASSUME NEW s \in Seq(Op)
    PROVE  /\ Len(s) \in Nat /\ DOMAIN s = 1 .. Len(s)
           /\ \A i \in 1 .. Len(s) : s[i] \in Op
           /\ Queue!Range(s) = {s[i] : i \in 1 .. Len(s)}
           /\ Queue!IsInjective(s) <=> \A i, j \in 1 .. Len(s) : s[i] = s[j] => i = j
BY DEF Queue!Range, Queue!IsInjective

\* At first nobody is in a line.
LEMMA QueueInitInv == Queue!QueueAssumption /\ Queue!Init => QueueInv
<1> SUFFICES ASSUME Queue!QueueAssumption, Queue!Init PROVE QueueInv
  OBVIOUS
<1> USE DEF Queue!Init, Queue!QueueAssumption
<1>1. Queue!TypeOK
  BY DEF Queue!TypeOK, Queue!Phase
<1>2. \A x \in Op : objects[x] = <<>> /\ Len(objects[x]) = 0
  OBVIOUS
<1>3. \A o \in QueuedObject : line[o] = <<>> /\ Len(line[o]) = 0 /\ DOMAIN line[o] = {}
                              /\ Queue!Range(line[o]) = {}
  BY DEF Queue!Range
<1>4. Queue!TailIsTheLine
  BY <1>3 DEF Queue!TailIsTheLine, Queue!IsInjective
<1>5. LoopFollowsThePhase /\ HasItsMutexes /\ RunsWhenReady /\ Queue!LocksInOrder
  BY <1>2 DEF LoopFollowsThePhase, HasItsMutexes, RunsWhenReady, Queue!LocksInOrder
<1>6. LineIsThePassed /\ LastWhileEnqueueing /\ Queue!SameOrderInAllQueues
  BY <1>2, <1>3 DEF LineIsThePassed, Passed, LastWhileEnqueueing,
                    Queue!SameOrderInAllQueues, Queue!Before
<1> QED BY <1>1, <1>4, <1>5, <1>6 DEF QueueInv, Queue!Inv

\* A step that adds to no line and ends nothing early keeps what the lines say.
LEMMA SameLines ==
    ASSUME UNCHANGED <<line, tail, awaits>>, Queue!TypeOK, Queue!TailIsTheLine,
           \A o \in QueuedObject : mutex'[o] # "nobody" =>
               /\ phase'[mutex'[o]] \in {"locking", "enqueueing"}
               /\ o \in Queue!Range(objects'[mutex'[o]])
    PROVE  Queue!TailIsTheLine' /\ (Queue!SameOrderInAllQueues => Queue!SameOrderInAllQueues')
BY DEF Queue!TailIsTheLine, Queue!SameOrderInAllQueues, Queue!Before

\* _enqueue:forObjects: begins.
LEMMA StartKeepsQueueInv ==
    ASSUME Queue!QueueAssumption, QueueInv, NEW x \in Op, Queue!Start(x)
    PROVE  QueueInv'
<1> USE DEF Queue!Start, Queue!Goes, QueueInv, Queue!Inv
<1>0. MaxObjects \in Nat \ {0} /\ "nobody" \notin Op
  BY DEF Queue!QueueAssumption
<1>1. PICK array \in Queue!Array : objects' = [objects EXCEPT ![x] = array]
  OBVIOUS
<1>2. Queue!TypeOK'
  BY <1>0, <1>1 DEF Queue!TypeOK, Queue!Phase
<1>3. objects \in [Op -> {<<>>} \cup Queue!Array] /\ phase \in [Op -> Queue!Phase]
      /\ at \in [Op -> 0 .. MaxObjects + 1] /\ line \in [QueuedObject -> Seq(Op)]
      /\ mutex \in [QueuedObject -> Op \cup {"nobody"}]
  BY DEF Queue!TypeOK
<1>4. array \in Seq(QueuedObject) /\ Len(array) \in Nat
  BY <1>0, ArrayType
<1>5. \A y \in Op : y # x => objects'[y] = objects[y] /\ phase'[y] = phase[y]
                             /\ at'[y] = at[y]
  BY <1>1, <1>3
<1>6. objects'[x] = array /\ phase'[x] = "locking" /\ at'[x] = 1 /\ phase[x] = "new"
      /\ at[x] = 0
  BY <1>1, <1>3 DEF LoopFollowsThePhase
<1>7. \A o \in QueuedObject, y \in Op : Passed(y, o)' <=> Passed(y, o)
  BY <1>3, <1>4, <1>5, <1>6 DEF Passed
<1>8. Queue!TailIsTheLine' /\ Queue!SameOrderInAllQueues'
  <2>1. \A o \in QueuedObject : mutex[o] # x
    BY <1>6, <1>0 DEF Queue!TailIsTheLine
  <2>2. \A o \in QueuedObject : mutex'[o] # "nobody" =>
               /\ phase'[mutex'[o]] \in {"locking", "enqueueing"}
               /\ o \in Queue!Range(objects'[mutex'[o]])
    BY <2>1, <1>3, <1>5 DEF Queue!TailIsTheLine
  <2> QED BY <2>2, SameLines
<1>9. LoopFollowsThePhase'
  BY <1>3, <1>4, <1>5, <1>6 DEF LoopFollowsThePhase
<1>10. HasItsMutexes'
  BY <1>3, <1>5, <1>6 DEF HasItsMutexes
<1>11. LineIsThePassed'
  BY <1>7 DEF LineIsThePassed
<1>12. LastWhileEnqueueing'
  BY <1>3, <1>5, <1>6, LineType DEF LastWhileEnqueueing
<1>13. RunsWhenReady'
  BY <1>3, <1>5, <1>6 DEF RunsWhenReady, Queue!Ready, Queue!Ended, Queue!TypeOK
<1>14. Queue!LocksInOrder'
  <2> SUFFICES ASSUME NEW y \in Op, phase'[y] = "locking",
                      NEW p \in Queue!Range(objects'[y]), NEW q \in Queue!Rest(y)',
                      mutex'[p] = y
               PROVE  Address[p] < Address[q]
    BY DEF Queue!LocksInOrder
  <2>1. CASE y = x
    <3>1. p \in QueuedObject
      BY <2>1, <1>0, <1>6, ArrayType
    <3> QED BY <3>1, <2>1, <1>0, <1>6 DEF Queue!TailIsTheLine
  <2>2. CASE y # x
    BY <2>2, <1>5 DEF Queue!LocksInOrder, Queue!Rest
  <2> QED BY <2>1, <2>2
<1> QED BY <1>2, <1>8, <1>9, <1>10, <1>11, <1>12, <1>13, <1>14

\* It takes the next mutex.
LEMMA LockKeepsQueueInv ==
    ASSUME Queue!QueueAssumption, QueueInv, NEW x \in Op, Queue!Lock(x)
    PROVE  QueueInv'
<1> USE DEF Queue!Lock, Queue!Goes, QueueInv, Queue!Inv
<1>0. MaxObjects \in Nat \ {0} /\ "nobody" \notin Op
  BY DEF Queue!QueueAssumption
<1>1. PICK o \in QueuedObject :
          /\ o \in Queue!Rest(x) /\ mutex[o] = "nobody"
          /\ \A p \in Queue!Rest(x) : Address[o] <= Address[p]
          /\ mutex' = [mutex EXCEPT ![o] = x]
          /\ \/ Queue!Rest(x) = {o} /\ phase' = [phase EXCEPT ![x] = "enqueueing"]
             \/ phase' = phase
  BY DEF Queue!FirstOf
<1>2. objects \in [Op -> {<<>>} \cup Queue!Array] /\ phase \in [Op -> Queue!Phase]
      /\ at \in [Op -> 0 .. MaxObjects + 1] /\ line \in [QueuedObject -> Seq(Op)]
      /\ mutex \in [QueuedObject -> Op \cup {"nobody"}] /\ awaits \in [Op -> SUBSET Op]
  BY DEF Queue!TypeOK
<1>3. Queue!TypeOK'
  BY <1>0, <1>1 DEF Queue!TypeOK, Queue!Phase
<1>4. phase[x] = "locking" /\ at[x] = 1 /\ Len(objects[x]) \in Nat
      /\ phase'[x] \in {"locking", "enqueueing"} /\ \A y \in Op : y # x => phase'[y] = phase[y]
  BY <1>0, <1>1, <1>2, ArrayType DEF LoopFollowsThePhase
<1>5. Queue!TailIsTheLine' /\ Queue!SameOrderInAllQueues'
  <2>1. ASSUME NEW p \in QueuedObject, mutex'[p] # "nobody"
        PROVE  /\ phase'[mutex'[p]] \in {"locking", "enqueueing"}
               /\ p \in Queue!Range(objects'[mutex'[p]])
    BY <2>1, <1>1, <1>2, <1>4 DEF Queue!TailIsTheLine, Queue!Rest
  <2> QED BY <2>1, SameLines
<1>6. LoopFollowsThePhase'
  <2>1. \A y \in Op : Len(objects[y]) \in Nat
    BY <1>0, <1>2, ArrayType
  <2> QED BY <2>1, <1>2, <1>4 DEF LoopFollowsThePhase
<1>7. HasItsMutexes'
  <2> SUFFICES ASSUME NEW y \in Op, phase'[y] = "enqueueing", NEW p \in Queue!Range(objects[y])
               PROVE  mutex'[p] = y
    BY DEF HasItsMutexes
  <2>1. p \in QueuedObject
    BY <1>0, <1>2, ArrayType
  <2>2. CASE y # x
    BY <2>1, <2>2, <1>0, <1>1, <1>2, <1>4 DEF HasItsMutexes
  <2>3. CASE y = x
    BY <2>1, <2>3, <1>1, <1>2, <1>4 DEF Queue!Rest
  <2> QED BY <2>2, <2>3
<1>8. LineIsThePassed'
  BY DEF LineIsThePassed, Passed
<1>9. LastWhileEnqueueing'
  <2>1. \A p \in QueuedObject : ~Passed(x, p)
    BY <1>4 DEF Passed
  <2>2. \A p \in QueuedObject : \A i \in 1 .. Len(line[p]) : line[p][i] # x
    BY <2>1, <1>2, LineType DEF LineIsThePassed
  <2> QED BY <2>2, <1>2, <1>4, LineType DEF LastWhileEnqueueing
<1>10. RunsWhenReady'
  <2>1. \A y \in Op : phase'[y] = "running" => phase[y] = "running"
    BY <1>4
  <2>2. \A y \in Op : phase[y] = "ended" => phase'[y] = "ended"
    BY <1>4
  <2> QED BY <1>2, <2>1, <2>2 DEF RunsWhenReady, Queue!Ready, Queue!Ended
<1>11. Queue!LocksInOrder'
  <2> SUFFICES ASSUME NEW y \in Op, phase'[y] = "locking",
                      NEW p \in Queue!Range(objects'[y]), NEW q \in Queue!Rest(y)',
                      mutex'[p] = y
               PROVE  Address[p] < Address[q]
    BY DEF Queue!LocksInOrder
  <2>0. phase[y] = "locking" /\ objects' = objects
    BY <1>4
  <2>1. /\ p \in QueuedObject /\ q \in QueuedObject /\ q \in Queue!Range(objects[y])
        /\ mutex'[q] # y /\ p # q
    BY <1>0, <1>2, ArrayType DEF Queue!Rest
  <2>2. q \in Queue!Rest(y) /\ (y = x => q # o)
    BY <2>1, <1>0, <1>1, <1>2 DEF Queue!Rest
  <2>3. CASE y = x /\ p = o
    <3>1. Address[o] <= Address[q]
      BY <2>2, <2>3, <1>1
    <3> QED BY <3>1, <2>1, <2>3 DEF Queue!QueueAssumption
  <2>4. CASE ~(y = x /\ p = o)
    <3>1. mutex[p] = y
      BY <2>1, <2>4, <1>1, <1>2
    <3> QED BY <3>1, <2>0, <2>2 DEF Queue!LocksInOrder
  <2> QED BY <2>3, <2>4
<1> QED BY <1>3, <1>5, <1>6, <1>7, <1>8, <1>9, <1>10, <1>11

\* It lets go of the mutexes, runs, and ends.
LEMMA UnlockRunEndKeepQueueInv ==
    ASSUME Queue!QueueAssumption, QueueInv, NEW x \in Op,
           Queue!Unlock(x) \/ Queue!Run(x) \/ Queue!End(x)
    PROVE  QueueInv'
<1> USE DEF Queue!Unlock, Queue!Run, Queue!End, Queue!Goes, QueueInv, Queue!Inv
<1>0. MaxObjects \in Nat \ {0} /\ "nobody" \notin Op
  BY DEF Queue!QueueAssumption
<1>1. objects \in [Op -> {<<>>} \cup Queue!Array] /\ phase \in [Op -> Queue!Phase]
      /\ at \in [Op -> 0 .. MaxObjects + 1] /\ line \in [QueuedObject -> Seq(Op)]
      /\ mutex \in [QueuedObject -> Op \cup {"nobody"}] /\ awaits \in [Op -> SUBSET Op]
  BY DEF Queue!TypeOK
<1>2. Queue!TypeOK'
  BY <1>0 DEF Queue!TypeOK, Queue!Phase
<1>3. /\ phase'[x] \in {"waiting", "running", "ended"} /\ at[x] > Len(objects[x])
      /\ \A y \in Op : y # x => phase'[y] = phase[y]
      /\ phase'[x] = "running" => Queue!Ready(x)
      /\ UNCHANGED <<objects, at, tail, awaits, line>>
  BY <1>1 DEF LoopFollowsThePhase
<1>4. \A o \in QueuedObject : /\ mutex'[o] # "nobody" => mutex'[o] = mutex[o]
                              /\ mutex[o] # x => mutex'[o] = mutex[o]
                              /\ mutex'[o] # x
  <2>1. CASE Queue!Unlock(x)
    <3>1. \A o \in QueuedObject : mutex'[o] = IF mutex[o] = x THEN "nobody" ELSE mutex[o]
      BY <2>1
    <3> QED BY <3>1, <1>0
  <2>2. CASE Queue!Run(x) \/ Queue!End(x)
    <3>1. mutex' = mutex /\ phase[x] \in {"waiting", "running"}
      BY <2>2
    <3>2. \A o \in QueuedObject : mutex[o] # x
      BY <3>1, <1>0 DEF Queue!TailIsTheLine
    <3> QED BY <3>1, <3>2
  <2> QED BY <2>1, <2>2
<1>5. Queue!TailIsTheLine' /\ Queue!SameOrderInAllQueues'
  <2>1. ASSUME NEW p \in QueuedObject, mutex'[p] # "nobody"
        PROVE  /\ phase'[mutex'[p]] \in {"locking", "enqueueing"}
               /\ p \in Queue!Range(objects'[mutex'[p]])
    BY <2>1, <1>1, <1>3, <1>4 DEF Queue!TailIsTheLine
  <2> QED BY <2>1, <1>3, SameLines
<1>6. LoopFollowsThePhase'
  BY <1>1, <1>3 DEF LoopFollowsThePhase
<1>7. HasItsMutexes'
  <2> SUFFICES ASSUME NEW y \in Op, phase'[y] = "enqueueing", NEW p \in Queue!Range(objects[y])
               PROVE  mutex'[p] = y
    BY <1>3 DEF HasItsMutexes
  <2>1. p \in QueuedObject
    BY <1>0, <1>1, ArrayType
  <2> QED BY <2>1, <1>3, <1>4 DEF HasItsMutexes
<1>8. LineIsThePassed'
  BY <1>3 DEF LineIsThePassed, Passed
<1>9. LastWhileEnqueueing'
  BY <1>1, <1>3, LineType DEF LastWhileEnqueueing
<1>10. RunsWhenReady'
  BY <1>1, <1>3 DEF RunsWhenReady, Queue!Ready, Queue!Ended
<1>11. Queue!LocksInOrder'
  <2> SUFFICES ASSUME NEW y \in Op, phase'[y] = "locking",
                      NEW p \in Queue!Range(objects'[y]), NEW q \in Queue!Rest(y)',
                      mutex'[p] = y
               PROVE  Address[p] < Address[q]
    BY DEF Queue!LocksInOrder
  <2>1. p \in QueuedObject /\ q \in QueuedObject /\ y # x /\ phase[y] = "locking"
    BY <1>0, <1>1, <1>3, ArrayType DEF Queue!Rest
  <2>2. mutex[p] = y /\ q \in Queue!Rest(y)
    BY <2>1, <1>0, <1>3, <1>4 DEF Queue!Rest
  <2> QED BY <2>1, <2>2, <1>3 DEF Queue!LocksInOrder
<1> QED BY <1>2, <1>5, <1>6, <1>7, <1>8, <1>9, <1>10, <1>11

\* It enqueues with its next object: the one step that adds to a line.
LEMMA EnqueueKeepsQueueInv ==
    ASSUME Queue!QueueAssumption, QueueInv, NEW x \in Op, Queue!Enqueue(x)
    PROVE  QueueInv'
<1> DEFINE o == objects[x][at[x]]
           n == Len(line[o])
<1> USE DEF QueueInv, Queue!Inv
<1>0. MaxObjects \in Nat \ {0} /\ "nobody" \notin Op
  BY DEF Queue!QueueAssumption
<1>1. objects \in [Op -> {<<>>} \cup Queue!Array] /\ phase \in [Op -> Queue!Phase]
      /\ at \in [Op -> 0 .. MaxObjects + 1] /\ line \in [QueuedObject -> Seq(Op)]
      /\ mutex \in [QueuedObject -> Op \cup {"nobody"}] /\ awaits \in [Op -> SUBSET Op]
      /\ tail \in [QueuedObject -> SUBSET Op]
  BY DEF Queue!TypeOK
<1>2. /\ objects[x] \in Seq(QueuedObject) /\ Len(objects[x]) \in 0 .. MaxObjects
      /\ Queue!Range(objects[x]) = {objects[x][i] : i \in 1 .. Len(objects[x])}
      /\ \A i, j \in 1 .. Len(objects[x]) : objects[x][i] = objects[x][j] => i = j
  BY <1>0, <1>1, ArrayType
<1>3. phase[x] = "enqueueing" /\ at[x] \in 1 .. Len(objects[x])
  BY <1>1, <1>2 DEF Queue!Enqueue, LoopFollowsThePhase
<1>4. o \in QueuedObject /\ o \in Queue!Range(objects[x])
  BY <1>2, <1>3
<1>5. mutex[o] = x
  BY <1>3, <1>4 DEF HasItsMutexes
<1>6. line[o] \in Seq(Op) /\ n \in Nat /\ Queue!Range(line[o]) = {line[o][i] : i \in 1 .. n}
  BY <1>1, <1>4, LineType
<1>7. \A i \in 1 .. n : line[o][i] # x
  <2>1. ~Passed(x, o)
    BY <1>2, <1>3 DEF Passed
  <2> QED BY <2>1, <1>4, <1>6 DEF LineIsThePassed
<1>8. /\ UNCHANGED <<objects, phase, mutex>> /\ at' = [at EXCEPT ![x] = @ + 1]
      /\ awaits' = [awaits EXCEPT ![x] = @ \cup tail[o]]
      /\ tail' = [tail EXCEPT ![o] = @ \cup {x}]
      /\ line' = [line EXCEPT ![o] = Append(@, x)]
  BY DEF Queue!Enqueue, Queue!NewTail
<1>9. /\ \A p \in QueuedObject : p # o => line'[p] = line[p]
      /\ line'[o] \in Seq(Op) /\ Len(line'[o]) = n + 1
      /\ \A i \in 1 .. n : line'[o][i] = line[o][i]
      /\ line'[o][n + 1] = x
      /\ Queue!Range(line'[o]) = Queue!Range(line[o]) \cup {x}
  <2>1. line'[o] = Append(line[o], x) /\ \A p \in QueuedObject : p # o => line'[p] = line[p]
    BY <1>1, <1>4, <1>8
  <2>2. Queue!Range(line'[o]) = Range(line'[o]) /\ Queue!Range(line[o]) = Range(line[o])
    BY DEF Queue!Range, Range
  <2>3. /\ Append(line[o], x) \in Seq(Op) /\ Len(Append(line[o], x)) = n + 1
        /\ \A i \in 1 .. n : Append(line[o], x)[i] = line[o][i]
        /\ Append(line[o], x)[n + 1] = x
    BY <1>6, AppendType
  <2>4. Range(Append(line[o], x)) = Range(line[o]) \cup {x}
    BY <1>6, RangeOfAppend
  <2> HIDE DEF o, n
  <2> QED BY <2>1, <2>2, <2>3, <2>4
<1> HIDE DEF o, n
<1>10. Queue!TypeOK'
  <2>1. line' \in [QueuedObject -> Seq(Op)]
    BY <1>1, <1>4, <1>8, <1>9
  <2>2. at' \in [Op -> 0 .. MaxObjects + 1]
    BY <1>0, <1>1, <1>2, <1>3, <1>8
  <2>3. tail' \in [QueuedObject -> SUBSET Op] /\ awaits' \in [Op -> SUBSET Op]
    BY <1>1, <1>4, <1>8
  <2> QED BY <2>1, <2>2, <2>3, <1>1, <1>8 DEF Queue!TypeOK
<1>11. Queue!TailIsTheLine'
  <2>1. \A p \in QueuedObject : tail'[p] = Queue!Range(line'[p])
    BY <1>1, <1>4, <1>8, <1>9 DEF Queue!TailIsTheLine
  <2>2. ASSUME NEW p \in QueuedObject PROVE Queue!IsInjective(line'[p])
    <3>1. Queue!IsInjective(line[p]) /\ line[p] \in Seq(Op)
      BY <1>1 DEF Queue!TailIsTheLine
    <3>2. CASE p # o
      BY <3>1, <3>2, <1>9
    <3>3. CASE p = o
      <4>1. \A i, j \in 1 .. n : line[o][i] = line[o][j] => i = j
        BY <3>1, <3>3, LineType DEF n
      <4>2. \A i, j \in 1 .. n + 1 : line'[o][i] = line'[o][j] => i = j
        BY <4>1, <1>6, <1>7, <1>9
      <4> QED BY <4>2, <1>9, <3>3, LineType
    <3> QED BY <3>2, <3>3
  <2>3. ASSUME NEW p \in QueuedObject, NEW i \in 1 .. Len(line'[p]),
               NEW j \in 1 .. Len(line'[p]), i < j
        PROVE  line'[p][i] \in awaits'[line'[p][j]]
    <3>0. \A y \in Op : awaits[y] \subseteq awaits'[y]
      BY <1>1, <1>8
    <3>1. CASE p # o
      BY <3>0, <3>1, <2>3, <1>1, <1>9, LineType DEF Queue!TailIsTheLine
    <3>2. CASE p = o /\ j # n + 1
      <4>1. i \in 1 .. n /\ j \in 1 .. n
        BY <3>2, <2>3, <1>6, <1>9
      <4>2. line[o][i] \in awaits[line[o][j]] /\ line[o][j] \in Op
        BY <4>1, <2>3, <1>4, <1>6, LineType DEF Queue!TailIsTheLine, n
      <4> QED BY <4>1, <4>2, <3>0, <3>2, <1>9
    <3>3. CASE p = o /\ j = n + 1
      <4>1. i \in 1 .. n
        BY <3>3, <2>3, <1>6, <1>9
      <4>2. line[o][i] \in tail[o]
        BY <4>1, <1>4, <1>6 DEF Queue!TailIsTheLine
      <4> QED BY <4>1, <4>2, <3>3, <1>1, <1>8, <1>9
    <3> QED BY <3>1, <3>2, <3>3
  <2>4. \A p \in QueuedObject : mutex'[p] # "nobody" =>
          /\ phase'[mutex'[p]] \in {"locking", "enqueueing"}
          /\ p \in Queue!Range(objects'[mutex'[p]])
    BY <1>8 DEF Queue!TailIsTheLine
  <2> QED BY <2>1, <2>2, <2>3, <2>4 DEF Queue!TailIsTheLine
<1>12. LoopFollowsThePhase'
  BY <1>1, <1>2, <1>3, <1>8 DEF LoopFollowsThePhase
<1>13. HasItsMutexes'
  BY <1>8 DEF HasItsMutexes
<1>14. LineIsThePassed'
  <2> SUFFICES ASSUME NEW p \in QueuedObject, NEW y \in Op
               PROVE  y \in Queue!Range(line'[p]) <=> Passed(y, p)'
    BY DEF LineIsThePassed
  <2>1. y \in Queue!Range(line[p]) <=> Passed(y, p)
    BY DEF LineIsThePassed
  <2>2. y \in Queue!Range(line'[p]) <=> y \in Queue!Range(line[p]) \/ (y = x /\ p = o)
    BY <1>9
  <2>3. CASE y # x
    BY <2>1, <2>2, <2>3, <1>1, <1>8 DEF Passed
  <2>4. CASE y = x
    <3>1. at'[x] = at[x] + 1 /\ objects' = objects /\ objects[x][at[x]] = o
      BY <1>1, <1>8 DEF o
    <3>2. Passed(x, p)' <=> Passed(x, p) \/ p = o
      BY <3>1, <1>2, <1>3 DEF Passed
    <3> QED BY <3>2, <2>1, <2>2, <2>4
  <2> QED BY <2>3, <2>4
<1>15. LastWhileEnqueueing'
  <2> SUFFICES ASSUME NEW p \in QueuedObject, NEW i \in 1 .. Len(line'[p]),
                      phase[line'[p][i]] = "enqueueing"
               PROVE  i = Len(line'[p])
    BY <1>8 DEF LastWhileEnqueueing
  <2>1. CASE p # o
    BY <2>1, <1>9 DEF LastWhileEnqueueing
  <2>2. CASE p = o /\ i # n + 1
    <3>1. i \in 1 .. n /\ phase[line[o][i]] = "enqueueing" /\ line[o][i] \in Op
      BY <2>2, <1>6, <1>9, LineType DEF n
    <3>2. Passed(line[o][i], o)
      BY <3>1, <1>4, <1>6 DEF LineIsThePassed
    <3>3. o \in Queue!Range(objects[line[o][i]])
      <4> DEFINE y == line[o][i]
      <4>1. PICK j \in 1 .. Len(objects[y]) : objects[y][j] = o
        BY <3>2 DEF Passed
      <4>2. y \in Op
        BY <3>1
      <4> HIDE DEF y
      <4>3. o \in Queue!Range(objects[y])
        BY <4>1, <4>2, <1>0, <1>1, ArrayType
      <4> QED BY <4>3 DEF y
    <3>4. mutex[o] = line[o][i]
      BY <3>1, <3>3 DEF HasItsMutexes
    <3> QED BY <3>1, <3>4, <1>5, <1>7
  <2> QED BY <2>1, <2>2, <1>9
<1>16. RunsWhenReady'
  BY <1>1, <1>3, <1>8 DEF RunsWhenReady, Queue!Ready, Queue!Ended
<1>17. Queue!SameOrderInAllQueues'
  <2>1. \A p \in QueuedObject, y \in Op : ~Queue!Before(p, x, y)
    BY <1>1, <1>3, LineType DEF Queue!Before, LastWhileEnqueueing
  <2>2. \A y \in Op : ~Queue!Before(o, y, x)
    BY <1>4, <1>6, <1>7 DEF Queue!Before, n
  <2>3. ASSUME NEW p \in QueuedObject, NEW y \in Op, NEW z \in Op, Queue!Before(p, y, z)'
        PROVE  Queue!Before(p, y, z) \/ (p = o /\ z = x /\ y # x)
    <3>1. PICK i, j \in 1 .. Len(line'[p]) : i < j /\ line'[p][i] = y /\ line'[p][j] = z
      BY <2>3 DEF Queue!Before
    <3>2. CASE p # o
      BY <3>1, <3>2, <1>9 DEF Queue!Before
    <3>3. CASE p = o /\ j # n + 1
      <4>1. i \in 1 .. n /\ j \in 1 .. n
        BY <3>1, <3>3, <1>6, <1>9
      <4>2. line[o][i] = y /\ line[o][j] = z
        BY <4>1, <3>1, <3>3, <1>9
      <4> QED BY <4>1, <4>2, <3>1, <3>3 DEF Queue!Before, n
    <3>4. CASE p = o /\ j = n + 1
      BY <3>1, <3>4, <1>6, <1>7, <1>9
    <3> QED BY <3>2, <3>3, <3>4
  <2> QED BY <2>1, <2>3 DEF Queue!SameOrderInAllQueues
<1>18. Queue!LocksInOrder'
  BY <1>8 DEF Queue!LocksInOrder, Queue!Rest
<1> QED BY <1>10, <1>11, <1>12, <1>13, <1>14, <1>15, <1>16, <1>17, <1>18

\* Every step is one of the queues' or leaves them alone.
LEMMA QueueMoves == [ParseNext]_parseVars => [Queue!Next]_queueVars
BY DEF ParseNext, parseVars, queueVars

\* Every step keeps the invariant of the queues.
LEMMA NextKeepsQueueInv == QueueInv /\ [ParseNext]_parseVars => QueueInv'
<1> SUFFICES ASSUME QueueInv, [Queue!Next]_queueVars PROVE QueueInv'
  BY QueueMoves
<1>1. Queue!QueueAssumption
  BY ParseAssumption
<1>2. CASE Queue!Next
  BY <1>1, <1>2, StartKeepsQueueInv, LockKeepsQueueInv, EnqueueKeepsQueueInv,
     UnlockRunEndKeepQueueInv DEF Queue!Next
<1>3. CASE UNCHANGED queueVars
  <2>1. Queue!Inv'
    BY <1>3 DEF queueVars, QueueInv, Queue!Inv, Queue!TypeOK, Queue!TailIsTheLine,
                Queue!LocksInOrder, Queue!Rest
  <2>2. (LoopFollowsThePhase /\ HasItsMutexes /\ RunsWhenReady)'
    BY <1>3 DEF queueVars, QueueInv, LoopFollowsThePhase, HasItsMutexes,
                RunsWhenReady, Queue!Ready, Queue!Ended
  <2>3. (LineIsThePassed /\ LastWhileEnqueueing /\ Queue!SameOrderInAllQueues)'
    BY <1>3 DEF queueVars, QueueInv, LineIsThePassed, Passed, LastWhileEnqueueing,
                Queue!SameOrderInAllQueues, Queue!Before
  <2> QED BY <2>1, <2>2, <2>3 DEF QueueInv
<1> QED BY <1>2, <1>3

\* An operation runs in its turn, since it waits for those before it in a line.
LEMMA QueueInvImplies == QueueInv => QueuesAgree
<1> SUFFICES ASSUME QueueInv PROVE Queue!RunsInTurn
  BY DEF QueuesAgree, QueueInv
<1> SUFFICES ASSUME NEW o \in QueuedObject, NEW x \in Op, NEW y \in Op,
                    Queue!Before(o, x, y), phase[y] = "running"
             PROVE  Queue!Ended(x)
  BY DEF Queue!RunsInTurn
<1>1. x \in awaits[y]
  BY DEF QueueInv, Queue!Inv, Queue!TailIsTheLine, Queue!Before
<1> QED BY <1>1 DEF QueueInv, RunsWhenReady, Queue!Ready

\* PFTaskQueue, _enqueue:forObjects: for any objects and operations: one runs at a
\* time for each object, in one order for all objects they share.
THEOREM QueuesStayInAgreement == ParseSpec => []QueuesAgree
<1>1. ParseInit => QueueInv
  BY ParseAssumption, QueueInitInv DEF ParseInit
<1> QED BY <1>1, NextKeepsQueueInv, QueueInvImplies, PTL DEF ParseSpec

-----------------------------------------------------------------------------
\* The calls with their two legs.
QLegs == QueryCall \X {"cache", "network"}

\* The legs of a call come one after the other, whichever calls are made.
LegsInOrder ==
    /\ SharedQuery!TypeOK
    /\ \A c \in QueryCall :
          /\ caller[c] \in {"new", "checked"} =>
                stage[<<c, "cache">>] = "absent" /\ stage[<<c, "network">>] = "absent"
          /\ stage[<<c, "cache">>] # "waiting"
          /\ \/ stage[<<c, "network">>] \in {"absent", "waiting"}
             \/ stage[<<c, "cache">>] \in {"absent", "done"}
    /\ \A x \in told : stage[x] = "done"

\* What a leg's step may do to the order of the legs.
LEMMA LegsMove ==
    ASSUME LegsInOrder, SharedQuery!TypeOK', NEW x \in QLegs,
           \A y \in QLegs : y # x => \/ stage'[y] = stage[y]
                                     \/ stage[y] = "waiting" /\ y[1] = x[1] /\ stage'[x] = "done"
                                        /\ stage'[y] = "starting",
           stage[x] \notin {"absent", "waiting", "done"},
           stage'[x] \notin {"absent", "waiting"},
           told' = told \/ (told' = told \cup {x} /\ stage'[x] = "done"),
           UNCHANGED caller
    PROVE  LegsInOrder'
<1> USE DEF QLegs
<1>1. /\ stage \in [QLegs -> {"absent", "waiting", "starting", "running",
                         "answered", "queued", "done"}]
      /\ told \subseteq QLegs
  BY DEF LegsInOrder, SharedQuery!TypeOK, SharedQuery!Legs, SharedQuery!Leg
<1>2. PICK d \in QueryCall, l \in {"cache", "network"} : x = <<d, l>>
  OBVIOUS
<1>3. ASSUME NEW c \in QueryCall
      PROVE  /\ caller'[c] \in {"new", "checked"} =>
                stage'[<<c, "cache">>] = "absent" /\ stage'[<<c, "network">>] = "absent"
             /\ stage'[<<c, "cache">>] # "waiting"
             /\ \/ stage'[<<c, "network">>] \in {"absent", "waiting"}
                \/ stage'[<<c, "cache">>] \in {"absent", "done"}
  <2>0. <<c, "cache">> \in QLegs /\ <<c, "network">> \in QLegs /\ <<c, "cache">> # <<c, "network">>
    OBVIOUS
  <2>1. CASE c # d
    <3>1. <<c, "cache">> # x /\ <<c, "network">> # x /\ <<c, "cache">>[1] # x[1]
          /\ <<c, "network">>[1] # x[1]
      BY <1>2, <2>1
    <3>2. stage'[<<c, "cache">>] = stage[<<c, "cache">>]
          /\ stage'[<<c, "network">>] = stage[<<c, "network">>]
      BY <3>1, <2>0
    <3> QED BY <3>2 DEF LegsInOrder
  <2>2. CASE c = d /\ l = "cache"
    BY <2>0, <2>2, <1>2 DEF LegsInOrder
  <2>3. CASE c = d /\ l = "network"
    BY <2>0, <2>3, <1>2 DEF LegsInOrder
  <2> QED BY <1>2, <2>1, <2>2, <2>3
<1>4. \A y \in told' : stage'[y] = "done"
  BY <1>1 DEF LegsInOrder
<1> QED BY <1>3, <1>4 DEF LegsInOrder

\* What making a call may do to it.
LEMMA CallsMove ==
    ASSUME LegsInOrder, NEW c \in QueryCall, caller[c] \in {"new", "checked"},
           NEW v \in {"checked", "made", "refused", "raised"},
           caller' = [caller EXCEPT ![c] = v], source' \in {source, c},
           \/ stage' = stage
           \/ v = "made" /\ \E kind \in {"network", "cacheThenNetwork"} :
                               stage' = SharedQuery!LegsOf(c, kind),
           UNCHANGED <<legOutcome, cancelled, told, hushed>>
    PROVE  LegsInOrder'
<1> USE DEF QLegs
<1>1. /\ stage \in [QLegs -> {"absent", "waiting", "starting", "running",
                         "answered", "queued", "done"}]
      /\ told \subseteq QLegs
      /\ caller \in [QueryCall -> {"new", "checked", "made", "refused", "raised"}]
  BY DEF LegsInOrder, SharedQuery!TypeOK, SharedQuery!Legs, SharedQuery!Leg
<1>2. /\ stage' \in [QLegs -> {"absent", "waiting", "starting", "running",
                         "answered", "queued", "done"}]
      /\ \A y \in QLegs : y[1] # c => stage'[y] = stage[y]
      /\ v # "made" => stage' = stage
      /\ stage'[<<c, "cache">>] # "waiting"
      /\ \/ stage'[<<c, "network">>] \in {"absent", "waiting"}
         \/ stage'[<<c, "cache">>] \in {"absent", "done"}
  BY <1>1 DEF LegsInOrder, SharedQuery!LegsOf, SharedQuery!Legs, SharedQuery!Leg
<1>3. caller' \in [QueryCall -> {"new", "checked", "made", "refused", "raised"}]
      /\ caller'[c] = v /\ \A d \in QueryCall : d # c => caller'[d] = caller[d]
  BY <1>1
<1>4. SharedQuery!TypeOK'
  BY <1>2, <1>3 DEF LegsInOrder, SharedQuery!TypeOK, SharedQuery!Legs, SharedQuery!Leg
<1>5. \A x \in told' : stage'[x] = "done"
  <2> SUFFICES ASSUME NEW x \in told PROVE stage'[x] = "done"
    OBVIOUS
  <2>1. x \in QLegs /\ stage[x] = "done"
    BY <1>1 DEF LegsInOrder
  <2>2. x[1] # c
    <3>1. PICK d \in QueryCall, l \in {"cache", "network"} : x = <<d, l>>
      BY <2>1
    <3> QED BY <2>1, <3>1 DEF LegsInOrder
  <2> QED BY <1>2, <2>1, <2>2
<1>6. ASSUME NEW d \in QueryCall
      PROVE  /\ caller'[d] \in {"new", "checked"} =>
                stage'[<<d, "cache">>] = "absent" /\ stage'[<<d, "network">>] = "absent"
             /\ stage'[<<d, "cache">>] # "waiting"
             /\ \/ stage'[<<d, "network">>] \in {"absent", "waiting"}
                \/ stage'[<<d, "cache">>] \in {"absent", "done"}
  <2>1. CASE d = c
    BY <2>1, <1>2, <1>3 DEF LegsInOrder
  <2>2. CASE d # c
    <3>1. stage'[<<d, "cache">>] = stage[<<d, "cache">>]
          /\ stage'[<<d, "network">>] = stage[<<d, "network">>]
      BY <1>2, <2>2
    <3> QED BY <3>1, <2>2, <1>3 DEF LegsInOrder
  <2> QED BY <2>1, <2>2
<1> QED BY <1>4, <1>5, <1>6 DEF LegsInOrder

\* The steps of both queries.
LEMMA NextKeepsLegsInOrder ==
    ASSUME LegsInOrder, [BlockQuery!Next \/ SharedQuery!Next]_queryVars
    PROVE  LegsInOrder'
<1>0. /\ SharedQuery!QueryAssumption /\ BlockQuery!QueryAssumption
      /\ SharedQuery!Legs = QLegs /\ BlockQuery!Legs = QLegs
  BY ParseAssumption DEF QLegs, SharedQuery!Legs, SharedQuery!Leg, BlockQuery!Legs, BlockQuery!Leg
<1>1. /\ stage \in [QLegs -> {"absent", "waiting", "starting", "running",
                         "answered", "queued", "done"}]
      /\ legOutcome \in [QLegs -> {"none", "answer", "cancelled"}]
      /\ hushed \in [QLegs -> {"no", "unanswered", "answered"}]
      /\ told \subseteq QLegs /\ cancelled \subseteq QueryCall
      /\ source \in QueryCall \cup {NoCall}
      /\ caller \in [QueryCall -> {"new", "checked", "made", "refused", "raised"}]
  BY <1>0 DEF LegsInOrder, SharedQuery!TypeOK
<1>2. ASSUME NEW c \in QueryCall, BlockQuery!FindWithBlock(c) \/ BlockQuery!Check(c) \/ BlockQuery!MarkAsRunning(c)
      PROVE  LegsInOrder'
  <2>1. \A kind \in {"network"} : BlockQuery!LegsOf(c, kind) = SharedQuery!LegsOf(c, kind)
    BY <1>0 DEF BlockQuery!LegsOf, SharedQuery!LegsOf
  <2> QED
    BY <1>2, <2>1, CallsMove DEF BlockQuery!FindWithBlock, BlockQuery!Check, BlockQuery!MarkAsRunning,
       BlockQuery!Refuse, BlockQuery!MarkAndStart
<1>3. ASSUME NEW c \in QueryCall, SharedQuery!FindWithBlock(c) \/ SharedQuery!Check(c) \/ SharedQuery!MarkAsRunning(c)
      PROVE  LegsInOrder'
  BY <1>3, CallsMove DEF SharedQuery!FindWithBlock, SharedQuery!Check,
     SharedQuery!MarkAsRunning, SharedQuery!Refuse, SharedQuery!MarkAndStart
<1>4. ASSUME NEW x \in QLegs, BlockQuery!StartLeg(x) \/ SharedQuery!StartLeg(x)
                           \/ BlockQuery!Answer(x) \/ SharedQuery!Answer(x)
      PROVE  LegsInOrder'
  <2>1. SharedQuery!TypeOK'
    BY <1>0, <1>1, <1>4 DEF SharedQuery!TypeOK, BlockQuery!StartLeg, SharedQuery!StartLeg,
       BlockQuery!Answer, SharedQuery!Answer, BlockQuery!AnswerOf, SharedQuery!AnswerOf
  <2> QED BY <1>1, <1>4, <2>1, LegsMove DEF BlockQuery!StartLeg, SharedQuery!StartLeg,
             BlockQuery!Answer, SharedQuery!Answer
<1>5. ASSUME NEW x \in QLegs, BlockQuery!ClearSource(x) \/ SharedQuery!ClearSource(x)
      PROVE  LegsInOrder'
  <2>1. SharedQuery!TypeOK'
    BY <1>0, <1>1, <1>5 DEF SharedQuery!TypeOK, BlockQuery!ClearSource, SharedQuery!ClearSource,
       BlockQuery!SourceAfter, SharedQuery!SourceAfter
  <2> QED BY <1>1, <1>5, <2>1, LegsMove DEF BlockQuery!ClearSource, SharedQuery!ClearSource
<1>6. ASSUME NEW x \in QLegs, BlockQuery!CallBack(x) \/ SharedQuery!CallBack(x)
      PROVE  LegsInOrder'
  <2>1. /\ stage[x] = "queued" /\ stage'[x] = "done"
        /\ stage' \in [QLegs -> {"absent", "waiting", "starting", "running",
                         "answered", "queued", "done"}]
        /\ \A y \in QLegs : y # x => \/ stage'[y] = stage[y]
                                     \/ stage[y] = "waiting" /\ y[1] = x[1] /\ stage'[x] = "done"
                                        /\ stage'[y] = "starting"
        /\ told' \in {told, told \cup {x}}
        /\ UNCHANGED <<source, caller, legOutcome, cancelled, hushed>>
    BY <1>0, <1>1, <1>6 DEF BlockQuery!CallBack, SharedQuery!CallBack
  <2>2. SharedQuery!TypeOK'
    BY <1>0, <1>1, <2>1 DEF SharedQuery!TypeOK
  <2> QED BY <2>1, <2>2, LegsMove
<1>7. ASSUME BlockQuery!Cancel \/ SharedQuery!Cancel
      PROVE  LegsInOrder'
  <2>1. SharedQuery!TypeOK'
    <3>1. cancelled' \subseteq QueryCall /\ source' \in QueryCall \cup {NoCall}
      BY <1>1, <1>7 DEF BlockQuery!Cancel, SharedQuery!Cancel
    <3>2. hushed' \in [QLegs -> {"no", "unanswered", "answered"}]
      BY <1>0, <1>1, <1>7 DEF BlockQuery!Cancel, SharedQuery!Cancel
    <3>3. UNCHANGED <<caller, stage, legOutcome, told>>
      BY <1>7 DEF BlockQuery!Cancel, SharedQuery!Cancel
    <3> QED BY <1>0, <1>1, <3>1, <3>2, <3>3 DEF SharedQuery!TypeOK
  <2>2. UNCHANGED <<caller, stage, legOutcome, told>>
    BY <1>7 DEF BlockQuery!Cancel, SharedQuery!Cancel
  <2> QED BY <2>1, <2>2 DEF LegsInOrder
<1>8. CASE UNCHANGED queryVars
  BY <1>8 DEF queryVars, LegsInOrder, SharedQuery!TypeOK
<1> QED BY <1>0, <1>2, <1>3, <1>4, <1>5, <1>6, <1>7, <1>8 DEF BlockQuery!Next, SharedQuery!Next

\* Of a query that is called with blocks only: a call asks the network alone; who
\* waits for an answer uncancelled is the one the query holds, and its leg is
\* the one that resets it; whom cancel found unanswered stays cancelled.
OneCallAtATime ==
    /\ \A c \in QueryCall :
          /\ caller[c] # "checked" /\ stage[<<c, "cache">>] = "absent"
          /\ stage[<<c, "network">>] # "waiting"
          /\ c \in cancelled => caller[c] # "new"
          /\ c \notin cancelled /\ BlockQuery!Unanswered(<<c, "network">>) => source = c
    /\ source # NoCall => /\ source \notin cancelled
                          /\ BlockQuery!Outstanding(<<source, "network">>)
    /\ \A x \in QLegs : hushed[x] = "unanswered" =>
          /\ x[1] \in cancelled
          /\ BlockQuery!Unanswered(x) \/ legOutcome[x] = "cancelled"
          /\ x \notin told

\* The inductive invariant of the two queries.
QueryInv == LegsInOrder /\ (subject = "blockQuery" => OneCallAtATime)

\* The steps of the query with blocks.
LEMMA NextKeepsOneCallAtATime ==
    ASSUME LegsInOrder, OneCallAtATime, [BlockQuery!Next]_queryVars
    PROVE  OneCallAtATime'
<1>0. /\ BlockQuery!QueryAssumption /\ NoCall \notin QueryCall
      /\ BlockQuery!Legs = QLegs
  BY ParseAssumption DEF QLegs, BlockQuery!QueryAssumption, BlockQuery!Legs, BlockQuery!Leg
<1>1. /\ stage \in [QLegs -> {"absent", "waiting", "starting", "running",
                         "answered", "queued", "done"}]
      /\ legOutcome \in [QLegs -> {"none", "answer", "cancelled"}]
      /\ hushed \in [QLegs -> {"no", "unanswered", "answered"}]
      /\ told \subseteq QLegs /\ cancelled \subseteq QueryCall
      /\ source \in QueryCall \cup {NoCall}
      /\ caller \in [QueryCall -> {"new", "checked", "made", "refused", "raised"}]
  BY DEF QLegs, LegsInOrder, SharedQuery!TypeOK, SharedQuery!Legs, SharedQuery!Leg
<1>2. \A c \in QueryCall : <<c, "network">> \in QLegs /\ <<c, "cache">> \in QLegs
                           /\ <<c, "network">>[1] = c
                           /\ <<c, "cache">> # <<c, "network">>
  BY DEF QLegs
<1>3. ASSUME NEW c \in QueryCall, BlockQuery!FindWithBlock(c) PROVE OneCallAtATime'
  <2>1. CASE BlockQuery!Refuse(c)
    BY <2>1, <1>1, <1>3 DEF BlockQuery!Refuse, BlockQuery!FindWithBlock, OneCallAtATime,
       BlockQuery!Unanswered, BlockQuery!Outstanding
  <2>2. CASE ~BlockQuery!Refuse(c)
    <3>1. /\ source = NoCall /\ source' = c /\ caller[c] = "new"
          /\ caller' = [caller EXCEPT ![c] = "made"]
          /\ stage' = BlockQuery!LegsOf(c, "network")
          /\ UNCHANGED <<legOutcome, cancelled, told, hushed>>
      BY <2>2, <1>3 DEF BlockQuery!FindWithBlock, BlockQuery!MarkAndStart
    <3>2. /\ \A x \in QLegs : x[1] # c => stage'[x] = stage[x]
          /\ stage'[<<c, "cache">>] = "absent" /\ stage'[<<c, "network">>] = "starting"
      BY <3>1, <1>0, <1>2 DEF BlockQuery!LegsOf
    <3>3. c \notin cancelled /\ caller'[c] = "made" /\ \A d \in QueryCall : d # c => caller'[d] = caller[d]
      BY <3>1, <1>1 DEF OneCallAtATime
    <3>4. ASSUME NEW d \in QueryCall
          PROVE  /\ caller'[d] # "checked" /\ stage'[<<d, "cache">>] = "absent"
                 /\ stage'[<<d, "network">>] # "waiting"
                 /\ d \in cancelled' => caller'[d] # "new"
                 /\ d \notin cancelled' /\ BlockQuery!Unanswered(<<d, "network">>)' => source' = d
      <4>1. CASE d = c
        BY <4>1, <3>1, <3>2, <3>3
      <4>2. CASE d # c
        <5>1. stage'[<<d, "cache">>] = stage[<<d, "cache">>]
              /\ stage'[<<d, "network">>] = stage[<<d, "network">>]
          BY <4>2, <3>2, <1>2
        <5> QED BY <5>1, <4>2, <3>1, <3>3, <1>0 DEF OneCallAtATime, BlockQuery!Unanswered
      <4> QED BY <4>1, <4>2
    <3>5. source' \notin cancelled' /\ BlockQuery!Outstanding(<<source, "network">>)'
      BY <3>1, <3>2, <3>3 DEF BlockQuery!Outstanding
    <3>6. ASSUME NEW x \in QLegs, hushed'[x] = "unanswered"
          PROVE  /\ x[1] \in cancelled'
                 /\ BlockQuery!Unanswered(x)' \/ legOutcome'[x] = "cancelled"
                 /\ x \notin told'
      BY <3>6, <3>1, <3>2, <3>3 DEF OneCallAtATime, BlockQuery!Unanswered
    <3> QED BY <3>1, <3>3, <3>4, <3>5, <3>6 DEF OneCallAtATime
  <2> QED BY <2>1, <2>2
<1>4. ASSUME NEW c \in QueryCall, BlockQuery!Check(c) \/ BlockQuery!MarkAsRunning(c)
      PROVE  OneCallAtATime'
  BY <1>4 DEF BlockQuery!Check, BlockQuery!MarkAsRunning, OneCallAtATime
<1>5. ASSUME NEW x \in QLegs, BlockQuery!StartLeg(x) \/ BlockQuery!Answer(x)
                              \/ BlockQuery!ClearSource(x) \/ BlockQuery!CallBack(x)
      PROVE  OneCallAtATime'
  <2>1. PICK c \in QueryCall : x = <<c, "network">>
    <3>1. PICK c \in QueryCall, l \in {"cache", "network"} : x = <<c, l>>
      BY DEF QLegs
    <3>2. stage[x] # "absent"
      BY <1>5 DEF BlockQuery!StartLeg, BlockQuery!Answer, BlockQuery!ClearSource, BlockQuery!CallBack
    <3> QED BY <3>1, <3>2 DEF OneCallAtATime
  <2>2. \A y \in QLegs : y[1] # c => y # x
    BY <2>1
  <2>3. CASE BlockQuery!StartLeg(x)
    <3>1. /\ stage[x] = "starting" /\ UNCHANGED <<source, caller, cancelled, told, hushed>>
          /\ stage'[x] \in {"answered", "running"}
          /\ \A y \in QLegs : y # x => stage'[y] = stage[y] /\ legOutcome'[y] = legOutcome[y]
          /\ c \in cancelled => legOutcome'[x] = "cancelled"
      BY <2>1, <2>3, <1>1 DEF BlockQuery!StartLeg
    <3>2. ASSUME NEW d \in QueryCall
          PROVE  /\ stage'[<<d, "cache">>] = "absent" /\ stage'[<<d, "network">>] # "waiting"
                 /\ d \notin cancelled' /\ BlockQuery!Unanswered(<<d, "network">>)' => source' = d
      <4>1. CASE d = c
        BY <4>1, <3>1, <2>1, <1>2 DEF OneCallAtATime, BlockQuery!Unanswered
      <4>2. CASE d # c
        <5>1. <<d, "network">> # x /\ <<d, "cache">> # x
          BY <4>2, <2>1
        <5> QED BY <5>1, <3>1, <1>2 DEF OneCallAtATime, BlockQuery!Unanswered
      <4> QED BY <4>1, <4>2
    <3>3. source' # NoCall => source' \notin cancelled' /\ BlockQuery!Outstanding(<<source, "network">>)'
      <4> SUFFICES ASSUME source # NoCall
                   PROVE  source \notin cancelled /\ BlockQuery!Outstanding(<<source, "network">>)'
        BY <3>1
      <4>1. source \in QueryCall /\ <<source, "network">> \in QLegs
        BY <1>1, <1>2
      <4> QED BY <4>1, <3>1 DEF OneCallAtATime, BlockQuery!Outstanding
    <3>4. \A y \in QLegs : hushed'[y] = "unanswered" =>
             /\ y[1] \in cancelled'
             /\ BlockQuery!Unanswered(y)' \/ legOutcome'[y] = "cancelled"
             /\ y \notin told'
      BY <3>1, <2>1 DEF OneCallAtATime, BlockQuery!Unanswered
    <3> QED BY <3>1, <3>2, <3>3, <3>4 DEF OneCallAtATime
  <2>4. CASE BlockQuery!Answer(x)
    BY <2>1, <2>4, <1>1, <1>2 DEF BlockQuery!Answer, BlockQuery!AnswerOf, OneCallAtATime,
       BlockQuery!Unanswered, BlockQuery!Outstanding
  <2>5. CASE BlockQuery!ClearSource(x)
    BY <2>1, <2>5, <1>1, <1>2 DEF BlockQuery!ClearSource, BlockQuery!SourceAfter, OneCallAtATime,
       BlockQuery!Unanswered, BlockQuery!Outstanding
  <2>6. CASE BlockQuery!CallBack(x)
    <3>0. \A y \in QLegs : stage[y] # "waiting"
      <4>1. ASSUME NEW d \in QueryCall, NEW l \in {"cache", "network"}
            PROVE  stage[<<d, l>>] # "waiting"
        BY DEF OneCallAtATime
      <4> SUFFICES ASSUME NEW y \in QLegs PROVE stage[y] # "waiting"
        OBVIOUS
      <4>2. PICK d \in QueryCall, l \in {"cache", "network"} : y = <<d, l>>
        BY DEF QLegs
      <4> QED BY <4>1, <4>2
    <3>1. stage' = [stage EXCEPT ![x] = "done"] /\ stage[x] = "queued"
      BY <2>6, <1>0, <1>1, <3>0 DEF BlockQuery!CallBack
    <3> QED BY <3>1, <2>1, <2>6, <1>1, <1>2 DEF BlockQuery!CallBack, OneCallAtATime,
       BlockQuery!Unanswered, BlockQuery!Outstanding
  <2> QED BY <1>5, <2>3, <2>4, <2>5, <2>6
<1>6. CASE BlockQuery!Cancel
  <2>1. /\ cancelled' = cancelled \cup ({source} \ {NoCall}) /\ source' = NoCall
        /\ UNCHANGED <<caller, stage, legOutcome, told>>
        /\ \A x \in QLegs : hushed'[x] = "unanswered" => hushed[x] = "unanswered" \/ BlockQuery!Unanswered(x)
    BY <1>6, <1>0 DEF BlockQuery!Cancel
  <2>2. \A c \in QueryCall : BlockQuery!Unanswered(<<c, "network">>) => c \in cancelled'
    BY <2>1, <1>0 DEF OneCallAtATime
  <2>3. ASSUME NEW x \in QLegs, BlockQuery!Unanswered(x)
        PROVE  x[1] \in cancelled' /\ x \notin told
    <3>1. PICK c \in QueryCall, l \in {"cache", "network"} : x = <<c, l>>
      BY DEF QLegs
    <3> QED BY <3>1, <2>2, <2>3 DEF OneCallAtATime, BlockQuery!Unanswered, LegsInOrder
  <2>4. source # NoCall => caller[source] # "new"
    BY <1>1 DEF LegsInOrder, OneCallAtATime, BlockQuery!Outstanding
  <2> QED BY <2>1, <2>2, <2>3, <2>4 DEF OneCallAtATime, BlockQuery!Unanswered
<1>7. CASE UNCHANGED queryVars
  BY <1>7 DEF queryVars, OneCallAtATime, BlockQuery!Unanswered, BlockQuery!Outstanding
<1> QED BY <1>0, <1>3, <1>4, <1>5, <1>6, <1>7 DEF BlockQuery!Next

\* Every step is one of a query's or leaves them alone.
LEMMA QueryMoves ==
    [ParseNext]_parseVars =>
        /\ [BlockQuery!Next \/ SharedQuery!Next]_queryVars
        /\ subject' = "blockQuery" => subject = "blockQuery" /\ [BlockQuery!Next]_queryVars
BY DEF ParseNext, parseVars, queryVars

\* Every step keeps the invariant of the queries.
LEMMA NextKeepsQueryInv == QueryInv /\ [ParseNext]_parseVars => QueryInv'
BY QueryMoves, NextKeepsLegsInOrder, NextKeepsOneCallAtATime DEF QueryInv

\* At first no call has been made.
LEMMA QueryInitInv == ParseInit => QueryInv
<1> SUFFICES ASSUME BlockQuery!Init PROVE LegsInOrder /\ OneCallAtATime
  BY DEF ParseInit, QueryInv
<1>1. /\ BlockQuery!Legs = QLegs /\ SharedQuery!Legs = QLegs
  BY DEF QLegs, BlockQuery!Legs, BlockQuery!Leg, SharedQuery!Legs, SharedQuery!Leg
<1>2. \A c \in QueryCall : <<c, "network">> \in QLegs /\ <<c, "cache">> \in QLegs
  BY DEF QLegs
<1>3. LegsInOrder
  BY <1>1, <1>2 DEF BlockQuery!Init, LegsInOrder, SharedQuery!TypeOK
<1>4. OneCallAtATime
  BY <1>1, <1>2 DEF BlockQuery!Init, OneCallAtATime, BlockQuery!Unanswered
<1> QED BY <1>3, <1>4

\* The invariant of the queries holds throughout.
LEMMA QueryInvHolds == ParseSpec => []QueryInv
BY QueryInitInv, NextKeepsQueryInv, PTL DEF ParseSpec

\* CallsInOrder: an unanswered call that is not cancelled is the one the query holds.
LEMMA QueryInvImpliesOrder == QueryInv => CallsInOrder
<1> SUFFICES ASSUME QueryInv PROVE CallsInOrder
  OBVIOUS
<1>1. SharedQuery!CacheBeforeNetwork
  BY DEF QueryInv, LegsInOrder, SharedQuery!CacheBeforeNetwork
<1>2. ASSUME subject = "blockQuery"
      PROVE  BlockQuery!Inv /\ BlockQuery!OneOutstanding
  <2>1. BlockQuery!TypeOK
    BY DEF QueryInv, LegsInOrder, SharedQuery!TypeOK, BlockQuery!TypeOK, SharedQuery!Legs,
           SharedQuery!Leg, BlockQuery!Legs, BlockQuery!Leg
  <2>2. BlockQuery!HeldForAReason
    BY <1>2 DEF QueryInv, OneCallAtATime, BlockQuery!HeldForAReason, BlockQuery!Leg
  <2>3. {c \in QueryCall \ cancelled : \E l \in BlockQuery!Leg : BlockQuery!Unanswered(<<c, l>>)}
           \subseteq {source}
    BY <1>2 DEF QueryInv, OneCallAtATime, BlockQuery!Unanswered, BlockQuery!Leg
  <2>4. BlockQuery!OneOutstanding
    <3> DEFINE open == {c \in QueryCall \ cancelled :
                          \E l \in BlockQuery!Leg : BlockQuery!Unanswered(<<c, l>>)}
    <3>1. Cardinality(open) <= 1
      <4>1. open = {} \/ open = {source}
        BY <2>3
      <4>2. Cardinality({}) = 0 /\ Cardinality({source}) = 1
        BY FS_EmptySet, FS_Singleton
      <4> HIDE DEF open
      <4> QED BY <4>1, <4>2
    <3>2. BlockQuery!Cardinality(open) = Cardinality(open)
      BY DEF BlockQuery!Cardinality, Cardinality
    <3> QED BY <3>1, <3>2 DEF BlockQuery!OneOutstanding
  <2> QED BY <2>1, <2>2, <2>4 DEF BlockQuery!Inv
<1> QED BY <1>1, <1>2 DEF CallsInOrder

\* checkIfCommandIsRunning:, for any number of calls: one call with a block is
\* outstanding at a time, and the network's callback is the later of the two.
THEOREM CallsStayInOrder == ParseSpec => []CallsInOrder
BY QueryInvHolds, QueryInvImpliesOrder, PTL

\* A call that had no answer when the query was cancelled never calls back.
THEOREM CancelledStaySilent == ParseSpec => []CancelStopsUnanswered
<1>1. QueryInv => CancelStopsUnanswered
  BY DEF QueryInv, LegsInOrder, OneCallAtATime, CancelStopsUnanswered,
         BlockQuery!CancelStopsUnanswered, SharedQuery!TypeOK, SharedQuery!Legs,
         SharedQuery!Leg, QLegs
<1> QED BY <1>1, QueryInvHolds, PTL

\* Only the end of the call that the query holds takes away the source.
LEMMA StepKeepsWithinReach ==
    ASSUME QueryInv, ParseNext, subject = "blockQuery"
    PROVE  BlockQuery!KeepsWithinReach
<1>1. LegsInOrder /\ OneCallAtATime /\ BlockQuery!Next
  BY DEF QueryInv, ParseNext
<1> SUFFICES ASSUME NEW c \in QueryCall, source = c, source' # c,
                    c \notin cancelled'
             PROVE  \E l \in BlockQuery!Leg : /\ stage[<<c, l>>] = "answered"
                                              /\ stage'[<<c, l>>] # "answered"
  BY DEF BlockQuery!KeepsWithinReach
<1>2. NoCall \notin QueryCall
  BY ParseAssumption DEF BlockQuery!QueryAssumption
<1>3. PICK x \in BlockQuery!Legs : BlockQuery!ClearSource(x)
  BY <1>1, <1>2 DEF BlockQuery!Next, BlockQuery!FindWithBlock, BlockQuery!Check,
     BlockQuery!MarkAsRunning, BlockQuery!Refuse, BlockQuery!MarkAndStart,
     BlockQuery!StartLeg, BlockQuery!Answer, BlockQuery!CallBack, BlockQuery!Cancel,
     OneCallAtATime
<1>4. x[1] = c
  BY <1>3 DEF BlockQuery!ClearSource, BlockQuery!SourceAfter
<1>5. PICK l \in BlockQuery!Leg : x = <<c, l>>
  BY <1>4 DEF BlockQuery!Legs
<1>6. stage \in [BlockQuery!Legs -> {"absent", "waiting", "starting", "running",
                         "answered", "queued", "done"}]
  BY <1>1 DEF LegsInOrder, SharedQuery!TypeOK, SharedQuery!Legs, SharedQuery!Leg,
              BlockQuery!Legs, BlockQuery!Leg
<1> QED BY <1>3, <1>5, <1>6 DEF BlockQuery!ClearSource

\* _findObjectsAsyncForQueryState: the end of a call leaves its successor's source.
THEOREM CallsStayCancellable == ParseSpec => StaysCancellable
<1>1. QueryInv /\ [ParseNext]_parseVars
         => [subject = "blockQuery" => BlockQuery!KeepsWithinReach]_parseVars
  BY StepKeepsWithinReach
<1> QED BY <1>1, QueryInvHolds, PTL DEF ParseSpec, StaysCancellable

-----------------------------------------------------------------------------
\* What a key may have, what an object may have, a set of operations.
Datum == Nat \cup {Object!Nil}
\* What an object may have.
Data == [Key -> Datum]
\* What a set of operations may hold.
OperationSet == [Key -> Object!Operation]

\* An operation applied to a value gives a value.
LEMMA ApplyType ==
    ASSUME NEW f \in Object!Operation, NEW old \in Datum
    PROVE  Object!Apply(f, old) \in Datum
BY DEF Object!Operation, Object!None, Object!Delete, Object!Apply, Object!Nil, Datum

\* A set of operations applied to data gives data, key by key.
LEMMA ApplySetType ==
    ASSUME NEW set \in OperationSet, NEW data \in Data
    PROVE  /\ Object!ApplySet(set, data) \in Data
           /\ \A k \in Key : Object!ApplySet(set, data)[k] = Object!Apply(set[k], data[k])
BY ApplyType DEF Object!ApplySet, OperationSet, Data

\* Merging operations is doing one after the other.
LEMMA MergeComposes ==
    ASSUME NEW f \in Object!Operation, NEW g \in Object!Operation, NEW old \in Datum
    PROVE  /\ Object!Merge(f, g) \in Object!Operation
           /\ Object!Apply(Object!Merge(f, g), old) = Object!Apply(f, Object!Apply(g, old))
<1> USE DEF Object!Operation, Object!None, Object!Delete, Object!Set, Object!Apply,
            Object!Nil, Datum, Object!Merge
<1>1. CASE f.op = "none"
  BY <1>1
<1>2. CASE f.op = "set"
  BY <1>2
<1>3. CASE f.op = "delete"
  BY <1>3
<1>4. CASE f.op = "increment"
  <2>1. CASE g.op = "none"
    BY <1>4, <2>1
  <2>2. CASE g.op = "set"
    BY <1>4, <2>2
  <2>3. CASE g.op = "delete"
    BY <1>4, <2>3
  <2>4. CASE g.op = "increment"
    BY <1>4, <2>4
  <2> QED BY <2>1, <2>2, <2>3, <2>4
<1> QED BY <1>1, <1>2, <1>3, <1>4

\* What applying the sets one after the other makes of the data.
IsTrace(t, data, sets) ==
    /\ sets \in Seq(OperationSet)
    /\ t \in [0 .. Len(sets) -> Data]
    /\ t[0] = data
    /\ \A n \in 1 .. Len(sets) : t[n] = Object!ApplySet(sets[n], t[n - 1])

\* There is such a trace, by induction over its length.
LEMMA TraceExists ==
    ASSUME NEW data \in Data, NEW sets \in Seq(OperationSet)
    PROVE  \E t : IsTrace(t, data, sets)
<1> DEFINE Upto(n, t) == /\ t \in [0 .. n -> Data] /\ t[0] = data
                         /\ \A m \in 1 .. n : t[m] = Object!ApplySet(sets[m], t[m - 1])
           S == {n \in Nat : n <= Len(sets) => \E t : Upto(n, t)}
<1>1. 0 \in S
  <2>1. Upto(0, [i \in 0 .. 0 |-> data])
    OBVIOUS
  <2> QED BY <2>1
<1>2. ASSUME NEW n \in Nat, n \in S PROVE n + 1 \in S
  <2> SUFFICES ASSUME n + 1 <= Len(sets) PROVE \E t : Upto(n + 1, t)
    OBVIOUS
  <2>1. PICK t : Upto(n, t)
    BY <1>2
  <2> DEFINE u == [i \in 0 .. n + 1 |-> IF i <= n THEN t[i]
                                        ELSE Object!ApplySet(sets[n + 1], t[n])]
  <2>2. sets[n + 1] \in OperationSet /\ t[n] \in Data
    BY <2>1
  <2>3. u \in [0 .. n + 1 -> Data]
    BY <2>1, <2>2, ApplySetType
  <2>4. Upto(n + 1, u)
    BY <2>1, <2>3
  <2> QED BY <2>4
<1>3. Len(sets) \in S
  <2> HIDE DEF S
  <2> QED BY <1>1, <1>2, NatSetInduction
<1> QED BY <1>3 DEF IsTrace

\* The estimate is the end of the trace.
LEMMA EstimateIsTraced ==
    ASSUME NEW data \in Data, NEW sets \in Seq(OperationSet)
    PROVE  \E t : IsTrace(t, data, sets) /\ Object!Estimate(data, sets) = t[Len(sets)]
<1> DEFINE Step(f) == [n \in 0 .. Len(sets) |->
                          IF n = 0 THEN data ELSE Object!ApplySet(sets[n], f[n - 1])]
           a == CHOOSE f : f = Step(f)
<1>1. PICK t : IsTrace(t, data, sets)
  BY TraceExists
<1>2. t = Step(t)
  BY <1>1 DEF IsTrace
<1>3. a = Step(a)
  <2> HIDE DEF Step
  <2> QED BY <1>2
<1>4. a[0] = data /\ \A n \in 1 .. Len(sets) : a[n] = Object!ApplySet(sets[n], a[n - 1])
  <2> HIDE DEF a
  <2> QED BY <1>3
<1> DEFINE S == {n \in Nat : n <= Len(sets) => a[n] = t[n]}
<1>5. \A n \in Nat : n \in S
  <2>1. 0 \in S
    <3> HIDE DEF a
    <3> QED BY <1>1, <1>4 DEF IsTrace
  <2>2. ASSUME NEW n \in Nat, n \in S PROVE n + 1 \in S
    <3> HIDE DEF a
    <3> QED BY <2>2, <1>1, <1>4 DEF IsTrace
  <2> HIDE DEF S
  <2> QED BY <2>1, <2>2, NatSetInduction
<1>6. a[Len(sets)] = t[Len(sets)]
  BY <1>5
<1>7. Object!Estimate(data, sets) = a[Len(sets)]
  BY DEF Object!Estimate
<1> QED BY <1>1, <1>6, <1>7

\* In the key, m sets of p behind the i-th are those of q behind the j-th.
Agree(k, p, i, q, j, m) == \A n \in 1 .. m : p[i + n][k] = q[j + n][k]

\* One step of a trace, in one key.
LEMMA TraceStep ==
    ASSUME NEW s, NEW d, NEW p, IsTrace(s, d, p), NEW k \in Key,
           NEW n \in 1 .. Len(p)
    PROVE  s[n][k] = Object!Apply(p[n][k], s[n - 1][k])
<1>1. /\ s[n] = Object!ApplySet(p[n], s[n - 1])
      /\ s[n - 1] \in Data /\ p[n] \in OperationSet
  BY DEF IsTrace
<1> QED BY <1>1, ApplySetType

\* From where they agree in a key, traces of the same operations on it go on so.
LEMMA TracesAgree ==
    ASSUME NEW s, NEW t, NEW d, NEW e,
           NEW p, NEW q, IsTrace(s, d, p), IsTrace(t, e, q), NEW k \in Key,
           NEW i \in Nat, NEW j \in Nat, NEW m \in Nat, Agree(k, p, i, q, j, m),
           NEW u \in 0 .. Len(p), NEW v \in 0 .. Len(q), u = i + m, v = j + m,
           s[i][k] = t[j][k]
    PROVE  s[u][k] = t[v][k]
<1> DEFINE S == {n \in Nat : n <= m => s[i + n][k] = t[j + n][k]}
<1>1. 0 \in S
  OBVIOUS
<1>2. ASSUME NEW n \in Nat, n \in S PROVE n + 1 \in S
  <2> SUFFICES ASSUME n + 1 <= m PROVE s[i + (n + 1)][k] = t[j + (n + 1)][k]
    OBVIOUS
  <2>0. /\ i + (n + 1) \in 1 .. Len(p) /\ (i + (n + 1)) - 1 = i + n
        /\ j + (n + 1) \in 1 .. Len(q) /\ (j + (n + 1)) - 1 = j + n
        /\ i + n \in 0 .. Len(p) /\ j + n \in 0 .. Len(q) /\ n + 1 \in 1 .. m
    OBVIOUS
  <2>1. s[i + n][k] = t[j + n][k]
    BY <1>2
  <2>2. p[i + (n + 1)][k] = q[j + (n + 1)][k]
    BY <2>0 DEF Agree
  <2>3. s[i + (n + 1)][k] = Object!Apply(p[i + (n + 1)][k], s[i + n][k])
    <3> DEFINE x == i + (n + 1)
    <3>1. s[x][k] = Object!Apply(p[x][k], s[x - 1][k])
      <4> HIDE DEF x
      <4> QED BY <2>0, TraceStep DEF x
    <3> QED BY <3>1, <2>0
  <2>4. t[j + (n + 1)][k] = Object!Apply(q[j + (n + 1)][k], t[j + n][k])
    <3> DEFINE x == j + (n + 1)
    <3>1. t[x][k] = Object!Apply(q[x][k], t[x - 1][k])
      <4> HIDE DEF x
      <4> QED BY <2>0, TraceStep DEF x
    <3> QED BY <3>1, <2>0
  <2> QED BY <2>1, <2>2, <2>3, <2>4
<1>3. m \in S
  <2> HIDE DEF S
  <2> QED BY <1>1, <1>2, NatSetInduction
<1> QED BY <1>3

\* The same for traces that agree from the start.
LEMMA TracesAgreeFromStart ==
    ASSUME NEW s, NEW t, NEW d, NEW e,
           NEW p, NEW q, IsTrace(s, d, p), IsTrace(t, e, q), NEW k \in Key,
           NEW m \in 0 .. Len(p), m \in 0 .. Len(q), d[k] = e[k], Agree(k, p, 0, q, 0, m)
    PROVE  s[m][k] = t[m][k]
<1>1. s[0][k] = t[0][k]
  BY DEF IsTrace
<1>2. m = 0 + m /\ m \in Nat /\ 0 \in Nat
  OBVIOUS
<1> QED BY <1>1, <1>2, TracesAgree

\* Sets without an operation on a key leave it.
LEMMA TraceStays ==
    ASSUME NEW s, NEW d, NEW p, IsTrace(s, d, p), NEW k \in Key,
           NEW i \in 0 .. Len(p), \A n \in i + 1 .. Len(p) : p[n][k] = Object!None
    PROVE  s[Len(p)][k] = s[i][k]
<1> DEFINE S == {n \in Nat : i + n <= Len(p) => s[i + n][k] = s[i][k]}
<1>1. 0 \in S
  OBVIOUS
<1>2. ASSUME NEW n \in Nat, n \in S PROVE n + 1 \in S
  <2> SUFFICES ASSUME i + (n + 1) <= Len(p) PROVE s[i + (n + 1)][k] = s[i][k]
    OBVIOUS
  <2>1. s[i + n][k] = s[i][k] /\ p[i + (n + 1)][k] = Object!None
    BY <1>2
  <2>2. /\ s[i + (n + 1)] = Object!ApplySet(p[i + (n + 1)], s[i + n])
        /\ s[i + n] \in Data /\ p[i + (n + 1)] \in OperationSet
    BY DEF IsTrace
  <2> QED BY <2>1, <2>2, ApplySetType DEF Object!Apply, Object!None
<1>3. Len(p) - i \in Nat /\ Len(p) - i \in S
  <2> HIDE DEF S
  <2> QED BY <1>1, <1>2, NatSetInduction
<1> QED BY <1>3

\* The estimate is data.
LEMMA EstimateType ==
    ASSUME NEW data \in Data, NEW sets \in Seq(OperationSet)
    PROVE  Object!Estimate(data, sets) \in Data
<1>1. PICK t : IsTrace(t, data, sets) /\ Object!Estimate(data, sets) = t[Len(sets)]
  BY EstimateIsTraced
<1> QED BY <1>1 DEF IsTrace

\* Data are equal if they are so in every key.
LEMMA DataEqual ==
    ASSUME NEW c \in Data, NEW d \in Data, \A k \in Key : c[k] = d[k]
    PROVE  c = d
BY DEF Data

\* The estimate of a key depends on nothing else.
LEMMA EstimateOfKey ==
    ASSUME NEW d \in Data, NEW e \in Data,
           NEW p \in Seq(OperationSet), NEW q \in Seq(OperationSet), NEW k \in Key,
           Len(p) = Len(q), d[k] = e[k], \A n \in 1 .. Len(p) : p[n][k] = q[n][k]
    PROVE  Object!Estimate(d, p)[k] = Object!Estimate(e, q)[k]
<1>1. PICK s : IsTrace(s, d, p) /\ Object!Estimate(d, p) = s[Len(p)]
  BY EstimateIsTraced
<1>2. PICK t : IsTrace(t, e, q) /\ Object!Estimate(e, q) = t[Len(q)]
  BY EstimateIsTraced
<1>3. Len(p) \in 0 .. Len(p) /\ Len(p) \in 0 .. Len(q) /\ Agree(k, p, 0, q, 0, Len(p))
  BY DEF Agree
<1>4. s[Len(p)][k] = t[Len(p)][k]
  BY <1>1, <1>2, <1>3, TracesAgreeFromStart
<1> QED BY <1>1, <1>2, <1>4

\* What a change of the user's does to the estimate: the last set gets f on top.
LEMMA EstimateOfChange ==
    ASSUME NEW d \in Data, NEW p \in Seq(OperationSet), NEW q \in Seq(OperationSet),
           NEW k \in Key, NEW f \in Object!Operation,
           Len(p) > 0, Len(q) = Len(p), \A n \in 1 .. Len(p) - 1 : q[n] = p[n],
           q[Len(p)][k] = Object!Merge(f, p[Len(p)][k])
    PROVE  Object!Estimate(d, q)[k] = Object!Apply(f, Object!Estimate(d, p)[k])
<1> DEFINE n == Len(p)
<1>0. n \in Nat /\ n \in 1 .. Len(p) /\ n \in 1 .. Len(q) /\ n - 1 \in Nat /\ 0 + (n - 1) = n - 1
  OBVIOUS
<1>1. PICK s : IsTrace(s, d, p) /\ Object!Estimate(d, p) = s[n]
  BY EstimateIsTraced
<1>2. PICK t : IsTrace(t, d, q) /\ Object!Estimate(d, q) = t[n]
  BY EstimateIsTraced
<1>3. s[n - 1][k] = t[n - 1][k]
  <2> DEFINE m == n - 1
  <2>1. m \in 0 .. Len(p) /\ m \in 0 .. Len(q) /\ Agree(k, p, 0, q, 0, m)
    BY DEF Agree
  <2> SUFFICES s[m][k] = t[m][k]
    OBVIOUS
  <2> HIDE DEF n, m
  <2> QED BY <1>0, <1>1, <1>2, <2>1, TracesAgreeFromStart
<1>4. /\ s[n][k] = Object!Apply(p[n][k], s[n - 1][k])
      /\ t[n][k] = Object!Apply(q[n][k], t[n - 1][k])
  <2> HIDE DEF n
  <2> QED BY <1>0, <1>1, <1>2, TraceStep
<1>5. p[n][k] \in Object!Operation /\ s[n - 1][k] \in Datum
  <2>1. p[n] \in OperationSet /\ s[n - 1] \in Data
    BY <1>0, <1>1 DEF IsTrace
  <2> QED BY <2>1 DEF OperationSet, Data
<1> QED BY <1>1, <1>2, <1>3, <1>4, <1>5, MergeComposes

\* A set without operations behind the others changes nothing.
LEMMA EstimateOfAppended ==
    ASSUME NEW d \in Data, NEW p \in Seq(OperationSet)
    PROVE  /\ Append(p, Object!EmptySet) \in Seq(OperationSet)
           /\ Object!Estimate(d, Append(p, Object!EmptySet)) = Object!Estimate(d, p)
<1> DEFINE q == Append(p, Object!EmptySet)
           n == Len(p)
<1>1. Object!EmptySet \in OperationSet /\ \A k \in Key : Object!EmptySet[k] = Object!None
  BY DEF Object!EmptySet, OperationSet, Object!Operation
<1>2. q \in Seq(OperationSet) /\ Len(q) = n + 1 /\ n \in Nat /\ q[n + 1] = Object!EmptySet
      /\ \A i \in 1 .. n : q[i] = p[i]
  BY <1>1, AppendType
<1> HIDE DEF q
<1>3. PICK s : IsTrace(s, d, p) /\ Object!Estimate(d, p) = s[n]
  BY EstimateIsTraced
<1>4. PICK t : IsTrace(t, d, q) /\ Object!Estimate(d, q) = t[Len(q)]
  BY <1>2, EstimateIsTraced
<1>5. ASSUME NEW k \in Key PROVE t[Len(q)][k] = s[n][k]
  <2>1. n \in 0 .. Len(p) /\ n \in 0 .. Len(q) /\ Agree(k, p, 0, q, 0, n)
    BY <1>2 DEF Agree
  <2>2. s[n][k] = t[n][k]
    <3> HIDE DEF n
    <3> QED BY <1>2, <1>3, <1>4, <2>1, TracesAgreeFromStart
  <2>3. t[Len(q)][k] = t[n][k]
    BY <1>1, <1>2, <1>4, TraceStays
  <2> QED BY <1>2, <2>2, <2>3
<1>6. Object!Estimate(d, q) \in Data /\ Object!Estimate(d, p) \in Data
  BY <1>2, EstimateType
<1> QED BY <1>2, <1>3, <1>4, <1>5, <1>6, DataEqual DEF q

\* Rolling the first set into the second changes nothing either.
LEMMA EstimateOfRolled ==
    ASSUME NEW d \in Data, NEW p \in Seq(OperationSet), Len(p) >= 2
    PROVE  /\ Object!RollForward(p) \in Seq(OperationSet)
           /\ Len(Object!RollForward(p)) = Len(p) - 1
           /\ \A k \in Key : Object!RollForward(p)[1][k] = Object!Merge(p[2][k], p[1][k])
           /\ \A n \in 2 .. Len(p) - 1 : Object!RollForward(p)[n] = p[n + 1]
           /\ Object!Estimate(d, Object!RollForward(p)) = Object!Estimate(d, p)
<1> DEFINE q == Object!RollForward(p)
           rest == SubSeq(p, 3, Len(p))
           merged == Object!MergeSets(p[2], p[1])
<1>1. merged \in OperationSet /\ \A k \in Key : merged[k] = Object!Merge(p[2][k], p[1][k])
  <2>1. p[1] \in OperationSet /\ p[2] \in OperationSet
    OBVIOUS
  <2> QED BY <2>1, MergeComposes DEF Object!MergeSets, OperationSet, Datum
<1>2. rest \in Seq(OperationSet) /\ Len(rest) = Len(p) - 2
      /\ \A n \in 1 .. Len(rest) : rest[n] = p[n + 2]
  <2>1. 3 \in 1 .. Len(p) + 1
    OBVIOUS
  <2> HIDE DEF rest
  <2>2. /\ rest \in Seq(OperationSet) /\ Len(rest) = Len(p) - 3 + 1
        /\ \A n \in 1 .. Len(p) - 3 + 1 : rest[n] = p[n + 3 - 1]
    BY <2>1, SuffixType DEF rest
  <2> QED BY <2>2
<1>3. q = <<merged>> \o rest
  BY DEF Object!RollForward
<1> HIDE DEF merged, rest, q
<1>4. q \in Seq(OperationSet) /\ Len(q) = Len(p) - 1 /\ q[1] = merged
      /\ \A n \in 2 .. Len(p) - 1 : q[n] = p[n + 1]
  <2>1. <<merged>> \in Seq(OperationSet) /\ Len(<<merged>>) = 1
    BY <1>1
  <2> QED BY <1>2, <1>3, <2>1
<1>5. PICK s : IsTrace(s, d, p) /\ Object!Estimate(d, p) = s[Len(p)]
  BY EstimateIsTraced
<1>6. PICK t : IsTrace(t, d, q) /\ Object!Estimate(d, q) = t[Len(q)]
  BY <1>4, EstimateIsTraced
<1>7. ASSUME NEW k \in Key PROVE t[Len(q)][k] = s[Len(p)][k]
  <2>1. /\ t[1][k] = Object!Apply(q[1][k], t[0][k])
        /\ s[1][k] = Object!Apply(p[1][k], s[0][k])
        /\ s[2][k] = Object!Apply(p[2][k], s[1][k])
    <3>1. /\ t[1][k] = Object!Apply(q[1][k], t[1 - 1][k])
          /\ s[1][k] = Object!Apply(p[1][k], s[1 - 1][k])
          /\ s[2][k] = Object!Apply(p[2][k], s[2 - 1][k])
      BY <1>4, <1>5, <1>6, TraceStep
    <3> QED BY <3>1
  <2>2. /\ t[0] = d /\ s[0] = d /\ d[k] \in Datum
        /\ p[1][k] \in Object!Operation /\ p[2][k] \in Object!Operation
    BY <1>5, <1>6 DEF IsTrace, Data, OperationSet
  <2>3. t[1][k] = s[2][k]
    BY <1>1, <1>4, <2>1, <2>2, MergeComposes
  <2> DEFINE m == Len(p) - 2
  <2>4. /\ m \in Nat /\ Len(p) = 2 + m /\ Len(q) = 1 + m
        /\ Len(p) \in 0 .. Len(p) /\ Len(q) \in 0 .. Len(q)
    BY <1>4
  <2>5. Agree(k, p, 2, q, 1, m)
    BY <1>4 DEF Agree
  <2> HIDE DEF m
  <2> QED BY <1>4, <1>5, <1>6, <2>3, <2>4, <2>5, TracesAgree
<1>8. Object!Estimate(d, q) \in Data /\ Object!Estimate(d, p) \in Data
  BY <1>4, EstimateType
<1>9. Object!Estimate(d, q) = Object!Estimate(d, p)
  BY <1>5, <1>6, <1>7, <1>8, DataEqual
<1> QED BY <1>1, <1>4, <1>9 DEF q

\* f makes v of whatever was there.
Makes(f, v) == \/ f = Object!Set(v)
               \/ f = Object!Delete /\ v = Object!Nil

\* The last operation on the key makes it v; or there is none and it is v.
Decided(data, sets, k, v) ==
    \/ \E i \in 1 .. Len(sets) : /\ Makes(sets[i][k], v)
                                 /\ \A j \in i + 1 .. Len(sets) : sets[j][k] = Object!None
    \/ data[k] = v /\ \A j \in 1 .. Len(sets) : sets[j][k] = Object!None

\* It depends on nothing but the key.
LEMMA DecidedOfKey ==
    ASSUME NEW d, NEW e, NEW p, NEW q, NEW k, NEW v, Len(q) = Len(p),
           d[k] = e[k], \A i \in 1 .. Len(p) : q[i][k] = p[i][k], Len(p) \in Nat,
           Decided(d, p, k, v)
    PROVE  Decided(e, q, k, v)
<1>1. CASE d[k] = v /\ \A j \in 1 .. Len(p) : p[j][k] = Object!None
  BY <1>1 DEF Decided
<1>2. ASSUME NEW i \in 1 .. Len(p), Makes(p[i][k], v),
             \A j \in i + 1 .. Len(p) : p[j][k] = Object!None
      PROVE  Decided(e, q, k, v)
  <2>1. \A j \in i + 1 .. Len(q) : q[j][k] = Object!None
    BY <1>2
  <2> QED BY <1>2, <2>1 DEF Decided
<1> QED BY <1>1, <1>2 DEF Decided

\* What is decided so is what is read.
LEMMA DecidedIsRead ==
    ASSUME NEW d \in Data, NEW p \in Seq(OperationSet), NEW k \in Key, NEW v,
           Decided(d, p, k, v)
    PROVE  Object!Estimate(d, p)[k] = v
<1>1. PICK s : IsTrace(s, d, p) /\ Object!Estimate(d, p) = s[Len(p)]
  BY EstimateIsTraced
<1>2. CASE d[k] = v /\ \A j \in 1 .. Len(p) : p[j][k] = Object!None
  <2>1. s[Len(p)][k] = s[0][k]
    BY <1>1, <1>2, TraceStays
  <2> QED BY <1>1, <1>2, <2>1 DEF IsTrace
<1>3. ASSUME NEW i \in 1 .. Len(p), Makes(p[i][k], v),
             \A j \in i + 1 .. Len(p) : p[j][k] = Object!None
      PROVE  s[Len(p)][k] = v
  <2>1. s[Len(p)][k] = s[i][k]
    BY <1>1, <1>3, TraceStays
  <2>2. s[i][k] = Object!Apply(p[i][k], s[i - 1][k])
    BY <1>1, TraceStep
  <2>3. s[i][k] = v
    BY <1>3, <2>2 DEF Makes, Object!Set, Object!Delete, Object!Apply
  <2> QED BY <2>1, <2>3
<1> QED BY <1>1, <1>2, <1>3 DEF Decided

-----------------------------------------------------------------------------
\* A save has taken its changes and has not ended.
SaveUnderWay == jobPhase \in {"children", "sending"}

\* The types of the variables, of both objects.
ObjectTypes ==
    /\ serverData \in Data /\ server \in Data /\ estimated \in Data
    /\ queue \in Seq(OperationSet) /\ late \subseteq OperationSet
    /\ dirty \in BOOLEAN /\ childDirty \in BOOLEAN /\ unheard \in BOOLEAN
    /\ jobs \in Seq({"save", "fetch"}) /\ jobPhase \in Object!Phase
    /\ wire \in Nat /\ jobSent \in Nat /\ jobLanded \in Nat
    /\ wish \in [Key -> Datum \cup {Object!Open}]

\* There is a set for the changes to come, and in a save one that is being saved.
SetsForAll == Len(queue) >= IF SaveUnderWay THEN 2 ELSE 1

\* The wire is that of a save under way.
WireIsTheSaves == /\ jobPhase # "idle" => jobs # <<>>
                  /\ wire > 0 \/ jobLanded > 0 => jobPhase = "sending"

\* What the user made of a key is what the operations make of it.
WishesAreDecided ==
    \A k \in Key : wish[k] # Object!Open => Decided(serverData, queue, k, wish[k])

\* The inductive invariant of what the user reads, for both objects.
DataInv == /\ ObjectTypes /\ SetsForAll /\ WireIsTheSaves
           /\ Object!EstimateIsUpToDate /\ WishesAreDecided

\* The two objects have the same definitions, as far as the data go.
LEMMA SameOperations ==
    /\ Parent!Nil = Object!Nil /\ Parent!Open = Object!Open
    /\ Parent!None = Object!None /\ Parent!Delete = Object!Delete
    /\ Parent!Increment = Object!Increment
    /\ \A v : Parent!Set(v) = Object!Set(v)
    /\ Parent!EmptySet = Object!EmptySet /\ Parent!NoData = Object!NoData
    /\ \A f, old : Parent!Apply(f, old) = Object!Apply(f, old)
    /\ \A f, g : Parent!Merge(f, g) = Object!Merge(f, g)
BY DEF Parent!Nil, Object!Nil, Parent!Open, Object!Open, Parent!None, Object!None,
       Parent!Delete, Object!Delete, Parent!Increment, Object!Increment,
       Parent!Set, Object!Set, Parent!EmptySet, Object!EmptySet, Parent!NoData,
       Object!NoData, Parent!Apply, Object!Apply, Parent!Merge, Object!Merge

\* The same for sets of operations.
LEMMA SameSets ==
    /\ \A set, data : Parent!ApplySet(set, data) = Object!ApplySet(set, data)
    /\ \A data, sets : Parent!Estimate(data, sets) = Object!Estimate(data, sets)
    /\ \A sets : Parent!RollForward(sets) = Object!RollForward(sets)
    /\ Parent!Changes = Object!Changes /\ Parent!Unsaved = Object!Unsaved
    /\ Parent!IsDirty = Object!IsDirty
    /\ \A data : Parent!Answer(data) = Object!Answer(data)
<1>1. \A set, data : Parent!ApplySet(set, data) = Object!ApplySet(set, data)
  BY SameOperations DEF Parent!ApplySet, Object!ApplySet
<1>2. \A data, sets : Parent!Estimate(data, sets) = Object!Estimate(data, sets)
  BY SameOperations DEF Parent!Estimate, Object!Estimate, Parent!ApplySet, Object!ApplySet,
     Parent!Apply, Object!Apply, Parent!Nil, Object!Nil
<1>3. \A sets : Parent!RollForward(sets) = Object!RollForward(sets)
  BY SameOperations DEF Parent!RollForward, Object!RollForward, Parent!MergeSets, Object!MergeSets
<1>4. Parent!Changes = Object!Changes /\ Parent!Unsaved = Object!Unsaved
  BY DEF Parent!Changes, Object!Changes, Parent!Unsaved, Object!Unsaved, Parent!Last, Object!Last
<1>5. Parent!IsDirty = Object!IsDirty
  BY <1>4, SameOperations DEF Parent!IsDirty, Object!IsDirty
<1>6. \A data : Parent!Answer(data) = Object!Answer(data)
  BY <1>4 DEF Parent!Answer, Object!Answer
<1> QED BY <1>1, <1>2, <1>3, <1>4, <1>5, <1>6

\* What the user may do to a field.
LEMMA FieldOperations ==
    ASSUME NEW f \in Object!FieldOperation \cup Parent!FieldOperation
    PROVE  /\ f \in Object!Operation
           /\ f.op # "increment" => Makes(f, Object!Apply(f, 0)) /\ Object!Apply(f, 0) \in Datum
           /\ \A old : f.op # "increment" => Object!Apply(f, old) = Object!Apply(f, 0)
           /\ \A g \in Object!Operation : f.op # "increment" => Object!Merge(f, g) = f
<1>1. Number \subseteq Nat /\ ParentNumber \subseteq Nat
  BY ParseAssumption DEF Object!ObjectAssumption, Parent!ObjectAssumption
<1> QED BY <1>1, SameOperations DEF Object!FieldOperation, Parent!FieldOperation, Object!Operation, Object!None,
   Object!Set, Object!Delete, Object!Increment, Makes, Object!Apply, Object!Merge, Datum, Object!Nil

\* Init and the invariant.
LEMMA ObjectInitDataInv == Object!Init => DataInv
<1> SUFFICES ASSUME Object!Init PROVE DataInv
  OBVIOUS
<1>1. /\ Object!NoData \in Data /\ Object!EmptySet \in OperationSet
      /\ \A k \in Key : Object!EmptySet[k] = Object!None
      /\ \A k \in Key : Object!NoData[k] = Object!Nil
  BY DEF Object!NoData, Object!EmptySet, Data, Datum, OperationSet, Object!Operation
<1>2. queue \in Seq(OperationSet) /\ Len(queue) = 1 /\ queue[1] = Object!EmptySet
  BY <1>1 DEF Object!Init
<1>3. /\ serverData = Object!NoData /\ estimated = Object!NoData /\ wish = Object!NoData
      /\ server = Object!NoData /\ jobPhase = "idle" /\ jobs = <<>>
      /\ wire = 0 /\ jobSent = 0 /\ jobLanded = 0 /\ late = {} /\ dirty = TRUE
      /\ childDirty = FALSE /\ unheard = FALSE
  BY DEF Object!Init
<1>4. ObjectTypes
  <2>1. jobs \in Seq({"save", "fetch"}) /\ late \subseteq OperationSet
    BY <1>3, EmptySeqType
  <2>2. wish \in [Key -> Datum \cup {Object!Open}]
    BY <1>1, <1>3 DEF Data
  <2>3. jobPhase \in Object!Phase
    BY <1>3 DEF Object!Phase
  <2> QED BY <1>1, <1>2, <1>3, <2>1, <2>2, <2>3 DEF ObjectTypes
<1>5. \A k \in Key : Decided(serverData, queue, k, wish[k])
  BY <1>1, <1>2, <1>3 DEF Decided
<1>6. Object!EstimateIsUpToDate
  <2>1. \A k \in Key : Object!Estimate(serverData, queue)[k] = estimated[k]
    BY <1>1, <1>2, <1>3, <1>5, DecidedIsRead
  <2>2. Object!Estimate(serverData, queue) \in Data /\ estimated \in Data
    BY <1>1, <1>2, <1>3, EstimateType
  <2> QED BY <2>1, <2>2, DataEqual DEF Object!EstimateIsUpToDate
<1>7. SetsForAll /\ WireIsTheSaves
  BY <1>2, <1>3 DEF SetsForAll, SaveUnderWay, WireIsTheSaves
<1> QED BY <1>4, <1>5, <1>6, <1>7 DEF DataInv, WishesAreDecided

\* A change of a field's last set that leaves the other keys alone.
LEMMA FieldChanges ==
    ASSUME DataInv, NEW k \in Key, NEW g \in Object!Operation,
           queue' = [queue EXCEPT ![Len(queue)][k] = g]
    PROVE  /\ queue' \in Seq(OperationSet) /\ Len(queue') = Len(queue)
           /\ Len(queue) \in Nat \ {0}
           /\ \A i \in 1 .. Len(queue) - 1 : queue'[i] = queue[i]
           /\ queue'[Len(queue)][k] = g
           /\ \A i \in 1 .. Len(queue) : \A j \in Key : j # k => queue'[i][j] = queue[i][j]
<1>1. queue \in Seq(OperationSet) /\ Len(queue) > 0 /\ Len(queue) \in Nat
  BY DEF DataInv, ObjectTypes, SetsForAll
<1>2. queue[Len(queue)] \in OperationSet
  BY <1>1
<1> DEFINE new == [queue[Len(queue)] EXCEPT ![k] = g]
<1>3. new \in OperationSet /\ new[k] = g /\ \A j \in Key : j # k => new[j] = queue[Len(queue)][j]
  BY <1>2 DEF OperationSet
<1>4. queue' = [queue EXCEPT ![Len(queue)] = new]
  OBVIOUS
<1> HIDE DEF new
<1>5. queue' \in Seq(OperationSet) /\ Len(queue') = Len(queue) /\ queue'[Len(queue)] = new
      /\ \A i \in 1 .. Len(queue) : i # Len(queue) => queue'[i] = queue[i]
  BY <1>1, <1>3, <1>4
<1>6. \A i \in 1 .. Len(queue) - 1 : queue'[i] = queue[i]
  BY <1>1, <1>5
<1>7. ASSUME NEW i \in 1 .. Len(queue), NEW j \in Key, j # k PROVE queue'[i][j] = queue[i][j]
  BY <1>3, <1>5, <1>7
<1>8. queue'[Len(queue)][k] = g
  BY <1>3, <1>5
<1>9. Len(queue) \in Nat \ {0}
  BY <1>1
<1> QED BY <1>5, <1>6, <1>7, <1>8, <1>9

\* performOperation: changes estimate and unsaved changes alike.
LEMMA PerformKeepsDataInv ==
    ASSUME DataInv, NEW k \in Key,
           NEW f \in Object!FieldOperation \cup Parent!FieldOperation,
           Object!PerformOperation(k, f) \/ Parent!PerformOperation(k, f)
    PROVE  DataInv'
<1> DEFINE n == Len(queue)
           g == Object!Merge(f, queue[n][k])
<1>1. /\ estimated' = [estimated EXCEPT ![k] = Object!Apply(f, @)]
      /\ queue' = [queue EXCEPT ![n][k] = g]
      /\ wish' = [wish EXCEPT ![k] = IF f.op = "increment" THEN Object!Open ELSE Object!Apply(f, @)]
      /\ UNCHANGED <<serverData, server, dirty, childDirty, jobs, jobPhase, wire, jobSent,
                     jobLanded, late, unheard>>
  <2>1. CASE Object!PerformOperation(k, f)
    <3>1. estimated' = [estimated EXCEPT ![k] = Object!Apply(f, @)]
      BY <2>1 DEF Object!PerformOperation
    <3>2. queue' = [queue EXCEPT ![n][k] = g]
      BY <2>1 DEF Object!PerformOperation
    <3>3. wish' = [wish EXCEPT ![k] = IF f.op = "increment" THEN Object!Open ELSE Object!Apply(f, @)]
      BY <2>1 DEF Object!PerformOperation
    <3>4. UNCHANGED <<serverData, server, dirty, childDirty, jobs, jobPhase, wire, jobSent,
                     jobLanded, late, unheard>>
      BY <2>1 DEF Object!PerformOperation, Object!wireVars, Object!remoteVars
    <3> QED BY <3>1, <3>2, <3>3, <3>4
  <2>2. CASE Parent!PerformOperation(k, f)
    BY <2>2, SameOperations DEF Parent!PerformOperation, Parent!wireVars, Parent!remoteVars
  <2> QED BY <2>1, <2>2
<1>2. ObjectTypes /\ queue \in Seq(OperationSet) /\ n \in Nat \ {0} /\ f \in Object!Operation
  BY FieldOperations DEF DataInv, ObjectTypes, SetsForAll
<1>3. queue[n] \in OperationSet /\ queue[n][k] \in Object!Operation
  BY <1>2 DEF OperationSet
<1>4. g \in Object!Operation
  BY <1>2, <1>3, MergeComposes DEF Datum
<1>5. /\ queue' \in Seq(OperationSet) /\ Len(queue') = n
      /\ \A i \in 1 .. n - 1 : queue'[i] = queue[i]
      /\ queue'[n][k] = g
      /\ \A i \in 1 .. n : \A j \in Key : j # k => queue'[i][j] = queue[i][j]
  <2>1. queue' = [queue EXCEPT ![Len(queue)][k] = g]
    BY <1>1
  <2> HIDE DEF g
  <2> QED BY <1>4, <2>1, FieldChanges
<1> HIDE DEF n, g
<1>6. estimated \in Data /\ serverData \in Data /\ wish \in [Key -> Datum \cup {Object!Open}]
  BY <1>2 DEF ObjectTypes
<1>7. /\ estimated' \in Data /\ estimated'[k] = Object!Apply(f, estimated[k])
      /\ \A j \in Key : j # k => estimated'[j] = estimated[j]
  BY <1>1, <1>2, <1>6, ApplyType DEF Data
<1>8. /\ wish' \in [Key -> Datum \cup {Object!Open}]
      /\ \A j \in Key : j # k => wish'[j] = wish[j]
      /\ wish'[k] = IF f.op = "increment" THEN Object!Open ELSE Object!Apply(f, 0)
  BY <1>1, <1>6, FieldOperations
<1>9. ObjectTypes'
  BY <1>1, <1>2, <1>5, <1>7, <1>8 DEF ObjectTypes
<1>10. SetsForAll' /\ WireIsTheSaves'
  BY <1>1, <1>5 DEF DataInv, SetsForAll, SaveUnderWay, WireIsTheSaves, n
<1>11. Object!EstimateIsUpToDate'
  <2>1. estimated = Object!Estimate(serverData, queue)
    BY DEF DataInv, Object!EstimateIsUpToDate
  <2>2. Object!Estimate(serverData, queue')[k] = Object!Apply(f, estimated[k])
    <3>1. /\ Len(queue) > 0 /\ Len(queue') = Len(queue)
          /\ \A i \in 1 .. Len(queue) - 1 : queue'[i] = queue[i]
          /\ queue'[Len(queue)][k] = Object!Merge(f, queue[Len(queue)][k])
      BY <1>2, <1>5 DEF n, g
    <3>2. Object!Estimate(serverData, queue')[k] = Object!Apply(f, Object!Estimate(serverData, queue)[k])
      BY <1>2, <1>5, <1>6, <3>1, EstimateOfChange
    <3> QED BY <2>1, <3>2
  <2>3. \A j \in Key : j # k => Object!Estimate(serverData, queue')[j] = estimated[j]
    BY <1>2, <1>5, <1>6, <2>1, EstimateOfKey DEF n
  <2>4. Object!Estimate(serverData, queue') \in Data
    BY <1>5, <1>6, EstimateType
  <2>5. Object!Estimate(serverData, queue') = estimated'
    BY <1>7, <2>2, <2>3, <2>4, DataEqual
  <2> QED BY <1>1, <2>5 DEF Object!EstimateIsUpToDate
<1>12. WishesAreDecided'
  <2> SUFFICES ASSUME NEW j \in Key, wish'[j] # Object!Open
               PROVE  Decided(serverData', queue', j, wish'[j])
    BY DEF WishesAreDecided
  <2>1. CASE j # k
    <3>1. Decided(serverData, queue, j, wish[j])
      BY <1>8, <2>1 DEF DataInv, WishesAreDecided
    <3>2. \A i \in 1 .. n : queue'[i][j] = queue[i][j]
      BY <1>5, <2>1
    <3>3. wish'[j] = wish[j] /\ serverData' = serverData
      BY <1>1, <1>8, <2>1
    <3> QED BY <1>2, <1>5, <3>1, <3>2, <3>3, DecidedOfKey DEF n
  <2>2. CASE j = k
    <3>1. g = f /\ Makes(f, wish'[k])
      <4>0. wish'[k] # Object!Open
        BY <2>2
      <4>1. f.op # "increment" /\ wish'[k] = Object!Apply(f, 0)
        BY <1>8, <4>0
      <4>2. Object!Merge(f, queue[n][k]) = f
        BY <4>1, <1>3, FieldOperations
      <4> QED BY <4>1, <4>2, FieldOperations DEF g
    <3>2. n \in 1 .. Len(queue') /\ \A i \in n + 1 .. Len(queue') : FALSE
      BY <1>2, <1>5
    <3> QED BY <1>5, <2>2, <3>1, <3>2 DEF Decided
  <2> QED BY <2>1, <2>2
<1> QED BY <1>9, <1>10, <1>11, <1>12 DEF DataInv

\* revertObjectForKey: rebuilds the estimate and forgets the wish.
LEMMA RevertKeepsDataInv ==
    ASSUME DataInv, NEW k \in Key, Object!Revert(k) \/ Parent!Revert(k)
    PROVE  DataInv'
<1> DEFINE n == Len(queue)
<1>1. /\ queue' = [queue EXCEPT ![n][k] = Object!None]
      /\ estimated' = Object!Estimate(serverData, queue')
      /\ wish' = [wish EXCEPT ![k] = Object!Open]
      /\ UNCHANGED <<serverData, server, dirty, childDirty, jobs, jobPhase, wire, jobSent,
                     jobLanded, late, unheard>>
  BY SameOperations, SameSets DEF Object!Revert, Parent!Revert, Object!wireVars,
     Parent!wireVars, Object!remoteVars, Parent!remoteVars
<1>2. ObjectTypes /\ queue \in Seq(OperationSet) /\ n \in Nat \ {0}
      /\ serverData \in Data /\ wish \in [Key -> Datum \cup {Object!Open}]
  BY DEF DataInv, ObjectTypes, SetsForAll
<1>3. /\ queue' \in Seq(OperationSet) /\ Len(queue') = n
      /\ \A i \in 1 .. n : \A j \in Key : j # k => queue'[i][j] = queue[i][j]
  <2>1. Object!None \in Object!Operation
    BY DEF Object!Operation
  <2>2. queue' = [queue EXCEPT ![Len(queue)][k] = Object!None]
    BY <1>1
  <2> QED BY <2>1, <2>2, FieldChanges
<1> HIDE DEF n
<1>4. wish' \in [Key -> Datum \cup {Object!Open}] /\ wish'[k] = Object!Open
      /\ \A j \in Key : j # k => wish'[j] = wish[j]
  BY <1>1, <1>2
<1>5. ObjectTypes'
  BY <1>1, <1>2, <1>3, <1>4, EstimateType DEF ObjectTypes
<1>6. SetsForAll' /\ WireIsTheSaves' /\ Object!EstimateIsUpToDate'
  BY <1>1, <1>3 DEF DataInv, SetsForAll, SaveUnderWay, WireIsTheSaves, n,
     Object!EstimateIsUpToDate
<1>7. WishesAreDecided'
  <2> SUFFICES ASSUME NEW j \in Key, wish'[j] # Object!Open
               PROVE  Decided(serverData', queue', j, wish'[j])
    BY DEF WishesAreDecided
  <2>1. j # k /\ wish'[j] = wish[j] /\ serverData' = serverData
    BY <1>1, <1>4
  <2>2. Decided(serverData, queue, j, wish[j])
    BY <2>1 DEF DataInv, WishesAreDecided
  <2>3. \A i \in 1 .. n : queue'[i][j] = queue[i][j]
    BY <1>3, <2>1
  <2> QED BY <1>2, <1>3, <2>1, <2>2, <2>3, DecidedOfKey DEF n
<1> QED BY <1>5, <1>6, <1>7 DEF DataInv

\* The set under way is a set of operations.
LEMMA ChangesType ==
    ASSUME ObjectTypes, SetsForAll, SaveUnderWay
    PROVE  Object!Changes \in OperationSet
BY DEF ObjectTypes, SetsForAll, Object!Changes

\* What the user reads depends on nothing else.
LEMMA QuietKeepsDataInv ==
    ASSUME DataInv, UNCHANGED <<serverData, queue, estimated, wish>>,
           ObjectTypes', SetsForAll', WireIsTheSaves'
    PROVE  DataInv'
<1>1. Object!EstimateIsUpToDate'
  BY DEF DataInv, Object!EstimateIsUpToDate
<1>2. WishesAreDecided'
  BY DEF DataInv, WishesAreDecided
<1> QED BY <1>1, <1>2 DEF DataInv

\* Calls, changes of the child, and the ends of jobs that change nothing.
LEMMA CallsKeepDataInv ==
    ASSUME DataInv,
           \/ Object!ChildChanges \/ Parent!ChildChanges
           \/ \E job \in {"save", "fetch"} : Object!Begin(job) \/ Parent!Begin(job)
    PROVE  DataInv'
<1> USE DEF DataInv
<1>1. CASE Object!ChildChanges \/ Parent!ChildChanges
  <2>1. UNCHANGED <<serverData, queue, estimated, wish, server, late, dirty, unheard,
                    jobs, jobPhase, wire, jobSent, jobLanded>> /\ childDirty' = TRUE
    BY <1>1 DEF Object!ChildChanges, Parent!ChildChanges, Object!objectVars, Parent!objectVars,
       Object!wireVars, Parent!wireVars, Object!remoteVars, Parent!remoteVars
  <2>2. ObjectTypes' /\ SetsForAll' /\ WireIsTheSaves'
    BY <2>1 DEF ObjectTypes, SetsForAll, SaveUnderWay, WireIsTheSaves
  <2> QED BY <2>1, <2>2, QuietKeepsDataInv
<1>2. ASSUME NEW job \in {"save", "fetch"}, Object!Begin(job) \/ Parent!Begin(job)
      PROVE  DataInv'
  <2>1. /\ UNCHANGED <<serverData, queue, estimated, wish, server, late, dirty, unheard,
                       childDirty, jobPhase, wire, jobSent, jobLanded>>
        /\ jobs' = Append(jobs, job)
    BY <1>2 DEF Object!Begin, Parent!Begin, Object!objectVars, Parent!objectVars,
       Object!wireVars, Parent!wireVars, Object!remoteVars, Parent!remoteVars
  <2>2. jobs' \in Seq({"save", "fetch"}) /\ jobs' # <<>>
    BY <2>1, AppendAndTail DEF ObjectTypes
  <2>3. ObjectTypes'
    BY <2>1, <2>2 DEF ObjectTypes
  <2>4. SetsForAll' /\ WireIsTheSaves'
    BY <2>1, <2>2 DEF SetsForAll, SaveUnderWay, WireIsTheSaves
  <2> QED BY <2>1, <2>3, <2>4, QuietKeepsDataInv
<1> QED BY <1>1, <1>2

\* Jobs that end without having changed anything.
LEMMA IdleJobsKeepDataInv ==
    ASSUME DataInv,
           \/ Object!SaveNothing \/ Parent!SaveNothing
           \/ Object!EndWithChildren \/ Parent!EndWithChildren
           \/ Object!FetchFails \/ Parent!FetchFails
    PROVE  DataInv'
<1> USE DEF DataInv
<1>1. /\ UNCHANGED <<serverData, queue, estimated, wish, server, late, dirty, unheard,
                     wire, jobSent, jobLanded>>
      /\ childDirty' \in {FALSE, childDirty}
      /\ jobs' = Tail(jobs) /\ jobs # <<>> /\ jobPhase' = "idle"
      /\ jobPhase \in {"idle", "children"}
  <2>1. CASE Object!SaveNothing \/ Parent!SaveNothing
    BY <2>1 DEF Object!SaveNothing, Parent!SaveNothing, Object!NextJob, Parent!NextJob,
       Object!First, Parent!First, Object!objectVars, Parent!objectVars, Object!wireVars,
       Parent!wireVars, Object!remoteVars, Parent!remoteVars, Object!userVars, Parent!userVars
  <2>2. CASE Object!EndWithChildren \/ Parent!EndWithChildren
    BY <2>2 DEF Object!EndWithChildren, Parent!EndWithChildren, Object!NextJob, Parent!NextJob,
       WireIsTheSaves, Object!objectVars, Parent!objectVars, Object!wireVars,
       Parent!wireVars, Object!remoteVars, Parent!remoteVars, Object!userVars, Parent!userVars
  <2>3. CASE Object!FetchFails \/ Parent!FetchFails
    BY <2>3 DEF Object!FetchFails, Parent!FetchFails, Object!NextJob, Parent!NextJob,
       Object!First, Parent!First, Object!objectVars, Parent!objectVars, Object!wireVars,
       Parent!wireVars, Object!remoteVars, Parent!remoteVars, Object!userVars, Parent!userVars
  <2> QED BY <2>1, <2>2, <2>3
<1>2. jobs' \in Seq({"save", "fetch"})
  BY <1>1, AppendAndTail DEF ObjectTypes
<1>3. ObjectTypes'
  BY <1>1, <1>2 DEF ObjectTypes, Object!Phase
<1>4. SetsForAll'
  BY <1>1 DEF SetsForAll, SaveUnderWay
<1>5. WireIsTheSaves'
  BY <1>1 DEF WireIsTheSaves
<1> QED BY <1>1, <1>3, <1>4, <1>5, QuietKeepsDataInv

\* The command of a save, up to its end.
LEMMA CommandKeepsDataInv ==
    ASSUME DataInv,
           \/ Object!SaveChildren \/ Parent!SaveChildren
           \/ Object!Send \/ Parent!Send \/ Object!Land \/ Parent!Land
    PROVE  DataInv'
<1> USE DEF DataInv
<1>1. CASE Object!SaveChildren \/ Parent!SaveChildren
  <2>1. /\ UNCHANGED <<serverData, queue, estimated, wish, server, late, dirty, unheard, jobs>>
        /\ wire' = 0 /\ jobSent' = 0 /\ jobLanded' = 0 /\ childDirty' = FALSE
        /\ jobPhase = "children" /\ jobPhase' = "sending"
    BY <1>1 DEF Object!SaveChildren, Parent!SaveChildren, Object!objectVars,
       Parent!objectVars, Object!remoteVars, Parent!remoteVars, Object!userVars, Parent!userVars
  <2>2. ObjectTypes' /\ SetsForAll' /\ WireIsTheSaves'
    BY <2>1 DEF ObjectTypes, SetsForAll, SaveUnderWay, WireIsTheSaves, Object!Phase
  <2> QED BY <2>1, <2>2, QuietKeepsDataInv
<1>2. CASE Object!Send \/ Parent!Send
  <2>1. /\ UNCHANGED <<serverData, queue, estimated, wish, server, late, dirty, unheard, jobs,
                       jobPhase, childDirty, jobLanded>>
        /\ wire' = wire + 1 /\ jobSent' = jobSent + 1 /\ jobPhase = "sending"
    BY <1>2 DEF Object!Send, Parent!Send, Object!objectVars,
       Parent!objectVars, Object!remoteVars, Parent!remoteVars, Object!userVars, Parent!userVars
  <2>2. ObjectTypes' /\ SetsForAll' /\ WireIsTheSaves'
    BY <2>1 DEF ObjectTypes, SetsForAll, SaveUnderWay, WireIsTheSaves
  <2> QED BY <2>1, <2>2, QuietKeepsDataInv
<1>3. CASE Object!Land \/ Parent!Land
  <2>1. /\ UNCHANGED <<serverData, queue, estimated, wish, late, dirty, unheard, jobs,
                       jobPhase, childDirty, jobSent>>
        /\ wire > 0 /\ wire' = wire - 1 /\ jobLanded' = jobLanded + 1
        /\ server' = Object!ApplySet(Object!Changes, IF dirty THEN Object!NoData ELSE server)
    BY <1>3, SameSets, SameOperations DEF Object!Land, Parent!Land, Object!objectVars,
       Parent!objectVars, Object!userVars, Parent!userVars
  <2>2. jobPhase = "sending" /\ wire' \in Nat
    BY <2>1 DEF WireIsTheSaves, ObjectTypes
  <2>3. server' \in Data
    <3>1. Object!Changes \in OperationSet
      BY <2>2, ChangesType DEF SaveUnderWay
    <3>2. Object!NoData \in Data /\ server \in Data
      BY DEF Object!NoData, Data, Datum, ObjectTypes
    <3> QED BY <2>1, <3>1, <3>2, ApplySetType
  <2>4. ObjectTypes'
    BY <2>1, <2>2, <2>3 DEF ObjectTypes
  <2>5. SetsForAll' /\ WireIsTheSaves'
    BY <2>1, <2>2 DEF SetsForAll, SaveUnderWay, WireIsTheSaves
  <2> QED BY <2>1, <2>4, <2>5, QuietKeepsDataInv
<1> QED BY <1>1, <1>2, <1>3

\* A request carried out late.
LEMMA LateKeepsDataInv ==
    ASSUME DataInv, NEW set \in late, Object!LandLate(set) \/ Parent!LandLate(set)
    PROVE  DataInv'
<1> USE DEF DataInv
<1>1. /\ UNCHANGED <<serverData, queue, estimated, wish, dirty, jobs, jobPhase, childDirty,
                     wire, jobSent, jobLanded>>
      /\ late' = late \ {set} /\ unheard' = TRUE
      /\ server' = Object!ApplySet(set, server)
  BY SameSets DEF Object!LandLate, Parent!LandLate, Object!objectVars, Parent!objectVars,
     Object!userVars, Parent!userVars, Object!wireVars, Parent!wireVars
<1>2. server' \in Data /\ late' \subseteq OperationSet
  BY <1>1, ApplySetType DEF ObjectTypes
<1>3. ObjectTypes'
  BY <1>1, <1>2 DEF ObjectTypes
<1>4. SetsForAll' /\ WireIsTheSaves'
  BY <1>1 DEF SetsForAll, SaveUnderWay, WireIsTheSaves
<1> QED BY <1>1, <1>3, <1>4, QuietKeepsDataInv

\* A save begins with the changes made so far.
LEMMA StartKeepsDataInv ==
    ASSUME DataInv, Object!StartSave \/ Parent!StartSave
    PROVE  DataInv'
<1> USE DEF DataInv
<1>1. /\ queue' = Append(queue, Object!EmptySet) /\ jobPhase' = "children" /\ jobs # <<>>
      /\ jobPhase = "idle"
      /\ UNCHANGED <<serverData, estimated, dirty, childDirty, jobs, wire, jobSent, jobLanded,
                     server, late, unheard, wish>>
  BY SameOperations DEF Object!StartSave, Parent!StartSave, Object!First, Parent!First,
     Object!wireVars, Parent!wireVars, Object!remoteVars, Parent!remoteVars,
     Object!userVars, Parent!userVars
<1>2. /\ queue \in Seq(OperationSet) /\ serverData \in Data /\ Len(queue) \in Nat
      /\ Len(queue) >= 1
  BY <1>1 DEF ObjectTypes, SetsForAll, SaveUnderWay
<1>3. /\ queue' \in Seq(OperationSet)
      /\ Object!Estimate(serverData, queue') = Object!Estimate(serverData, queue)
  BY <1>1, <1>2, EstimateOfAppended
<1>4. Object!EmptySet \in OperationSet /\ \A k \in Key : Object!EmptySet[k] = Object!None
  BY DEF Object!EmptySet, OperationSet, Object!Operation
<1>5. /\ Len(queue') = Len(queue) + 1 /\ queue'[Len(queue) + 1] = Object!EmptySet
      /\ \A n \in 1 .. Len(queue) : queue'[n] = queue[n]
  BY <1>1, <1>2, <1>4, AppendType
<1>6. ObjectTypes'
  BY <1>1, <1>3 DEF ObjectTypes, Object!Phase
<1>7. SetsForAll' /\ WireIsTheSaves'
  BY <1>1, <1>2, <1>5 DEF SetsForAll, SaveUnderWay, WireIsTheSaves
<1>8. Object!EstimateIsUpToDate'
  BY <1>1, <1>3 DEF Object!EstimateIsUpToDate
<1>9. WishesAreDecided'
  <2> SUFFICES ASSUME NEW k \in Key, wish[k] # Object!Open
               PROVE  Decided(serverData, queue', k, wish[k])
    BY <1>1 DEF WishesAreDecided
  <2>1. Decided(serverData, queue, k, wish[k])
    BY DEF WishesAreDecided
  <2>2. queue'[Len(queue) + 1][k] = Object!None
    BY <1>4, <1>5
  <2>3. CASE serverData[k] = wish[k] /\ \A j \in 1 .. Len(queue) : queue[j][k] = Object!None
    <3>1. \A j \in 1 .. Len(queue') : queue'[j][k] = Object!None
      BY <1>2, <1>5, <2>2, <2>3
    <3> QED BY <2>3, <3>1 DEF Decided
  <2>4. ASSUME NEW i \in 1 .. Len(queue), Makes(queue[i][k], wish[k]),
               \A j \in i + 1 .. Len(queue) : queue[j][k] = Object!None
        PROVE  Decided(serverData, queue', k, wish[k])
    <3>1. i \in 1 .. Len(queue') /\ Makes(queue'[i][k], wish[k])
      BY <1>2, <1>5, <2>4
    <3>2. \A j \in i + 1 .. Len(queue') : queue'[j][k] = Object!None
      BY <1>2, <1>5, <2>2, <2>4
    <3> QED BY <3>1, <3>2 DEF Decided
  <2> QED BY <2>1, <2>3, <2>4 DEF Decided
<1> QED BY <1>6, <1>7, <1>8, <1>9

\* A save fails: its changes are merged into those made since.
LEMMA FailureKeepsDataInv ==
    ASSUME DataInv, Object!SaveFails \/ Parent!SaveFails
    PROVE  DataInv'
<1> USE DEF DataInv
<1>1. /\ queue' = Object!RollForward(queue) /\ jobPhase' = "idle" /\ jobs' = Tail(jobs)
      /\ jobPhase \in {"children", "sending"}
      /\ server' = IF dirty THEN Object!NoData ELSE server
      /\ unheard' = (unheard \/ (jobLanded > 0 /\ ~dirty))
      /\ late' = IF wire > 0 /\ ~dirty THEN late \cup {Object!Changes} ELSE late
      /\ wire' = 0 /\ jobSent' = 0 /\ jobLanded' = 0
      /\ UNCHANGED <<serverData, estimated, dirty, childDirty, wish>>
  BY SameOperations, SameSets DEF Object!SaveFails, Parent!SaveFails, Object!NextJob,
     Parent!NextJob, Object!LeaveWire, Parent!LeaveWire, Object!userVars, Parent!userVars
<1>2. /\ queue \in Seq(OperationSet) /\ serverData \in Data /\ server \in Data
      /\ Len(queue) \in Nat /\ Len(queue) >= 2 /\ jobs # <<>> /\ SaveUnderWay
  BY <1>1 DEF ObjectTypes, SetsForAll, SaveUnderWay, WireIsTheSaves
<1>3. /\ queue' \in Seq(OperationSet) /\ Len(queue') = Len(queue) - 1
      /\ \A k \in Key : queue'[1][k] = Object!Merge(queue[2][k], queue[1][k])
      /\ \A n \in 2 .. Len(queue) - 1 : queue'[n] = queue[n + 1]
      /\ Object!Estimate(serverData, queue') = Object!Estimate(serverData, queue)
  BY <1>1, <1>2, EstimateOfRolled
<1>4. ObjectTypes'
  <2>1. late' \subseteq OperationSet
    BY <1>1, <1>2, ChangesType DEF ObjectTypes
  <2>2. server' \in Data
    BY <1>1, <1>2 DEF Object!NoData, Data, Datum
  <2>3. jobs' \in Seq({"save", "fetch"})
    BY <1>1, <1>2, AppendAndTail DEF ObjectTypes
  <2>4. unheard' \in BOOLEAN
    BY <1>1 DEF ObjectTypes
  <2> QED BY <1>1, <1>3, <2>1, <2>2, <2>3, <2>4 DEF ObjectTypes, Object!Phase
<1>5. SetsForAll' /\ WireIsTheSaves'
  BY <1>1, <1>2, <1>3 DEF SetsForAll, SaveUnderWay, WireIsTheSaves
<1>6. Object!EstimateIsUpToDate'
  BY <1>1, <1>3 DEF Object!EstimateIsUpToDate
<1>7. WishesAreDecided'
  <2> SUFFICES ASSUME NEW k \in Key, wish[k] # Object!Open
               PROVE  Decided(serverData, queue', k, wish[k])
    BY <1>1 DEF WishesAreDecided
  <2>1. Decided(serverData, queue, k, wish[k])
    BY DEF WishesAreDecided
  <2>2. queue'[1][k] = Object!Merge(queue[2][k], queue[1][k])
    BY <1>3
  <2>3. ASSUME queue[2][k] = Object!None PROVE queue'[1][k] = queue[1][k]
    BY <2>2, <2>3 DEF Object!Merge, Object!None
  <2>4. ASSUME NEW v, Makes(queue[2][k], v) PROVE queue'[1][k] = queue[2][k]
    BY <2>2, <2>4 DEF Object!Merge, Makes, Object!Set, Object!Delete
  <2>5. CASE serverData[k] = wish[k] /\ \A j \in 1 .. Len(queue) : queue[j][k] = Object!None
    <3>1. queue'[1][k] = Object!None
      BY <1>2, <2>3, <2>5
    <3>2. \A j \in 2 .. Len(queue') : queue'[j][k] = Object!None
      BY <1>2, <1>3, <2>5
    <3>3. \A j \in 1 .. Len(queue') : queue'[j][k] = Object!None
      BY <1>2, <1>3, <3>1, <3>2
    <3> QED BY <2>5, <3>3 DEF Decided
  <2>6. ASSUME NEW i \in 1 .. Len(queue), Makes(queue[i][k], wish[k]),
               \A j \in i + 1 .. Len(queue) : queue[j][k] = Object!None
        PROVE  Decided(serverData, queue', k, wish[k])
    <3>0. 1 \in 1 .. Len(queue')
      BY <1>2, <1>3
    <3>1. CASE i \in {1, 2}
      <4>1. Makes(queue'[1][k], wish[k])
        BY <1>2, <2>3, <2>4, <2>6, <3>1
      <4>2. \A j \in 1 + 1 .. Len(queue') : queue'[j][k] = Object!None
        BY <1>2, <1>3, <2>6, <3>1
      <4> QED BY <3>0, <4>1, <4>2 DEF Decided
    <3>2. CASE i > 2
      <4> DEFINE h == i - 1
      <4>1. h \in 1 .. Len(queue') /\ Makes(queue'[h][k], wish[k])
        <5>1. h \in 2 .. Len(queue) - 1 /\ h + 1 = i
          BY <1>2, <3>2
        <5> QED BY <1>2, <1>3, <2>6, <5>1
      <4>2. \A j \in h + 1 .. Len(queue') : queue'[j][k] = Object!None
        BY <1>2, <1>3, <2>6, <3>2
      <4> HIDE DEF h
      <4> QED BY <4>1, <4>2 DEF Decided
    <3> QED BY <1>2, <3>1, <3>2
  <2> QED BY <2>1, <2>5, <2>6 DEF Decided
<1> QED BY <1>4, <1>5, <1>6, <1>7

\* A save succeeds: its changes go from the queue into the server's data.
LEMMA SuccessKeepsDataInv ==
    ASSUME DataInv, Object!SaveSucceeds \/ Parent!SaveSucceeds
    PROVE  DataInv'
<1> USE DEF DataInv
<1> DEFINE saved == Object!ApplySet(Head(queue), serverData)
<1>1. /\ serverData' = Object!Answer(saved)
      /\ queue' = Tail(queue) /\ jobPhase' = "idle" /\ jobs' = Tail(jobs)
      /\ jobPhase = "sending" /\ dirty' = FALSE
      /\ estimated' = Object!Estimate(serverData', queue')
      /\ late' = IF wire > 0 /\ ~dirty THEN late \cup {Object!Changes} ELSE late
      /\ wire' = 0 /\ jobSent' = 0 /\ jobLanded' = 0
      /\ UNCHANGED <<childDirty, server, unheard, wish>>
  BY SameOperations, SameSets DEF Object!SaveSucceeds, Parent!SaveSucceeds, Object!NextJob,
     Parent!NextJob, Object!LeaveWire, Parent!LeaveWire, Object!userVars, Parent!userVars
<1>2. /\ queue \in Seq(OperationSet) /\ serverData \in Data /\ server \in Data
      /\ Len(queue) \in Nat /\ Len(queue) >= 2 /\ jobs # <<>> /\ SaveUnderWay
  BY <1>1 DEF ObjectTypes, SetsForAll, SaveUnderWay, WireIsTheSaves
<1>3. Object!Changes = queue[Len(queue) - 1] /\ Object!Changes \in OperationSet
  BY <1>2, ChangesType DEF Object!Changes
<1>4. /\ queue' \in Seq(OperationSet) /\ Len(queue') = Len(queue) - 1
      /\ \A n \in 1 .. Len(queue) - 1 : queue'[n] = queue[n + 1]
      /\ Head(queue) = queue[1] /\ queue[1] \in OperationSet
  BY <1>1, <1>2
<1>5. /\ saved \in Data
      /\ \A k \in Key : saved[k] = Object!Apply(queue[1][k], serverData[k])
  BY <1>2, <1>4, ApplySetType
<1> HIDE DEF saved
<1>6. /\ serverData' \in Data
      /\ \A k \in Key : Object!Changes[k].op # "increment" => serverData'[k] = saved[k]
  BY <1>1, <1>2, <1>5 DEF Object!Answer, Data
<1>7. ObjectTypes'
  <2>1. late' \subseteq OperationSet
    BY <1>1, <1>3 DEF ObjectTypes
  <2>2. jobs' \in Seq({"save", "fetch"})
    BY <1>1, <1>2, AppendAndTail DEF ObjectTypes
  <2>3. estimated' \in Data
    BY <1>1, <1>4, <1>6, EstimateType
  <2> QED BY <1>1, <1>4, <1>6, <2>1, <2>2, <2>3 DEF ObjectTypes, Object!Phase
<1>8. SetsForAll' /\ WireIsTheSaves'
  BY <1>1, <1>2, <1>4 DEF SetsForAll, SaveUnderWay, WireIsTheSaves
<1>9. Object!EstimateIsUpToDate'
  BY <1>1 DEF Object!EstimateIsUpToDate
<1>10. WishesAreDecided'
  <2> SUFFICES ASSUME NEW k \in Key, wish[k] # Object!Open
               PROVE  Decided(serverData', queue', k, wish[k])
    BY <1>1 DEF WishesAreDecided
  <2>1. Decided(serverData, queue, k, wish[k])
    BY DEF WishesAreDecided
  <2>2. ASSUME \A j \in 2 .. Len(queue) : queue[j][k] = Object!None,
               \/ Makes(queue[1][k], wish[k])
               \/ queue[1][k] = Object!None /\ serverData[k] = wish[k]
        PROVE  Decided(serverData', queue', k, wish[k])
    <3>1. Object!Changes[k] \in {Object!None, queue[1][k]}
      BY <1>2, <1>3, <2>2
    <3>2. Object!Changes[k].op # "increment"
      BY <2>2, <3>1 DEF Makes, Object!None, Object!Set, Object!Delete
    <3>3. saved[k] = wish[k]
      BY <1>5, <2>2 DEF Makes, Object!None, Object!Set, Object!Delete, Object!Apply
    <3>4. \A j \in 1 .. Len(queue') : queue'[j][k] = Object!None
      BY <1>2, <1>4, <2>2
    <3> QED BY <1>6, <3>2, <3>3, <3>4 DEF Decided
  <2>3. CASE serverData[k] = wish[k] /\ \A j \in 1 .. Len(queue) : queue[j][k] = Object!None
    BY <1>2, <2>2, <2>3
  <2>4. ASSUME NEW i \in 1 .. Len(queue), Makes(queue[i][k], wish[k]),
               \A j \in i + 1 .. Len(queue) : queue[j][k] = Object!None
        PROVE  Decided(serverData', queue', k, wish[k])
    <3>1. CASE i = 1
      BY <1>2, <2>2, <2>4, <3>1
    <3>2. CASE i > 1
      <4> DEFINE h == i - 1
      <4>1. h \in 1 .. Len(queue') /\ Makes(queue'[h][k], wish[k])
        <5>1. h \in 1 .. Len(queue) - 1 /\ h + 1 = i
          BY <1>2, <3>2
        <5> QED BY <1>2, <1>4, <2>4, <5>1
      <4>2. ASSUME NEW j \in h + 1 .. Len(queue') PROVE queue'[j][k] = Object!None
        <5>1. j \in 1 .. Len(queue) - 1 /\ j + 1 \in i + 1 .. Len(queue)
          BY <1>2, <1>4, <3>2
        <5> QED BY <1>4, <2>4, <5>1
      <4> HIDE DEF h
      <4> QED BY <4>1, <4>2 DEF Decided
    <3> QED BY <1>2, <3>1, <3>2
  <2> QED BY <2>1, <2>3, <2>4 DEF Decided
<1> QED BY <1>7, <1>8, <1>9, <1>10

\* A fetch takes the server's data; what is unsaved stays on top of them.
LEMMA FetchKeepsDataInv ==
    ASSUME DataInv, Object!FetchSucceeds \/ Parent!FetchSucceeds
    PROVE  DataInv'
<1> USE DEF DataInv
<1>1. /\ serverData' = server /\ dirty' = FALSE /\ unheard' = FALSE
      /\ estimated' = Object!Estimate(serverData', queue')
      /\ wish' = [k \in Key |-> IF \E i \in 1 .. Len(queue) : queue[i][k] # Object!None
                                THEN wish[k] ELSE Object!Open]
      /\ jobs # <<>> /\ jobs' = Tail(jobs) /\ jobPhase = "idle" /\ jobPhase' = "idle"
      /\ UNCHANGED <<queue, childDirty, wire, jobSent, jobLanded, server, late>>
  BY SameOperations, SameSets DEF Object!FetchSucceeds, Parent!FetchSucceeds,
     Object!First, Parent!First, Object!NextJob, Parent!NextJob, Object!wireVars, Parent!wireVars
<1>2. ObjectTypes'
  <2>1. jobs' \in Seq({"save", "fetch"})
    BY <1>1, AppendAndTail DEF ObjectTypes
  <2>2. queue' \in Seq(OperationSet) /\ serverData' \in Data
    BY <1>1 DEF ObjectTypes
  <2>3. estimated' \in Data
    BY <1>1, <2>2, EstimateType
  <2>4. wish' \in [Key -> Datum \cup {Object!Open}]
    BY <1>1 DEF ObjectTypes
  <2> QED BY <1>1, <2>1, <2>2, <2>3, <2>4 DEF ObjectTypes
<1>3. SetsForAll' /\ WireIsTheSaves' /\ Object!EstimateIsUpToDate'
  BY <1>1 DEF SetsForAll, SaveUnderWay, WireIsTheSaves, Object!EstimateIsUpToDate
<1>4. WishesAreDecided'
  <2> SUFFICES ASSUME NEW k \in Key, wish'[k] # Object!Open
               PROVE  Decided(serverData', queue', k, wish'[k])
    BY DEF WishesAreDecided
  <2>1. wish'[k] = wish[k] /\ \E i \in 1 .. Len(queue) : queue[i][k] # Object!None
    BY <1>1
  <2>2. Decided(serverData, queue, k, wish[k])
    BY <2>1 DEF WishesAreDecided
  <2>3. PICK i \in 1 .. Len(queue) : /\ Makes(queue[i][k], wish[k])
                                     /\ \A j \in i + 1 .. Len(queue) : queue[j][k] = Object!None
    BY <2>1, <2>2 DEF Decided
  <2> QED BY <1>1, <2>1, <2>3 DEF Decided
<1> QED BY <1>2, <1>3, <1>4

\* Every step of the object.
LEMMA NextKeepsDataInv ==
    ASSUME DataInv, [Object!Next \/ Parent!Next]_objectVars
    PROVE  DataInv'
<1>1. CASE Object!User \/ Parent!User
  BY <1>1, PerformKeepsDataInv, RevertKeepsDataInv, CallsKeepDataInv
     DEF Object!User, Parent!User
<1>2. CASE Object!Job \/ Parent!Job
  BY <1>2, IdleJobsKeepDataInv, StartKeepsDataInv, CommandKeepsDataInv, SuccessKeepsDataInv,
     FailureKeepsDataInv, FetchKeepsDataInv DEF Object!Job, Parent!Job
<1>3. CASE Object!Send \/ Parent!Send \/ Object!Land \/ Parent!Land
  BY <1>3, CommandKeepsDataInv
<1>4. CASE \E set \in late : Object!LandLate(set) \/ Parent!LandLate(set)
  BY <1>4, LateKeepsDataInv
<1>5. CASE UNCHANGED objectVars
  <2>1. UNCHANGED <<serverData, queue, estimated, dirty, childDirty, jobs, jobPhase, server,
                    wire, jobSent, jobLanded, late, wish, unheard>>
    BY <1>5 DEF objectVars
  <2>2. ObjectTypes'
    BY <2>1 DEF DataInv, ObjectTypes
  <2>3. SetsForAll' /\ WireIsTheSaves'
    BY <2>1 DEF DataInv, SetsForAll, SaveUnderWay, WireIsTheSaves
  <2> QED BY <2>1, <2>2, <2>3, QuietKeepsDataInv
<1> QED BY <1>1, <1>2, <1>3, <1>4, <1>5 DEF Object!Next, Parent!Next

\* The object's steps of the composition.
LEMMA ObjectMoves ==
    ASSUME [ParseNext]_parseVars
    PROVE  /\ UNCHANGED subject
           /\ [Object!Next \/ Parent!Next]_objectVars
           /\ subject = "object" => [Object!Next]_objectVars
BY DEF ParseNext, parseVars

\* The invariant of the data holds throughout.
LEMMA DataInvHolds == ParseSpec => []DataInv
<1>1. ParseInit => DataInv
  BY ObjectInitDataInv DEF ParseInit
<1>2. DataInv /\ [ParseNext]_parseVars => DataInv'
  BY NextKeepsDataInv, ObjectMoves
<1> QED BY <1>1, <1>2, PTL DEF ParseSpec

\* OwnChangesStay: what is decided is what the user reads.
LEMMA WishesAreRead == DataInv => OwnChangesStay
<1> SUFFICES ASSUME DataInv, NEW k \in Key, wish[k] # Object!Open
             PROVE  estimated[k] = wish[k]
  BY DEF OwnChangesStay, Object!OwnChangesStay
<1>1. Decided(serverData, queue, k, wish[k]) /\ serverData \in Data /\ queue \in Seq(OperationSet)
  BY DEF DataInv, WishesAreDecided, ObjectTypes
<1>2. Object!Estimate(serverData, queue)[k] = wish[k]
  BY <1>1, DecidedIsRead
<1> QED BY <1>2 DEF DataInv, Object!EstimateIsUpToDate

\* rebuildEstimatedData and performOperation:, for any number of changes, saves and
\* fetches: the estimate is the server's data with every unsaved operation on top.
THEOREM EstimateStaysUpToDate == ParseSpec => []EstimateIsUpToDate
<1>1. DataInv => EstimateIsUpToDate
  BY DEF DataInv, EstimateIsUpToDate
<1> QED BY <1>1, DataInvHolds, PTL

\* handleSaveResultAsync: for any saves and failures: what the user set or deleted
\* last is what the user reads.
THEOREM UsersChangesStay == ParseSpec => []OwnChangesStay
BY WishesAreRead, DataInvHolds, PTL

\* To set or to delete twice is to do so once.
LEMMA ApplyTwice ==
    ASSUME NEW f \in Object!Operation, f.op # "increment", NEW old
    PROVE  Object!Apply(f, Object!Apply(f, old)) = Object!Apply(f, old)
BY DEF Object!Operation, Object!None, Object!Delete, Object!Apply

\* The bounds, and requests are on the wire or have been carried out.
Bounds == /\ wire \in 0 .. MaxSent /\ jobSent \in 0 .. MaxSent /\ jobLanded \in 0 .. MaxSent
          /\ wire + jobLanded = jobSent
          /\ ops \in 0 .. MaxOps /\ calls \in 0 .. MaxJobs
          /\ wish \in [Key -> Number \cup {Object!Nil, Object!Open}]

\* A save that goes on has something to send.
SavesSomething == jobPhase = "children" => dirty \/ Object!Changes # Object!EmptySet

\* Of a new object there is nothing on the server that it will know of.
NewIsUnknown == dirty => serverData = Object!NoData /\ late = {} /\ ~unheard

\* Unless a request was carried out without the object knowing, the server has what
\* the object takes it to have, and what the save under way has made of it: a set
\* or deleted key has the same value after each request, an incremented one has not.
ServerIsFollowed ==
    ~unheard => IF jobLanded = 0 THEN server = serverData
                ELSE \A k \in Key : Object!Changes[k].op # "increment" =>
                         server[k] = Object!Apply(Object!Changes[k], serverData[k])

\* An object without children.
Alone == /\ Bounds /\ Object!OneSetBetweenSaves /\ childDirty = FALSE
         /\ SavesSomething /\ NewIsUnknown /\ ServerIsFollowed

\* A new object has no children and is not on the server.
LEMMA InitAlone == Object!Init => Alone
<1>1. MaxSent \in Nat /\ MaxOps \in Nat /\ MaxJobs \in Nat
  BY ParseAssumption DEF Object!ObjectAssumption
<1> QED BY <1>1 DEF Object!Init, Alone, Bounds, Object!OneSetBetweenSaves, SavesSomething,
           NewIsUnknown, ServerIsFollowed, Object!NoData, Object!Nil

\* The user's changes leave alone what is being saved.
LEMMA UserKeepsAlone ==
    ASSUME DataInv, Alone, Object!User
    PROVE  Alone'
<1> USE DEF Alone
<1>0. /\ MaxSent \in Nat /\ MaxOps \in Nat /\ MaxJobs \in Nat
      /\ queue \in Seq(OperationSet) /\ Len(queue) \in Nat
  BY ParseAssumption DEF Object!ObjectAssumption, DataInv, ObjectTypes
<1>1. ASSUME NEW k \in Key, NEW g \in Object!Operation,
             queue' = [queue EXCEPT ![Len(queue)][k] = g],
             UNCHANGED <<serverData, dirty, childDirty, jobs, jobPhase, wire, jobSent,
                         jobLanded, server, late, unheard>>,
             Bounds'
      PROVE  Alone'
  <2>1. /\ Len(queue') = Len(queue) /\ \A i \in 1 .. Len(queue) - 1 : queue'[i] = queue[i]
    BY <1>1, FieldChanges
  <2>2. Object!OneSetBetweenSaves'
    BY <1>1, <2>1 DEF Object!OneSetBetweenSaves
  <2>3. SaveUnderWay => Object!Changes' = Object!Changes
    BY <1>0, <2>1 DEF SaveUnderWay, Object!OneSetBetweenSaves, Object!Changes
  <2>4. jobLanded > 0 => SaveUnderWay
    BY DEF DataInv, WireIsTheSaves, SaveUnderWay
  <2>5. jobLanded # 0 => Object!Changes' = Object!Changes
    BY <2>3, <2>4 DEF Bounds
  <2>6. SavesSomething'
    BY <1>1, <2>3 DEF SavesSomething, SaveUnderWay
  <2>7. NewIsUnknown'
    BY <1>1 DEF NewIsUnknown
  <2>8. ServerIsFollowed'
    BY <1>1, <2>5 DEF ServerIsFollowed
  <2> QED BY <1>1, <2>2, <2>6, <2>7, <2>8
<1>2. ASSUME NEW k \in Key, NEW f \in Object!FieldOperation, Object!PerformOperation(k, f)
      PROVE  Alone'
  <2>1. Object!Merge(f, queue[Len(queue)][k]) \in Object!Operation
    <3>1. queue[Len(queue)] \in OperationSet
      BY <1>0 DEF DataInv, SetsForAll
    <3> QED BY <3>1, MergeComposes, FieldOperations DEF OperationSet, Datum
  <2>2. queue' = [queue EXCEPT ![Len(queue)][k] = Object!Merge(f, queue[Len(queue)][k])]
    BY <1>2 DEF Object!PerformOperation
  <2>3. UNCHANGED <<serverData, dirty, childDirty, jobs, jobPhase, wire, jobSent,
                    jobLanded, server, late, unheard>>
    BY <1>2 DEF Object!PerformOperation, Object!wireVars, Object!remoteVars
  <2>4. Bounds'
    <3>1. Object!Apply(f, wish[k]) \in Number \cup {Object!Nil} \/ f.op = "increment"
      BY DEF Object!FieldOperation, Object!Set, Object!Delete, Object!Increment, Object!Apply
    <3>2. ops' \in 0 .. MaxOps /\ calls' = calls
      BY <1>0, <1>2 DEF Object!PerformOperation, Bounds
    <3>3. wish' = [wish EXCEPT ![k] = IF f.op = "increment" THEN Object!Open ELSE Object!Apply(f, @)]
      BY <1>2 DEF Object!PerformOperation
    <3>4. wish' \in [Key -> Number \cup {Object!Nil, Object!Open}]
      BY <3>1, <3>3 DEF Bounds
    <3> QED BY <2>3, <3>2, <3>4 DEF Bounds
  <2> QED BY <1>1, <2>1, <2>2, <2>3, <2>4
<1>3. ASSUME NEW k \in Key, Object!Revert(k) PROVE Alone'
  <2>1. Object!None \in Object!Operation
    BY DEF Object!Operation
  <2>2. queue' = [queue EXCEPT ![Len(queue)][k] = Object!None]
    BY <1>3 DEF Object!Revert
  <2>3. UNCHANGED <<serverData, dirty, childDirty, jobs, jobPhase, wire, jobSent,
                    jobLanded, server, late, unheard>>
    BY <1>3 DEF Object!Revert, Object!wireVars, Object!remoteVars
  <2>4. Bounds'
    BY <1>0, <1>3, <2>3 DEF Object!Revert, Bounds
  <2> QED BY <1>1, <2>1, <2>2, <2>3, <2>4
<1>4. ~Object!ChildChanges
  BY DEF Object!ChildChanges
<1>5. ASSUME NEW job \in {"save", "fetch"}, Object!Begin(job) PROVE Alone'
  <2>1. UNCHANGED <<serverData, queue, dirty, childDirty, jobPhase, wire, jobSent,
                    jobLanded, server, late, unheard, ops, wish>> /\ calls' \in 0 .. MaxJobs
    BY <1>0, <1>5 DEF Object!Begin, Object!objectVars, Object!wireVars, Object!remoteVars, Bounds
  <2> QED BY <2>1 DEF Bounds, Object!OneSetBetweenSaves, SavesSomething, NewIsUnknown,
             ServerIsFollowed, Object!Changes
<1> QED BY <1>2, <1>3, <1>4, <1>5 DEF Object!User

\* Up to the command's end.
LEMMA SavingKeepsAlone ==
    ASSUME DataInv, Alone,
           \/ Object!SaveNothing \/ Object!StartSave \/ Object!EndWithChildren
           \/ Object!SaveChildren \/ Object!Send \/ Object!FetchFails
    PROVE  Alone'
<1> USE DEF Alone
<1>0. /\ MaxSent \in Nat /\ queue \in Seq(OperationSet) /\ Len(queue) \in Nat
      /\ jobPhase \notin {"children", "sending"} => wire = 0 /\ jobLanded = 0 /\ Len(queue) = 1
      /\ jobPhase = "children" => wire = 0 /\ jobLanded = 0
  BY ParseAssumption DEF Object!ObjectAssumption, DataInv, ObjectTypes, Bounds,
     WireIsTheSaves, Object!OneSetBetweenSaves
<1>1. CASE Object!SaveNothing \/ Object!FetchFails
  <2>1. /\ UNCHANGED <<serverData, queue, dirty, childDirty, wire, jobSent,
                       jobLanded, server, late, unheard, ops, calls, wish>>
        /\ jobPhase = "idle" /\ jobPhase' = "idle"
    BY <1>1 DEF Object!SaveNothing, Object!FetchFails, Object!First, Object!NextJob,
       Object!objectVars, Object!wireVars, Object!remoteVars, Object!userVars
  <2> QED BY <2>1 DEF Bounds, Object!OneSetBetweenSaves, SavesSomething, NewIsUnknown,
             ServerIsFollowed, Object!Changes
<1>2. CASE Object!StartSave
  <2>1. /\ UNCHANGED <<serverData, dirty, childDirty, wire, jobSent,
                       jobLanded, server, late, unheard, ops, calls, wish>>
        /\ jobPhase = "idle" /\ jobPhase' = "children"
        /\ queue' = Append(queue, Object!EmptySet)
        /\ dirty \/ Object!Unsaved # Object!EmptySet
    BY <1>2 DEF Object!StartSave, Object!First, Object!IsDirty,
       Object!wireVars, Object!remoteVars, Object!userVars
  <2>2. Object!EmptySet \in OperationSet
    BY DEF Object!EmptySet, OperationSet, Object!Operation
  <2>3. Len(queue) = 1 /\ jobLanded = 0 /\ Len(queue') = 2 /\ queue'[1] = queue[1]
    <3>1. Len(queue) = 1 /\ jobLanded = 0 /\ 1 \in 1 .. Len(queue)
      BY <1>0, <2>1
    <3>2. /\ Len(queue') = Len(queue) + 1
          /\ \A n \in 1 .. Len(queue) : queue'[n] = queue[n]
      BY <1>0, <2>1, <2>2, AppendType
    <3> QED BY <3>1, <3>2
  <2>4. Object!Changes' = Object!Unsaved
    BY <2>3 DEF Object!Changes, Object!Unsaved, Object!Last
  <2>5. SavesSomething'
    BY <2>1, <2>4 DEF SavesSomething
  <2> QED BY <2>1, <2>3, <2>5 DEF Bounds, Object!OneSetBetweenSaves, NewIsUnknown, ServerIsFollowed
<1>3. ~Object!EndWithChildren
  BY DEF Object!EndWithChildren, SavesSomething
<1>4. CASE Object!SaveChildren
  <2>1. /\ UNCHANGED <<serverData, queue, dirty, server, late, unheard, ops, calls, wish>>
        /\ childDirty' = FALSE /\ wire' = 0 /\ jobSent' = 0 /\ jobLanded' = 0
        /\ jobPhase = "children" /\ jobPhase' = "sending"
    BY <1>4 DEF Object!SaveChildren, Object!objectVars, Object!remoteVars, Object!userVars
  <2> QED BY <1>0, <2>1 DEF Bounds, Object!OneSetBetweenSaves, SavesSomething, NewIsUnknown,
             ServerIsFollowed
<1>5. CASE Object!Send
  <2>1. /\ UNCHANGED <<serverData, queue, dirty, childDirty, jobPhase, jobLanded,
                       server, late, unheard, ops, calls, wish>>
        /\ jobPhase = "sending" /\ jobSent < MaxSent /\ wire' = wire + 1 /\ jobSent' = jobSent + 1
    BY <1>5 DEF Object!Send, Object!objectVars, Object!remoteVars, Object!userVars
  <2>2. Bounds'
    BY <1>0, <2>1 DEF Bounds
  <2> QED BY <2>1, <2>2 DEF Object!OneSetBetweenSaves, SavesSomething, NewIsUnknown,
             ServerIsFollowed, Object!Changes
<1> QED BY <1>1, <1>2, <1>3, <1>4, <1>5

\* Requests that are carried out.
LEMMA LandingKeepsAlone ==
    ASSUME DataInv, Alone, Object!Land \/ \E set \in late : Object!LandLate(set)
    PROVE  Alone'
<1> USE DEF Alone
<1>1. CASE Object!Land
  <2> DEFINE before == IF dirty THEN Object!NoData ELSE server
  <2>1. /\ UNCHANGED <<serverData, queue, dirty, childDirty, jobPhase, jobSent,
                       late, unheard, ops, calls, wish>>
        /\ wire > 0 /\ wire' = wire - 1 /\ jobLanded' = jobLanded + 1
        /\ server' = Object!ApplySet(Object!Changes, before)
    BY <1>1 DEF Object!Land, Object!objectVars, Object!userVars
  <2>2. jobPhase = "sending" /\ SaveUnderWay
    BY <2>1 DEF DataInv, WireIsTheSaves, SaveUnderWay
  <2>3. Bounds'
    BY <2>1, ParseAssumption DEF Object!ObjectAssumption, Bounds
  <2>4. ServerIsFollowed'
    <3> SUFFICES ASSUME ~unheard, NEW k \in Key, Object!Changes[k].op # "increment"
                 PROVE  server'[k] = Object!Apply(Object!Changes[k], serverData[k])
      BY <2>1 DEF ServerIsFollowed, Object!Changes, Bounds
    <3>1. Object!Changes \in OperationSet /\ before \in Data
      BY <2>2, ChangesType DEF DataInv, ObjectTypes, Object!NoData, Data, Datum
    <3>2. server'[k] = Object!Apply(Object!Changes[k], before[k])
      <4> HIDE DEF before
      <4> QED BY <2>1, <3>1, ApplySetType
    <3>3. CASE before[k] = serverData[k]
      BY <3>2, <3>3
    <3>4. CASE before[k] = Object!Apply(Object!Changes[k], serverData[k])
      <4>1. Object!Changes[k] \in Object!Operation
        BY <3>1 DEF OperationSet
      <4> HIDE DEF before
      <4> QED BY <3>2, <3>4, <4>1, ApplyTwice
    <3>5. dirty => before[k] = serverData[k]
      BY DEF NewIsUnknown
    <3>6. ~dirty => \/ before[k] = serverData[k]
                    \/ before[k] = Object!Apply(Object!Changes[k], serverData[k])
      BY DEF ServerIsFollowed
    <3> HIDE DEF before
    <3> QED BY <3>3, <3>4, <3>5, <3>6
  <2> QED BY <2>1, <2>3, <2>4 DEF Object!OneSetBetweenSaves, SavesSomething, NewIsUnknown,
             Object!Changes
<1>2. ASSUME NEW set \in late, Object!LandLate(set) PROVE Alone'
  <2>1. /\ UNCHANGED <<serverData, queue, dirty, childDirty, jobPhase, wire, jobSent,
                       jobLanded, ops, calls, wish>>
        /\ unheard' = TRUE
    BY <1>2 DEF Object!LandLate, Object!objectVars, Object!wireVars, Object!userVars
  <2> QED BY <2>1 DEF Bounds, Object!OneSetBetweenSaves, SavesSomething, NewIsUnknown,
             ServerIsFollowed, Object!Changes
<1> QED BY <1>1, <1>2

\* A save succeeds.
LEMMA SuccessKeepsAlone ==
    ASSUME DataInv, Alone, Object!SaveSucceeds
    PROVE  Alone'
<1> USE DEF Alone
<1>1. /\ serverData' = Object!Answer(Object!ApplySet(Head(queue), serverData))
      /\ queue' = Tail(queue) /\ jobPhase = "sending" /\ jobPhase' = "idle"
      /\ jobLanded > 0 /\ dirty' = FALSE
      /\ wire' = 0 /\ jobSent' = 0 /\ jobLanded' = 0
      /\ UNCHANGED <<childDirty, server, unheard, ops, calls, wish>>
  BY DEF Object!SaveSucceeds, Object!LeaveWire, Object!NextJob, Object!userVars
<1>2. /\ queue \in Seq(OperationSet) /\ Len(queue) = 2 /\ serverData \in Data /\ server \in Data
      /\ SaveUnderWay
  BY <1>1 DEF DataInv, ObjectTypes, Object!OneSetBetweenSaves, SaveUnderWay
<1>3. Head(queue) = Object!Changes /\ Object!Changes \in OperationSet /\ Len(queue') = 1
  <2>1. /\ queue[Len(queue) - 1] = queue[1] /\ Head(queue) = queue[1]
        /\ queue[1] \in OperationSet /\ Len(Tail(queue)) = 1
    BY <1>2, PairParts
  <2> QED BY <1>1, <2>1 DEF Object!Changes
<1>4. ~unheard => serverData' = server
  <2> SUFFICES ASSUME ~unheard PROVE serverData' = server
    OBVIOUS
  <2>1. \A k \in Key : Object!ApplySet(Object!Changes, serverData)[k]
                           = Object!Apply(Object!Changes[k], serverData[k])
    BY <1>2, <1>3, ApplySetType
  <2>2. \A k \in Key : Object!Changes[k].op # "increment" =>
            server[k] = Object!Apply(Object!Changes[k], serverData[k])
    BY <1>1 DEF ServerIsFollowed
  <2>3. serverData' = [k \in Key |-> server[k]]
    BY <1>1, <1>3, <2>1, <2>2 DEF Object!Answer
  <2> QED BY <1>2, <2>3 DEF Data
<1>5. Bounds'
  BY <1>1, ParseAssumption DEF Object!ObjectAssumption, Bounds
<1> QED BY <1>1, <1>3, <1>4, <1>5 DEF Object!OneSetBetweenSaves, SavesSomething, NewIsUnknown,
           ServerIsFollowed

\* A save fails: what was carried out of it the object does not know.
LEMMA FailureKeepsAlone ==
    ASSUME DataInv, Alone, Object!SaveFails
    PROVE  Alone'
<1> USE DEF Alone
<1>1. /\ queue' = Object!RollForward(queue) /\ jobPhase = "sending" /\ jobPhase' = "idle"
      /\ server' = IF dirty THEN Object!NoData ELSE server
      /\ unheard' = (unheard \/ (jobLanded > 0 /\ ~dirty))
      /\ late' = IF wire > 0 /\ ~dirty THEN late \cup {Object!Changes} ELSE late
      /\ wire' = 0 /\ jobSent' = 0 /\ jobLanded' = 0
      /\ UNCHANGED <<serverData, dirty, childDirty, ops, calls, wish>>
  BY DEF Object!SaveFails, Object!LeaveWire, Object!NextJob, Object!userVars
<1>2. /\ queue \in Seq(OperationSet) /\ Len(queue) = 2 /\ serverData \in Data
  BY <1>1 DEF DataInv, ObjectTypes, Object!OneSetBetweenSaves
<1>3. Len(queue') = 1
  <2>1. Len(queue) >= 2
    BY <1>2
  <2>2. Len(queue') = Len(queue) - 1
    BY <1>1, <1>2, <2>1, EstimateOfRolled
  <2> QED BY <1>2, <2>2
<1>4. Bounds'
  BY <1>1, ParseAssumption DEF Object!ObjectAssumption, Bounds
<1>5. NewIsUnknown'
  BY <1>1 DEF NewIsUnknown
<1>6. ServerIsFollowed'
  <2>1. CASE dirty
    BY <1>1, <2>1 DEF ServerIsFollowed, NewIsUnknown
  <2>2. CASE ~dirty /\ ~unheard'
    <3>1. ~unheard /\ ~(jobLanded > 0)
      BY <1>1, <2>2
    <3>2. jobLanded = 0
      BY <3>1 DEF Bounds
    <3> QED BY <1>1, <2>2, <3>1, <3>2 DEF ServerIsFollowed
  <2> QED BY <2>1, <2>2 DEF ServerIsFollowed
<1> QED BY <1>1, <1>3, <1>4, <1>5, <1>6 DEF Object!OneSetBetweenSaves, SavesSomething

\* A fetch succeeds.
LEMMA FetchKeepsAlone ==
    ASSUME DataInv, Alone, Object!FetchSucceeds
    PROVE  Alone'
<1> USE DEF Alone
<1>1. /\ serverData' = server /\ dirty' = FALSE /\ unheard' = FALSE
      /\ jobPhase = "idle" /\ jobPhase' = "idle"
      /\ UNCHANGED <<queue, childDirty, wire, jobSent, jobLanded, server, ops, calls>>
  BY DEF Object!FetchSucceeds, Object!First, Object!NextJob, Object!wireVars
<1>2. wish' = [k \in Key |-> IF \E i \in 1 .. Len(queue) : queue[i][k] # Object!None
                             THEN wish[k] ELSE Object!Open]
  BY DEF Object!FetchSucceeds
<1>3. jobLanded = 0
  BY <1>1 DEF DataInv, WireIsTheSaves, Bounds
<1>4. Bounds'
  BY <1>1, <1>2 DEF Bounds
<1> QED BY <1>1, <1>3, <1>4 DEF Object!OneSetBetweenSaves, SavesSomething, NewIsUnknown,
           ServerIsFollowed

\* Every step of an object without children.
LEMMA NextKeepsAlone ==
    ASSUME DataInv, Alone, [Object!Next]_objectVars
    PROVE  Alone'
<1>1. CASE UNCHANGED objectVars
  BY <1>1 DEF objectVars, Alone, Bounds, Object!OneSetBetweenSaves, SavesSomething, NewIsUnknown,
           ServerIsFollowed, Object!Changes
<1>2. CASE Object!Job
  BY <1>2, SavingKeepsAlone, SuccessKeepsAlone, FailureKeepsAlone, FetchKeepsAlone
     DEF Object!Job
<1> QED BY <1>1, <1>2, UserKeepsAlone, SavingKeepsAlone, LandingKeepsAlone DEF Object!Next

\* An object without children stays one.
LEMMA AloneHolds == ParseSpec => [](subject = "object" => Alone)
<1>1. ParseInit => (subject = "object" => Alone)
  BY InitAlone DEF ParseInit
<1>2. DataInv /\ (subject = "object" => Alone) /\ [ParseNext]_parseVars
          => (subject = "object" => Alone)'
  BY NextKeepsAlone, ObjectMoves
<1> QED BY <1>1, <1>2, DataInvHolds, PTL DEF ParseSpec

\* Between saves an object without unsaved changes reads as the server's data.
LEMMA ReadsAsTheServer ==
    ASSUME DataInv, Object!OneSetBetweenSaves, jobPhase = "idle",
           Object!Unsaved = Object!EmptySet
    PROVE  estimated = serverData
<1>1. /\ queue \in Seq(OperationSet) /\ Len(queue) = 1 /\ serverData \in Data
      /\ estimated = Object!Estimate(serverData, queue)
  BY DEF DataInv, ObjectTypes, Object!OneSetBetweenSaves, Object!EstimateIsUpToDate
<1>2. queue[1] = Object!EmptySet
  BY <1>1 DEF Object!Unsaved, Object!Last
<1>3. ASSUME NEW k \in Key PROVE estimated[k] = serverData[k]
  <2>1. Decided(serverData, queue, k, serverData[k])
    BY <1>1, <1>2 DEF Decided, Object!EmptySet
  <2> QED BY <1>1, <2>1, DecidedIsRead
<1>4. estimated \in Data
  BY <1>1, EstimateType
<1> QED BY <1>1, <1>3, <1>4, DataEqual

\* The type invariant of ObjectSave.
LEMMA AloneTypes == DataInv /\ Alone => Object!TypeOK
BY DEF DataInv, ObjectTypes, Alone, Bounds, Object!TypeOK, OperationSet, Data, Datum

\* isDirty of an object without children: what is unsaved is dirty, and a failed save
\* leaves one set of operations.
THEOREM UnsavedStaysDirty == ParseSpec => []UnsavedIsDirty
<1>1. DataInv /\ (subject = "object" => Alone) => UnsavedIsDirty
  BY AloneTypes, ReadsAsTheServer DEF UnsavedIsDirty, Object!Inv, Object!UnsavedIsDirty,
     Object!IsDirty, Alone
<1> QED BY <1>1, DataInvHolds, AloneHolds, PTL

\* The server has what a clean object without children reads, unless a request was
\* carried out unheard.
THEOREM SavedReachesTheServer == ParseSpec => []SavedIsOnTheServer
<1>1. ASSUME DataInv, Alone, jobPhase = "idle", ~unheard, ~Object!IsDirty
      PROVE  server = estimated
  <2>1. jobLanded = 0
    BY <1>1 DEF DataInv, WireIsTheSaves, Alone, Bounds
  <2>2. server = serverData
    BY <1>1, <2>1 DEF Alone, ServerIsFollowed
  <2> QED BY <1>1, <2>2, ReadsAsTheServer DEF Object!IsDirty, Alone
<1>2. DataInv /\ (subject = "object" => Alone) => SavedIsOnTheServer
  BY <1>1 DEF SavedIsOnTheServer, Object!SavedIsOnTheServer
<1> QED BY <1>2, DataInvHolds, AloneHolds, PTL
=============================================================================
