------------------------------ MODULE TaskQueue ------------------------------
(***************************************************************************)
(* The task queues of PFObjects (PFTaskQueue) and the operation that waits *)
(* in several of them at once (PFObject's _enqueue:forObjects:).           *)
(*                                                                         *)
(* A queue is its mutex and its tail: the task of which an operation       *)
(* enqueued next has to await.  A tail is the task of all operations       *)
(* before; here it is the set of them, and complete when they are.         *)
(***************************************************************************)
EXTENDS Naturals, Sequences, FiniteSets, SequencesExt

CONSTANTS Op,       \* operations, each called by a thread of its own
          Object,
          Address,  \* the address of the mutex of an object
          MaxObjects  \* how many objects an operation affects at most

QueueAssumption ==
    /\ Address \in [Object -> Nat]
    /\ \A a, b \in Object : Address[a] = Address[b] => a = b
    /\ MaxObjects \in Nat \ {0}
    /\ "nobody" \notin Op

VARIABLES objects,  \* per operation, its array of objects
          phase,    \* per operation, where it is
          at,       \* per operation, how far its loop is
          mutex,    \* per object, the operation that has its mutex
          tail,     \* per object, the operations its tail waits for
          awaits,   \* per operation, those that must end before it starts
          line      \* history: per object, the operations in order of enqueue

vars == <<objects, phase, at, mutex, tail, awaits, line>>

Phase == {"new", "locking", "enqueueing", "waiting", "running", "ended"}

\* Arrays of different objects.
Array == UNION {{s \in [1 .. n -> Object] : IsInjective(s)} : n \in 1 .. MaxObjects}

Init == /\ objects = [x \in Op |-> <<>>]
        /\ phase = [x \in Op |-> "new"]
        /\ at = [x \in Op |-> 0]
        /\ mutex = [o \in Object |-> "nobody"]
        /\ tail = [o \in Object |-> {}]
        /\ awaits = [x \in Op |-> {}]
        /\ line = [o \in Object |-> <<>>]

Ended(x) == phase[x] = "ended"

Goes(x, p) == phase' = [phase EXCEPT ![x] = p]

\* The mutexes an operation has yet to lock.
Rest(x) == {o \in Range(objects[x]) : mutex[o] # x}

\* Faulty: the mutexes are not sorted.
AnyOf(o, rest) == o \in rest

\* The first in the order of the addresses.
FirstOf(o, rest) == o \in rest /\ \A p \in rest : Address[o] <= Address[p]

\* saveAll: deleteAll: fetchAll: and the like, for some objects; an operation on
\* one object enqueues it in the one queue.
Start(x) ==
    /\ phase[x] = "new"
    /\ \E array \in Array : objects' = [objects EXCEPT ![x] = array]
    /\ Goes(x, "locking")
    /\ at' = [at EXCEPT ![x] = 1]
    /\ UNCHANGED <<mutex, tail, awaits, line>>

\* Faulty: an operation locks one queue at a time, in enqueue: only.
LockNothing(x) ==
    /\ phase[x] = "locking"
    /\ Goes(x, "enqueueing")
    /\ UNCHANGED <<objects, at, mutex, tail, awaits, line>>

\* objc_sync_enter of one mutex after the other.
Lock(x) ==
    /\ phase[x] = "locking"
    /\ \E o \in Object :
          /\ FirstOf(o, Rest(x))
          /\ mutex[o] = "nobody"
          /\ mutex' = [mutex EXCEPT ![o] = x]
          /\ IF Rest(x) = {o} THEN Goes(x, "enqueueing") ELSE UNCHANGED phase
    /\ UNCHANGED <<objects, at, tail, awaits, line>>

\* The tail awaits the old tail too, so that an operation that ends before its
\* turn does not let the next one go.
NewTail(old, x) == old \cup {x}

\* [taskQueue enqueue:] for one object after the other.
Enqueue(x) ==
    /\ phase[x] = "enqueueing" /\ at[x] <= Len(objects[x])
    /\ LET o == objects[x][at[x]]
       IN  /\ mutex[o] \in {"nobody", x}
           /\ awaits' = [awaits EXCEPT ![x] = @ \cup tail[o]]
           /\ tail' = [tail EXCEPT ![o] = NewTail(@, x)]
           /\ line' = [line EXCEPT ![o] = Append(@, x)]
    /\ at' = [at EXCEPT ![x] = @ + 1]
    /\ UNCHANGED <<objects, phase, mutex>>

\* objc_sync_exit of all mutexes.
Unlock(x) ==
    /\ phase[x] = "enqueueing" /\ at[x] > Len(objects[x])
    /\ mutex' = [o \in Object |-> IF mutex[o] = x THEN "nobody" ELSE mutex[o]]
    /\ Goes(x, "waiting")
    /\ UNCHANGED <<objects, at, tail, awaits, line>>

\* readyToStart: every child queue has let the operation through.
Ready(x) == \A y \in awaits[x] : Ended(y)

Run(x) ==
    /\ phase[x] = "waiting" /\ Ready(x)
    /\ Goes(x, "running")
    /\ UNCHANGED <<objects, at, mutex, tail, awaits, line>>

\* The operation's task completes, however it does; one that is cancelled may
\* complete while it waits.
End(x) ==
    /\ phase[x] \in {"waiting", "running"}
    /\ Goes(x, "ended")
    /\ UNCHANGED <<objects, at, mutex, tail, awaits, line>>

Next == \E x \in Op : \/ Start(x) \/ Lock(x) \/ Enqueue(x) \/ Unlock(x)
                      \/ Run(x) \/ End(x)

Spec == Init /\ [][Next]_vars

\* A thread goes on; what runs ends.  An operation need not end while it waits.
Fairness == \A x \in Op : /\ WF_vars(Lock(x) \/ Enqueue(x) \/ Unlock(x) \/ Run(x))
                          /\ WF_vars(phase[x] = "running" /\ End(x))

FairSpec == Spec /\ Fairness

-----------------------------------------------------------------------------
TypeOK ==
    /\ objects \in [Op -> {<<>>} \cup Array]
    /\ phase \in [Op -> Phase]
    /\ at \in [Op -> 0 .. MaxObjects + 1]
    /\ mutex \in [Object -> Op \cup {"nobody"}]
    /\ tail \in [Object -> SUBSET Op]
    /\ awaits \in [Op -> SUBSET Op]
    /\ line \in [Object -> Seq(Op)]

\* The tail of a queue waits for all that were ever enqueued, each of them once,
\* and each of them for those before; a mutex is had by who locks or enqueues.
TailIsTheLine ==
    /\ \A o \in Object : tail[o] = Range(line[o]) /\ IsInjective(line[o])
    /\ \A o \in Object : \A i, j \in 1 .. Len(line[o]) :
          i < j => line[o][i] \in awaits[line[o][j]]
    /\ \A o \in Object : mutex[o] # "nobody" =>
          /\ phase[mutex[o]] \in {"locking", "enqueueing"}
          /\ o \in Range(objects[mutex[o]])

\* An operation that waits for a mutex has none of a higher address: so no circle of
\* operations waits for each other's mutexes.
LocksInOrder ==
    \A x \in Op : phase[x] = "locking" =>
        \A o \in Range(objects[x]), p \in Rest(x) : mutex[o] = x => Address[o] < Address[p]

Inv == TypeOK /\ TailIsTheLine /\ LocksInOrder

\* x was enqueued for the object before y.
Before(o, x, y) == \E i, j \in 1 .. Len(line[o]) :
                      i < j /\ line[o][i] = x /\ line[o][j] = y

\* An operation runs when all that were enqueued before it, for any of its objects,
\* have ended: so an object is never in two operations, and they come in order.
RunsInTurn ==
    \A o \in Object, x, y \in Op :
        Before(o, x, y) /\ phase[y] = "running" => Ended(x)

\* Operations that meet in several queues meet in the same order in all of them:
\* otherwise they would wait for each other for ever.
SameOrderInAllQueues ==
    \A a, b \in Object, x, y \in Op : Before(a, x, y) => ~Before(b, y, x)

\* No operation waits for ever, for a mutex or for its turn.
OperationsEnd == \A x \in Op : phase[x] # "new" ~> Ended(x)
=============================================================================
