------------------------------- MODULE Query -------------------------------
(***************************************************************************)
(* A PFQuery on which calls are made one after the other and at the same   *)
(* time, and which can be cancelled: PFQuery.m, with what the query        *)
(* controller and thenCallBackOnMainThreadAsync: do for each call.  A call *)
(* is refused while the query holds the token source of another one.  A    *)
(* call with a block holds the query's lock from the check to the end of   *)
(* the call and may read the cache first and then the network, the second  *)
(* leg waiting for the callback of the first; a call that returns a task   *)
(* checks and marks under the lock separately.                             *)
(*                                                                         *)
(* What a leg asks for, its answer and whether it is an error are left     *)
(* out: only whether it ends as cancelled decides about the callback.      *)
(***************************************************************************)
EXTENDS Naturals, FiniteSets

CONSTANTS
  Call,       \* the calls ever made on the query
  Blocks,     \* those made with a block
  Kind,       \* how a call may go about it: "network", "cacheThenNetwork"
  Valid,      \* what _validateQueryState may find: a subset of BOOLEAN
  None        \* _cancellationTokenSource = nil

QueryAssumption ==
  /\ Blocks \subseteq Call
  /\ None \notin Call
  /\ Kind \subseteq {"network", "cacheThenNetwork"}
  /\ Valid \subseteq BOOLEAN

Leg == {"cache", "network"}

VARIABLES
  source,     \* _cancellationTokenSource: the call it was made for, or None
  caller,     \* how far the caller of each call is
  stage,      \* how far each leg of each call is
  outcome,    \* of the task of each leg
  cancelled,  \* the calls whose token has been cancelled
  told,       \* the legs that have called back
  hushed      \* for each leg, what cancel found it at (history)

vars == <<source, caller, stage, outcome, cancelled, told, hushed>>
-----------------------------------------------------------------------------
Legs == Call \X Leg

\* A leg that has been asked for and whose third continuation is to come.
Outstanding(x) == stage[x] \in {"waiting", "starting", "running", "answered"}
Unanswered(x) == stage[x] \in {"waiting", "starting", "running"}

Init ==
  /\ source = None
  /\ caller = [c \in Call |-> "new"]
  /\ stage = [x \in Legs |-> "absent"]
  /\ outcome = [x \in Legs |-> "none"]
  /\ cancelled = {}
  /\ told = {}
  /\ hushed = [x \in Legs |-> "no"]

\* The legs a call of this kind sets up: the network waits for the cache.
LegsOf(c, kind) ==
  [x \in Legs |->
     IF x[1] # c THEN stage[x]
     ELSE IF kind = "cacheThenNetwork"
       THEN IF x[2] = "cache" THEN "starting" ELSE "waiting"
       ELSE IF x[2] = "network" THEN "starting" ELSE "absent"]

\* The source is set before the state is validated; if that raises, nothing
\* is set up and nothing resets the source.
MarkAndStart(c, kind) ==
  /\ source' = c
  /\ \E valid \in Valid :
       /\ caller' = [caller EXCEPT ![c] = IF valid THEN "made" ELSE "raised"]
       /\ stage' = IF valid THEN LegsOf(c, kind) ELSE stage
  /\ UNCHANGED <<outcome, cancelled, told, hushed>>

\* Faulty: a call goes ahead while another one is outstanding.
RefuseAndStart(c) == source # None /\ MarkAndStart(c, "network")

\* checkIfCommandIsRunning raises.
Refuse(c) ==
  /\ source # None
  /\ caller' = [caller EXCEPT ![c] = "refused"]
  /\ UNCHANGED <<source, stage, outcome, cancelled, told, hushed>>

FindWithBlock(c) ==
  /\ c \in Blocks
  /\ caller[c] = "new"
  /\ \/ Refuse(c)
     \/ source = None /\ \E kind \in Kind : MarkAndStart(c, kind)

\* A call that returns a task first checks ...
Check(c) ==
  /\ c \notin Blocks
  /\ caller[c] = "new"
  /\ \/ Refuse(c)
     \/ /\ source = None
        /\ caller' = [caller EXCEPT ![c] = "checked"]
        /\ UNCHANGED <<source, stage, outcome, cancelled, told, hushed>>

\* ... and then, having left the lock, marks the query.
MarkAsRunning(c) ==
  /\ caller[c] = "checked"
  /\ MarkAndStart(c, "network")

-----------------------------------------------------------------------------
\* The block on the background executor looks at the token first.
StartLeg(x) ==
  /\ stage[x] = "starting"
  /\ \/ /\ x[1] \in cancelled
        /\ stage' = [stage EXCEPT ![x] = "answered"]
        /\ outcome' = [outcome EXCEPT ![x] = "cancelled"]
     \/ /\ x[1] \notin cancelled
        /\ stage' = [stage EXCEPT ![x] = "running"]
        /\ UNCHANGED outcome
  /\ UNCHANGED <<source, caller, cancelled, told, hushed>>

\* Faulty: the token is not looked at once the command has an answer.
AnswerUnchecked(x) == "answer"

\* Whatever the command brought, a token cancelled meanwhile cancels the task.
AnswerOf(x) == IF x[1] \in cancelled THEN "cancelled" ELSE "answer"

Answer(x) ==
  /\ stage[x] = "running"
  /\ stage' = [stage EXCEPT ![x] = "answered"]
  /\ outcome' = [outcome EXCEPT ![x] = AnswerOf(x)]
  /\ UNCHANGED <<source, caller, cancelled, told, hushed>>

\* Faulty: the source is reset whoever's it is.
ResetAny(c) == None

\* The source the query keeps once this call's leg has ended.
SourceAfter(c) == IF source = c THEN None ELSE source

\* The last continuation resets the source, if it is still this call's, and a
\* block is dispatched to the main queue.
ClearSource(x) ==
  /\ stage[x] = "answered"
  /\ source' = SourceAfter(x[1])
  /\ stage' = [stage EXCEPT ![x] = IF x[1] \in Blocks THEN "queued" ELSE "done"]
  /\ UNCHANGED <<caller, outcome, cancelled, told, hushed>>

\* On the main thread: the block is called unless the task was cancelled, and
\* the leg that waited for this one starts.
CallBack(x) ==
  /\ stage[x] = "queued"
  /\ stage' = [y \in Legs |->
       CASE y = x -> "done"
         [] y[1] = x[1] /\ stage[y] = "waiting" -> "starting"
         [] OTHER -> stage[y]]
  /\ told' = IF outcome[x] = "cancelled" THEN told ELSE told \cup {x}
  /\ UNCHANGED <<source, caller, outcome, cancelled, hushed>>

Cancel ==
  /\ cancelled' = cancelled \cup ({source} \ {None})
  /\ source' = None
  /\ hushed' = [x \in Legs |->
       CASE Unanswered(x) -> "unanswered"
         [] stage[x] \in {"answered", "queued"} /\ hushed[x] = "no" -> "answered"
         [] OTHER -> hushed[x]]
  /\ UNCHANGED <<caller, stage, outcome, told>>

Next ==
  \/ \E c \in Call : FindWithBlock(c) \/ Check(c) \/ MarkAsRunning(c)
  \/ \E x \in Legs : StartLeg(x) \/ Answer(x) \/ ClearSource(x) \/ CallBack(x)
  \/ Cancel

Spec == Init /\ [][Next]_vars

\* The executors run what they are given, a command completes (CommandRunner),
\* and the main queue is drained.  Nobody has to call or to cancel.
Fairness ==
  /\ \A c \in Call : WF_vars(MarkAsRunning(c))
  /\ \A x \in Legs :
       /\ WF_vars(StartLeg(x))
       /\ WF_vars(Answer(x))
       /\ WF_vars(ClearSource(x))
       /\ WF_vars(CallBack(x))

FairSpec == Spec /\ Fairness
-----------------------------------------------------------------------------
TypeOK ==
  /\ source \in Call \cup {None}
  /\ caller \in [Call -> {"new", "checked", "made", "refused", "raised"}]
  /\ stage \in [Legs -> {"absent", "waiting", "starting", "running",
                         "answered", "queued", "done"}]
  /\ outcome \in [Legs -> {"none", "answer", "cancelled"}]
  /\ cancelled \subseteq Call
  /\ told \subseteq Legs
  /\ hushed \in [Legs -> {"no", "unanswered", "answered"}]

\* The source a query holds is that of a call that still has to reset it and
\* whose token is not cancelled: a query does not refuse calls for nothing.
HeldForAReason ==
  source # None => /\ source \notin cancelled
                   /\ \E l \in Leg : Outstanding(<<source, l>>)

Inv == TypeOK /\ HeldForAReason

\* Of the calls made from one thread, or with a block, never more than one is
\* waiting for an answer without having been cancelled (the exception text of
\* checkIfCommandIsRunning).
OneOutstanding ==
  Cardinality({c \in Call \ cancelled :
                 \E l \in Leg : Unanswered(<<c, l>>)}) <= 1

\* A call that had no answer yet when the query was cancelled never calls back.
CancelStopsUnanswered == \A x \in told : hushed[x] # "unanswered"

\* A call stays within reach of cancel until it is answered or cancelled: the
\* late end of an earlier call does not take away a later call's source.
KeepsWithinReach ==
  \A c \in Call : source = c /\ source' # c
     => \/ c \in cancelled'
        \/ \E l \in Leg : stage[<<c, l>>] = "answered"
                          /\ stage'[<<c, l>>] # "answered"
StaysCancellable == [][KeepsWithinReach]_vars

\* The network's callback comes after the cache's has been dealt with.
CacheBeforeNetwork ==
  \A c \in Call : /\ <<c, "network">> \in told
                  /\ stage[<<c, "cache">>] # "absent"
                  => stage[<<c, "cache">>] = "done"

\* Every call made ends, and the query becomes free for the next one.
CallsEnd ==
  \A c \in Call : caller[c] = "made"
    ~> \A l \in Leg : stage[<<c, l>>] \in {"absent", "done"}
BecomesFree == source # None ~> source = None
=============================================================================
