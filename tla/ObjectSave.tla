----------------------------- MODULE ObjectSave -----------------------------
(***************************************************************************)
(* A PFObject between its user and the server: the data the server is      *)
(* known to have, the sets of operations still to be saved, the estimate   *)
(* the user reads, and the saves and fetches its task queue lets through   *)
(* one at a time.                                                          *)
(*                                                                         *)
(* What is done under the object's lock in one go is one action.  The user *)
(* goes on changing the object while it is saved.  The command of a save   *)
(* is what RemoteCall promises: its request may be carried out more than   *)
(* once, and also when the save fails, or after that.                      *)
(***************************************************************************)
EXTENDS Integers, Sequences, SequencesExt

CONSTANTS Key,
          Value,        \* numbers the user sets
          MayHaveChild, \* may the object refer to another one?
          MaxOps,       \* bound: changes the user makes
          MaxJobs,      \* bound: saves and fetches the user calls
          MaxSent       \* how often a command is sent at most

ObjectAssumption == /\ Value \subseteq Nat
                    /\ MayHaveChild \in BOOLEAN
                    /\ MaxOps \in Nat /\ MaxJobs \in Nat /\ MaxSent \in Nat

VARIABLES serverData,  \* what the object takes the server to have
          queue,       \* operationSetQueue, the unsaved changes last
          estimated,   \* estimatedData
          dirty,       \* the flag: the object is new or has been deleted
          childDirty,  \* the child it refers to has changes
          jobs,        \* the task queue: the saves and fetches not yet ended
          phase,       \* of the first of them
          server,      \* what the server has
          wire,        \* requests of this save on the wire
          sent,        \* requests of this save sent
          landed,      \* requests of this save carried out
          late,        \* operation sets of ended saves still on the wire
          ops, calls,  \* bounds: changes made, saves and fetches called
          wish,        \* history: per key, what the user made of it last
          unheard      \* history: a request was carried out without the object knowing

objectVars == <<serverData, queue, estimated, dirty>>
wireVars == <<wire, sent, landed>>
remoteVars == <<server, late, unheard>>
userVars == <<ops, calls, wish>>
vars == <<objectVars, childDirty, jobs, phase, wireVars, remoteVars, userVars>>

Phase == {"idle", "children", "sending"}

\* No value, and a key of which the user left the value to an increment.
Nil == -1
Open == -2

\* PFSetOperation, PFDeleteOperation, PFIncrementOperation; none is a key that an
\* operation set does not hold.
None      == [op |-> "none", by |-> 0]
Set(v)    == [op |-> "set", by |-> v]
Delete    == [op |-> "delete", by |-> 0]
Increment == [op |-> "increment", by |-> 1]

EmptySet == [k \in Key |-> None]

NoData == [k \in Key |-> Nil]

\* applyToValue:forKey:
Apply(f, old) == CASE f.op = "none"      -> old
                   [] f.op = "set"       -> f.by
                   [] f.op = "delete"    -> Nil
                   [] f.op = "increment" -> IF old = Nil THEN f.by ELSE old + f.by

\* Faulty: an increment forgets the value it was to change.
MergeForgetting(f, previous) == IF f.op = "none" THEN previous ELSE f

\* mergeWithPrevious:
Merge(f, previous) ==
    CASE f.op = "none"                                     -> previous
      [] f.op = "increment" /\ previous.op = "increment"   ->
             [op |-> "increment", by |-> f.by + previous.by]
      [] f.op = "increment" /\ previous.op \in {"set", "delete"} ->
             Set(f.by + previous.by)
      [] OTHER                                             -> f

\* [next mergeOperationSet:failed]
MergeSets(next, failed) == [k \in Key |-> Merge(next[k], failed[k])]

ApplySet(set, data) == [k \in Key |-> Apply(set[k], data[k])]

\* estimatedDataFromServerData:operationSetQueue:
Estimate(data, sets) ==
    LET after[n \in 0 .. Len(sets)] ==
            IF n = 0 THEN data ELSE ApplySet(sets[n], after[n - 1])
    IN  after[Len(sets)]

\* A new object without data.
Init == /\ serverData = NoData
        /\ queue = <<EmptySet>>
        /\ estimated = NoData
        /\ dirty = TRUE /\ childDirty = FALSE
        /\ jobs = <<>> /\ phase = "idle"
        /\ server = NoData
        /\ wire = 0 /\ sent = 0 /\ landed = 0
        /\ late = {}
        /\ ops = 0 /\ calls = 0
        /\ wish = NoData /\ unheard = FALSE

Unsaved == Last(queue)

\* The set the save under way sends: startSave has put a new one behind it.
Changes == queue[Len(queue) - 1]

IsDirty == dirty \/ Unsaved # EmptySet

-----------------------------------------------------------------------------
\* performOperation:forKey: changes the estimate and the unsaved changes.
PerformOperation(k, f) ==
    /\ ops < MaxOps
    /\ f.op = "delete" => estimated[k] # Nil
    /\ estimated' = [estimated EXCEPT ![k] = Apply(f, @)]
    /\ queue' = [queue EXCEPT ![Len(queue)][k] = Merge(f, @)]
    /\ ops' = ops + 1
    /\ wish' = [wish EXCEPT ![k] = IF f.op = "increment" THEN Open ELSE Apply(f, @)]
    /\ UNCHANGED <<serverData, dirty, childDirty, jobs, phase, wireVars, remoteVars,
                   calls>>

\* Somebody changes the object this one refers to.
ChildChanges ==
    /\ MayHaveChild /\ ~childDirty /\ ops < MaxOps
    /\ childDirty' = TRUE
    /\ ops' = ops + 1
    /\ UNCHANGED <<objectVars, jobs, phase, wireVars, remoteVars, calls, wish>>

\* revertObjectForKey: takes back what no save has begun with.
Revert(k) ==
    /\ ops < MaxOps /\ Unsaved[k] # None
    /\ queue' = [queue EXCEPT ![Len(queue)][k] = None]
    /\ estimated' = Estimate(serverData, queue')
    /\ ops' = ops + 1
    /\ wish' = [wish EXCEPT ![k] = Open]
    /\ UNCHANGED <<serverData, dirty, childDirty, jobs, phase, wireVars, remoteVars,
                   calls>>

\* saveInBackground, fetchInBackground; a fetch needs an object that was saved.
Begin(job) ==
    /\ calls < MaxJobs
    /\ job = "fetch" => ~dirty
    /\ jobs' = Append(jobs, job)
    /\ calls' = calls + 1
    /\ UNCHANGED <<objectVars, childDirty, phase, wireVars, remoteVars, ops, wish>>

-----------------------------------------------------------------------------
NextJob == jobs' = Tail(jobs) /\ phase' = "idle"

First(job) == phase = "idle" /\ jobs # <<>> /\ Head(jobs) = job

\* Nothing to save: the task succeeds at once.
SaveNothing ==
    /\ First("save") /\ ~IsDirty /\ ~childDirty
    /\ NextJob
    /\ UNCHANGED <<objectVars, childDirty, wireVars, remoteVars, userVars>>

\* saveAsync: the changes are those of the moment when the save's turn comes;
\* a new set takes the changes to come, and the children are saved first.
StartSave ==
    /\ First("save") /\ (IsDirty \/ childDirty)
    /\ queue' = Append(queue, EmptySet)
    /\ phase' = "children"
    /\ UNCHANGED <<serverData, estimated, dirty, childDirty, jobs, wireVars, remoteVars,
                   userVars>>

\* Without changes of its own the object's save ends with that of its children.
EndWithChildren ==
    /\ phase = "children" /\ ~dirty /\ Changes = EmptySet
    /\ childDirty' \in {FALSE, childDirty}
    /\ NextJob
    /\ UNCHANGED <<objectVars, wireVars, remoteVars, userVars>>

SaveChildren ==
    /\ phase = "children" /\ (dirty \/ Changes # EmptySet)
    /\ childDirty' = FALSE
    /\ phase' = "sending"
    /\ wire' = 0 /\ sent' = 0 /\ landed' = 0
    /\ UNCHANGED <<objectVars, jobs, remoteVars, userVars>>

\* An attempt of the command.
Send ==
    /\ phase = "sending" /\ sent < MaxSent
    /\ wire' = wire + 1 /\ sent' = sent + 1
    /\ UNCHANGED <<objectVars, childDirty, jobs, phase, landed, remoteVars, userVars>>

\* Without an objectId each request creates an object; the answer will name one.
Land ==
    /\ wire > 0
    /\ wire' = wire - 1 /\ landed' = landed + 1
    /\ server' = ApplySet(Changes, IF dirty THEN NoData ELSE server)
    /\ UNCHANGED <<objectVars, childDirty, jobs, phase, sent, late, unheard, userVars>>

\* A request of a save that has ended is carried out.
LandLate(set) ==
    /\ set \in late
    /\ late' = late \ {set}
    /\ server' = ApplySet(set, server)
    /\ unheard' = TRUE
    /\ UNCHANGED <<objectVars, childDirty, jobs, phase, wireVars, userVars>>

\* What is still on the wire when the command ends; a create is not heard of again.
LeaveWire == /\ late' = IF wire > 0 /\ ~dirty THEN late \cup {Changes} ELSE late
             /\ wire' = 0 /\ sent' = 0 /\ landed' = 0

\* Faulty: what the answer says of the incremented keys is not used.
AnswerIgnored(data) == data

\* The answer carries the new value of each key that was incremented.
Answer(data) == [k \in Key |-> IF Changes[k].op = "increment" THEN server[k] ELSE data[k]]

\* handleSaveResultAsync: with the answer: the first set in the queue is applied
\* to the server's data.
SaveSucceeds ==
    /\ phase = "sending" /\ landed > 0
    /\ serverData' = Answer(ApplySet(Head(queue), serverData))
    /\ queue' = Tail(queue)
    /\ dirty' = FALSE
    /\ estimated' = Estimate(serverData', queue')
    /\ LeaveWire /\ NextJob
    /\ UNCHANGED <<childDirty, server, unheard, userVars>>

\* Faulty: the later operation is merged into the earlier one.
RollForwardSwapped(sets) ==
    <<[k \in Key |-> Merge(sets[1][k], sets[2][k])]>> \o SubSeq(sets, 3, Len(sets))

\* Faulty: the failed operations are dropped.
RollNothing(sets) == Tail(sets)

\* The first set is merged into the one behind it.
RollForward(sets) ==
    <<MergeSets(sets[2], sets[1])>> \o SubSeq(sets, 3, Len(sets))

\* handleSaveResultAsync: with nil: after a failed or cancelled command, or after
\* the children's save has failed.
SaveFails ==
    /\ \/ phase = "sending"
       \/ phase = "children" /\ childDirty /\ (dirty \/ Changes # EmptySet)
    /\ queue' = RollForward(queue)
    /\ server' = IF dirty THEN NoData ELSE server
    /\ unheard' = (unheard \/ (landed > 0 /\ ~dirty))
    /\ LeaveWire /\ NextJob
    /\ UNCHANGED <<serverData, estimated, dirty, childDirty, userVars>>

\* _mergeAfterFetchWithResult: with complete data.
FetchSucceeds ==
    /\ First("fetch")
    /\ serverData' = server
    /\ dirty' = FALSE
    /\ estimated' = Estimate(serverData', queue)
    /\ wish' = [k \in Key |-> IF \E i \in 1 .. Len(queue) : queue[i][k] # None
                              THEN wish[k] ELSE Open]
    /\ unheard' = FALSE
    /\ NextJob
    /\ UNCHANGED <<queue, childDirty, wireVars, server, late, ops, calls>>

FetchFails ==
    /\ First("fetch")
    /\ NextJob
    /\ UNCHANGED <<objectVars, childDirty, wireVars, remoteVars, userVars>>

-----------------------------------------------------------------------------
FieldOperation == {Set(v) : v \in Value} \cup {Delete, Increment}

User == \/ \E k \in Key : \/ \E f \in FieldOperation : PerformOperation(k, f)
                          \/ Revert(k)
        \/ ChildChanges
        \/ \E job \in {"save", "fetch"} : Begin(job)

Job == \/ SaveNothing \/ StartSave \/ EndWithChildren \/ SaveChildren
       \/ SaveSucceeds \/ SaveFails \/ FetchSucceeds \/ FetchFails

Next == User \/ Job \/ Send \/ Land \/ \E set \in late : LandLate(set)

Spec == Init /\ [][Next]_vars

\* A queued block runs and a command ends, one way or the other.
FairSpec == Spec /\ WF_vars(Job)

-----------------------------------------------------------------------------
Operation == {None, Delete} \cup [op : {"set", "increment"}, by : Nat]

TypeOK ==
    /\ serverData \in [Key -> Nat \cup {Nil}] /\ server \in [Key -> Nat \cup {Nil}]
    /\ estimated \in [Key -> Nat \cup {Nil}]
    /\ queue \in Seq([Key -> Operation]) /\ late \subseteq [Key -> Operation]
    /\ dirty \in BOOLEAN /\ childDirty \in BOOLEAN /\ unheard \in BOOLEAN
    /\ jobs \in Seq({"save", "fetch"}) /\ phase \in Phase
    /\ wire \in 0 .. MaxSent /\ sent \in 0 .. MaxSent /\ landed \in 0 .. MaxSent
    /\ wire + landed = sent
    /\ ops \in 0 .. MaxOps /\ calls \in 0 .. MaxJobs
    /\ wish \in [Key -> Value \cup {Nil, Open}]

\* What the user reads is always what the server is known to have with every
\* operation not yet saved on top: the estimate is kept up to date by each change
\* on its own, and is not rebuilt after a failed save.
EstimateIsUpToDate == estimated = Estimate(serverData, queue)

\* What the user set or deleted last is what the user reads, whatever saves and
\* failures lie between, until the user reverts it or fetches.
OwnChangesStay == \A k \in Key : wish[k] # Open => estimated[k] = wish[k]

\* Between saves the object has one set, that of the unsaved changes: every failed
\* save has been rolled forward into it.
OneSetBetweenSaves == Len(queue) = IF phase \in {"children", "sending"} THEN 2 ELSE 1

\* Between saves, what differs from the server's data is unsaved: the next save
\* will send it. isDirty promises this.
UnsavedIsDirty == phase = "idle" /\ estimated # serverData => IsDirty

\* When everything is saved, and no request of a save that failed or had ended was
\* carried out since the last fetch, the server has what the user reads.
SavedIsOnTheServer == phase = "idle" /\ ~unheard /\ ~IsDirty => server = estimated

\* Every save and every fetch ends.
JobsEnd == jobs # <<>> ~> jobs = <<>>

Inv == TypeOK /\ OneSetBetweenSaves
=============================================================================
