------------------------------- MODULE Parse -------------------------------
(***************************************************************************)
(* What the application uses of Parse: RemoteCall, TaskQueue, ObjectSave   *)
(* and Query.  subject says which of them moves, from the initial state    *)
(* on; the others stand still, since nothing relates their states.  The    *)
(* object comes twice: alone, and with one that it refers to.  The query   *)
(* comes twice: with blocks only; and, for the races, with calls without a *)
(* block, the cache before the network, and invalid states.                *)
(***************************************************************************)
EXTENDS RemoteCall, Sequences

CONSTANTS QueuedObject, Address, MaxObjects, Op,      \* TaskQueue
          Key, MaxOps, MaxJobs,                       \* ObjectSave
          Number, MaxSent,                            \* ... of one alone
          ParentNumber, MaxParentSent,                \* ... of one with a child
          QueryCall, FirstCall, NoCall                \* Query

VARIABLES subject,
          objects, phase, at, mutex, tail, awaits, line,
          serverData, queue, estimated, dirty, childDirty, jobs, jobPhase, server,
          wire, jobSent, jobLanded, late, ops, calls, wish, unheard,
          source, caller, stage, legOutcome, cancelled, told, hushed

Queue == INSTANCE TaskQueue WITH Object <- QueuedObject
Object == INSTANCE ObjectSave
    WITH Value <- Number, MayHaveChild <- FALSE,
         phase <- jobPhase, sent <- jobSent, landed <- jobLanded
Parent == INSTANCE ObjectSave
    WITH Value <- ParentNumber, MayHaveChild <- TRUE, MaxSent <- MaxParentSent,
         phase <- jobPhase, sent <- jobSent, landed <- jobLanded
BlockQuery == INSTANCE Query
    WITH Call <- QueryCall, Blocks <- QueryCall, Kind <- {"network"},
         Valid <- {TRUE}, None <- NoCall, outcome <- legOutcome
SharedQuery == INSTANCE Query
    WITH Call <- QueryCall, Blocks <- FirstCall,
         Kind <- {"network", "cacheThenNetwork"},
         Valid <- BOOLEAN, None <- NoCall, outcome <- legOutcome

ASSUME ParseAssumption ==
    /\ Queue!QueueAssumption
    /\ Object!ObjectAssumption /\ Parent!ObjectAssumption
    /\ BlockQuery!QueryAssumption /\ SharedQuery!QueryAssumption

queueVars == <<objects, phase, at, mutex, tail, awaits, line>>
objectVars == <<serverData, queue, estimated, dirty, childDirty, jobs, jobPhase, server,
                wire, jobSent, jobLanded, late, ops, calls, wish, unheard>>
queryVars == <<source, caller, stage, legOutcome, cancelled, told, hushed>>
parseVars == <<subject, callVars, queueVars, objectVars, queryVars>>

ParseInit ==
    /\ subject \in {"call", "queue", "object", "parent", "blockQuery", "sharedQuery"}
    /\ Init /\ Queue!Init /\ Object!Init /\ BlockQuery!Init

ParseNext ==
    /\ \/ subject = "call" /\ Next /\ UNCHANGED <<queueVars, objectVars, queryVars>>
       \/ subject = "queue" /\ Queue!Next /\ UNCHANGED <<callVars, objectVars, queryVars>>
       \/ /\ \/ subject = "object" /\ Object!Next
             \/ subject = "parent" /\ Parent!Next
          /\ UNCHANGED <<callVars, queueVars, queryVars>>
       \/ /\ \/ subject = "blockQuery" /\ BlockQuery!Next
             \/ subject = "sharedQuery" /\ SharedQuery!Next
          /\ UNCHANGED <<callVars, queueVars, objectVars>>
    /\ UNCHANGED subject

ParseSpec == /\ ParseInit /\ [][ParseNext]_parseVars
             /\ Queue!Fairness
             /\ WF_objectVars(Object!Job)
             /\ BlockQuery!Fairness /\ SharedQuery!Fairness

-----------------------------------------------------------------------------
\* PFTaskQueue and _enqueue:forObjects: operations run one at a time for each
\* object, in the order in which they were enqueued, and that order is the same
\* for every object they share, though each queue has a mutex of its own.
QueuesAgree == Queue!Inv /\ Queue!RunsInTurn /\ Queue!SameOrderInAllQueues

\* rebuildEstimatedData, performOperation: and the merges after a save: what the
\* user reads is the server's data with every unsaved operation on top.
EstimateIsUpToDate == Object!EstimateIsUpToDate

\* handleSaveResultAsync: no save, failed or not, takes from the user what the
\* user set or deleted last.
OwnChangesStay == Object!OwnChangesStay

\* What a failed save leaves unsaved is one set of operations, and is dirty; this
\* is said of an object alone, since a save of children only breaks it.
UnsavedIsDirty == subject = "object" => Object!Inv /\ Object!UnsavedIsDirty

\* An object without unsaved changes is what the server has, unless a request was
\* carried out behind its back.
SavedIsOnTheServer == subject = "object" => Object!SavedIsOnTheServer

\* checkIfCommandIsRunning: one call with a block is outstanding at a time, and the
\* query refuses calls only on account of one that is; of the two callbacks of
\* one call the network's is the later.
CallsInOrder == /\ subject = "blockQuery" => BlockQuery!Inv /\ BlockQuery!OneOutstanding
                /\ SharedQuery!CacheBeforeNetwork

\* A call that had no answer when the query was cancelled never calls back.
CancelStopsUnanswered == subject = "blockQuery" => BlockQuery!CancelStopsUnanswered

\* _findObjectsAsyncForQueryState: the end of a call does not take away the source of
\* its successor.
StaysCancellable == [][subject = "blockQuery" => BlockQuery!KeepsWithinReach]_parseVars

\* Every operation in a queue ends, every save, fetch and call on a query does, and
\* the query becomes free for the next call.
EveryCallEnds == /\ Queue!OperationsEnd
                 /\ Object!JobsEnd
                 /\ SharedQuery!CallsEnd
                 /\ subject = "blockQuery" => BlockQuery!BecomesFree
=============================================================================
