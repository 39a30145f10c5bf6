------------------------------- MODULE Bolts -------------------------------
(***************************************************************************)
(* What the application uses of Bolts: Task, TaskGroup and                 *)
(* CancellationToken.  They share nothing but the threads, so their        *)
(* product says no more than they do: subject says which of them moves,    *)
(* from the initial state on, and the others stand still.                  *)
(* The token comes twice: used by three threads of which nobody disposes   *)
(* of the token itself, and with an owner who does, assertions compiled    *)
(* out.  The group comes twice too: with and without the writes of one     *)
(* thread seen in order by another.                                        *)
(***************************************************************************)
EXTENDS Task

CONSTANTS Children, Observer, Asking, Disposers, Owners, Timers

VARIABLES subject,
          child, registered, at, noted, total, groupOutcome,
          tokenRequested, disposed, registrations, scheduled, tokenLock,
          made, regDisposed, released,
          stage, todo, inBlock, disposing, unregistered,
          notified, renotified, raised, stopped

Group == INSTANCE TaskGroup WITH Ordered <- TRUE, outcome <- groupOutcome
LooseGroup == INSTANCE TaskGroup WITH Ordered <- FALSE, outcome <- groupOutcome

Token == INSTANCE CancellationToken
    WITH TokenOwners <- {}, Assertions <- TRUE, requested <- tokenRequested
OwnedToken == INSTANCE CancellationToken
    WITH Asking <- {},
         Disposers <- Owners, TokenOwners <- Owners, Timers <- Owners \cup Timers,
         Assertions <- FALSE, requested <- tokenRequested

ASSUME BoltsAssumption == /\ Group!GroupAssumption /\ LooseGroup!GroupAssumption
                          /\ Token!TokenAssumption /\ OwnedToken!TokenAssumption

groupVars == <<child, registered, at, noted, total, groupOutcome>>
tokenVars == <<tokenRequested, disposed, registrations, scheduled, tokenLock, made,
               regDisposed, released, stage, todo, inBlock, disposing, unregistered,
               notified, renotified, raised, stopped>>
boltsVars == <<subject, vars, groupVars, tokenVars>>

BoltsInit == /\ subject \in {"task", "group", "looseGroup", "token", "ownedToken"}
             /\ Init
             /\ Group!Init
             /\ Token!Init

BoltsNext ==
    /\ \/ subject = "task" /\ Next /\ UNCHANGED <<groupVars, tokenVars>>
       \/ subject = "group" /\ Group!Next /\ UNCHANGED <<vars, tokenVars>>
       \/ subject = "looseGroup" /\ LooseGroup!Next /\ UNCHANGED <<vars, tokenVars>>
       \/ subject = "token" /\ Token!Next /\ UNCHANGED <<vars, groupVars>>
       \/ subject = "ownedToken" /\ OwnedToken!Next /\ UNCHANGED <<vars, groupVars>>
    /\ UNCHANGED subject

\* The fairness of the component that moves.
GroupFairness ==
    /\ WF_groupVars(subject = "group" /\ Group!Register)
    /\ WF_groupVars(subject = "group" /\ Group!Loop)
    /\ WF_groupVars(subject = "looseGroup" /\ LooseGroup!Register)
    /\ WF_groupVars(subject = "looseGroup" /\ LooseGroup!Loop)
TokenFairness ==
    \A t \in Thread : /\ WF_tokenVars(subject = "token" /\ Token!Proceed(t))
                      /\ WF_tokenVars(subject = "ownedToken" /\ OwnedToken!Proceed(t))

BoltsSpec == /\ BoltsInit /\ [][BoltsNext]_boltsVars
             /\ Fairness /\ GroupFairness /\ TokenFairness

-----------------------------------------------------------------------------
\* taskForCompletionOfAllTasks: one continuation is the last, it completes the
\* group after every child, and what it reports is the worst of what the
\* children report; should it not see all that other threads wrote, it invents
\* nothing all the same.
GroupReports == /\ Group!Inv /\ Group!CompletesAfterAll
                /\ subject = "group" => Group!ReportsTheWorst
                /\ LooseGroup!NothingInvented

\* BFCancellationToken: one thread notifies, each observer once, and of a cancelled
\* token only; a delay that its thread has stopped is not due any more.
TokenTells == /\ Token!Inv /\ Token!ToldOnce
              /\ subject = "token" => Token!NothingDueOnceStopped

\* An observer whose registration was disposed of is not in its block, and is not
\* called later.
DisposeSilences ==
    /\ Token!DisposeWaits
    /\ [][subject = "token" => ~Token!ToldWhenDisposed]_boltsVars

\* waitUntilFinished returns once the task has completed, a group completes when
\* its children have, an observer of a cancelled token is told, and no operation on
\* a token waits for a lock for ever.
NobodyWaitsForEver == /\ WaitersReturn
                      /\ Group!GroupCompletes
                      /\ Token!ObserversAreTold
                      /\ subject = "token" => Token!OperationsEnd
=============================================================================
