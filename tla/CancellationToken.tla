-------------------------- MODULE CancellationToken --------------------------
(***************************************************************************)
(* A BFCancellationToken, the registrations of its observers and its       *)
(* source, used by several threads.                                        *)
(*                                                                         *)
(* The token and each registration have a recursive lock.  The lock of the *)
(* token is kept over several steps only while the token is disposed of,   *)
(* that of a registration only while its block runs.  A block may use the  *)
(* token and the registrations itself.  An exception unwinds to the caller *)
(* of the operation, who goes on.                                          *)
(***************************************************************************)
EXTENDS FiniteSets

CONSTANTS Thread,
          Observer,
          Asking,       \* observers whose block asks the token as its last act
          Disposers,    \* threads that dispose of registrations ...
          TokenOwners,  \* ... and of the token
          Timers,       \* threads that call cancelAfterDelay:
          Assertions    \* is NSAssert compiled in?

TokenAssumption == /\ Asking \subseteq Observer
                   /\ Disposers \cup TokenOwners \cup Timers \subseteq Thread
                   /\ Assertions \in BOOLEAN
                   /\ "nobody" \notin Thread /\ "none" \notin Observer

VARIABLES requested,      \* cancellationRequested
          disposed,       \* the token's
          registrations,  \* the token's array
          scheduled,      \* the threads in whose run loop cancelPrivate is due
          tokenLock,      \* the thread disposing of the token, or "nobody"
          made,           \* the observers that were registered
          regDisposed,    \* registrations that are disposed
          released,       \* registrations whose block is nil
          stage,          \* per thread, the operation on the token it is in
          todo,           \* per thread, the registrations left to treat
          inBlock,        \* per thread, the observer whose block it runs
          disposing,      \* per thread, the registration it is disposing of
          unregistered,   \* per thread, whether it has been unregistered
          notified,       \* history: observers whose block was called ...
          renotified,     \* ... and those for which it was called again
          raised,         \* history: the operations that raised
          stopped         \* history: the last cancelAfterDelay: had -1

tokenVars == <<requested, disposed, registrations, scheduled, tokenLock>>
regVars == <<made, regDisposed, released>>
threadVars == <<stage, todo, inBlock, disposing, unregistered>>
history == <<notified, renotified, raised, stopped>>
vars == <<tokenVars, regVars, threadVars, history>>

Operation == {"cancel", "dispose", "unregister", "delay"}

Init == /\ requested = FALSE /\ disposed = FALSE
        /\ registrations = {} /\ scheduled = {}
        /\ tokenLock = "nobody"
        /\ made = {} /\ regDisposed = {} /\ released = {}
        /\ stage = [t \in Thread |-> "idle"]
        /\ todo = [t \in Thread |-> {}]
        /\ inBlock = [t \in Thread |-> "none"]
        /\ disposing = [t \in Thread |-> "none"]
        /\ unregistered = [t \in Thread |-> FALSE]
        /\ notified = {} /\ renotified = {} /\ raised = {}
        /\ stopped = FALSE

TokenFree(t) == tokenLock \in {"nobody", t}

RegFree(r, t) == \A u \in Thread \ {t} : inBlock[u] # r

\* A thread calls from outside, or from the block it runs.
CanCall(t) == /\ disposing[t] = "none"
              /\ stage[t] = "idle" \/ inBlock[t] # "none"

Idle(t) == stage[t] = "idle" /\ disposing[t] = "none"

Raise(op) == raised' = raised \cup {op}

-----------------------------------------------------------------------------
\* registerCancellationObserverWithBlock: adds the observer, whatever the state
\* of the token.
Register(t, r) ==
    /\ CanCall(t) /\ TokenFree(t)
    /\ r \notin made
    /\ made' = made \cup {r}
    /\ registrations' = registrations \cup {r}
    /\ UNCHANGED <<requested, disposed, scheduled, tokenLock, regDisposed, released,
                   threadVars, history>>

\* Faulty: cancel without the test for an earlier one.
CancelAgain(t, due) ==
    /\ Idle(t) /\ TokenFree(t) /\ ~disposed
    /\ requested' = TRUE
    /\ scheduled' = due \ {t}
    /\ stage' = [stage EXCEPT ![t] = "cancel"]
    /\ todo' = [todo EXCEPT ![t] = registrations]
    /\ UNCHANGED <<disposed, registrations, tokenLock, regVars, inBlock, disposing,
                   unregistered, history>>

\* cancel: under the lock, all but the notification.  What is due in the run loop
\* of another thread stays due.  From a block it finds the token cancelled.
Cancel(t, due) ==
    /\ Idle(t) /\ TokenFree(t)
    /\ \/ disposed /\ Raise("cancel") /\ scheduled' = due
          /\ UNCHANGED <<requested, stage, todo>>
       \/ ~disposed /\ requested /\ scheduled' = due
          /\ UNCHANGED <<requested, raised, stage, todo>>
       \/ /\ ~disposed /\ ~requested
          /\ requested' = TRUE
          /\ scheduled' = due \ {t}
          /\ stage' = [stage EXCEPT ![t] = "cancel"]
          /\ todo' = [todo EXCEPT ![t] = registrations]
          /\ UNCHANGED raised
    /\ UNCHANGED <<disposed, registrations, tokenLock, regVars, inBlock, disposing,
                   unregistered, notified, renotified, stopped>>

\* cancelPrivate is performed by the run loop.
TimerFires(t) == t \in scheduled /\ Cancel(t, scheduled \ {t})

-----------------------------------------------------------------------------

\* notifyDelegate: calls the block with the lock of the registration held.  For
\* a disposed one the assertion raises; without it the block is called while it
\* is still there, and the process crashes when it is not.
Notify(t, r) ==
    /\ stage[t] = "cancel" /\ inBlock[t] = "none" /\ r \in todo[t]
    /\ RegFree(r, t)
    /\ IF r \in released \/ (Assertions /\ r \in regDisposed)
       THEN /\ Raise("cancel")
            /\ stage' = [stage EXCEPT ![t] = "idle"]
            /\ todo' = [todo EXCEPT ![t] = {}]
            /\ UNCHANGED <<inBlock, notified, renotified>>
       ELSE /\ inBlock' = [inBlock EXCEPT ![t] = r]
            /\ todo' = [todo EXCEPT ![t] = @ \ {r}]
            /\ notified' = notified \cup {r}
            /\ renotified' = IF r \in notified THEN renotified \cup {r} ELSE renotified
            /\ UNCHANGED <<stage, raised>>
    /\ UNCHANGED <<tokenVars, regVars, disposing, unregistered, stopped>>

\* The block ends; if it asks the token, isCancellationRequested waits for the
\* token's lock first.
BlockEnds(t) ==
    /\ inBlock[t] # "none" /\ disposing[t] = "none"
    /\ inBlock[t] \in Asking => TokenFree(t)
    /\ inBlock' = [inBlock EXCEPT ![t] = "none"]
    /\ UNCHANGED <<tokenVars, regVars, stage, todo, disposing, unregistered, history>>

CancelReturns(t) ==
    /\ stage[t] = "cancel" /\ inBlock[t] = "none" /\ todo[t] = {}
    /\ stage' = [stage EXCEPT ![t] = "idle"]
    /\ UNCHANGED <<tokenVars, regVars, todo, inBlock, disposing, unregistered, history>>

-----------------------------------------------------------------------------
\* Faulty: marks a registration disposed without its lock.
DisposeUnlocked(t, r) ==
    /\ t \in Disposers /\ CanCall(t)
    /\ r \in made \ regDisposed
    /\ regDisposed' = regDisposed \cup {r}
    /\ disposing' = [disposing EXCEPT ![t] = r]
    /\ unregistered' = [unregistered EXCEPT ![t] = FALSE]
    /\ UNCHANGED <<tokenVars, made, released, stage, todo, inBlock, history>>

\* [registration dispose] marks it under its own lock ...
Dispose(t, r) ==
    /\ t \in Disposers /\ CanCall(t) /\ RegFree(r, t)
    /\ r \in made \ regDisposed
    /\ regDisposed' = regDisposed \cup {r}
    /\ disposing' = [disposing EXCEPT ![t] = r]
    /\ unregistered' = [unregistered EXCEPT ![t] = FALSE]
    /\ UNCHANGED <<tokenVars, made, released, stage, todo, inBlock, history>>

\* ... leaves the token, which raises if it is disposed ...
Unregister(t) ==
    /\ disposing[t] # "none" /\ ~unregistered[t] /\ TokenFree(t)
    /\ IF disposed
       THEN /\ Raise("unregister")
            /\ disposing' = [disposing EXCEPT ![t] = "none"]
            /\ UNCHANGED <<registrations, unregistered>>
       ELSE /\ registrations' = registrations \ {disposing[t]}
            /\ unregistered' = [unregistered EXCEPT ![t] = TRUE]
            /\ UNCHANGED <<raised, disposing>>
    /\ UNCHANGED <<requested, disposed, scheduled, tokenLock, regVars, stage, todo,
                   inBlock, notified, renotified, stopped>>

\* ... and lets go of the block.
Release(t) ==
    /\ disposing[t] # "none" /\ unregistered[t]
    /\ released' = released \cup {disposing[t]}
    /\ disposing' = [disposing EXCEPT ![t] = "none"]
    /\ UNCHANGED <<tokenVars, made, regDisposed, stage, todo, inBlock, unregistered,
                   history>>

\* [token dispose] takes the token's lock, marks the token ...
DisposeToken(t) ==
    /\ t \in TokenOwners /\ Idle(t) /\ TokenFree(t)
    /\ ~disposed
    /\ disposed' = TRUE
    /\ tokenLock' = t
    /\ stage' = [stage EXCEPT ![t] = "dispose"]
    /\ todo' = [todo EXCEPT ![t] = registrations]
    /\ UNCHANGED <<requested, registrations, scheduled, regVars, inBlock, disposing,
                   unregistered, history>>

\* ... and disposes of one registration after the other: the first that is not
\* disposed yet marks itself, and is refused by the token that is.
DisposeNext(t) ==
    /\ stage[t] = "dispose"
    /\ \E r \in todo[t] :
          /\ RegFree(r, t)
          /\ IF r \in regDisposed
             THEN /\ todo' = [todo EXCEPT ![t] = @ \ {r}]
                  /\ UNCHANGED <<regDisposed, stage, tokenLock, raised>>
             ELSE /\ regDisposed' = regDisposed \cup {r}
                  /\ Raise("dispose")
                  /\ todo' = [todo EXCEPT ![t] = {}]
                  /\ stage' = [stage EXCEPT ![t] = "idle"]
                  /\ tokenLock' = "nobody"
    /\ UNCHANGED <<requested, disposed, registrations, scheduled, made, released,
                   inBlock, disposing, unregistered, notified, renotified, stopped>>

TokenDisposed(t) ==
    /\ stage[t] = "dispose" /\ todo[t] = {}
    /\ registrations' = {}
    /\ tokenLock' = "nobody"
    /\ stage' = [stage EXCEPT ![t] = "idle"]
    /\ UNCHANGED <<requested, disposed, scheduled, regVars, todo, inBlock, disposing,
                   unregistered, history>>

-----------------------------------------------------------------------------

\* cancelAfterDelay: with a positive delay (due) or with -1; with zero it is
\* cancel.  Only what is due in the caller's run loop is taken back.
CancelAfterDelay(t, due) ==
    /\ t \in Timers /\ Idle(t) /\ TokenFree(t)
    /\ IF disposed
       THEN Raise("delay") /\ UNCHANGED <<scheduled, stopped>>
       ELSE /\ stopped' = ~due
            /\ scheduled' = IF requested \/ ~due THEN scheduled \ {t}
                                                 ELSE scheduled \cup {t}
            /\ UNCHANGED raised
    /\ UNCHANGED <<requested, disposed, registrations, tokenLock, regVars, threadVars,
                   notified, renotified>>

-----------------------------------------------------------------------------
\* What a thread does next in the operation it is in.
Proceed(t) == \/ \E r \in Observer : Notify(t, r)
              \/ BlockEnds(t) \/ CancelReturns(t)
              \/ Unregister(t) \/ Release(t)
              \/ DisposeNext(t) \/ TokenDisposed(t)

Next == \E t \in Thread :
           \/ Cancel(t, scheduled) \/ TimerFires(t)
           \/ \E r \in Observer : Register(t, r) \/ Dispose(t, r)
           \/ \E due \in BOOLEAN : CancelAfterDelay(t, due)
           \/ DisposeToken(t)
           \/ Proceed(t)

Spec == Init /\ [][Next]_vars

\* A thread goes on and blocks return; nobody need ever cancel.
FairSpec == Spec /\ \A t \in Thread : WF_vars(Proceed(t))

-----------------------------------------------------------------------------
TypeOK ==
    /\ requested \in BOOLEAN /\ disposed \in BOOLEAN /\ stopped \in BOOLEAN
    /\ registrations \in SUBSET Observer /\ scheduled \in SUBSET Thread
    /\ tokenLock \in Thread \cup {"nobody"}
    /\ made \in SUBSET Observer
    /\ regDisposed \in SUBSET made /\ released \in SUBSET regDisposed
    /\ stage \in [Thread -> {"idle", "cancel", "dispose"}]
    /\ todo \in [Thread -> SUBSET Observer]
    /\ inBlock \in [Thread -> Observer \cup {"none"}]
    /\ disposing \in [Thread -> Observer \cup {"none"}]
    /\ unregistered \in [Thread -> BOOLEAN]
    /\ notified \in SUBSET Observer /\ renotified \in SUBSET notified
    /\ raised \in SUBSET Operation

\* One thread cancels: two threads that cancel, or a thread and a timer, do not
\* both notify.
OneCanceller ==
    \A t \in Thread : stage[t] = "cancel" =>
        /\ requested
        /\ todo[t] \cap notified = {}
        /\ \A u \in Thread : stage[u] = "cancel" => u = t

\* An observer is told once, and only of a cancelled token, although the
\* registrations are copied and told outside the lock.
ToldOnce == renotified = {} /\ (notified # {} => requested)

\* The block of a registration that another thread has disposed of is not
\* running, so what it uses may go when dispose has returned.
DisposeWaits ==
    [][\A r \in regDisposed' \ regDisposed, t \in Thread :
          inBlock[t] = r => disposing'[t] = r]_vars

\* With assertions, it is not called later either.
ToldWhenDisposed == \E r \in regDisposed : r \in notified' \ notified
SilentOnceDisposed == [][Assertions => ~ToldWhenDisposed]_vars

\* Nothing raises as long as nobody disposes of anything.
RaisesOnlyAfterDispose ==
    raised # {} => disposed \/ regDisposed # {}

Inv == TypeOK /\ OneCanceller /\ RaisesOnlyAfterDispose

\* An observer registered when the token is cancelled is told, in time, unless
\* some registration or the token is disposed of: then cancel may raise on its
\* way, and the observers behind are not told.
ObserversAreTold ==
    \A r \in Observer :
        (\E t \in Thread : stage[t] = "cancel" /\ r \in todo[t])
            ~> r \in notified \/ disposed \/ regDisposed # {}

\* An operation that a thread has begun ends: no thread waits for ever for the lock
\* of a registration, or of the token.
OperationsEnd == \A t \in Thread : ~Idle(t) ~> Idle(t)

\* Where one thread only uses delays: after cancelAfterDelay: with -1 nothing is due.
NothingDueOnceStopped ==
    stopped /\ (\A t, u \in Timers : t = u) => scheduled = {}
=============================================================================
