------------------------------- MODULE Promise -------------------------------
(***************************************************************************)
(* What a task promises: it completes at most once, with one outcome; every *)
(* continuation it is given is called exactly once, after the task has      *)
(* completed, whether it was given before or after.  Task implements this.  *)
(***************************************************************************)
EXTENDS Naturals

CONSTANTS Continuation, Outcome

VARIABLES outcome,  \* "none" until the task completes
          asked,    \* the continuations the task was given
          called    \* per continuation, how often it was called

promiseVars == <<outcome, asked, called>>

Init == /\ outcome = "none"
        /\ asked = {}
        /\ called = [c \in Continuation |-> 0]

Complete(o) == /\ outcome = "none"
               /\ outcome' = o
               /\ UNCHANGED <<asked, called>>

Ask(c) == /\ c \notin asked
          /\ asked' = asked \cup {c}
          /\ UNCHANGED <<outcome, called>>

Call(c) == /\ c \in asked
           /\ outcome # "none"
           /\ called[c] = 0
           /\ called' = [called EXCEPT ![c] = 1]
           /\ UNCHANGED <<outcome, asked>>

\* A task that has completed may call the continuation as it is asked.
AskAndCall(c) == /\ c \notin asked
                 /\ outcome # "none"
                 /\ called[c] = 0
                 /\ asked' = asked \cup {c}
                 /\ called' = [called EXCEPT ![c] = 1]
                 /\ UNCHANGED outcome

Next == \/ \E o \in Outcome : Complete(o)
        \/ \E c \in Continuation : Ask(c) \/ Call(c) \/ AskAndCall(c)

Spec == Init /\ [][Next]_promiseVars

FairSpec == Spec /\ \A c \in Continuation : WF_promiseVars(Call(c))
=============================================================================
