------------------------------ MODULE TaskGroup ------------------------------
(***************************************************************************)
(* taskForCompletionOfAllTasks: one task that completes when all its       *)
(* children have.  The continuation of each child runs on the thread that  *)
(* completes the child, or on the one that makes the group if the child    *)
(* has completed before: they count down together.                         *)
(*                                                                         *)
(* The two counters are changed by OSAtomic functions without a memory     *)
(* barrier, and the last continuation reads the lists and the counter of   *)
(* cancellations with neither lock nor barrier.  Ordered says that what    *)
(* was written before a decrement is seen after a later one.               *)
(***************************************************************************)
EXTENDS Integers, FiniteSets

CONSTANTS Children,  \* how many tasks there are
          Ordered

GroupAssumption == Children \in Nat /\ Ordered \in BOOLEAN

Child == 1 .. Children

VARIABLES child,       \* per child, "none" until it completes, then how
          registered,  \* how many children the loop has continued
          at,          \* per child, where its continuation is
          noted,       \* the children added to a list or counted as cancelled
          total,       \* children still to be counted
          outcome      \* of the group

vars == <<child, registered, at, noted, total, outcome>>

Outcome == {"result", "error", "exception", "cancelled"}
At == {"waiting", "noted", "last", "done"}

\* An empty group has completed from the start.
Init == /\ child = [k \in Child |-> "none"]
        /\ registered = 0
        /\ at = [k \in Child |-> "waiting"]
        /\ noted = {}
        /\ total = Children
        /\ outcome = IF Children = 0 THEN "result" ELSE "none"

ChildCompletes(k, o) ==
    /\ child[k] = "none"
    /\ child' = [child EXCEPT ![k] = o]
    /\ UNCHANGED <<registered, at, noted, total, outcome>>

\* The loop continues the next child.
Register ==
    /\ registered < Children
    /\ registered' = registered + 1
    /\ UNCHANGED <<child, at, noted, total, outcome>>

\* The continuation of a child looks at how the child completed ...
Note(k) ==
    /\ k <= registered /\ child[k] # "none" /\ at[k] = "waiting"
    /\ at' = [at EXCEPT ![k] = "noted"]
    /\ noted' = noted \cup {k}
    /\ UNCHANGED <<child, registered, total, outcome>>

\* Faulty: counts down and looks at the counter afterwards.
CountAndLook(k) ==
    /\ at[k] = "noted"
    /\ total' = total - 1
    /\ at' = [l \in Child |-> IF total' = 0 /\ (l = k \/ at[l] = "done") THEN "last"
                              ELSE IF l = k THEN "done" ELSE at[l]]
    /\ UNCHANGED <<child, registered, noted, outcome>>

\* ... and counts down; the one that reaches zero completes the group.
Count(k) ==
    /\ at[k] = "noted"
    /\ total' = total - 1
    /\ at' = [at EXCEPT ![k] = IF total' = 0 THEN "last" ELSE "done"]
    /\ UNCHANGED <<child, registered, noted, outcome>>

OneOrMore(n, one, more) == IF n = 1 THEN one ELSE more

\* What the last continuation makes of the lists and the counter.
Worst(how) == IF how["exception"] > 0
              THEN OneOrMore(how["exception"], "exception", "exceptions")
              ELSE IF how["error"] > 0
              THEN OneOrMore(how["error"], "error", "errors")
              ELSE IF how["cancelled"] > 0 THEN "cancelled" ELSE "result"

Tally(ks) == [o \in Outcome |-> Cardinality({k \in ks : child[k] = o})]

\* The children of which the last continuation sees what became of them.
Seen(k) == IF Ordered THEN {noted} ELSE {ks \in SUBSET noted : k \in ks}

Settle(k) ==
    /\ at[k] = "last"
    /\ \E ks \in Seen(k) : outcome' = Worst(Tally(ks))
    /\ at' = [at EXCEPT ![k] = "done"]
    /\ UNCHANGED <<child, registered, noted, total>>

Loop == \E k \in Child : Note(k) \/ Count(k) \/ Settle(k)

Next == \/ Register
        \/ \E k \in Child, o \in Outcome : ChildCompletes(k, o)
        \/ Loop

Spec == Init /\ [][Next]_vars

\* The loop goes on and continuations run; no child need ever complete.
FairSpec == Spec /\ WF_vars(Register) /\ WF_vars(Loop)

-----------------------------------------------------------------------------
TypeOK == /\ child \in [Child -> Outcome \cup {"none"}]
          /\ registered \in 0 .. Children
          /\ at \in [Child -> At]
          /\ noted \in SUBSET Child
          /\ total \in 0 .. Children
          /\ outcome \in Outcome \cup {"none", "errors", "exceptions"}

Uncounted == {k \in Child : at[k] \in {"waiting", "noted"}}

\* The counter is the number of children to be counted, so one continuation, and
\* no other, finds it at zero; the completion source would raise for a second.
OneIsLast ==
    /\ total = Cardinality(Uncounted)
    /\ \A k \in Child : at[k] = "last" =>
          /\ outcome = "none" /\ total = 0
          /\ \A l \in Child : at[l] = "last" => l = k

\* The group completes only after every child has.
CompletesAfterAll ==
    outcome # "none" => \A k \in Child : child[k] # "none" /\ at[k] = "done"

\* The group is a success only if every child is; a failed child is not hidden
\* by a cancelled one, nor an exception by an error.
ReportsTheWorst ==
    Ordered /\ outcome # "none" =>
        LET Some(o) == \E k \in Child : child[k] = o
        IN  /\ outcome \in {"exception", "exceptions"} <=> Some("exception")
            /\ outcome \in {"error", "errors"}
                  <=> Some("error") /\ ~Some("exception")
            /\ outcome = "cancelled"
                  <=> Some("cancelled") /\ ~Some("error") /\ ~Some("exception")

\* Even if the writes of others are not seen in order, the group reports no
\* failure that no child had, and the outcome of its last child is not lost.
NothingInvented ==
    outcome # "none" =>
        \/ outcome = "result" /\ (Children = 0 \/ \E k \in Child : child[k] = "result")
        \/ outcome \in {"error", "exception", "cancelled"}
              /\ \E k \in Child : child[k] = outcome
        \/ outcome \in {"errors", "exceptions"}
              /\ \E k, l \in Child : /\ k # l /\ child[k] = child[l]
                                     /\ child[k] \in {"error", "exception"}

Inv == TypeOK /\ OneIsLast

\* A group whose children have all completed completes.
GroupCompletes == (\A k \in Child : child[k] # "none") ~> outcome # "none"
=============================================================================
