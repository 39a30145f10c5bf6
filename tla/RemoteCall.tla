----------------------------- MODULE RemoteCall -----------------------------
(***************************************************************************)
(* What a command to the server promises its caller: the command is sent,  *)
(* perhaps several times; each sending reaches the server at most once and *)
(* possibly late; the caller hears one outcome, and hears of success only  *)
(* when the server has carried the command out.  CommandRunner implements  *)
(* this for one command; PhotoStream uses it for every upload.             *)
(***************************************************************************)
EXTENDS Naturals

CONSTANTS Call,        \* the commands
          MaxAttempts  \* how often a command is sent at most

ASSUME RemoteCallAssumption == MaxAttempts \in Nat \ {0}

VARIABLES outcome, \* per call: what its caller knows
          sent,    \* per call: requests put on the wire
          landed   \* per call: requests the server has carried out

callVars == <<outcome, sent, landed>>

Outcome == {"idle", "pending", "success", "failure", "abandoned"}

Init == /\ outcome = [c \in Call |-> "idle"]
        /\ sent = [c \in Call |-> 0]
        /\ landed = [c \in Call |-> 0]

Start(c) == /\ outcome[c] = "idle"
            /\ outcome' = [outcome EXCEPT ![c] = "pending"]
            /\ UNCHANGED <<sent, landed>>

\* The first attempt, or a retry: the caller takes the last attempt for lost.
Send(c) == /\ outcome[c] = "pending"
           /\ sent[c] < MaxAttempts
           /\ sent' = [sent EXCEPT ![c] = @ + 1]
           /\ UNCHANGED <<outcome, landed>>

\* A request on the wire reaches the server, whatever the caller knows by then.
Land(c) == /\ landed[c] < sent[c]
           /\ landed' = [landed EXCEPT ![c] = @ + 1]
           /\ UNCHANGED <<outcome, sent>>

\* Faulty: takes a lost answer for a success.
SucceedUnheard(c) == /\ outcome[c] = "pending"
                     /\ sent[c] > 0
                     /\ outcome' = [outcome EXCEPT ![c] = "success"]
                     /\ UNCHANGED <<sent, landed>>

Succeed(c) == /\ outcome[c] = "pending"
              /\ landed[c] > 0
              /\ outcome' = [outcome EXCEPT ![c] = "success"]
              /\ UNCHANGED <<sent, landed>>

Fail(c) == /\ outcome[c] = "pending"
           /\ outcome' = [outcome EXCEPT ![c] = "failure"]
           /\ UNCHANGED <<sent, landed>>

\* The process ends and every answer still to come finds nobody.
AbandonAll ==
    /\ outcome' = [c \in Call |-> IF outcome[c] = "pending" THEN "abandoned"
                                                            ELSE outcome[c]]
    /\ UNCHANGED <<sent, landed>>

Next == \/ \E c \in Call : \/ Start(c) \/ Send(c) \/ Land(c)
                           \/ Succeed(c) \/ Fail(c)
        \/ AbandonAll

Spec == Init /\ [][Next]_callVars

-----------------------------------------------------------------------------
TypeOK == /\ outcome \in [Call -> Outcome]
          /\ sent \in [Call -> 0 .. MaxAttempts]
          /\ landed \in [Call -> 0 .. MaxAttempts]

\* The server carries a command out no more often than it was sent.
LandsAtMostAsSent == \A c \in Call : landed[c] <= sent[c]

\* A success is never reported for a command the server has not carried out.
SuccessIsReal == \A c \in Call : outcome[c] = "success" => landed[c] > 0

\* Nothing is sent for a call nobody started.
IdleIsUnsent == \A c \in Call : outcome[c] = "idle" => sent[c] = 0

\* The invariant of the calls.
Inv == TypeOK /\ LandsAtMostAsSent /\ SuccessIsReal /\ IdleIsUnsent
=============================================================================
