---------------------------- MODULE SharedStream ----------------------------
(***************************************************************************)
(* What the photo stream promises its user: the server's log only grows;   *)
(* the view is at each refresh some beginning of the log, and between two  *)
(* refreshes only gains the drafts the user makes, each once.              *)
(***************************************************************************)
EXTENDS Naturals, Sequences

VARIABLES log, view

Init == log = <<>> /\ view = <<>>

\* t is s with one more element.
Extends(t, s) == Len(t) = Len(s) + 1 /\ SubSeq(t, 1, Len(s)) = s

Save == /\ Extends(log', log)
        /\ UNCHANGED view

\* A draft is an object that is in neither the view nor the log.
AddDraft == /\ Extends(view', view)
            /\ \A n \in 1 .. Len(view) : view[n] # view'[Len(view')]
            /\ \A n \in 1 .. Len(log) : log[n] # view'[Len(view')]
            /\ UNCHANGED log

Refresh == /\ Len(view') <= Len(log)
           /\ view' = SubSeq(log, 1, Len(view'))
           /\ UNCHANGED log

Next == Save \/ AddDraft \/ Refresh

Spec == Init /\ [][Next]_<<log, view>>
=============================================================================
