--------------------------- MODULE CreationRequest ---------------------------
(***************************************************************************)
(* What the creator promises: a request for an item is dropped, or yields  *)
(* exactly one item, which shows the picture picked for this request.      *)
(***************************************************************************)
EXTENDS Sequences

CONSTANTS Photo, Title, NoPhoto

VARIABLES phase,     \* "none", "asked" or "picked"
          picked,    \* the picture of the request, or NoPhoto
          delivered  \* the items delivered, in order

Init == phase = "none" /\ picked = NoPhoto /\ delivered = <<>>

Ask == /\ phase = "none"
       /\ phase' = "asked"
       /\ UNCHANGED <<picked, delivered>>

Drop == /\ phase = "asked"
        /\ phase' = "none"
        /\ UNCHANGED <<picked, delivered>>

Pick(photo) == /\ phase = "asked"
               /\ phase' = "picked"
               /\ picked' = photo
               /\ UNCHANGED delivered

Deliver(title) ==
    /\ phase = "picked"
    /\ delivered' = Append(delivered, [photo |-> picked, title |-> title])
    /\ phase' = "none"
    /\ picked' = NoPhoto

Next == \/ Ask
        \/ Drop
        \/ \E photo \in Photo : Pick(photo)
        \/ \E title \in Title : Deliver(title)

Spec == Init /\ [][Next]_<<phase, picked, delivered>>
=============================================================================
