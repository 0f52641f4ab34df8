------------------------- MODULE ContactLifecycle --------------------------
(***************************************************************************)
(* What a contact request promises to the user, whatever is replayed,      *)
(* redelivered or lost below: its state only moves forward along one of    *)
(* two roads, and it is accepted only after the side that had to agree     *)
(* has agreed.                                                             *)
(*                                                                         *)
(*      none -> enqueued -> sent  -> accepted      a request one sends     *)
(*      none ----------- incoming -> accepted      a request one receives  *)
(***************************************************************************)
VARIABLES
    state,     \* Contact.State
    consent    \* the side the request was sent to has accepted it

Init == state = "none" /\ consent = FALSE

Agree == consent' = TRUE /\ UNCHANGED state

Move(from, to) == state = from /\ state' = to /\ UNCHANGED consent

Next ==
    \/ Agree
    \/ Move("none", "enqueued")
    \/ Move("enqueued", "sent")
    \/ Move("none", "incoming")
    \/ consent /\ (Move("sent", "accepted") \/ Move("incoming", "accepted"))

Spec == Init /\ [][Next]_<<state, consent>>
============================================================================
