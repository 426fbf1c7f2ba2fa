------------------------------- MODULE EventLog -------------------------------
(***************************************************************************)
(* What the event pipeline promises, without buffer, flushes and restarts: *)
(* a reported event is accepted once, waits for a while, and then has been *)
(* stored or is lost, for good and never both.                             *)
(***************************************************************************)
CONSTANT Event

VARIABLE fate

Fates == {"new", "waiting", "stored", "lost"}
Changed == {e \in Event : fate'[e] # fate[e]}

Init == fate = [e \in Event |-> "new"]

(* A message brings new events.                                            *)
Accept == \A e \in Changed : fate[e] = "new" /\ fate'[e] = "waiting"

(* Some of the waiting events have been stored, some are gone.             *)
Settle == \A e \in Changed : fate[e] = "waiting" /\ fate'[e] \in {"stored", "lost"}

Next == fate' \in [Event -> Fates] /\ (Accept \/ Settle)

(* Nothing waits for ever.                                                 *)
Progress == \A e \in Event : fate[e] = "waiting" ~> fate[e] # "waiting"

Spec == Init /\ [][Next]_fate /\ Progress
=============================================================================
