------------------------------ MODULE StatsPages ------------------------------
(***************************************************************************)
(* The pages "/" (Home) and "/metrics" of the web frontend: both count the *)
(* devices by status every 30 seconds, the second also asks for metrics of *)
(* a chosen time range and lists the offline devices.                      *)
(***************************************************************************)
EXTENDS PageHandlers

CONSTANTS
    Device,       \* the devices
    Range         \* time ranges to choose from

Status == {"online", "offline", "unknown"}
Metrics == Path = "/metrics"

Free == [pc |-> "free", op |-> "none", range |-> None, answer |-> None]
Fetch(op, range) == [pc |-> "sent", op |-> op, range |-> range, answer |-> None]

ServersAtMount == [Device -> Status]
(* known: the statuses that the counts and the list of the page stand for. *)
ViewsAtMount == {[known |-> None, range |-> r, metrics |-> None] : r \in Range}
CallsAtMount(r) ==
    [i \in Slot |-> IF i = 1 THEN Fetch("devices", None)
                    ELSE IF i = 2 /\ Metrics THEN Fetch("metrics", r) ELSE Free]

Init ==
    /\ page = Path
    /\ server \in ServersAtMount
    /\ view \in ViewsAtMount
    /\ calls = CallsAtMount(view.range)
    /\ past = PastAtMount

(* The figures that are shown.                                             *)
Count(known, status) == Cardinality({d \in Device : known[d] = status})
Counts == [s \in Status |-> Count(view.known, s)]
Offline == {d \in Device : view.known[d] = "offline"}

(* Fault for PagesSettle: the interval of the range at the time of the  *)
(* mount is never cleared, and no other is set.                            *)
Refresh_FirstRange(i, op) ==
    /\ Here
    /\ Unused(i)
    /\ op = "devices" \/ Metrics
    /\ calls' = [calls EXCEPT ![i] = Fetch(op, IF op = "metrics" THEN CHOOSE r \in Range : TRUE ELSE None)]
    /\ UNCHANGED <<page, server, view, past>>

(* setInterval, in either order of the two calls.                          *)
Refresh(i, op) ==
    /\ Here
    /\ Unused(i)
    /\ op = "devices" \/ Metrics
    /\ calls' = [calls EXCEPT ![i] = Fetch(op, IF op = "metrics" THEN view.range ELSE None)]
    /\ UNCHANGED <<page, server, view, past>>

(* The effect of timeRange: the interval of the old range is cleared, and  *)
(* both calls are made at once, whatever calls are still under way.        *)
SetTimeRange(i, j, r) ==
    /\ Click
    /\ Metrics /\ r # view.range
    /\ i # j /\ {i, j} \cap Running = {}
    /\ view' = [view EXCEPT !.range = r]
    /\ calls' = [calls EXCEPT ![i] = Fetch("devices", None), ![j] = Fetch("metrics", r)]
    /\ past' = Counted
    /\ UNCHANGED <<page, server>>

StatusChanges(d) == \E s \in Status \ {server[d]} : Elsewhere([server EXCEPT ![d] = s])

Answer(i) ==
    /\ Here
    /\ calls[i].pc = "sent"
    /\ \/ /\ calls' = [calls EXCEPT ![i].pc = "answered", ![i].answer =
                            IF calls[i].op = "devices" THEN server ELSE None]
          /\ UNCHANGED <<server, past>>
       \/ Fails(i, FALSE)
    /\ UNCHANGED <<page, view>>

Shown(c) ==
    IF c.pc = "failed" THEN view
    ELSE IF c.op = "devices" THEN [view EXCEPT !.known = c.answer]
    ELSE [view EXCEPT !.metrics = c.range]

Continue(i) == Proceed(i, Shown(calls[i]), Free)

Next == Here /\
    \/ \E i \in Slot :
          \/ Answer(i) \/ Continue(i)
          \/ \E op \in {"devices", "metrics"} : Refresh(i, op)
          \/ \E j \in Slot, r \in Range : SetTimeRange(i, j, r)
    \/ \E d \in Device : StatusChanges(d)

Spec == Init /\ [][Next]_vars

(* What the browser settles, or the event loop runs, for call i; and a     *)
(* round of setInterval.                                                   *)
Handled(i) == Answer(i) \/ Continue(i)
Refreshed(op) == \E i \in Slot : Refresh(i, op)

-----------------------------------------------------------------------------
TypeOK ==
    /\ server \in ServersAtMount
    /\ view.known \in ServersAtMount \cup {None}
    /\ view.range \in Range /\ view.metrics \in Range \cup {None}

(* What the page ends up with, although the answers for an earlier list or *)
(* range may come later: every device is counted by its status, and the    *)
(* metrics are those of the chosen range.                                  *)
Settled == Here => view.known = server /\ (Metrics => view.metrics = view.range)
=============================================================================
