------------------------------ MODULE Monitoring ------------------------------
(***************************************************************************)
(* MonitoringService: a cron job records the devices that have been silent *)
(* for ten minutes, every ten minutes, and the dashboard divides the       *)
(* records of a period by the number of checks it expects in it.           *)
(***************************************************************************)
EXTENDS Integers, FiniteSets

CONSTANTS
    Device,
    Period,       \* ten minutes, the interval and the threshold, in units of time
    MaxTime,      \* bound: the clock
    None          \* never heard of, no check running

VARIABLES
    now,
    heard,        \* createdAt of the last status event, by device
    check,        \* when the running check began
    history,      \* checkTimestamps of the records, by device
    late          \* history: whether a check has stamped its records late

monitoringVars == <<now, heard, check, history, late>>

Time == 0 .. MaxTime

Init ==
    /\ now = 0 /\ check = None /\ late = FALSE
    /\ heard = [d \in Device |-> None]
    /\ history = [d \in Device |-> {}]

(* A check takes less than the interval: the bound on overlapping checks.  *)
Tick ==
    /\ now < MaxTime
    /\ check = None \/ (now + 1) % Period # 0
    /\ now' = now + 1
    /\ UNCHANGED <<heard, check, history, late>>

StatusEvent(d) ==
    /\ heard' = [heard EXCEPT ![d] = now]
    /\ UNCHANGED <<now, check, history, late>>

(* handleCron: the threshold is taken when the check begins.               *)
StartCheck ==
    /\ now % Period = 0 /\ check = None
    /\ \A d \in Device : now \notin history[d]
    /\ check' = now
    /\ UNCHANGED <<now, heard, history, late>>

(* The aggregation is back: records with the time that it is by then.      *)
Offline(d) == heard[d] # None /\ heard[d] <= check - Period
EndCheck ==
    /\ check # None
    /\ history' = [d \in Device |-> history[d] \cup (IF Offline(d) THEN {now} ELSE {})]
    /\ late' = (late \/ now # check)
    /\ check' = None
    /\ UNCHANGED <<now, heard>>

(* The aggregation or the insert fails: logged, no records.                *)
FailCheck == check # None /\ check' = None /\ UNCHANGED <<now, heard, history, late>>

Next == Tick \/ (\E d \in Device : StatusEvent(d)) \/ StartCheck \/ EndCheck \/ FailCheck

Spec == Init /\ [][Next]_monitoringVars

(* getDashboardData: records in the period, and the checks expected in it. *)
OfflineCount(d, from, to) == Cardinality({t \in history[d] : from <= t /\ t <= to})

(* Fault for AvailabilityInRange: one check fewer.                         *)
Expected_Floor(from, to) == (to - from) \div Period

Expected(from, to) == (to - from) \div Period + 1

-----------------------------------------------------------------------------
TypeOK == now \in Time /\ \A d \in Device : heard[d] \in {None} \cup Time /\ history[d] \subseteq Time

(* (1 - offlineCount / expected) * 100 divides by a positive number for    *)
(* every period that has records, also when from is after to, and is a     *)
(* percentage as long as the checks stamp their records in time; a late    *)
(* one adds at most one record too many to a period, which makes the       *)
(* availability negative (monitoring.controller.ts:30).                    *)
AvailabilityInRange == \A d \in Device, from, to \in Time :
    LET count == OfflineCount(d, from, to) IN
    count > 0 => /\ Expected(from, to) > 0
                 /\ count <= Expected(from, to) + (IF late THEN 1 ELSE 0)
=============================================================================
