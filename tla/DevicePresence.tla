---------------------------- MODULE DevicePresence ----------------------------
(***************************************************************************)
(* Whether a device is shown as online.  Every MQTT message of a device    *)
(* runs DevicesService.updateLastSeen; once a minute DeviceMonitorService  *)
(* runs updateCommunicationStatus over all devices.  Both load documents,  *)
(* decide on what they loaded and save later, and mongoose saves only the  *)
(* fields that differ from the loaded ones: what two of them write to one  *)
(* device can mix.  The cron job does not wait for its previous run.       *)
(***************************************************************************)
EXTENDS Integers

CONSTANTS
    Device,       \* devices, each known by its deviceSerial
    Beat,         \* calls of updateLastSeen
    BeatOf,       \* BeatOf[b]: the device that call b is about
    Sweep,        \* bound: runs of updateCommunicationStatus in progress
    Timeouts,     \* values of communicationTimeout that clients set
    Default,      \* the one createDevice sets
    MaxTime,      \* bound: the clock
    MaxConfig,    \* bound: documents that clients change
    MayDelete,    \* whether devices are deleted
    DbFails,      \* whether saving a document may fail
    Never         \* lastSeen = null

ASSUME PresenceAssumption ==
    /\ BeatOf \in [Beat -> Device]
    /\ Timeouts \subseteq Nat
    /\ Default \in Nat
    /\ MaxTime \in Nat
    /\ MaxConfig \in Nat
    /\ MayDelete \in BOOLEAN
    /\ DbFails \in BOOLEAN
    /\ Never \notin Nat

VARIABLES
    now,          \* the clock
    registered,   \* the devices of the collection
    deleted,      \* those that have been removed from it
    db,           \* the presence fields of the documents
    beat,         \* the calls of updateLastSeen
    sweep,        \* the runs of updateCommunicationStatus
    configs,      \* number of changes by clients so far
    staleBeat,    \* history: calls whose loaded document was written meanwhile
    staleSweep,   \* history: <<s, d>>: the same for document d of sweep s
    raced         \* history: devices saved from a stale copy, or changed by a client

vars == <<now, registered, deleted, db, beat, sweep, configs,
          staleBeat, staleSweep, raced>>

Status == {"online", "offline", "unknown"}
Time == 0 .. MaxTime
Document == [lastSeen : Time \cup {Never}, status : Status, timeout : Timeouts \cup {Default}]
NewDocument == [lastSeen |-> Never, status |-> "unknown", timeout |-> Default]

(* diffSeconds > communicationTimeout, at time t.                          *)
Expired(doc, t) == t - doc.lastSeen > doc.timeout
StatusAt(doc, t) == IF Expired(doc, t) THEN "offline" ELSE "online"

NoBeat == [pc |-> "ready", loaded |-> NewDocument, stamp |-> 0]
NoSweep == [pc |-> "idle", at |-> 0, todo |-> {}, loaded |-> [d \in Device |-> NewDocument]]

Init ==
    /\ now = 0
    /\ registered = {}
    /\ deleted = {}
    /\ db = [d \in Device |-> NewDocument]
    /\ beat = [b \in Beat |-> NoBeat]
    /\ sweep = [s \in Sweep |-> NoSweep]
    /\ configs = 0
    /\ staleBeat = {}
    /\ staleSweep = {}
    /\ raced = {}

(* Whoever holds a copy of document d now holds an old one.                *)
Touch(d) ==
    /\ staleBeat' = staleBeat \cup
          {b \in Beat : BeatOf[b] = d /\ beat[b].pc \in {"loaded", "saving"}}
    /\ staleSweep' = staleSweep \cup
          {<<s, d>> : s \in {t \in Sweep : sweep[t].pc = "visiting"}}

-----------------------------------------------------------------------------
Tick ==
    /\ now < MaxTime
    /\ now' = now + 1
    /\ UNCHANGED <<registered, deleted, db, beat, sweep, configs, staleBeat, staleSweep, raced>>

(* createDevice.                                                           *)
Register(d) ==
    /\ d \notin registered \cup deleted
    /\ registered' = registered \cup {d}
    /\ UNCHANGED <<now, deleted, db, beat, sweep, configs, staleBeat, staleSweep, raced>>

(* deleteDevice.                                                           *)
Delete(d) ==
    /\ MayDelete
    /\ d \in registered
    /\ registered' = registered \ {d}
    /\ deleted' = deleted \cup {d}
    /\ UNCHANGED <<now, db, beat, sweep, configs, staleBeat, staleSweep, raced>>

(* What clients send: updateDeviceConfiguration, or updateDevice, with a   *)
(* communicationTimeout writes one field; the edit form sends its whole    *)
(* row to updateDevice, with the status and lastSeen of some earlier time. *)
Rows == {row \in Document : row.lastSeen \in (0 .. now) \cup {Never}}
Bodies(d) == Rows \cup {[db[d] EXCEPT !.timeout = t] : t \in Timeouts}

UpdateDevice(d, document) ==
    /\ configs < MaxConfig
    /\ d \in registered
    /\ configs' = configs + 1
    /\ db' = [db EXCEPT ![d] = document]
    /\ Touch(d)
    /\ raced' = raced \cup {d}
    /\ UNCHANGED <<now, registered, deleted, beat, sweep>>

-----------------------------------------------------------------------------
(* updateLastSeen: findOne, which may find nothing.                        *)
LoadBeat(b) ==
    LET d == BeatOf[b] IN
    /\ beat[b].pc = "ready"
    /\ beat' = IF d \in registered
                 THEN [beat EXCEPT ![b].pc = "loaded", ![b].loaded = db[d]]
                 ELSE [beat EXCEPT ![b].pc = "done"]
    /\ UNCHANGED <<now, registered, deleted, db, sweep, configs, staleBeat, staleSweep, raced>>

(* Fault for TypeOK: lastSeen is cleared instead of set.                   *)
StampBeat_Null(b) ==
    /\ beat[b].pc = "loaded"
    /\ beat' = [beat EXCEPT ![b].pc = "saving", ![b].stamp = Never]
    /\ UNCHANGED <<now, registered, deleted, db, sweep, configs, staleBeat, staleSweep, raced>>

(* The assignments to the loaded document, and the call of save.           *)
StampBeat(b) ==
    /\ beat[b].pc = "loaded"
    /\ beat' = [beat EXCEPT ![b].pc = "saving", ![b].stamp = now]
    /\ UNCHANGED <<now, registered, deleted, db, sweep, configs, staleBeat, staleSweep, raced>>

(* Fault for OfflineWhileFreshHasCause: the status is not set to online.   *)
BeatWrites_NoStatus(doc, loaded, stamp) == [doc EXCEPT !.lastSeen = stamp]

(* What save writes: lastSeen, and the status unless it was loaded as      *)
(* "online" already.                                                       *)
BeatWrites(doc, loaded, stamp) ==
    [doc EXCEPT !.lastSeen = stamp,
                !.status = IF loaded.status = "online" THEN @ ELSE "online"]

(* The save reaches the database.  If the document is gone, or the write   *)
(* fails, the exception is caught and logged.                              *)
SaveBeat(b) ==
    LET d == BeatOf[b] IN
    /\ beat[b].pc = "saving"
    /\ beat' = [beat EXCEPT ![b] = [NoBeat EXCEPT !.pc = "done"]]
    /\ \/ /\ d \in registered
          /\ db' = [db EXCEPT ![d] = BeatWrites(@, beat[b].loaded, beat[b].stamp)]
          /\ Touch(d)
          /\ raced' = IF b \in staleBeat THEN raced \cup {d} ELSE raced
       \/ /\ d \notin registered \/ DbFails
          /\ UNCHANGED <<db, staleBeat, staleSweep, raced>>
    /\ UNCHANGED <<now, registered, deleted, sweep, configs>>

-----------------------------------------------------------------------------
(* The cron job: updateCommunicationStatus reads the clock, then asks for  *)
(* all the devices.                                                        *)
StartSweep(s) ==
    /\ sweep[s].pc = "idle"
    /\ sweep' = [sweep EXCEPT ![s].pc = "finding", ![s].at = now]
    /\ UNCHANGED <<now, registered, deleted, db, beat, configs, staleBeat, staleSweep, raced>>

LoadSweep(s) ==
    /\ sweep[s].pc = "finding"
    /\ sweep' = [sweep EXCEPT ![s].pc = "visiting", ![s].todo = registered, ![s].loaded = db]
    /\ staleSweep' = {x \in staleSweep : x[1] # s}
    /\ UNCHANGED <<now, registered, deleted, db, beat, configs, staleBeat, raced>>

(* Fault for UndisturbedSweepIsRight and StatusConverges: the save of the  *)
(* computed status is missing.                                             *)
Visit_NoSave(s, d) ==
    /\ sweep[s].pc = "visiting"
    /\ d \in sweep[s].todo
    /\ sweep' = [sweep EXCEPT ![s].todo = @ \ {d}]
    /\ raced' = IF <<s, d>> \in staleSweep THEN raced \cup {d} ELSE raced
    /\ UNCHANGED <<now, registered, deleted, db, beat, configs, staleBeat, staleSweep>>

(* One round of the loop.  A device without lastSeen is passed over (its   *)
(* "unknown" is never saved).  The status is saved if it differs from the  *)
(* loaded one; save fails if the document is gone, and that ends the sweep. *)
Visit(s, d) ==
    LET loaded == sweep[s].loaded[d]
        status == StatusAt(loaded, sweep[s].at) IN
    /\ sweep[s].pc = "visiting"
    /\ d \in sweep[s].todo
    /\ \/ /\ loaded.lastSeen = Never
          /\ sweep' = [sweep EXCEPT ![s].todo = @ \ {d}]
          /\ UNCHANGED <<db, staleBeat, staleSweep, raced>>
       \/ /\ loaded.lastSeen # Never
          /\ d \in registered
          /\ sweep' = [sweep EXCEPT ![s].todo = @ \ {d}]
          /\ IF status = loaded.status
               THEN UNCHANGED <<db, staleBeat, staleSweep>>
               ELSE /\ db' = [db EXCEPT ![d].status = status]
                    /\ Touch(d)
          /\ raced' = IF <<s, d>> \in staleSweep THEN raced \cup {d} ELSE raced
       \/ /\ loaded.lastSeen # Never
          /\ d \notin registered \/ DbFails
          /\ sweep' = [sweep EXCEPT ![s] = NoSweep]
          /\ UNCHANGED <<db, staleBeat, staleSweep, raced>>
    /\ UNCHANGED <<now, registered, deleted, beat, configs>>

EndSweep(s) ==
    /\ sweep[s].pc = "visiting"
    /\ sweep[s].todo = {}
    /\ sweep' = [sweep EXCEPT ![s] = NoSweep]
    /\ UNCHANGED <<now, registered, deleted, db, beat, configs, staleBeat, staleSweep, raced>>

SweepStep(s) ==
    StartSweep(s) \/ LoadSweep(s) \/ (\E d \in Device : Visit(s, d)) \/ EndSweep(s)

Next ==
    \/ Tick
    \/ \E d \in Device : Register(d) \/ Delete(d) \/ \E document \in Bodies(d) : UpdateDevice(d, document)
    \/ \E b \in Beat : LoadBeat(b) \/ StampBeat(b) \/ SaveBeat(b)
    \/ \E s \in Sweep : SweepStep(s)

Spec == Init /\ [][Next]_vars

(* The cron job fires for ever and each of its runs ends, and a call of    *)
(* updateLastSeen that has begun ends.  Nothing makes devices report.      *)
Fairness ==
    /\ \A s \in Sweep : WF_vars(SweepStep(s))
    /\ \A b \in Beat : WF_vars(StampBeat(b) \/ SaveBeat(b))

FairSpec == Spec /\ Fairness

-----------------------------------------------------------------------------
TypeOK ==
    /\ now \in Time
    /\ registered \subseteq Device
    /\ deleted \subseteq Device \ registered
    /\ db \in [Device -> Document]
    /\ beat \in [Beat -> [pc : {"ready", "loaded", "saving", "done"},
                          loaded : Document, stamp : Time]]
    /\ sweep \in [Sweep -> [pc : {"idle", "finding", "visiting"}, at : Time,
                            todo : SUBSET Device, loaded : [Device -> Document]]]
    /\ configs \in 0 .. MaxConfig
    /\ staleBeat \subseteq Beat
    /\ staleSweep \subseteq Sweep \X Device
    /\ raced \subseteq Device

(* A device that has been heard from within its timeout is shown offline   *)
(* only if its document was saved from a copy that was out of date, or a   *)
(* client changed it: lines 84-86 and 110-111 running one after the other  *)
(* never produce it.                                                       *)
OfflineWhileFreshHasCause ==
    \A d \in registered :
        /\ db[d].lastSeen # Never
        /\ db[d].status = "offline"
        /\ ~ Expired(db[d], now)
        => d \in raced

(* A sweep whose copy of a device is up to date leaves the device with the *)
(* status that its fields had at the time of the sweep, whether it writes  *)
(* or finds nothing to write (lines 107-111).                              *)
UndisturbedSweepIsRight ==
    [][\A s \in Sweep, d \in Device :
          /\ d \in sweep[s].todo /\ d \notin sweep'[s].todo
          /\ sweep'[s].pc = "visiting"
          /\ <<s, d>> \notin staleSweep
          /\ db[d].lastSeen # Never
          => db'[d].status = StatusAt(db[d], sweep[s].at)]_vars

(* However saves were interleaved, the status of each device that has ever *)
(* been heard from is in the end the one its lastSeen and timeout call     *)
(* for: a later sweep repairs what stale saves have left.                  *)
StatusConverges ==
    <>[](\A d \in registered :
            db[d].lastSeen # Never => db[d].status = StatusAt(db[d], now))
=============================================================================
