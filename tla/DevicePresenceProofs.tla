------------------------ MODULE DevicePresenceProofs -------------------------
(* Theorems about DevicePresence, for any devices, reports, sweeps,        *)
(* timeouts and bounds.  TypeOK alone is inductive.  The other two need to *)
(* know what a copy is worth: one that nobody has written behind equals    *)
(* the document, and a sweep never runs ahead of the clock.                *)
EXTENDS DevicePresence, TLAPS

BeatRecord ==
    [pc : {"ready", "loaded", "saving", "done"}, loaded : Document, stamp : Time]
SweepRecord ==
    [pc : {"idle", "finding", "visiting"}, at : Time, todo : SUBSET Device,
     loaded : [Device -> Document]]

InProgress(b) == beat[b].pc \in {"loaded", "saving"}

(* A report's copy that is not marked out of date is the document.         *)
BeatCopies == \A b \in Beat :
    InProgress(b) /\ b \notin staleBeat => beat[b].loaded = db[BeatOf[b]]

(* So is a sweep's copy of each device.                                    *)
SweepCopies == \A s \in Sweep, d \in Device :
    sweep[s].pc = "visiting" /\ <<s, d>> \notin staleSweep => sweep[s].loaded[d] = db[d]

SweepTimes == \A s \in Sweep :
    /\ sweep[s].at <= now
    /\ sweep[s].pc # "visiting" => sweep[s].todo = {}

(* A sweep or a report that finds its own copy up to date never leaves a   *)
(* device offline that is not expired; nor does the passing of time.       *)
OfflineHasCause(d) ==
    db[d].lastSeen # Never /\ db[d].status = "offline" /\ ~ Expired(db[d], now) => d \in raced

Copies == BeatCopies /\ SweepCopies /\ SweepTimes
IInv == TypeOK /\ Copies /\ \A d \in Device : OfflineHasCause(d)

-----------------------------------------------------------------------------
LEMMA NewDocumentType == NewDocument \in Document
  BY DEF NewDocument, Document, Status

LEMMA NoSweepType == NoSweep \in SweepRecord
  BY NewDocumentType, PresenceAssumption DEF NoSweep, SweepRecord, Time

LEMMA NoBeatType == NoBeat \in BeatRecord
  BY NewDocumentType, PresenceAssumption DEF NoBeat, BeatRecord, Time

(* What the steps of a sweep or of a report make of its record.            *)
LEMMA SweepUpdates ==
  ASSUME NEW r \in SweepRecord
  PROVE  /\ \A T \in SUBSET Device : [r EXCEPT !.todo = T] \in SweepRecord
         /\ \A t \in Time : [r EXCEPT !.pc = "finding", !.at = t] \in SweepRecord
         /\ \A T \in SUBSET Device, docs \in [Device -> Document] :
              [r EXCEPT !.pc = "visiting", !.todo = T, !.loaded = docs] \in SweepRecord
  BY DEF SweepRecord

LEMMA BeatUpdates ==
  ASSUME NEW r \in BeatRecord
  PROVE  /\ \A doc \in Document : [r EXCEPT !.pc = "loaded", !.loaded = doc] \in BeatRecord
         /\ \A t \in Time : [r EXCEPT !.pc = "saving", !.stamp = t] \in BeatRecord
         /\ [r EXCEPT !.pc = "done"] \in BeatRecord
  BY DEF BeatRecord

LEMMA RecordTypes == TypeOK => beat \in [Beat -> BeatRecord] /\ sweep \in [Sweep -> SweepRecord]
  BY DEF TypeOK, BeatRecord, SweepRecord

LEMMA InitTypeOK == Init => TypeOK
<1> SUFFICES ASSUME Init PROVE TypeOK
  OBVIOUS
<1>1. now \in Time /\ configs \in 0 .. MaxConfig
  BY PresenceAssumption DEF Init, Time
<1>2. db \in [Device -> Document]
  BY NewDocumentType DEF Init
<1>3. beat \in [Beat -> BeatRecord]
  BY NoBeatType DEF Init
<1>4. sweep \in [Sweep -> SweepRecord]
  BY NoSweepType DEF Init
<1> QED BY <1>1, <1>2, <1>3, <1>4 DEF Init, TypeOK, BeatRecord, SweepRecord

LEMMA TouchType ==
  ASSUME TypeOK, NEW d \in Device, Touch(d)
  PROVE  staleBeat' \subseteq Beat /\ staleSweep' \subseteq Sweep \X Device
  BY DEF Touch, TypeOK

(* What a save of a report, a save of a sweep and a change of the timeout  *)
(* write is a document.                                                    *)
LEMMA WriteTypes ==
  ASSUME NEW doc \in Document, NEW loaded \in Document
  PROVE  /\ \A t \in Timeouts : [doc EXCEPT !.timeout = t] \in Document
         /\ \A t \in Time : BeatWrites(doc, loaded, t) \in Document
         /\ \A t : [doc EXCEPT !.status = StatusAt(loaded, t)] \in Document
<1>1. \A t \in Timeouts : [doc EXCEPT !.timeout = t] \in Document
  BY DEF Document
<1>2. \A t \in Time : BeatWrites(doc, loaded, t) \in Document
  BY DEF BeatWrites, Document, Status
<1>3. \A t : StatusAt(loaded, t) \in Status
  BY DEF StatusAt, Status
<1>4. \A t : [doc EXCEPT !.status = StatusAt(loaded, t)] \in Document
  BY <1>3 DEF Document
<1> QED BY <1>1, <1>2, <1>4

LEMMA VisitTypeOK ==
  ASSUME TypeOK, NEW s \in Sweep, NEW d \in Device, Visit(s, d)
  PROVE  TypeOK'
<1> DEFINE loaded == sweep[s].loaded[d]
           status == StatusAt(loaded, sweep[s].at)
<1>1. loaded \in Document /\ db[d] \in Document
  BY DEF TypeOK
<1>2. sweep' \in [Sweep -> SweepRecord]
  <2>1. \/ sweep' = [sweep EXCEPT ![s] = [sweep[s] EXCEPT !.todo = sweep[s].todo \ {d}]]
        \/ sweep' = [sweep EXCEPT ![s] = NoSweep]
    BY DEF Visit
  <2>2. [sweep[s] EXCEPT !.todo = sweep[s].todo \ {d}] \in SweepRecord
    <3>1. sweep[s] \in SweepRecord /\ sweep[s].todo \ {d} \in SUBSET Device
      BY RecordTypes DEF TypeOK
    <3> QED BY <3>1, SweepUpdates
  <2> QED BY <2>1, <2>2, RecordTypes, NoSweepType
<1>3. db' \in [Device -> Document]
  <2>1. [db[d] EXCEPT !.status = status] \in Document
    BY <1>1, WriteTypes
  <2>2. db' = db \/ db' = [db EXCEPT ![d].status = status]
    BY DEF Visit
  <2> HIDE DEF status
  <2> QED BY <2>1, <2>2 DEF TypeOK
<1>4. staleBeat' \subseteq Beat /\ staleSweep' \subseteq Sweep \X Device
  <2>1. Touch(d) \/ UNCHANGED <<staleBeat, staleSweep>>
    BY DEF Visit
  <2> QED BY <2>1, TouchType DEF TypeOK
<1>5. raced' \subseteq Device
  BY DEF Visit, TypeOK
<1> QED BY <1>2, <1>3, <1>4, <1>5 DEF Visit, TypeOK, SweepRecord

LEMMA NextTypeOK == TypeOK /\ [Next]_vars => TypeOK'
<1> SUFFICES ASSUME TypeOK, [Next]_vars PROVE TypeOK'
  OBVIOUS
<1>1. ASSUME Tick PROVE TypeOK'
  BY <1>1, PresenceAssumption DEF Tick, TypeOK, Time
<1>2. ASSUME NEW d \in Device, Register(d) PROVE TypeOK'
  BY <1>2 DEF Register, TypeOK
<1>3. ASSUME NEW d \in Device, Delete(d) PROVE TypeOK'
  BY <1>3 DEF Delete, TypeOK
<1>4. ASSUME NEW d \in Device, NEW document \in Bodies(d), UpdateDevice(d, document) PROVE TypeOK'
  <2>1. db' \in [Device -> Document]
    <3>1. document \in Document
      BY WriteTypes DEF TypeOK, Bodies, Rows
    <3> QED BY <1>4, <3>1 DEF UpdateDevice, TypeOK
  <2>2. staleBeat' \subseteq Beat /\ staleSweep' \subseteq Sweep \X Device
    BY <1>4, TouchType DEF UpdateDevice
  <2>3. configs' \in 0 .. MaxConfig
    BY <1>4, PresenceAssumption DEF UpdateDevice, TypeOK
  <2> QED BY <1>4, <2>1, <2>2, <2>3 DEF UpdateDevice, TypeOK
<1>5. ASSUME NEW b \in Beat, LoadBeat(b) PROVE TypeOK'
  <2>1. beat' \in [Beat -> BeatRecord]
    <3>1. db[BeatOf[b]] \in Document /\ beat[b] \in BeatRecord
      BY PresenceAssumption, RecordTypes DEF TypeOK
    <3>2. \/ beat' = [beat EXCEPT ![b] = [beat[b] EXCEPT !.pc = "loaded", !.loaded = db[BeatOf[b]]]]
          \/ beat' = [beat EXCEPT ![b] = [beat[b] EXCEPT !.pc = "done"]]
      BY <1>5, RecordTypes DEF LoadBeat, BeatRecord
    <3> QED BY <3>1, <3>2, BeatUpdates, RecordTypes
  <2> QED BY <1>5, <2>1 DEF LoadBeat, TypeOK, BeatRecord
<1>6. ASSUME NEW b \in Beat, StampBeat(b) PROVE TypeOK'
  <2>1. beat' \in [Beat -> BeatRecord]
    <3>1. now \in Time /\ beat[b] \in BeatRecord
      BY RecordTypes DEF TypeOK
    <3>2. beat' = [beat EXCEPT ![b] = [beat[b] EXCEPT !.pc = "saving", !.stamp = now]]
      BY <1>6, RecordTypes DEF StampBeat, BeatRecord
    <3> QED BY <3>1, <3>2, BeatUpdates, RecordTypes
  <2> QED BY <1>6, <2>1 DEF StampBeat, TypeOK, BeatRecord
<1>7. ASSUME NEW b \in Beat, SaveBeat(b) PROVE TypeOK'
  <2> DEFINE d == BeatOf[b]
             doc == BeatWrites(db[d], beat[b].loaded, beat[b].stamp)
  <2>0. d \in Device
    BY PresenceAssumption
  <2>1. db' \in [Device -> Document]
    <3>1. doc \in Document
      BY <2>0, WriteTypes DEF TypeOK
    <3>2. db' = db \/ db' = [db EXCEPT ![d] = doc]
      BY <1>7 DEF SaveBeat
    <3> HIDE DEF doc
    <3> QED BY <2>0, <3>1, <3>2 DEF TypeOK
  <2>2. staleBeat' \subseteq Beat /\ staleSweep' \subseteq Sweep \X Device
    <3>1. Touch(d) \/ UNCHANGED <<staleBeat, staleSweep>>
      BY <1>7 DEF SaveBeat
    <3> QED BY <2>0, <3>1, TouchType DEF TypeOK
  <2>3. beat' \in [Beat -> BeatRecord]
    <3>1. [NoBeat EXCEPT !.pc = "done"] \in BeatRecord
      BY NoBeatType, BeatUpdates
    <3> QED BY <1>7, <3>1, RecordTypes DEF SaveBeat
  <2>4. raced' \subseteq Device
    BY <1>7, <2>0 DEF SaveBeat, TypeOK
  <2> QED BY <1>7, <2>1, <2>2, <2>3, <2>4 DEF SaveBeat, TypeOK, BeatRecord
<1>8. ASSUME NEW s \in Sweep, StartSweep(s) PROVE TypeOK'
  <2>1. sweep' \in [Sweep -> SweepRecord]
    <3>1. now \in Time /\ sweep[s] \in SweepRecord
      BY RecordTypes DEF TypeOK
    <3>2. sweep' = [sweep EXCEPT ![s] = [sweep[s] EXCEPT !.pc = "finding", !.at = now]]
      BY <1>8, RecordTypes DEF StartSweep, SweepRecord
    <3> QED BY <3>1, <3>2, SweepUpdates, RecordTypes
  <2> QED BY <1>8, <2>1 DEF StartSweep, TypeOK, SweepRecord
<1>9. ASSUME NEW s \in Sweep, LoadSweep(s) PROVE TypeOK'
  <2>1. sweep' \in [Sweep -> SweepRecord]
    <3>1. /\ registered \in SUBSET Device /\ db \in [Device -> Document]
          /\ sweep[s] \in SweepRecord
      BY RecordTypes DEF TypeOK
    <3>2. sweep' = [sweep EXCEPT ![s] =
             [sweep[s] EXCEPT !.pc = "visiting", !.todo = registered, !.loaded = db]]
      BY <1>9, RecordTypes DEF LoadSweep, SweepRecord
    <3> QED BY <3>1, <3>2, SweepUpdates, RecordTypes
  <2> QED BY <1>9, <2>1 DEF LoadSweep, TypeOK, SweepRecord
<1>10. ASSUME NEW s \in Sweep, NEW d \in Device, Visit(s, d) PROVE TypeOK'
  BY <1>10, VisitTypeOK
<1>11. ASSUME NEW s \in Sweep, EndSweep(s) PROVE TypeOK'
  BY <1>11, NoSweepType DEF EndSweep, TypeOK, SweepRecord
<1>12. CASE UNCHANGED vars
  BY <1>12 DEF vars, TypeOK
<1> QED BY <1>1, <1>2, <1>3, <1>4, <1>5, <1>6, <1>7, <1>8, <1>9, <1>10, <1>11, <1>12
        DEF Next, SweepStep

(* The variables keep their types: what is saved is always a document,     *)
(* whatever copy it was computed from.                                     *)
THEOREM TypeCorrect == Spec => []TypeOK
<1> QED BY InitTypeOK, NextTypeOK, PTL DEF Spec

-----------------------------------------------------------------------------
(* Steps that leave the copies alone and write at most the document d,     *)
(* marking every copy of it, keep what is known of the copies.             *)
LEMMA TouchKeepsBeatCopies ==
  ASSUME TypeOK, BeatCopies, NEW d \in Device, NEW doc,
         db' = [db EXCEPT ![d] = doc], Touch(d),
         NEW B \in SUBSET Beat,
         \A b \in Beat \ B : beat'[b] = beat[b],
         \A b \in B : beat'[b].pc = "done"
  PROVE  BeatCopies'
<1> SUFFICES ASSUME NEW b \in Beat, InProgress(b)', b \notin staleBeat'
             PROVE  (beat[b].loaded = db[BeatOf[b]])'
  BY DEF BeatCopies
<1>1. b \notin B /\ beat'[b] = beat[b]
  BY DEF InProgress
<1>2. InProgress(b) /\ b \notin staleBeat /\ BeatOf[b] # d
  BY <1>1 DEF Touch, InProgress
<1>3. db'[BeatOf[b]] = db[BeatOf[b]]
  BY <1>2, PresenceAssumption DEF TypeOK
<1> QED BY <1>1, <1>2, <1>3 DEF BeatCopies

LEMMA TouchKeepsSweepCopies ==
  ASSUME TypeOK, SweepCopies, NEW d \in Device, NEW doc,
         db' = [db EXCEPT ![d] = doc], Touch(d),
         \A s \in Sweep : /\ sweep'[s].pc = sweep[s].pc
                          /\ sweep'[s].loaded = sweep[s].loaded
  PROVE  SweepCopies'
<1> SUFFICES ASSUME NEW s \in Sweep, NEW e \in Device,
                    sweep'[s].pc = "visiting", <<s, e>> \notin staleSweep'
             PROVE  (sweep[s].loaded[e] = db[e])'
  BY DEF SweepCopies
<1>1. sweep[s].pc = "visiting" /\ <<s, e>> \notin staleSweep /\ e # d
  BY DEF Touch
<1>2. db'[e] = db[e]
  BY <1>1 DEF TypeOK
<1> QED BY <1>1, <1>2 DEF SweepCopies

(* The loaded copies of a report, or a sweep, that no other step touches.  *)
LEMMA QuietBeats ==
  ASSUME BeatCopies, UNCHANGED <<beat, db, staleBeat>>
  PROVE  BeatCopies'
  BY DEF BeatCopies, InProgress

LEMMA QuietSweeps ==
  ASSUME SweepCopies, UNCHANGED <<sweep, db, staleSweep>>
  PROVE  SweepCopies'
  BY DEF SweepCopies

LEMMA QuietTimes ==
  ASSUME TypeOK, SweepTimes, UNCHANGED <<sweep, now>>
  PROVE  SweepTimes'
  BY DEF SweepTimes

LEMMA InitCopies == Init => BeatCopies /\ SweepCopies /\ SweepTimes
  BY DEF Init, BeatCopies, SweepCopies, SweepTimes, InProgress, NoBeat, NoSweep

LEMMA BeatStepKeepsCopies ==
  ASSUME TypeOK, Copies, NEW b \in Beat, LoadBeat(b) \/ StampBeat(b) \/ SaveBeat(b)
  PROVE  Copies'
<1> USE DEF Copies
<1>0. BeatOf[b] \in Device
  BY PresenceAssumption
<1>1. SweepTimes'
  <2>1. UNCHANGED <<sweep, now>>
    BY DEF LoadBeat, StampBeat, SaveBeat
  <2> QED BY <2>1, QuietTimes
<1>2. CASE LoadBeat(b)
  <2>1. SweepCopies'
    BY <1>2, QuietSweeps DEF LoadBeat
  <2>2. ASSUME NEW c \in Beat, InProgress(c)', c \notin staleBeat'
        PROVE  beat'[c].loaded = db'[BeatOf[c]]
    <3>1. CASE c = b
      BY <1>2, <2>2, <3>1, RecordTypes DEF LoadBeat, InProgress, BeatRecord
    <3>2. CASE c # b
      BY <1>2, <2>2, <3>2, RecordTypes DEF LoadBeat, InProgress, BeatCopies
    <3> QED BY <3>1, <3>2
  <2> QED BY <1>1, <2>1, <2>2 DEF BeatCopies
<1>3. CASE StampBeat(b)
  <2>1. SweepCopies'
    BY <1>3, QuietSweeps DEF StampBeat
  <2>2. ASSUME NEW c \in Beat, InProgress(c)', c \notin staleBeat'
        PROVE  beat'[c].loaded = db'[BeatOf[c]]
    <3>1. InProgress(c) /\ beat'[c].loaded = beat[c].loaded
      BY <1>3, <2>2, RecordTypes DEF StampBeat, InProgress, BeatRecord
    <3> QED BY <1>3, <2>2, <3>1 DEF StampBeat, BeatCopies
  <2> QED BY <1>1, <2>1, <2>2 DEF BeatCopies
<1>4. CASE SaveBeat(b)
  <2> DEFINE d == BeatOf[b]
  <2>1. /\ \A c \in Beat \ {b} : beat'[c] = beat[c]
        /\ beat'[b].pc = "done"
    BY <1>4, RecordTypes DEF SaveBeat, NoBeat
  <2>2. CASE db' = [db EXCEPT ![d] = BeatWrites(db[d], beat[b].loaded, beat[b].stamp)] /\ Touch(d)
    <3>1. BeatCopies'
      <4>1. {b} \in SUBSET Beat /\ \A c \in {b} : beat'[c].pc = "done"
        BY <2>1
      <4>2. PICK doc : db' = [db EXCEPT ![d] = doc]
        BY <2>2
      <4> QED BY <1>0, <2>1, <2>2, <4>1, <4>2, TouchKeepsBeatCopies
    <3>2. SweepCopies'
      BY <1>0, <1>4, <2>2, TouchKeepsSweepCopies DEF SaveBeat
    <3> QED BY <1>1, <3>1, <3>2
  <2>3. CASE UNCHANGED <<db, staleBeat, staleSweep>>
    <3>1. SweepCopies'
      BY <1>4, <2>3, QuietSweeps DEF SaveBeat
    <3>2. BeatCopies'
      BY <2>1, <2>3 DEF BeatCopies, InProgress
    <3> QED BY <1>1, <3>1, <3>2
  <2> QED BY <1>4, <2>2, <2>3 DEF SaveBeat
<1> QED BY <1>2, <1>3, <1>4

LEMMA SweepStepKeepsCopies ==
  ASSUME TypeOK, Copies, NEW s \in Sweep, SweepStep(s)
  PROVE  Copies'
<1> USE DEF Copies
<1>0. \A r \in Sweep \ {s} : sweep'[r] = sweep[r]
  BY RecordTypes DEF SweepStep, StartSweep, LoadSweep, Visit, EndSweep
<1>1. CASE StartSweep(s)
  <2>1. BeatCopies'
    BY <1>1, QuietBeats DEF StartSweep
  <2>2. sweep'[s].pc = "finding" /\ sweep'[s].at = now /\ sweep'[s].todo = {}
    BY <1>1, RecordTypes DEF StartSweep, SweepTimes, SweepRecord
  <2>3. SweepCopies'
    BY <1>0, <1>1, <2>2 DEF StartSweep, SweepCopies
  <2>4. SweepTimes'
    BY <1>0, <1>1, <2>2 DEF StartSweep, SweepTimes, TypeOK, Time
  <2> QED BY <2>1, <2>3, <2>4
<1>2. CASE LoadSweep(s)
  <2>1. BeatCopies'
    BY <1>2, QuietBeats DEF LoadSweep
  <2>2. sweep'[s].pc = "visiting" /\ sweep'[s].at = sweep[s].at /\ sweep'[s].loaded = db
    BY <1>2, RecordTypes DEF LoadSweep, SweepRecord
  <2>3. ASSUME NEW r \in Sweep, NEW d \in Device,
               sweep'[r].pc = "visiting", <<r, d>> \notin staleSweep'
        PROVE  sweep'[r].loaded[d] = db'[d]
    <3>1. CASE r = s
      BY <1>2, <2>2, <3>1 DEF LoadSweep
    <3>2. CASE r # s
      <4>1. <<r, d>> \notin staleSweep
        BY <1>2, <2>3, <3>2 DEF LoadSweep
      <4> QED BY <1>0, <1>2, <2>3, <3>2, <4>1 DEF LoadSweep, SweepCopies
    <3> QED BY <3>1, <3>2
  <2>4. SweepTimes'
    BY <1>0, <1>2, <2>2 DEF LoadSweep, SweepTimes
  <2> QED BY <2>1, <2>3, <2>4 DEF SweepCopies
<1>3. CASE EndSweep(s)
  <2>1. BeatCopies'
    BY <1>3, QuietBeats DEF EndSweep
  <2>2. sweep'[s].pc = "idle" /\ sweep'[s].at = 0 /\ sweep'[s].todo = {}
    BY <1>3, RecordTypes DEF EndSweep, NoSweep
  <2>3. SweepCopies'
    BY <1>0, <1>3, <2>2 DEF EndSweep, SweepCopies
  <2>4. SweepTimes'
    BY <1>0, <1>3, <2>2 DEF EndSweep, SweepTimes, TypeOK, Time
  <2> QED BY <2>1, <2>3, <2>4
<1>4. ASSUME NEW d \in Device, Visit(s, d) PROVE Copies'
  <2>1. CASE sweep' = [sweep EXCEPT ![s].todo = @ \ {d}]
    <3>1. \A r \in Sweep : /\ sweep'[r].pc = sweep[r].pc
                           /\ sweep'[r].loaded = sweep[r].loaded
                           /\ sweep'[r].at = sweep[r].at
      BY <1>0, <2>1, RecordTypes DEF SweepRecord
    <3>2. sweep'[s].pc = "visiting"
      BY <1>4, <3>1 DEF Visit
    <3>3. SweepTimes'
      BY <1>0, <1>4, <3>1, <3>2 DEF Visit, SweepTimes
    <3>4. CASE UNCHANGED <<db, staleBeat, staleSweep>>
      <4>1. BeatCopies'
        BY <1>4, <3>4, QuietBeats DEF Visit
      <4>2. SweepCopies'
        BY <3>1, <3>4 DEF SweepCopies
      <4> QED BY <3>3, <4>1, <4>2
    <3>5. CASE Touch(d) /\ \E doc : db' = [db EXCEPT ![d] = doc]
      <4>1. PICK doc : db' = [db EXCEPT ![d] = doc]
        BY <3>5
      <4>2. SweepCopies'
        BY <3>1, <3>5, <4>1, TouchKeepsSweepCopies
      <4>3. BeatCopies'
        <5>1. /\ \A b \in Beat \ {} : beat'[b] = beat[b]
              /\ \A b \in {} : beat'[b].pc = "done"
              /\ {} \in SUBSET Beat
          BY <1>4 DEF Visit
        <5> QED BY <3>5, <4>1, <5>1, TouchKeepsBeatCopies
      <4> QED BY <3>3, <4>2, <4>3
    <3>6. \/ UNCHANGED <<db, staleBeat, staleSweep>>
          \/ Touch(d) /\ \E doc : db' = [db EXCEPT ![d] = doc]
      <4> DEFINE new == [db[d] EXCEPT !.status = StatusAt(sweep[s].loaded[d], sweep[s].at)]
      <4>1. \/ UNCHANGED <<db, staleBeat, staleSweep>>
            \/ Touch(d) /\ db' = [db EXCEPT ![d] = new]
        BY <1>4 DEF Visit
      <4> HIDE DEF new
      <4> QED BY <4>1
    <3> QED BY <3>4, <3>5, <3>6
  <2>2. CASE sweep' = [sweep EXCEPT ![s] = NoSweep] /\ UNCHANGED <<db, staleBeat, staleSweep>>
    <3>1. BeatCopies'
      BY <1>4, <2>2, QuietBeats DEF Visit
    <3>2. sweep'[s].pc = "idle" /\ sweep'[s].at = 0 /\ sweep'[s].todo = {}
      BY <2>2, RecordTypes DEF NoSweep
    <3>3. SweepCopies'
      BY <1>0, <2>2, <3>2 DEF SweepCopies
    <3>4. SweepTimes'
      BY <1>0, <1>4, <3>2 DEF Visit, SweepTimes, TypeOK, Time
    <3> QED BY <3>1, <3>3, <3>4
  <2> QED BY <1>4, <2>1, <2>2 DEF Visit
<1> QED BY <1>1, <1>2, <1>3, <1>4 DEF SweepStep

LEMMA NextCopies == TypeOK /\ Copies /\ [Next]_vars => Copies'
<1> SUFFICES ASSUME TypeOK, Copies, [Next]_vars PROVE Copies'
  OBVIOUS
<1>1. ASSUME Tick PROVE Copies'
  <2>1. BeatCopies' /\ SweepCopies'
    BY <1>1, QuietBeats, QuietSweeps DEF Copies, Tick
  <2>2. SweepTimes'
    <3>1. \A s \in Sweep : sweep[s].at \in Nat
      BY RecordTypes DEF SweepRecord, Time
    <3> QED BY <1>1, <3>1 DEF Copies, Tick, SweepTimes, TypeOK, Time
  <2> QED BY <2>1, <2>2 DEF Copies
<1>2. ASSUME NEW d \in Device, Register(d) \/ Delete(d) PROVE Copies'
  BY <1>2, QuietBeats, QuietSweeps, QuietTimes DEF Copies, Register, Delete
<1>3. ASSUME NEW d \in Device, NEW document \in Bodies(d), UpdateDevice(d, document) PROVE Copies'
  <2>1. PICK doc : db' = [db EXCEPT ![d] = doc]
    BY <1>3 DEF UpdateDevice
  <2>2. BeatCopies'
    <3>1. /\ \A b \in Beat \ {} : beat'[b] = beat[b]
          /\ \A b \in {} : beat'[b].pc = "done"
          /\ {} \in SUBSET Beat
      BY <1>3 DEF UpdateDevice
    <3> QED BY <1>3, <2>1, <3>1, TouchKeepsBeatCopies DEF Copies, UpdateDevice
  <2>3. SweepCopies'
    BY <1>3, <2>1, TouchKeepsSweepCopies DEF Copies, UpdateDevice
  <2> QED BY <1>3, <2>2, <2>3, QuietTimes DEF Copies, UpdateDevice
<1>4. ASSUME NEW b \in Beat, LoadBeat(b) \/ StampBeat(b) \/ SaveBeat(b) PROVE Copies'
  BY <1>4, BeatStepKeepsCopies
<1>5. ASSUME NEW s \in Sweep, SweepStep(s) PROVE Copies'
  BY <1>5, SweepStepKeepsCopies
<1>6. CASE UNCHANGED vars
  BY <1>6, QuietBeats, QuietSweeps, QuietTimes DEF Copies, vars
<1> QED BY <1>1, <1>2, <1>3, <1>4, <1>5, <1>6 DEF Next

-----------------------------------------------------------------------------
(* What has expired stays so as the clock goes on, and the status computed *)
(* from a document is offline only if it has expired.                      *)
LEMMA ExpiredStays ==
  ASSUME NEW doc \in Document, doc.lastSeen # Never,
         NEW s \in Nat, NEW t \in Nat, s <= t, Expired(doc, s)
  PROVE  Expired(doc, t)
<1>1. /\ doc.lastSeen \in (0 .. MaxTime) \cup {Never}
      /\ doc.timeout \in Timeouts \cup {Default}
  BY DEF Document, Time
<1>2. doc.lastSeen \in Nat /\ doc.timeout \in Nat
  <2>1. doc.lastSeen \in 0 .. MaxTime
    BY <1>1
  <2>2. MaxTime \in Nat /\ Timeouts \subseteq Nat /\ Default \in Nat
    BY PresenceAssumption
  <2>3. doc.timeout \in Nat
    BY <1>1, <2>2
  <2> QED BY <2>1, <2>2, <2>3
<1>3. s - doc.lastSeen > doc.timeout
  BY DEF Expired
<1>4. t - doc.lastSeen > doc.timeout
  BY <1>2, <1>3
<1> QED BY <1>4 DEF Expired

LEMMA StatusOffline ==
  ASSUME NEW doc, NEW t, StatusAt(doc, t) = "offline"
  PROVE  Expired(doc, t)
  BY DEF StatusAt

Cause == \A d \in Device : OfflineHasCause(d)

LEMMA QuietCause ==
  ASSUME Cause, UNCHANGED <<db, now, raced>>
  PROVE  Cause'
  BY DEF Cause, OfflineHasCause

(* One document is written.                                                *)
LEMMA OneCause ==
  ASSUME TypeOK, Cause, NEW d \in Device, NEW doc,
         db' = [db EXCEPT ![d] = doc], now' = now, raced \subseteq raced',
         \/ d \in raced'
         \/ doc.status # "offline"
         \/ doc.lastSeen # Never => Expired(doc, now)
  PROVE  Cause'
<1> SUFFICES ASSUME NEW e \in Device PROVE OfflineHasCause(e)'
  BY DEF Cause
<1>1. CASE e = d
  <2>1. db'[d] = doc
    BY DEF TypeOK
  <2> QED BY <1>1, <2>1 DEF OfflineHasCause
<1>2. CASE e # d
  BY <1>2 DEF Cause, OfflineHasCause, TypeOK
<1> QED BY <1>1, <1>2

LEMMA BeatSaveCause ==
  ASSUME IInv, NEW b \in Beat, SaveBeat(b)
  PROVE  Cause'
<1> DEFINE d == BeatOf[b]
           doc == BeatWrites(db[d], beat[b].loaded, beat[b].stamp)
<1>0. d \in Device /\ TypeOK /\ Cause /\ BeatCopies
  BY PresenceAssumption DEF IInv, Cause, Copies
<1>1. CASE db' = [db EXCEPT ![d] = doc] /\ raced' = IF b \in staleBeat THEN raced \cup {d} ELSE raced
  <2>1. d \in raced' \/ doc.status # "offline"
    <3>1. CASE b \in staleBeat
      BY <1>1, <3>1
    <3>2. CASE b \notin staleBeat
      <4>1. beat[b].loaded = db[d]
        BY <1>0, <3>2 DEF SaveBeat, BeatCopies, InProgress
      <4>2. doc.status = IF db[d].status = "online" THEN db[d].status ELSE "online"
        BY <1>0, <4>1 DEF BeatWrites, TypeOK, Document
      <4> QED BY <4>2
    <3> QED BY <3>1, <3>2
  <2>2. now' = now /\ raced \subseteq raced'
    BY <1>1 DEF SaveBeat
  <2> HIDE DEF doc
  <2> QED BY <1>0, <1>1, <2>1, <2>2, OneCause
<1>2. CASE UNCHANGED <<db, raced>>
  BY <1>0, <1>2, QuietCause DEF SaveBeat
<1> QED BY <1>1, <1>2 DEF SaveBeat

LEMMA VisitCause ==
  ASSUME IInv, NEW s \in Sweep, NEW d \in Device, Visit(s, d)
  PROVE  Cause'
<1> DEFINE loaded == sweep[s].loaded[d]
           status == StatusAt(loaded, sweep[s].at)
           doc == [db[d] EXCEPT !.status = status]
<1>0. TypeOK /\ Cause /\ SweepCopies /\ SweepTimes
  BY DEF IInv, Cause, Copies
<1>1. CASE /\ loaded.lastSeen # Never
           /\ db' = [db EXCEPT ![d] = doc]
           /\ raced' = IF <<s, d>> \in staleSweep THEN raced \cup {d} ELSE raced
  <2>1. now' = now /\ raced \subseteq raced'
    BY <1>1 DEF Visit
  <2>2. CASE <<s, d>> \in staleSweep
    <3> HIDE DEF doc
    <3> QED BY <1>0, <1>1, <2>1, <2>2, OneCause
  <2>3. CASE <<s, d>> \notin staleSweep
    <3>1. loaded = db[d]
      BY <1>0, <2>3 DEF Visit, SweepCopies
    <3>2. db[d] \in Document /\ sweep[s].at \in Nat /\ now \in Nat /\ sweep[s].at <= now
      BY <1>0, RecordTypes DEF TypeOK, SweepRecord, SweepTimes, Time
    <3>3. /\ doc.status = status
          /\ doc.lastSeen = db[d].lastSeen
          /\ doc.timeout = db[d].timeout
      BY <3>2 DEF Document
    <3>4. ASSUME doc.status = "offline" PROVE Expired(doc, now)
      <4>1. Expired(db[d], sweep[s].at)
        BY <3>1, <3>3, <3>4, StatusOffline
      <4>2. Expired(db[d], now)
        BY <1>1, <3>1, <3>2, <4>1, ExpiredStays
      <4> QED BY <3>3, <4>2 DEF Expired
    <3> HIDE DEF doc
    <3> QED BY <1>0, <1>1, <2>1, <3>4, OneCause
  <2> QED BY <2>2, <2>3
<1>2. CASE db' = db
  <2>1. SUFFICES ASSUME NEW e \in Device PROVE OfflineHasCause(e)'
    BY DEF Cause
  <2>2. raced \subseteq raced' /\ now' = now
    BY DEF Visit
  <2> QED BY <1>0, <1>2, <2>2 DEF Cause, OfflineHasCause
<1> QED BY <1>1, <1>2 DEF Visit

LEMMA NextCause == IInv /\ [Next]_vars => Cause'
<1> SUFFICES ASSUME IInv, [Next]_vars PROVE Cause'
  OBVIOUS
<1>0. TypeOK /\ Cause
  BY DEF IInv, Cause
<1>1. ASSUME Tick PROVE Cause'
  <2> SUFFICES ASSUME NEW d \in Device, OfflineHasCause(d), ~ OfflineHasCause(d)' PROVE FALSE
    BY <1>0 DEF Cause
  <2>1. /\ db[d].lastSeen # Never /\ db[d].status = "offline"
        /\ ~ Expired(db[d], now + 1) /\ d \notin raced
    BY <1>1 DEF Tick, OfflineHasCause
  <2>2. Expired(db[d], now)
    BY <2>1 DEF OfflineHasCause
  <2>3. db[d] \in Document /\ now \in Nat
    BY <1>0 DEF TypeOK, Time
  <2> QED BY <2>1, <2>2, <2>3, ExpiredStays
<1>2. ASSUME NEW d \in Device, Register(d) \/ Delete(d) PROVE Cause'
  BY <1>0, <1>2, QuietCause DEF Register, Delete
<1>3. ASSUME NEW d \in Device, NEW document \in Bodies(d), UpdateDevice(d, document) PROVE Cause'
  <2>1. PICK doc : db' = [db EXCEPT ![d] = doc]
    BY <1>3 DEF UpdateDevice
  <2>2. d \in raced' /\ raced \subseteq raced' /\ now' = now
    BY <1>3 DEF UpdateDevice
  <2> QED BY <1>0, <2>1, <2>2, OneCause
<1>4. ASSUME NEW b \in Beat, LoadBeat(b) \/ StampBeat(b) PROVE Cause'
  BY <1>0, <1>4, QuietCause DEF LoadBeat, StampBeat
<1>5. ASSUME NEW b \in Beat, SaveBeat(b) PROVE Cause'
  BY <1>5, BeatSaveCause
<1>6. ASSUME NEW s \in Sweep, NEW d \in Device, Visit(s, d) PROVE Cause'
  BY <1>6, VisitCause
<1>7. ASSUME NEW s \in Sweep, StartSweep(s) \/ LoadSweep(s) \/ EndSweep(s) PROVE Cause'
  BY <1>0, <1>7, QuietCause DEF StartSweep, LoadSweep, EndSweep
<1>8. CASE UNCHANGED vars
  BY <1>0, <1>8, QuietCause DEF vars
<1> QED BY <1>1, <1>2, <1>3, <1>4, <1>5, <1>6, <1>7, <1>8 DEF Next, SweepStep

THEOREM Inductive == Spec => []IInv
<1>1. Init => IInv
  <2>1. Init => \A d \in Device : OfflineHasCause(d)
    BY DEF Init, OfflineHasCause, NewDocument
  <2> QED BY <2>1, InitTypeOK, InitCopies DEF IInv, Copies
<1>2. IInv /\ [Next]_vars => IInv'
  BY NextTypeOK, NextCopies, NextCause DEF IInv, Cause
<1> QED BY <1>1, <1>2, PTL DEF Spec

(* A device heard from within its timeout is shown offline only after a    *)
(* save from an old copy or a change by a client: neither the report of *)
(* lines 84-86 nor the sweep of lines 107-111 alone produces it.           *)
THEOREM EveryWrongOfflineHasCause == Spec => []OfflineWhileFreshHasCause
<1>1. IInv => OfflineWhileFreshHasCause
  BY DEF IInv, TypeOK, OfflineHasCause, OfflineWhileFreshHasCause
<1> QED BY <1>1, Inductive, PTL

(* A sweep with an up-to-date copy leaves the right status.                *)
THEOREM UndisturbedSweepAlwaysRight == Spec => UndisturbedSweepIsRight
<1> DEFINE Right == \A s \in Sweep, d \in Device :
          /\ d \in sweep[s].todo /\ d \notin sweep'[s].todo
          /\ sweep'[s].pc = "visiting"
          /\ <<s, d>> \notin staleSweep
          /\ db[d].lastSeen # Never
          => db'[d].status = StatusAt(db[d], sweep[s].at)
<1>1. IInv /\ [Next]_vars => Right
  <2> SUFFICES ASSUME IInv, [Next]_vars, NEW s \in Sweep, NEW d \in Device,
                      d \in sweep[s].todo, d \notin sweep'[s].todo,
                      sweep'[s].pc = "visiting", <<s, d>> \notin staleSweep,
                      db[d].lastSeen # Never
               PROVE  db'[d].status = StatusAt(db[d], sweep[s].at)
    OBVIOUS
  <2>0. /\ TypeOK /\ SweepCopies /\ SweepTimes
        /\ sweep \in [Sweep -> SweepRecord]
    BY RecordTypes DEF IInv, Copies
  <2>1. sweep[s].pc = "visiting"
    BY <2>0 DEF SweepTimes
  <2>2. sweep' # sweep
    OBVIOUS
  <2>3. PICK r \in Sweep : SweepStep(r)
    BY <2>2 DEF Next, vars, Tick, Register, Delete, UpdateDevice, LoadBeat, StampBeat, SaveBeat
  <2>4. r = s
    BY <2>0, <2>3 DEF SweepStep, StartSweep, LoadSweep, Visit, EndSweep
  <2>5. PICK e \in Device : Visit(s, e)
    BY <2>0, <2>1, <2>3, <2>4 DEF SweepStep, StartSweep, LoadSweep, EndSweep, NoSweep
  <2>6. sweep' = [sweep EXCEPT ![s].todo = @ \ {e}] /\ e = d
    <3>1. sweep' # [sweep EXCEPT ![s] = NoSweep]
      BY <2>0 DEF NoSweep
    <3>2. sweep' = [sweep EXCEPT ![s].todo = @ \ {e}]
      BY <2>5, <3>1 DEF Visit
    <3> QED BY <2>0, <3>2 DEF SweepRecord
  <2>7. sweep[s].loaded[d] = db[d]
    BY <2>0, <2>1 DEF SweepCopies
  <2>8. db[d] \in Document
    BY <2>0 DEF TypeOK
  <2>9. sweep' # [sweep EXCEPT ![s] = NoSweep]
    BY <2>0 DEF NoSweep
  <2>10. CASE StatusAt(db[d], sweep[s].at) = db[d].status /\ db' = db
    BY <2>10
  <2>11. CASE db' = [db EXCEPT ![d] = [db[d] EXCEPT !.status = StatusAt(db[d], sweep[s].at)]]
    BY <2>0, <2>8, <2>11 DEF TypeOK, Document
  <2> QED BY <2>5, <2>6, <2>7, <2>9, <2>10, <2>11 DEF Visit
<1> QED BY <1>1, Inductive, PTL DEF Spec, UndisturbedSweepIsRight
=============================================================================
