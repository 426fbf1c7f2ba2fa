----------------------- MODULE CommandLifecycleProofs -----------------------
(* Theorems about CommandLifecycle, for any publications, command ids,     *)
(* responses (also several to one command) and number of restarts.         *)
EXTENDS CommandLifecycle, TLAPS

(* The inductive invariant.  Only an acknowledged publication has a timer; *)
(* a response has made its id an answered one, and computed its status,    *)
(* before it reports it; and whatever may still be done with the timer of  *)
(* an answered id was so at the time of the answer, or has a cause.        *)
TimersAreAcked ==
    \A p \in Publication : timer[p] # "none" => ack[p] = "acked"

ReportsAreAnswers ==
    /\ \A r \in Response : resp[r] \in Firing =>
          About[r] \in answered /\ verdict[r] \in Verdict
    /\ \A c \in CommandId : asked[c] \in FinalVerdict => c \in answered

Excused(p) == p \in lateAck \/ Reused(p)

AnsweredTimersHaveCause ==
    \A p \in Publication : IdOf[p] \in answered =>
        /\ timer[p] = "armed" => Excused(p)
        /\ timer[p] \in Firing => p \in racing \/ Excused(p)

IInv ==
    /\ TypeOK
    /\ PendingHasLiveTimer
    /\ ArmedTimerIsReachable
    /\ TimersAreAcked
    /\ ReportsAreAnswers
    /\ AnsweredTimersHaveCause
    /\ WrongTimeoutHasCause

-----------------------------------------------------------------------------
(* An update finds no record: none has the field it selects by.            *)
LEMMA UpdateFindsNothing ==
  ASSUME TypeOK, NEW c \in CommandId, NEW s, Update(c, s)
  PROVE  doc' = doc /\ asked' = [asked EXCEPT ![c] = s]
<1>1. ASSUME NEW p \in Publication, doc[p] # None PROVE StoredCommandId(p) = None
  <2>1. doc[p] \in [command_id : CommandId, status : Status]
    BY <1>1 DEF TypeOK
  <2>2. "commandId" \notin DOMAIN doc[p]
    BY <2>1
  <2> QED BY <2>2 DEF StoredCommandId
<1>2. Selected(c) = {}
  BY <1>1, LifecycleAssumption DEF Selected
<1> QED BY <1>2 DEF Update

LEMMA UpdateType ==
  ASSUME TypeOK, NEW c \in CommandId, NEW s \in Status, Update(c, s)
  PROVE  /\ doc' \in [Publication -> {None} \cup [command_id : CommandId, status : Status]]
         /\ asked' \in [CommandId -> Status \cup {None}]
  BY UpdateFindsNothing DEF TypeOK

-----------------------------------------------------------------------------
(* Type correctness, with the part of IInv it rests on: the status that a  *)
(* response reports has been computed.                                     *)
VerdictComputed == \A r \in Response : resp[r] \in Firing => verdict[r] \in Verdict

LEMMA InitTypes == Init => TypeOK /\ VerdictComputed
  BY LifecycleAssumption DEF Init, TypeOK, VerdictComputed, Firing

LEMMA PublicationTypes ==
  ASSUME TypeOK, VerdictComputed, NEW p \in Publication, PublicationStep(p)
  PROVE  TypeOK' /\ VerdictComputed'
<1> USE LifecycleAssumption
<1>0. IdOf[p] \in CommandId
  OBVIOUS
<1>1. CASE Publish(p)
  BY <1>1 DEF Publish, TypeOK, VerdictComputed, history
<1>2. CASE SaveRecord(p)
  <2>1. doc' \in [Publication -> {None} \cup [command_id : CommandId, status : Status]]
    <3>1. [command_id |-> IdOf[p], status |-> "pending"] \in [command_id : CommandId, status : Status]
      BY <1>0 DEF Status, Verdict
    <3> QED BY <1>2, <3>1 DEF SaveRecord, TypeOK
  <2> QED BY <1>2, <2>1 DEF SaveRecord, TypeOK, VerdictComputed, history
<1>3. CASE PubAck(p)
  BY <1>0, <1>3 DEF PubAck, TypeOK, VerdictComputed
<1>4. CASE PubError(p)
  BY <1>4 DEF PubError, TypeOK, VerdictComputed, history
<1>5. CASE ErrorUpdated(p)
  <2>1. /\ doc' \in [Publication -> {None} \cup [command_id : CommandId, status : Status]]
        /\ asked' \in [CommandId -> Status \cup {None}]
    <3>1. CASE Update(IdOf[p], "error")
      BY <1>0, <3>1, UpdateType DEF Status
    <3>2. CASE UNCHANGED <<doc, asked>>
      BY <3>2 DEF TypeOK
    <3> QED BY <1>5, <3>1, <3>2 DEF ErrorUpdated
  <2> QED BY <1>5, <2>1 DEF ErrorUpdated, TypeOK, VerdictComputed, history
<1>6. CASE Expire(p)
  BY <1>6 DEF Expire, TypeOK, VerdictComputed, Firing
<1>7. CASE TimerUpdated(p)
  <2>1. /\ doc' \in [Publication -> {None} \cup [command_id : CommandId, status : Status]]
        /\ asked' \in [CommandId -> Status \cup {None}]
    BY <1>0, <1>7, UpdateType DEF TimerUpdated, Status
  <2> QED BY <1>7, <2>1 DEF TimerUpdated, TypeOK, VerdictComputed, Firing, history
<1>8. CASE TimerStamped(p)
  <2>1. /\ doc' \in [Publication -> {None} \cup [command_id : CommandId, status : Status]]
        /\ asked' \in [CommandId -> Status \cup {None}]
    BY <1>0, <1>8, UpdateType DEF TimerStamped, Status
  <2> QED BY <1>0, <1>8, <2>1 DEF TimerStamped, TypeOK, VerdictComputed, Firing, history
<1> QED BY <1>1, <1>2, <1>3, <1>4, <1>5, <1>6, <1>7, <1>8 DEF PublicationStep

LEMMA ResponseTypes ==
  ASSUME TypeOK, VerdictComputed, NEW r \in Response, ResponseStep(r)
  PROVE  TypeOK' /\ VerdictComputed'
<1> USE LifecycleAssumption
<1>0. About[r] \in CommandId
  OBVIOUS
<1>1. CASE Receive(r)
  BY <1>1 DEF Receive, TypeOK, VerdictComputed, Firing, history
<1>2. CASE HandleResponse(r)
  <2>1. timer' \in [Publication -> {"none", "armed", "cleared", "done", "lost"} \cup Firing]
    BY <1>2 DEF HandleResponse, TypeOK
  <2>2. PICK v \in Verdict : verdict' = [verdict EXCEPT ![r] = v]
    BY <1>2 DEF HandleResponse
  <2>3. racing' \subseteq Publication /\ answered' \subseteq CommandId
    BY <1>0, <1>2 DEF HandleResponse, TypeOK
  <2>4. /\ resp' \in [Response -> {"none", "lastSeen", "done", "failed", "lost"} \cup Firing]
        /\ verdict' \in [Response -> Verdict \cup {None}]
        /\ VerdictComputed'
    BY <1>2, <2>2 DEF HandleResponse, TypeOK, VerdictComputed, Firing
  <2>5. pending' \in [CommandId -> Publication \cup {None}]
    BY <1>2 DEF HandleResponse, TypeOK
  <2> QED BY <1>2, <2>1, <2>3, <2>4, <2>5 DEF HandleResponse, TypeOK
<1>3. CASE ResponseUpdated(r)
  <2>1. /\ doc' \in [Publication -> {None} \cup [command_id : CommandId, status : Status]]
        /\ asked' \in [CommandId -> Status \cup {None}]
    <3>1. CASE Update(About[r], verdict[r])
      <4>1. verdict[r] \in Status
        BY <1>3 DEF ResponseUpdated, VerdictComputed, Firing, Status
      <4> QED BY <1>0, <3>1, <4>1, UpdateType
    <3>2. CASE UNCHANGED <<doc, asked>>
      BY <3>2 DEF TypeOK
    <3> QED BY <1>3, <3>1, <3>2 DEF ResponseUpdated
  <2> QED BY <1>3, <2>1 DEF ResponseUpdated, TypeOK, VerdictComputed, Firing, history
<1>4. CASE ResponseStamped(r)
  <2>1. /\ doc' \in [Publication -> {None} \cup [command_id : CommandId, status : Status]]
        /\ asked' \in [CommandId -> Status \cup {None}]
    <3>1. CASE Update(About[r], verdict[r])
      <4>1. verdict[r] \in Status
        BY <1>4 DEF ResponseStamped, VerdictComputed, Firing, Status
      <4> QED BY <1>0, <3>1, <4>1, UpdateType
    <3>2. CASE UNCHANGED <<doc, asked>>
      BY <3>2 DEF TypeOK
    <3> QED BY <1>4, <3>1, <3>2 DEF ResponseStamped
  <2> QED BY <1>4, <2>1 DEF ResponseStamped, TypeOK, VerdictComputed, Firing, history
<1> QED BY <1>1, <1>2, <1>3, <1>4 DEF ResponseStep

LEMMA NextTypes == TypeOK /\ VerdictComputed /\ [Next]_vars => TypeOK' /\ VerdictComputed'
<1> SUFFICES ASSUME TypeOK, VerdictComputed, [Next]_vars PROVE TypeOK' /\ VerdictComputed'
  OBVIOUS
<1>1. CASE \E p \in Publication : PublicationStep(p)
  BY <1>1, PublicationTypes
<1>2. CASE \E r \in Response : ResponseStep(r)
  BY <1>2, ResponseTypes
<1>3. CASE Crash
  BY <1>3, LifecycleAssumption DEF Crash, TypeOK, VerdictComputed, Firing, history
<1>4. CASE UNCHANGED vars
  BY <1>4 DEF vars, TypeOK, VerdictComputed
<1> QED BY <1>1, <1>2, <1>3, <1>4 DEF Next

(* The variables keep their types: in particular only the six statuses of  *)
(* the schema's comment are ever asked for or stored.                      *)
THEOREM TypeCorrect == Spec => []TypeOK
<1>1. Spec => [](TypeOK /\ VerdictComputed)
  BY InitTypes, NextTypes, PTL DEF Spec
<1> QED BY <1>1, PTL

(* No report changes a record: whatever becomes of its command, the record *)
(* stays as createCommand has saved it, for the updates select by a field  *)
(* that no record has (commands.service.ts:20 and 44).                     *)
SavedOnce ==
    \A p \in Publication : /\ doc[p] # None => save[p] = "saved"
                           /\ ack[p] = "unsent" => save[p] = "none"
RecordsStay == \A p \in Publication : doc[p] # None => doc'[p] = doc[p]

LEMMA StepsKeepRecords == TypeOK /\ SavedOnce /\ [Next]_vars => SavedOnce' /\ RecordsStay
<1> SUFFICES ASSUME TypeOK, SavedOnce, [Next]_vars PROVE SavedOnce' /\ RecordsStay
  OBVIOUS
<1>1. ASSUME doc' = doc, save' = save,
             \A p \in Publication : ack[p] # "unsent" => ack'[p] # "unsent"
      PROVE  SavedOnce' /\ RecordsStay
  BY <1>1 DEF SavedOnce, RecordsStay
<1>2. ASSUME NEW p \in Publication, PublicationStep(p) PROVE SavedOnce' /\ RecordsStay
  <2>1. CASE Publish(p)
    BY <2>1 DEF Publish, TypeOK, SavedOnce, RecordsStay
  <2>2. CASE SaveRecord(p)
    BY <2>2 DEF SaveRecord, history, TypeOK, SavedOnce, RecordsStay
  <2>3. CASE PubAck(p) \/ PubError(p) \/ Expire(p)
    BY <1>1, <2>3 DEF PubAck, PubError, Expire, TypeOK
  <2>4. CASE ErrorUpdated(p) \/ TimerUpdated(p) \/ TimerStamped(p)
    <3>1. IdOf[p] \in CommandId
      BY LifecycleAssumption
    <3>2. doc' = doc
      BY <2>4, <3>1, UpdateFindsNothing DEF ErrorUpdated, TimerUpdated, TimerStamped
    <3> QED BY <1>1, <2>4, <3>2 DEF ErrorUpdated, TimerUpdated, TimerStamped, TypeOK
  <2> QED BY <1>2, <2>1, <2>2, <2>3, <2>4 DEF PublicationStep
<1>3. ASSUME NEW r \in Response, ResponseStep(r) PROVE SavedOnce' /\ RecordsStay
  <2>1. About[r] \in CommandId
    BY LifecycleAssumption
  <2>2. doc' = doc
    BY <1>3, <2>1, UpdateFindsNothing
       DEF ResponseStep, Receive, HandleResponse, ResponseUpdated, ResponseStamped
  <2> QED BY <1>1, <1>3, <2>2
       DEF ResponseStep, Receive, HandleResponse, ResponseUpdated, ResponseStamped
<1>4. CASE Crash
  BY <1>4 DEF Crash, TypeOK, SavedOnce, RecordsStay
<1>5. CASE UNCHANGED vars
  BY <1>1, <1>5 DEF vars
<1> QED BY <1>2, <1>3, <1>4, <1>5 DEF Next

THEOREM RecordsNeverUpdated == Spec => [][RecordsStay]_vars
<1>1. Init => SavedOnce
  BY DEF Init, SavedOnce
<1>2. Spec => []SavedOnce
  BY <1>1, StepsKeepRecords, TypeCorrect, PTL DEF Spec
<1> QED BY <1>2, StepsKeepRecords, TypeCorrect, PTL DEF Spec

-----------------------------------------------------------------------------
(* An acknowledgement is for good, so a cause stays one.                   *)
AcksStay == \A p \in Publication : ack[p] = "acked" => ack'[p] = "acked"

LEMMA StepsKeepAcks == TypeOK /\ [Next]_vars => AcksStay
<1> SUFFICES ASSUME TypeOK, [Next]_vars PROVE AcksStay
  OBVIOUS
<1>1. ASSUME NEW p \in Publication, PublicationStep(p) PROVE AcksStay
  BY <1>1 DEF PublicationStep, Publish, SaveRecord, PubAck, PubError, ErrorUpdated, Expire,
              TimerUpdated, TimerStamped, AcksStay, TypeOK
<1>2. ASSUME NEW r \in Response, ResponseStep(r) PROVE AcksStay
  BY <1>2 DEF ResponseStep, Receive, HandleResponse, ResponseUpdated, ResponseStamped, AcksStay
<1>3. CASE Crash
  BY <1>3 DEF Crash, AcksStay, TypeOK
<1>4. CASE UNCHANGED vars
  BY <1>4 DEF vars, AcksStay
<1> QED BY <1>1, <1>2, <1>3, <1>4 DEF Next

LEMMA CausesStay ==
  ASSUME AcksStay, lateAck \subseteq lateAck', NEW p \in Publication
  PROVE  (Reused(p) => Reused(p)') /\ (Excused(p) => Excused(p)')
  BY DEF AcksStay, Reused, Excused, Sharing

-----------------------------------------------------------------------------
(* IInv is inductive.  TimerInv is what it says of timers and their causes. *)
TimerInv ==
    /\ PendingHasLiveTimer
    /\ ArmedTimerIsReachable
    /\ TimersAreAcked
    /\ AnsweredTimersHaveCause
    /\ WrongTimeoutHasCause

LEMMA InitIInv == Init => IInv
<1> SUFFICES ASSUME Init PROVE IInv
  OBVIOUS
<1>1. TypeOK
  BY InitTypes
<1>2. TimerInv
  BY DEF Init, TimerInv, PendingHasLiveTimer, ArmedTimerIsReachable, TimersAreAcked,
         AnsweredTimersHaveCause, WrongTimeoutHasCause, Firing
<1>3. ReportsAreAnswers
  BY LifecycleAssumption DEF Init, ReportsAreAnswers, Firing, Status, Verdict
<1> QED BY <1>1, <1>2, <1>3 DEF IInv, TimerInv

(* Steps that touch no timer.                                              *)
LEMMA QuietStep ==
  ASSUME IInv, AcksStay, UNCHANGED <<timer, pending, history>>
  PROVE  TimerInv'
<1> USE DEF IInv, history
<1>1. \A p \in Publication : (Reused(p) => Reused(p)') /\ (Excused(p) => Excused(p)')
  BY CausesStay
<1>2. PendingHasLiveTimer'
  BY DEF PendingHasLiveTimer
<1>3. ArmedTimerIsReachable'
  BY <1>1 DEF ArmedTimerIsReachable
<1>4. TimersAreAcked'
  BY DEF TimersAreAcked, AcksStay
<1>5. AnsweredTimersHaveCause'
  BY <1>1 DEF AnsweredTimersHaveCause
<1>6. WrongTimeoutHasCause'
  BY <1>1 DEF WrongTimeoutHasCause, Excused, TypeOK
<1> QED BY <1>2, <1>3, <1>4, <1>5, <1>6 DEF TimerInv

LEMMA PubAckKeepsTimerInv ==
  ASSUME IInv, AcksStay, NEW p \in Publication, PubAck(p)
  PROVE  TimerInv'
<1> USE LifecycleAssumption DEF PubAck, IInv, TypeOK
<1>1. \A q \in Publication : (Reused(q) => Reused(q)') /\ (Excused(q) => Excused(q)')
  BY CausesStay
<1>2. PendingHasLiveTimer'
  BY DEF PendingHasLiveTimer
<1>3. ArmedTimerIsReachable'
  <2> SUFFICES ASSUME NEW q \in Publication, timer'[q] = "armed"
               PROVE  pending'[IdOf[q]] = q \/ Reused(q)'
    BY DEF ArmedTimerIsReachable
  <2>1. CASE q = p
    BY <2>1
  <2>2. CASE q # p /\ IdOf[q] = IdOf[p]
    BY <2>2 DEF Reused, Sharing
  <2>3. CASE q # p /\ IdOf[q] # IdOf[p]
    BY <1>1, <2>3 DEF ArmedTimerIsReachable
  <2> QED BY <2>1, <2>2, <2>3
<1>4. TimersAreAcked'
  BY DEF TimersAreAcked
<1>5. AnsweredTimersHaveCause'
  <2> SUFFICES ASSUME NEW q \in Publication, IdOf[q] \in answered'
               PROVE  /\ timer'[q] = "armed" => Excused(q)'
                      /\ timer'[q] \in Firing => q \in racing' \/ Excused(q)'
    BY DEF AnsweredTimersHaveCause
  <2>1. CASE q = p
    BY <2>1 DEF Excused, Firing
  <2>2. CASE q # p
    BY <1>1, <2>2 DEF AnsweredTimersHaveCause
  <2> QED BY <2>1, <2>2
<1>6. WrongTimeoutHasCause'
  BY <1>1 DEF WrongTimeoutHasCause, Excused
<1> QED BY <1>2, <1>3, <1>4, <1>5, <1>6 DEF TimerInv

(* The three steps of the timeout callback.                                *)
LEMMA TimerKeepsTimerInv ==
  ASSUME IInv, AcksStay, NEW p \in Publication,
         Expire(p) \/ TimerUpdated(p) \/ TimerStamped(p)
  PROVE  TimerInv'
<1> USE LifecycleAssumption DEF IInv, TypeOK, history
<1>1. \A q \in Publication : (Reused(q) => Reused(q)') /\ (Excused(q) => Excused(q)')
  BY CausesStay DEF Expire, TimerUpdated, TimerStamped
<1>2. PendingHasLiveTimer'
  BY DEF PendingHasLiveTimer, Firing, Expire, TimerUpdated, TimerStamped
<1>3. ArmedTimerIsReachable'
  <2> SUFFICES ASSUME NEW q \in Publication, timer'[q] = "armed"
               PROVE  pending'[IdOf[q]] = q \/ Reused(q)'
    BY DEF ArmedTimerIsReachable
  <2>1. q # p /\ timer[q] = "armed"
    BY DEF Expire, TimerUpdated, TimerStamped
  <2>2. pending[IdOf[q]] = q \/ Reused(q)
    BY <2>1 DEF ArmedTimerIsReachable
  <2>3. ack[p] = "acked"
    BY DEF TimersAreAcked, Expire, TimerUpdated, TimerStamped
  <2>4. CASE IdOf[q] = IdOf[p]
    BY <1>1, <2>1, <2>3, <2>4 DEF Reused, Sharing
  <2>5. CASE IdOf[q] # IdOf[p]
    BY <1>1, <2>2, <2>5 DEF Expire, TimerUpdated, TimerStamped
  <2> QED BY <2>4, <2>5
<1>4. TimersAreAcked'
  BY DEF TimersAreAcked, AcksStay, Expire, TimerUpdated, TimerStamped
<1>5. AnsweredTimersHaveCause'
  BY <1>1 DEF AnsweredTimersHaveCause, Firing, Expire, TimerUpdated, TimerStamped
<1>6. WrongTimeoutHasCause'
  <2>1. CASE Expire(p)
    <3>1. wrongly' = wrongly \/ (wrongly' = wrongly \cup {p} /\ Excused(p))
      BY <2>1 DEF Expire, AnsweredTimersHaveCause
    <3> QED BY <1>1, <3>1 DEF WrongTimeoutHasCause, Excused
  <2>2. CASE TimerUpdated(p) \/ TimerStamped(p)
    BY <1>1, <2>2 DEF WrongTimeoutHasCause, Excused, TimerUpdated, TimerStamped
  <2> QED BY <2>1, <2>2
<1> QED BY <1>2, <1>3, <1>4, <1>5, <1>6 DEF TimerInv

(* The response takes the timer it finds under its id; one that it leaves  *)
(* armed belongs to an id that was used again.                             *)
LEMMA HandleResponseKeepsTimerInv ==
  ASSUME IInv, AcksStay, NEW r \in Response, HandleResponse(r)
  PROVE  TimerInv'
<1> USE LifecycleAssumption DEF IInv, TypeOK
<1> DEFINE c == About[r]
<1>0. /\ c \in CommandId
      /\ timer' = [p \in Publication |->
                      IF pending[c] = p /\ timer[p] = "armed" THEN "cleared" ELSE timer[p]]
      /\ pending' = [pending EXCEPT ![c] = None]
      /\ answered' = answered \cup {c}
      /\ racing' = racing \cup {p \in Publication : IdOf[p] = c /\ timer[p] \in Firing}
      /\ UNCHANGED <<ack, lateAck, wrongly>>
  BY DEF HandleResponse
<1> HIDE DEF c
<1>1. \A q \in Publication : (Reused(q) => Reused(q)') /\ (Excused(q) => Excused(q)')
  BY <1>0, CausesStay
<1>2. PendingHasLiveTimer'
  BY <1>0 DEF PendingHasLiveTimer, Firing
<1>3. \A q \in Publication : timer'[q] = "armed" =>
          timer[q] = "armed" /\ (IdOf[q] = c => Reused(q))
  BY <1>0 DEF ArmedTimerIsReachable
<1>4. ArmedTimerIsReachable'
  BY <1>0, <1>1, <1>3 DEF ArmedTimerIsReachable
<1>5. TimersAreAcked'
  BY <1>0 DEF TimersAreAcked
<1>6. AnsweredTimersHaveCause'
  <2> SUFFICES ASSUME NEW q \in Publication, IdOf[q] \in answered'
               PROVE  /\ timer'[q] = "armed" => Excused(q)'
                      /\ timer'[q] \in Firing => q \in racing' \/ Excused(q)'
    BY DEF AnsweredTimersHaveCause
  <2>1. timer'[q] \in Firing => timer[q] \in Firing
    BY <1>0 DEF Firing
  <2>2. CASE IdOf[q] = c
    BY <1>0, <1>1, <1>3, <2>1, <2>2 DEF Excused
  <2>3. CASE IdOf[q] # c
    BY <1>0, <1>1, <1>3, <2>1, <2>3 DEF AnsweredTimersHaveCause
  <2> QED BY <2>2, <2>3
<1>7. WrongTimeoutHasCause'
  BY <1>0, <1>1 DEF WrongTimeoutHasCause, Excused
<1> QED BY <1>2, <1>4, <1>5, <1>6, <1>7 DEF TimerInv

LEMMA CrashKeepsTimerInv ==
  ASSUME IInv, AcksStay, Crash
  PROVE  TimerInv'
<1> USE DEF Crash, IInv, TypeOK, history
<1>1. \A q \in Publication : (Reused(q) => Reused(q)') /\ (Excused(q) => Excused(q)')
  BY CausesStay
<1>2. \A q \in Publication : /\ timer'[q] \notin {"armed"} \cup Firing
                             /\ timer'[q] # "none" => timer[q] # "none"
  <2> SUFFICES ASSUME NEW q \in Publication
               PROVE  /\ timer'[q] \notin {"armed"} \cup Firing
                      /\ timer'[q] # "none" => timer[q] # "none"
    OBVIOUS
  <2>1. timer'[q] = IF timer[q] \in {"armed"} \cup Firing THEN "lost" ELSE timer[q]
    OBVIOUS
  <2> QED BY <2>1 DEF Firing
<1>3. PendingHasLiveTimer'
  BY DEF PendingHasLiveTimer
<1>4. ArmedTimerIsReachable' /\ AnsweredTimersHaveCause'
  BY <1>2 DEF ArmedTimerIsReachable, AnsweredTimersHaveCause
<1>5. TimersAreAcked'
  BY <1>2 DEF TimersAreAcked, AcksStay
<1>6. WrongTimeoutHasCause'
  BY <1>1 DEF WrongTimeoutHasCause, Excused
<1> QED BY <1>3, <1>4, <1>5, <1>6 DEF TimerInv

LEMMA NextTimerInv == IInv /\ [Next]_vars => TimerInv'
<1> SUFFICES ASSUME IInv, [Next]_vars PROVE TimerInv'
  OBVIOUS
<1>0. AcksStay
  BY StepsKeepAcks DEF IInv
<1>1. ASSUME NEW p \in Publication, PublicationStep(p) PROVE TimerInv'
  <2>1. CASE PubAck(p)
    BY <1>0, <2>1, PubAckKeepsTimerInv
  <2>2. CASE Expire(p) \/ TimerUpdated(p) \/ TimerStamped(p)
    BY <1>0, <2>2, TimerKeepsTimerInv
  <2>3. CASE Publish(p) \/ SaveRecord(p) \/ PubError(p) \/ ErrorUpdated(p)
    BY <1>0, <2>3, QuietStep DEF Publish, SaveRecord, PubError, ErrorUpdated
  <2> QED BY <1>1, <2>1, <2>2, <2>3 DEF PublicationStep
<1>2. ASSUME NEW r \in Response, ResponseStep(r) PROVE TimerInv'
  <2>1. CASE HandleResponse(r)
    BY <1>0, <2>1, HandleResponseKeepsTimerInv
  <2>2. CASE Receive(r) \/ ResponseUpdated(r) \/ ResponseStamped(r)
    BY <1>0, <2>2, QuietStep DEF Receive, ResponseUpdated, ResponseStamped
  <2> QED BY <1>2, <2>1, <2>2 DEF ResponseStep
<1>3. CASE Crash
  BY <1>0, <1>3, CrashKeepsTimerInv
<1>4. CASE UNCHANGED vars
  BY <1>0, <1>4, QuietStep DEF vars, history
<1> QED BY <1>1, <1>2, <1>3, <1>4 DEF Next

(* A report is made for an answered id, with a status from the response;   *)
(* the error callback and the timer report none of the final verdicts.     *)
LEMMA NextReportsAreAnswers == IInv /\ [Next]_vars => ReportsAreAnswers'
<1> SUFFICES ASSUME IInv, [Next]_vars PROVE ReportsAreAnswers'
  OBVIOUS
<1> USE LifecycleAssumption DEF IInv, TypeOK
<1>0. TypeOK /\ ReportsAreAnswers
  OBVIOUS
<1>1. ASSUME NEW p \in Publication, PublicationStep(p) PROVE ReportsAreAnswers'
  <2>0. UNCHANGED <<resp, verdict, answered>>
    BY <1>1 DEF PublicationStep, Publish, SaveRecord, PubAck, PubError, ErrorUpdated,
                Expire, TimerUpdated, TimerStamped, history
  <2>1. CASE asked' = asked
    BY <2>0, <2>1 DEF ReportsAreAnswers
  <2>2. ASSUME NEW s \in {"error", "timed-out"}, Update(IdOf[p], s) PROVE ReportsAreAnswers'
    <3>1. asked' = [asked EXCEPT ![IdOf[p]] = s]
      BY <1>0, <2>2, UpdateFindsNothing
    <3> QED BY <2>0, <3>1 DEF ReportsAreAnswers, FinalVerdict
  <2> QED BY <1>1, <2>1, <2>2
       DEF PublicationStep, Publish, SaveRecord, PubAck, PubError, ErrorUpdated,
           Expire, TimerUpdated, TimerStamped
<1>2. ASSUME NEW r \in Response, ResponseStep(r) PROVE ReportsAreAnswers'
  <2>1. CASE Receive(r)
    BY <2>1 DEF Receive, history, ReportsAreAnswers, Firing
  <2>2. CASE HandleResponse(r)
    BY <2>2 DEF HandleResponse, ReportsAreAnswers, Firing
  <2>3. CASE ResponseUpdated(r) \/ ResponseStamped(r)
    <3>1. /\ resp[r] \in Firing
          /\ \A q \in Response : resp'[q] \in Firing => resp[q] \in Firing
          /\ UNCHANGED <<verdict, answered>>
      BY <2>3 DEF ResponseUpdated, ResponseStamped, history, Firing
    <3>2. asked' = asked \/ asked' = [asked EXCEPT ![About[r]] = verdict[r]]
      BY <1>0, <2>3, UpdateFindsNothing DEF ResponseUpdated, ResponseStamped
    <3> QED BY <3>1, <3>2 DEF ReportsAreAnswers
  <2> QED BY <1>2, <2>1, <2>2, <2>3 DEF ResponseStep
<1>3. CASE Crash
  BY <1>3 DEF Crash, history, ReportsAreAnswers, Firing
<1>4. CASE UNCHANGED vars
  BY <1>4 DEF vars, ReportsAreAnswers
<1> QED BY <1>1, <1>2, <1>3, <1>4 DEF Next

(* The conjunction that the next theorems read off.                        *)
THEOREM IInvHolds == Spec => []IInv
<1>1. IInv /\ [Next]_vars /\ TypeOK' => IInv'
  BY NextTimerInv, NextReportsAreAnswers DEF IInv, TimerInv
<1> QED BY <1>1, InitIInv, TypeCorrect, PTL DEF Spec

(* pendingCommands holds no entry of a timer that was cleared or has run   *)
(* to its end (lines 194-197, 293, 296).                                   *)
THEOREM PendingAlwaysLive == Spec => []PendingHasLiveTimer
<1>1. IInv => PendingHasLiveTimer
  BY DEF IInv
<1> QED BY <1>1, IInvHolds, PTL

(* A response finds the armed timer of its command under the command_id,   *)
(* unless the id was used again (lines 194-196 with 296).                  *)
THEOREM ArmedAlwaysReachable == Spec => []ArmedTimerIsReachable
<1>1. IInv => ArmedTimerIsReachable
  BY DEF IInv
<1> QED BY <1>1, IInvHolds, PTL

(* A timer that fires on an answered command has one of the two causes: a  *)
(* PUBACK after the answer, or an id used twice (lines 289-296).           *)
THEOREM EveryWrongTimeoutHasCause == Spec => []WrongTimeoutHasCause
<1>1. IInv => WrongTimeoutHasCause
  BY DEF IInv
<1> QED BY <1>1, IInvHolds, PTL

(* A reported outcome is replaced by "timed-out" only by a timer that was  *)
(* already firing at the time of the answer, or for those causes (lines    *)
(* 222-223 against 291-292).                                               *)
THEOREM EveryReplacedOutcomeHasCause == Spec => OutcomeReplacedOnlyByRace
<1> DEFINE Cause(c) == \E p \in Publication : /\ IdOf[p] = c /\ timer[p] \in Firing
                                              /\ p \in racing \cup lateAck \/ Reused(p)
           Act == \A c \in CommandId :
                    asked[c] \in FinalVerdict /\ asked'[c] = "timed-out" => Cause(c)
<1>1. IInv /\ [Next]_vars => [Act]_vars
  <2> SUFFICES ASSUME IInv, [Next]_vars PROVE Act
    OBVIOUS
  <2> SUFFICES ASSUME NEW c \in CommandId,
                      asked[c] \in FinalVerdict, asked'[c] = "timed-out"
               PROVE  Cause(c)
    <3> HIDE DEF Cause
    <3> QED OBVIOUS
  <2> USE LifecycleAssumption DEF IInv
  <2>0. TypeOK /\ c \in answered /\ asked'[c] # asked[c]
    BY DEF ReportsAreAnswers, FinalVerdict
  <2>1. ASSUME NEW p \in Publication, TimerUpdated(p) \/ TimerStamped(p)
        PROVE  IdOf[p] = c /\ timer[p] \in Firing /\ (p \in racing \cup lateAck \/ Reused(p))
    <3>1. asked' = [asked EXCEPT ![IdOf[p]] = "timed-out"]
      BY <2>0, <2>1, UpdateFindsNothing DEF TimerUpdated, TimerStamped
    <3>2. IdOf[p] = c
      BY <2>0, <3>1 DEF TypeOK
    <3>3. timer[p] \in Firing
      BY <2>1 DEF TimerUpdated, TimerStamped, Firing
    <3> QED BY <2>0, <3>2, <3>3 DEF AnsweredTimersHaveCause, Excused
  <2>2. ASSUME NEW p \in Publication, ErrorUpdated(p) PROVE FALSE
    <3>1. asked' = asked \/ asked' = [asked EXCEPT ![IdOf[p]] = "error"]
      BY <2>0, <2>2, UpdateFindsNothing DEF ErrorUpdated
    <3> QED BY <2>0, <3>1 DEF TypeOK
  <2>3. ASSUME NEW r \in Response, ResponseUpdated(r) \/ ResponseStamped(r) PROVE FALSE
    <3>1. asked' = asked \/ asked' = [asked EXCEPT ![About[r]] = verdict[r]]
      BY <2>0, <2>3, UpdateFindsNothing DEF ResponseUpdated, ResponseStamped
    <3>2. verdict[r] \in Verdict
      BY <2>3 DEF ResponseUpdated, ResponseStamped, ReportsAreAnswers, Firing
    <3> QED BY <2>0, <3>1, <3>2 DEF TypeOK, Verdict, FinalVerdict
  <2>4. ASSUME UNCHANGED asked PROVE FALSE
    BY <2>0, <2>4
  <2> QED BY <2>1, <2>2, <2>3, <2>4
       DEF Next, PublicationStep, Publish, SaveRecord, PubAck, PubError, Expire,
           ResponseStep, Receive, HandleResponse, Crash, vars
<1> QED BY <1>1, IInvHolds, PTL DEF Spec, OutcomeReplacedOnlyByRace
=============================================================================
