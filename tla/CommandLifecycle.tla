--------------------------- MODULE CommandLifecycle ---------------------------
(***************************************************************************)
(* One command from MqttService.publishCommand to its verdict.  Publishing *)
(* starts two things and waits for neither: saving a record of the command *)
(* and an MQTT publish of QoS 1.  When the PUBACK arrives, a 30 s timer is *)
(* armed and entered in pendingCommands under the command_id.  A response  *)
(* of the device, which can overtake the PUBACK, clears the timer it finds *)
(* there and reports a status in two database updates; a timer that fires  *)
(* reports "timed-out" the same way and removes the entry afterwards.      *)
(*                                                                         *)
(* Records carry command_id, every update selects by commandId, a field of *)
(* no record: what is asked for (`asked`) and what is stored differ.       *)
(***************************************************************************)
EXTENDS Integers, FiniteSets

CONSTANTS
    Publication,  \* calls of publishCommand
    CommandId,    \* values of command_id
    IdOf,         \* IdOf[p]: a new uuid, or the id the client supplied (249-253)
    Response,     \* messages on the response topics
    About,        \* About[r]: the command_id in response r
    MaxCrash,     \* bound: restarts of the process
    DbFails,      \* whether a database operation may fail
    None          \* undefined

FinalVerdict == {"completed", "failed"}
Verdict == FinalVerdict \cup {"pending", "unknown"}
Status == Verdict \cup {"timed-out", "error"}
Firing == {"updating", "stamping"}

ASSUME LifecycleAssumption ==
    /\ IdOf \in [Publication -> CommandId]
    /\ About \in [Response -> CommandId]
    /\ MaxCrash \in Nat
    /\ DbFails \in BOOLEAN
    /\ None \notin Publication \cup CommandId \cup Status

VARIABLES
    save,      \* progress of createCommand for each publication
    doc,       \* the documents of deviceCommands
    ack,       \* progress of client.publish
    timer,     \* the timeout armed by each publish callback
    pending,   \* this.pendingCommands: command_id |-> whose timer
    resp,      \* progress of the 'message' callback of each response
    verdict,   \* the status computed for each response
    asked,     \* the last status anyone asked to store for a command_id
    answered,  \* history: ids whose response has been taken up
    lateAck,   \* history: publications whose PUBACK found the id answered
    racing,    \* history: publications whose timer was firing at the answer
    wrongly,   \* history: publications whose timer fired after the answer
    crashes    \* number of restarts so far

vars == <<save, doc, ack, timer, pending, resp, verdict,
          asked, answered, lateAck, racing, wrongly, crashes>>
history == <<answered, lateAck, racing, wrongly>>

Sharing(p) == {q \in Publication \ {p} : IdOf[q] = IdOf[p]}

(* Some other publication used the command_id and armed its own timer.     *)
Reused(p) == \E q \in Sharing(p) : ack[q] = "acked"

Init ==
    /\ save = [p \in Publication |-> "none"]
    /\ doc = [p \in Publication |-> None]
    /\ ack = [p \in Publication |-> "unsent"]
    /\ timer = [p \in Publication |-> "none"]
    /\ pending = [c \in CommandId |-> None]
    /\ resp = [r \in Response |-> "none"]
    /\ verdict = [r \in Response |-> None]
    /\ asked = [c \in CommandId |-> None]
    /\ answered = {}
    /\ lateAck = {}
    /\ racing = {}
    /\ wrongly = {}
    /\ crashes = 0

-----------------------------------------------------------------------------
(* CommandsService.updateCommand and updateCommandStatus: both select with *)
(* the filter { commandId }.  The schema has no such path and its strict   *)
(* mode never stores one, so the field of every document is undefined.     *)
StoredCommandId(p) == IF "commandId" \in DOMAIN doc[p] THEN doc[p].commandId ELSE None

Selected(c) == {p \in Publication : doc[p] # None /\ StoredCommandId(p) = c}

Update(c, status) ==
    /\ asked' = [asked EXCEPT ![c] = status]
    /\ doc' = IF Selected(c) = {} THEN doc
              ELSE [doc EXCEPT ![CHOOSE p \in Selected(c) : TRUE].status = status]

-----------------------------------------------------------------------------
(* publishCommand: createCommand and client.publish are called, not awaited. *)
Publish(p) ==
    /\ ack[p] = "unsent"
    /\ ack' = [ack EXCEPT ![p] = "inflight"]
    /\ save' = [save EXCEPT ![p] = "saving"]
    /\ UNCHANGED <<doc, timer, pending, resp, verdict, asked, history, crashes>>

(* createCommand saves the record, or fails, which is logged and forgotten. *)
SaveRecord(p) ==
    /\ save[p] = "saving"
    /\ \/ /\ save' = [save EXCEPT ![p] = "saved"]
          /\ doc' = [doc EXCEPT ![p] = [command_id |-> IdOf[p], status |-> "pending"]]
       \/ /\ DbFails
          /\ save' = [save EXCEPT ![p] = "failed"]
          /\ UNCHANGED doc
    /\ UNCHANGED <<ack, timer, pending, resp, verdict, asked, history, crashes>>

(* Fault for ArmedTimerIsReachable: pendingCommands.set is missing.        *)
PubAck_NoEntry(p) ==
    /\ ack[p] = "inflight"
    /\ ack' = [ack EXCEPT ![p] = "acked"]
    /\ timer' = [timer EXCEPT ![p] = "armed"]
    /\ UNCHANGED <<save, doc, pending, resp, verdict, asked, history, crashes>>

(* Fault for EveryAckedCommandGetsVerdict: no timer is armed.              *)
PubAck_NoTimer(p) ==
    /\ ack[p] = "inflight"
    /\ ack' = [ack EXCEPT ![p] = "acked"]
    /\ UNCHANGED <<save, doc, timer, pending, resp, verdict, asked, history, crashes>>

(* The publish callback without an error: arm the timer and enter it in    *)
(* pendingCommands, in place of the timer an earlier use of the id has     *)
(* there, which stays armed.                                               *)
PubAck(p) ==
    /\ ack[p] = "inflight"
    /\ ack' = [ack EXCEPT ![p] = "acked"]
    /\ timer' = [timer EXCEPT ![p] = "armed"]
    /\ pending' = [pending EXCEPT ![IdOf[p]] = p]
    /\ lateAck' = IF IdOf[p] \in answered THEN lateAck \cup {p} ELSE lateAck
    /\ UNCHANGED <<save, doc, resp, verdict, asked, answered, racing, wrongly, crashes>>

(* The publish callback with an error: no timer, and an update to "error"  *)
(* that is not awaited and whose failure is only logged.                   *)
PubError(p) ==
    /\ ack[p] = "inflight"
    /\ ack' = [ack EXCEPT ![p] = "erring"]
    /\ UNCHANGED <<save, doc, timer, pending, resp, verdict, asked, history, crashes>>

ErrorUpdated(p) ==
    /\ ack[p] = "erring"
    /\ ack' = [ack EXCEPT ![p] = "failed"]
    /\ \/ Update(IdOf[p], "error")
       \/ DbFails /\ UNCHANGED <<doc, asked>>
    /\ UNCHANGED <<save, timer, pending, resp, verdict, history, crashes>>

-----------------------------------------------------------------------------
(* A device answers a command it has been sent; the callback waits for     *)
(* updateLastSeen first.                                                   *)
Receive(r) ==
    /\ resp[r] = "none"
    /\ \E p \in Publication : IdOf[p] = About[r] /\ ack[p] # "unsent"
    /\ resp' = [resp EXCEPT ![r] = "lastSeen"]
    /\ UNCHANGED <<save, doc, ack, timer, pending, verdict, asked, history, crashes>>

(* Fault for WrongTimeoutHasCause and OutcomeReplacedOnlyByRace: the entry  *)
(* is deleted, the timer is not cleared.                                   *)
HandleResponse_NoClear(r) ==
    LET c == About[r] IN
    /\ resp[r] = "lastSeen"
    /\ resp' = [resp EXCEPT ![r] = "updating"]
    /\ \E v \in Verdict : verdict' = [verdict EXCEPT ![r] = v]
    /\ pending' = [pending EXCEPT ![c] = None]
    /\ answered' = answered \cup {c}
    /\ racing' = racing \cup {p \in Publication : IdOf[p] = c /\ timer[p] \in Firing}
    /\ UNCHANGED <<save, doc, ack, timer, asked, lateAck, wrongly, crashes>>

(* Fault for TypeOK: the device's word is stored instead of a status.      *)
HandleResponse_RawStatus(r) ==
    /\ resp[r] = "lastSeen"
    /\ resp' = [resp EXCEPT ![r] = "updating"]
    /\ verdict' = [verdict EXCEPT ![r] = "success"]
    /\ UNCHANGED <<save, doc, ack, timer, pending, asked, history, crashes>>

(* handleCommandResponse up to its first await.                            *)
HandleResponse(r) ==
    LET c == About[r] IN
    /\ resp[r] = "lastSeen"
    /\ resp' = [resp EXCEPT ![r] = "updating"]
    /\ \E v \in Verdict : verdict' = [verdict EXCEPT ![r] = v]
    /\ timer' = [p \in Publication |->
                    IF pending[c] = p /\ timer[p] = "armed" THEN "cleared" ELSE timer[p]]
    /\ pending' = [pending EXCEPT ![c] = None]
    /\ answered' = answered \cup {c}
    /\ racing' = racing \cup {p \in Publication : IdOf[p] = c /\ timer[p] \in Firing}
    /\ UNCHANGED <<save, doc, ack, asked, lateAck, wrongly, crashes>>

(* updateCommand has ended, then updateCommandStatus, then the event is    *)
(* emitted.  A failure of either ends the handling, and is only logged.    *)
ResponseUpdated(r) ==
    /\ resp[r] = "updating"
    /\ \/ /\ Update(About[r], verdict[r])
          /\ resp' = [resp EXCEPT ![r] = "stamping"]
       \/ /\ DbFails
          /\ resp' = [resp EXCEPT ![r] = "failed"]
          /\ UNCHANGED <<doc, asked>>
    /\ UNCHANGED <<save, ack, timer, pending, verdict, history, crashes>>

ResponseStamped(r) ==
    /\ resp[r] = "stamping"
    /\ \/ /\ Update(About[r], verdict[r])
          /\ resp' = [resp EXCEPT ![r] = "done"]
       \/ /\ DbFails
          /\ resp' = [resp EXCEPT ![r] = "failed"]
          /\ UNCHANGED <<doc, asked>>
    /\ UNCHANGED <<save, ack, timer, pending, verdict, history, crashes>>

-----------------------------------------------------------------------------
(* 30 s after the PUBACK: the callback runs up to its first await.         *)
Expire(p) ==
    /\ timer[p] = "armed"
    /\ timer' = [timer EXCEPT ![p] = "updating"]
    /\ wrongly' = IF IdOf[p] \in answered THEN wrongly \cup {p} ELSE wrongly
    /\ UNCHANGED <<save, doc, ack, pending, resp, verdict, asked,
                   answered, lateAck, racing, crashes>>

TimerUpdated(p) ==
    /\ timer[p] = "updating"
    /\ Update(IdOf[p], "timed-out")
    /\ timer' = [timer EXCEPT ![p] = "stamping"]
    /\ UNCHANGED <<save, ack, pending, resp, verdict, history, crashes>>

(* Fault for PendingHasLiveTimer: the entry outlives its timer.            *)
TimerStamped_NoDelete(p) ==
    /\ timer[p] = "stamping"
    /\ Update(IdOf[p], "timed-out")
    /\ timer' = [timer EXCEPT ![p] = "done"]
    /\ UNCHANGED <<save, ack, pending, resp, verdict, history, crashes>>

(* The entry of the id is removed, even if it belongs to a later timer.    *)
TimerStamped(p) ==
    /\ timer[p] = "stamping"
    /\ Update(IdOf[p], "timed-out")
    /\ timer' = [timer EXCEPT ![p] = "done"]
    /\ pending' = [pending EXCEPT ![IdOf[p]] = None]
    /\ UNCHANGED <<save, ack, resp, verdict, history, crashes>>

(* The process dies and starts again: timers, callbacks, pendingCommands   *)
(* and the in-memory store of mqtt.js are gone.  A failed update inside    *)
(* the timer callback is one way to get here: nothing catches it.          *)
Crash ==
    /\ crashes < MaxCrash
    /\ crashes' = crashes + 1
    /\ save' = [p \in Publication |-> IF save[p] = "saving" THEN "failed" ELSE save[p]]
    /\ ack' = [p \in Publication |-> IF ack[p] \in {"inflight", "erring"} THEN "lost" ELSE ack[p]]
    /\ timer' = [p \in Publication |->
                    IF timer[p] \in {"armed"} \cup Firing THEN "lost" ELSE timer[p]]
    /\ pending' = [c \in CommandId |-> None]
    /\ resp' = [r \in Response |->
                   IF resp[r] \in {"lastSeen"} \cup Firing THEN "lost" ELSE resp[r]]
    /\ UNCHANGED <<doc, verdict, asked, history>>

PublicationStep(p) ==
    Publish(p) \/ SaveRecord(p) \/ PubAck(p) \/ PubError(p) \/ ErrorUpdated(p)
      \/ Expire(p) \/ TimerUpdated(p) \/ TimerStamped(p)
ResponseStep(r) ==
    Receive(r) \/ HandleResponse(r) \/ ResponseUpdated(r) \/ ResponseStamped(r)

Next ==
    \/ \E p \in Publication : PublicationStep(p)
    \/ \E r \in Response : ResponseStep(r)
    \/ Crash

Spec == Init /\ [][Next]_vars

(* Timers fire, callbacks resume and database operations end.  No fairness *)
(* for the broker (PubAck, PubError), the devices (Receive) or the callers *)
(* of publishCommand.                                                      *)
Fairness ==
    /\ \A p \in Publication :
         /\ WF_vars(SaveRecord(p)) /\ WF_vars(ErrorUpdated(p))
         /\ WF_vars(Expire(p) \/ TimerUpdated(p) \/ TimerStamped(p))
    /\ \A r \in Response :
         WF_vars(HandleResponse(r) \/ ResponseUpdated(r) \/ ResponseStamped(r))

FairSpec == Spec /\ Fairness

-----------------------------------------------------------------------------
TypeOK ==
    /\ save \in [Publication -> {"none", "saving", "saved", "failed"}]
    /\ doc \in [Publication -> {None} \cup [command_id : CommandId, status : Status]]
    /\ ack \in [Publication -> {"unsent", "inflight", "acked", "erring", "failed", "lost"}]
    /\ timer \in [Publication -> {"none", "armed", "cleared", "done", "lost"} \cup Firing]
    /\ pending \in [CommandId -> Publication \cup {None}]
    /\ resp \in [Response -> {"none", "lastSeen", "done", "failed", "lost"} \cup Firing]
    /\ verdict \in [Response -> Verdict \cup {None}]
    /\ asked \in [CommandId -> Status \cup {None}]
    /\ answered \subseteq CommandId
    /\ lateAck \subseteq Publication
    /\ racing \subseteq Publication
    /\ wrongly \subseteq Publication
    /\ crashes \in 0 .. MaxCrash

(* pendingCommands holds no dead entry: the timer under a command_id is    *)
(* that of a publication of this id and has neither been cleared nor run   *)
(* to its end (lines 194-197, 293, 296, also when ids are reused).         *)
PendingHasLiveTimer ==
    \A c \in CommandId : pending[c] # None =>
        IdOf[pending[c]] = c /\ timer[pending[c]] \in {"armed"} \cup Firing

(* A response can find the timer of the command it answers: an armed timer *)
(* is the one in pendingCommands unless its id was used again (line 296    *)
(* replaces the entry, line 293 may remove that of another publication).   *)
ArmedTimerIsReachable ==
    \A p \in Publication : timer[p] = "armed" =>
        pending[IdOf[p]] = p \/ Reused(p)

(* A timer fires on an answered command only if its PUBACK came after the  *)
(* answer or the id was used twice; a response after the PUBACK of a fresh *)
(* id always prevents the timeout (lines 194-197 against 289-296).         *)
WrongTimeoutHasCause ==
    \A p \in wrongly : p \in lateAck \/ Reused(p)

(* Once an outcome has been reported for an answered command, a report of  *)
(* "timed-out" replaces it only if the timer that reports it was already   *)
(* firing at the time of the answer, or for one of the causes above (lines *)
(* 222-223 and 291-292 are not ordered by anything else).                  *)
OutcomeReplacedOnlyByRace ==
    [][\A c \in CommandId :
          asked[c] \in FinalVerdict /\ asked'[c] = "timed-out" =>
              \E p \in Publication : /\ IdOf[p] = c /\ timer[p] \in Firing
                                     /\ p \in racing \cup lateAck \/ Reused(p)]_vars

(* An acknowledged command does not stay without a verdict: some status is *)
(* asked for it, unless the handling of its response broke off after it    *)
(* had cleared the timer, or the process died (lines 289-296 with 194-223).*)
EveryAckedCommandGetsVerdict ==
    \A p \in Publication :
        ack[p] = "acked" ~> \/ asked[IdOf[p]] # None
                            \/ timer[p] = "lost"
                            \/ \E r \in Response :
                                  About[r] = IdOf[p] /\ resp[r] \in {"failed", "lost"}

(* mqtt.service.ts:288, 'Set timeout to mark command as "timed-out" if no  *)
(* response is received': the stored record says so once the timer is done.*)
TimeoutIsRecorded ==
    \A p \in Publication :
        timer[p] = "done" /\ doc[p] # None => doc[p].status # "pending"

(* The same comment, "if no response is received": no timer fires for a    *)
(* command of which a response has arrived at the 'message' callback.      *)
ReceivedNeverTimesOut ==
    [][\A p \in Publication : timer[p] = "armed" /\ timer'[p] = "updating" =>
          \A r \in Response : About[r] = IdOf[p] => resp[r] = "none"]_vars
=============================================================================
