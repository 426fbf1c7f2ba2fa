---------------------------- MODULE EventPipeline ----------------------------
(***************************************************************************)
(* How device events reach the events collection.  MqttService keeps one   *)
(* in-memory array, eventBuffer.  Each MQTT message on an events topic is  *)
(* handled by its own asynchronous callback: it first waits for            *)
(* DevicesService.updateLastSeen and then pushes the events it carries.    *)
(* A flush hands THE ARRAY ITSELF to EventsService.storeEventsBulk, waits  *)
(* for the bulk insert and then truncates the array, whatever it holds by  *)
(* that time.  Flushes are started by a 5 s interval and by every push     *)
(* that finds BatchSize events or more, and none of them waits for another.*)
(*                                                                         *)
(* History variables record, WHEN IT HAPPENS, each circumstance that can   *)
(* later cost an event or duplicate it; they never influence the others.   *)
(***************************************************************************)
EXTENDS Integers, Sequences, Functions

CONSTANTS
    Event,        \* the event objects that devices report
    Malformed,    \* those that the Event schema rejects on validation
    Delivery,     \* messages delivered on an events topic
    Carried,      \* Carried[d]: the event objects built from message d
    BatchSize,    \* MqttService.BATCH_SIZE
    Flush,        \* bound: invocations of flushEventBuffer in progress
    MaxCrash,     \* bound: restarts of the process
    StoreFails    \* whether MongoDB may refuse, or lose, part of an insert

ASSUME PipelineAssumption ==
    /\ Malformed \subseteq Event
    /\ Carried \in [Delivery -> Seq(Event)]
    /\ BatchSize \in Nat \ {0}
    /\ MaxCrash \in Nat
    /\ StoreFails \in BOOLEAN

(* Every handled message builds fresh event objects (lines 102, 126, 135,  *)
(* 147, 157), or pushes those that JSON.parse has just built (171-175).    *)
ASSUME FreshEvents ==
    /\ \A d \in Delivery : IsInjective(Carried[d])
    /\ \A c, d \in Delivery : c # d => Range(Carried[c]) \cap Range(Carried[d]) = {}

VARIABLES
    handler,      \* progress of the 'message' callback of each delivery
    buffer,       \* this.eventBuffer
    flush,        \* the invocations of flushEventBuffer
    copies,       \* how many documents of the events collection hold an event
    overlapped,   \* history: pushed while some flush was in progress
    contended,    \* history: in the buffer of two flushes in progress at once
    rejected,     \* history: in a batch that was not inserted, or not up to it
    crashed,      \* history: in the buffer when the process died
    crashes       \* number of restarts so far

vars == <<handler, buffer, flush, copies,
          overlapped, contended, rejected, crashed, crashes>>

(* A flush is "handed" once insertMany holds a reference to the array,     *)
(* "inserting" once the driver has read it, "settled" once the insert has  *)
(* ended, well or not, and its continuation waits to run.                  *)
Phase == {"idle", "handed", "inserting", "settled"}
Idle == [phase |-> "idle", batch |-> <<>>]
Active(fl) == {f \in Flush : fl[f].phase # "idle"}
TwoActive(fl) == \E f, g \in Active(fl) : f # g

(* Events that the callbacks which got that far have pushed.               *)
Pushed == UNION {Range(Carried[d]) : d \in {c \in Delivery : handler[c] = "buffered"}}

Init ==
    /\ handler = [d \in Delivery |-> "unsent"]
    /\ buffer = <<>>
    /\ flush = [f \in Flush |-> Idle]
    /\ copies = [e \in Event |-> 0]
    /\ overlapped = {}
    /\ contended = {}
    /\ rejected = {}
    /\ crashed = {}
    /\ crashes = 0

-----------------------------------------------------------------------------
(* The broker delivers a message: the callback parses it and waits for     *)
(* updateLastSeen, which never throws.  mqtt.js does not wait for the      *)
(* callback, so any number of them may be waiting.                         *)
Receive(d) ==
    /\ handler[d] = "unsent"
    /\ handler' = [handler EXCEPT ![d] = "lastSeen"]
    /\ UNCHANGED <<buffer, flush, copies, overlapped, contended, rejected, crashed, crashes>>

(* flushEventBuffer up to its await, on a buffer that holds b.             *)
StartFlush(f, b) ==
    /\ b # <<>>
    /\ flush[f].phase = "idle"
    /\ flush' = [flush EXCEPT ![f].phase = "handed"]

(* Fault for FullBufferIsFlushing: flush only beyond the batch size.       *)
Push_OffByOne(d) ==
    LET b == buffer \o Carried[d] IN
    /\ handler[d] = "lastSeen"
    /\ handler' = [handler EXCEPT ![d] = "buffered"]
    /\ buffer' = b
    /\ IF Len(b) > BatchSize THEN \E f \in Flush : StartFlush(f, b) ELSE UNCHANGED flush
    /\ UNCHANGED <<copies, overlapped, contended, rejected, crashed, crashes>>

(* Fault for TypeOK: push an array payload itself, not each of its events. *)
Push_WholePayload(d) ==
    /\ handler[d] = "lastSeen"
    /\ handler' = [handler EXCEPT ![d] = "buffered"]
    /\ buffer' = Append(buffer, Carried[d])
    /\ UNCHANGED <<flush, copies, overlapped, contended, rejected, crashed, crashes>>

(* handleEventPayload: push what the message carries, then flush when the  *)
(* buffer has reached the batch size.  The callbacks resume in any order.  *)
Push(d) ==
    LET b == buffer \o Carried[d] IN
    /\ handler[d] = "lastSeen"
    /\ handler' = [handler EXCEPT ![d] = "buffered"]
    /\ buffer' = b
    /\ \/ /\ Len(b) >= BatchSize
          /\ \E f \in Flush : StartFlush(f, b)
       \/ /\ Len(b) < BatchSize
          /\ UNCHANGED flush
    /\ overlapped' = IF Active(flush) = {} THEN overlapped
                                           ELSE overlapped \cup Range(Carried[d])
    /\ contended' = IF TwoActive(flush') THEN contended \cup Range(b) ELSE contended
    /\ UNCHANGED <<copies, rejected, crashed, crashes>>

(* Fault for EveryEventAccountedFor: the interval waits for a full batch.  *)
IntervalFlush_FullOnly ==
    /\ Len(buffer) >= BatchSize
    /\ \E f \in Flush : StartFlush(f, buffer)
    /\ UNCHANGED <<handler, buffer, copies, overlapped, contended, rejected, crashed, crashes>>

(* The interval of the constructor.  On an empty buffer it does nothing.   *)
IntervalFlush ==
    /\ \E f \in Flush : StartFlush(f, buffer)
    /\ contended' = IF TwoActive(flush') THEN contended \cup Range(buffer) ELSE contended
    /\ UNCHANGED <<handler, buffer, copies, overlapped, rejected, crashed, crashes>>

IntervalIdle ==
    /\ buffer = <<>>
    /\ UNCHANGED vars

(* insertMany reads the array it was given a reference to, and validates   *)
(* each element; one failure rejects them all and inserts none.            *)
ReadBatch(f) ==
    /\ flush[f].phase = "handed"
    /\ IF Range(buffer) \cap Malformed = {}
         THEN /\ flush' = [flush EXCEPT ![f] = [phase |-> "inserting", batch |-> buffer]]
              /\ UNCHANGED rejected
         ELSE /\ flush' = [flush EXCEPT ![f] = [phase |-> "settled", batch |-> buffer]]
              /\ rejected' = rejected \cup Range(buffer)
    /\ UNCHANGED <<handler, buffer, copies, overlapped, contended, crashed, crashes>>

(* The ordered insert stores a prefix of the batch: all of it, or what     *)
(* came before the failure.  storeEventsBulk swallows the exception.       *)
Store(f) ==
    /\ flush[f].phase = "inserting"
    /\ \E n \in 0 .. Len(flush[f].batch) :
         LET kept    == SubSeq(flush[f].batch, 1, n)
             dropped == SubSeq(flush[f].batch, n + 1, Len(flush[f].batch)) IN
         /\ n < Len(flush[f].batch) => StoreFails
         /\ copies' = [e \in Event |-> IF e \in Range(kept) THEN copies[e] + 1 ELSE copies[e]]
         /\ rejected' = rejected \cup Range(dropped)
    /\ flush' = [flush EXCEPT ![f].phase = "settled"]
    /\ UNCHANGED <<handler, buffer, overlapped, contended, crashed, crashes>>

(* Fault for LossHasCause: storeEventsBulk is not awaited.                 *)
Complete_NotAwaited(f) ==
    /\ flush[f].phase # "idle"
    /\ flush' = [flush EXCEPT ![f] = Idle]
    /\ buffer' = <<>>
    /\ UNCHANGED <<handler, copies, overlapped, contended, rejected, crashed, crashes>>

(* Fault for DuplicateHasCause, BufferDrains and ImplementsEventLog:       *)
(* nothing is truncated.                                                  *)
Complete_NoTruncation(f) ==
    /\ flush[f].phase = "settled"
    /\ flush' = [flush EXCEPT ![f] = Idle]
    /\ UNCHANGED <<handler, buffer, copies, overlapped, contended, rejected, crashed, crashes>>

(* The continuation of flushEventBuffer: this.eventBuffer.length = 0.      *)
Complete(f) ==
    /\ flush[f].phase = "settled"
    /\ flush' = [flush EXCEPT ![f] = Idle]
    /\ buffer' = <<>>
    /\ UNCHANGED <<handler, copies, overlapped, contended, rejected, crashed, crashes>>

(* The process dies and starts again.  Callbacks, buffer and flushes are   *)
(* gone; an insert already at the server may still end, which is the order *)
(* Store, Crash.  mqtt.js acknowledged the messages on arrival and uses a  *)
(* clean session, so nothing is delivered again.                           *)
Crash ==
    /\ crashes < MaxCrash
    /\ crashes' = crashes + 1
    /\ handler' = [d \in Delivery |-> IF handler[d] = "lastSeen" THEN "lost" ELSE handler[d]]
    /\ buffer' = <<>>
    /\ flush' = [f \in Flush |-> Idle]
    /\ crashed' = crashed \cup Range(buffer)
    /\ UNCHANGED <<copies, overlapped, contended, rejected>>

Next ==
    \/ \E d \in Delivery : Receive(d) \/ Push(d)
    \/ IntervalFlush
    \/ IntervalIdle
    \/ \E f \in Flush : ReadBatch(f) \/ Store(f) \/ Complete(f)
    \/ Crash

Spec == Init /\ [][Next]_vars

(* The event loop runs every continuation that is ready, the interval      *)
(* never stops, and the driver ends every insert, if only by a timeout.    *)
(* Nothing is assumed of the broker (Receive) or of restarts.              *)
Fairness ==
    /\ \A d \in Delivery : WF_vars(Push(d))
    /\ WF_vars(IntervalFlush)
    /\ \A f \in Flush : WF_vars(ReadBatch(f)) /\ WF_vars(Store(f)) /\ WF_vars(Complete(f))

FairSpec == Spec /\ Fairness

-----------------------------------------------------------------------------
TypeOK ==
    /\ handler \in [Delivery -> {"unsent", "lastSeen", "buffered", "lost"}]
    /\ buffer \in Seq(Event)
    /\ flush \in [Flush -> [phase : Phase, batch : Seq(Event)]]
    /\ copies \in [Event -> Nat]
    /\ overlapped \subseteq Event
    /\ contended \subseteq Event
    /\ rejected \subseteq Event
    /\ crashed \subseteq Event
    /\ crashes \in 0 .. MaxCrash

(* Every event that was pushed is still in the buffer or has a document,   *)
(* unless one of three things befell it: it was pushed while a flush was   *)
(* in progress, an insert that covered it failed, or the process died      *)
(* while it was buffered.  The truncation at line 234 loses nothing else.  *)
LossHasCause ==
    Pushed \subseteq Range(buffer) \cup {e \in Event : copies[e] > 0}
                       \cup overlapped \cup rejected \cup crashed

(* Why: a buffered event that none of this befell is in the batch of every *)
(* flush that has read one, and no such flush has settled, so the next     *)
(* truncation follows an insert of it.                                     *)
BatchesCoverBuffer ==
    \A e \in Pushed \ (overlapped \cup rejected \cup crashed) :
        \/ copies[e] > 0
        \/ /\ e \in Range(buffer)
           /\ \A f \in Flush : /\ flush[f].phase # "settled"
                               /\ flush[f].phase = "inserting" => e \in Range(flush[f].batch)

(* An event gets a second document only when it sat in the buffer while    *)
(* two flushes were in progress: flushes that do not overlap never store   *)
(* an event twice, and neither does a flush after a failed one.            *)
DuplicateHasCause ==
    \A e \in Event : copies[e] > 1 => e \in contended

(* A buffer that has reached the batch size is always being flushed: it    *)
(* only grows past BATCH_SIZE while an insert is outstanding (177-179).    *)
FullBufferIsFlushing ==
    Len(buffer) >= BatchSize => Active(flush) # {}

(* What the callbacks hold is settled in the end: every event of a message *)
(* whose handling has begun is stored, or one of the causes applies to it, *)
(* or the process died before it was pushed.                               *)
EveryEventAccountedFor ==
    \A d \in Delivery : \A e \in Range(Carried[d]) :
        handler[d] = "lastSeen" ~>
            \/ handler[d] = "lost"
            \/ copies[e] > 0
            \/ e \in overlapped \cup rejected \cup crashed

(* The buffer never stays occupied for ever: whatever is pushed, some      *)
(* flush empties it (the interval of line 39 with lines 229-238).          *)
BufferDrains == buffer # <<>> ~> buffer = <<>>

(* The fate of an event: it waits in the buffer or in an insert that is    *)
(* under way, also when another flush has truncated the buffer meanwhile.  *)
Waiting(e) ==
    \/ e \in Range(buffer)
    \/ \E f \in Flush : flush[f].phase = "inserting" /\ e \in Range(flush[f].batch)
Fate == [e \in Event |-> IF copies[e] > 0 THEN "stored"
                         ELSE IF Waiting(e) THEN "waiting"
                         ELSE IF e \in Pushed THEN "lost" ELSE "new"]

Log == INSTANCE EventLog WITH fate <- Fate

(* Whatever flushes overlap, fail or break off, the pipeline implements    *)
(* the log: an event is pushed once, what is lost never turns up again,    *)
(* what is stored stays so, and no pushed event is left in between.        *)
ImplementsEventLog == Log!Spec

(* What README.md:31 says of the events module, "Stores and processes      *)
(* device-generated events", as a state predicate: an event that is no     *)
(* longer in the buffer has been stored.                                   *)
PushedEventsAreKept ==
    Pushed \subseteq Range(buffer) \cup {e \in Event : copies[e] > 0}
===========================================================================
