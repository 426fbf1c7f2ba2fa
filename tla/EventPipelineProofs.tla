------------------------- MODULE EventPipelineProofs -------------------------
(* Theorems about EventPipeline, for any events, messages, batch size,     *)
(* number of flushes in progress and number of restarts.                   *)
EXTENDS EventPipeline, TLAPS

-----------------------------------------------------------------------------
(* The set of elements of a sequence.                                      *)
LEMMA RangeOfEmpty == Range(<<>>) = {}
  BY DEF Range

LEMMA RangeOfConcat ==
  ASSUME NEW S, NEW s \in Seq(S), NEW t \in Seq(S)
  PROVE  Range(s \o t) = Range(s) \cup Range(t)
<1>1. ASSUME NEW x \in Range(s \o t) PROVE x \in Range(s) \cup Range(t)
  BY <1>1 DEF Range
<1>2. ASSUME NEW x \in Range(s) PROVE x \in Range(s \o t)
  <2>1. PICK i \in 1 .. Len(s) : x = s[i]
    BY <1>2 DEF Range
  <2>2. i \in DOMAIN (s \o t) /\ (s \o t)[i] = x
    BY <2>1
  <2> QED BY <2>2 DEF Range
<1>3. ASSUME NEW x \in Range(t) PROVE x \in Range(s \o t)
  <2>1. PICK i \in 1 .. Len(t) : x = t[i]
    BY <1>3 DEF Range
  <2>2. Len(s) + i \in DOMAIN (s \o t) /\ (s \o t)[Len(s) + i] = x
    BY <2>1
  <2> QED BY <2>2 DEF Range
<1> QED BY <1>1, <1>2, <1>3

LEMMA RangeOfSplit ==
  ASSUME NEW S, NEW s \in Seq(S), NEW n \in 0 .. Len(s)
  PROVE  /\ SubSeq(s, 1, n) \in Seq(S)
         /\ SubSeq(s, n + 1, Len(s)) \in Seq(S)
         /\ Range(s) = Range(SubSeq(s, 1, n)) \cup Range(SubSeq(s, n + 1, Len(s)))
<1> DEFINE front == SubSeq(s, 1, n)
           back  == SubSeq(s, n + 1, Len(s))
<1>1. /\ front \in Seq(S) /\ Len(front) = n
      /\ \A i \in 1 .. n : front[i] = s[i]
  OBVIOUS
<1>2. /\ back \in Seq(S) /\ Len(back) = Len(s) - n
      /\ \A i \in 1 .. Len(s) - n : back[i] = s[n + i]
  OBVIOUS
<1>3. ASSUME NEW x \in Range(s) PROVE x \in Range(front) \cup Range(back)
  <2>1. PICK i \in 1 .. Len(s) : x = s[i]
    BY <1>3 DEF Range
  <2>2. CASE i <= n
    BY <1>1, <2>1, <2>2 DEF Range
  <2>3. CASE i > n
    <3>1. i - n \in DOMAIN back /\ back[i - n] = x
      BY <1>2, <2>1, <2>3
    <3> HIDE DEF front, back
    <3> QED BY <3>1 DEF Range
  <2> QED BY <2>1, <2>2, <2>3
<1>4. ASSUME NEW x \in Range(front) \cup Range(back) PROVE x \in Range(s)
  BY <1>1, <1>2, <1>4 DEF Range
<1> QED BY <1>1, <1>2, <1>3, <1>4

LEMMA RangeOfType ==
  ASSUME NEW S, NEW s \in Seq(S)
  PROVE  Range(s) \subseteq S
  BY DEF Range

-----------------------------------------------------------------------------
(* Type correctness.                                                       *)
LEMMA InitTypeOK == Init => TypeOK
  BY PipelineAssumption DEF Init, TypeOK, Phase, Idle

(* What a message carries is a sequence of events.                         *)
LEMMA CarriedType ==
  ASSUME NEW d \in Delivery
  PROVE  Carried[d] \in Seq(Event) /\ Range(Carried[d]) \subseteq Event
<1>1. Carried[d] \in Seq(Event)
  BY PipelineAssumption
<1> QED BY <1>1, RangeOfType

LEMMA StartFlushType ==
  ASSUME TypeOK, NEW f \in Flush, NEW b, StartFlush(f, b)
  PROVE  flush' \in [Flush -> [phase : Phase, batch : Seq(Event)]]
  BY DEF TypeOK, StartFlush, Phase

LEMMA NextTypeOK == TypeOK /\ [Next]_vars => TypeOK'
<1> SUFFICES ASSUME TypeOK, [Next]_vars PROVE TypeOK'
  OBVIOUS
<1>1. ASSUME NEW d \in Delivery, Receive(d) PROVE TypeOK'
  BY <1>1 DEF Receive, TypeOK
<1>2. ASSUME NEW d \in Delivery, Push(d) PROVE TypeOK'
  <2>1. buffer' \in Seq(Event) /\ Range(buffer') \subseteq Event
    <3>1. buffer' \in Seq(Event)
      BY <1>2, CarriedType DEF Push, TypeOK
    <3> QED BY <3>1, RangeOfType
  <2>2. flush' \in [Flush -> [phase : Phase, batch : Seq(Event)]]
    BY <1>2, StartFlushType DEF Push, TypeOK
  <2>3. overlapped' \subseteq Event /\ contended' \subseteq Event
    <3>1. overlapped' \subseteq overlapped \cup Range(Carried[d])
      BY <1>2 DEF Push
    <3>2. contended' \subseteq contended \cup Range(buffer')
      BY <1>2 DEF Push
    <3> QED BY <2>1, <3>1, <3>2, CarriedType DEF TypeOK
  <2> QED BY <1>2, <2>1, <2>2, <2>3 DEF Push, TypeOK
<1>3. ASSUME IntervalFlush PROVE TypeOK'
  <2>1. flush' \in [Flush -> [phase : Phase, batch : Seq(Event)]]
    BY <1>3, StartFlushType DEF IntervalFlush
  <2>2. contended' \subseteq Event
    <3>1. Range(buffer) \subseteq Event
      BY RangeOfType DEF TypeOK
    <3> QED BY <1>3, <3>1 DEF IntervalFlush, TypeOK
  <2> QED BY <1>3, <2>1, <2>2 DEF IntervalFlush, TypeOK
<1>4. ASSUME NEW f \in Flush, ReadBatch(f) PROVE TypeOK'
  <2>1. Range(buffer) \subseteq Event
    BY RangeOfType DEF TypeOK
  <2>2. flush' \in [Flush -> [phase : Phase, batch : Seq(Event)]]
    <3>1. \A p \in Phase : [phase |-> p, batch |-> buffer] \in [phase : Phase, batch : Seq(Event)]
      BY DEF TypeOK
    <3>2. PICK p \in Phase : flush' = [flush EXCEPT ![f] = [phase |-> p, batch |-> buffer]]
      BY <1>4 DEF ReadBatch, Phase
    <3> QED BY <3>1, <3>2 DEF TypeOK
  <2>3. rejected' \subseteq Event
    BY <1>4, <2>1 DEF ReadBatch, TypeOK
  <2> QED BY <1>4, <2>2, <2>3 DEF ReadBatch, TypeOK
<1>5. ASSUME NEW f \in Flush, Store(f) PROVE TypeOK'
  <2>1. flush[f].batch \in Seq(Event)
    BY DEF TypeOK
  <2>2. PICK n \in 0 .. Len(flush[f].batch) :
          /\ copies' = [e \in Event |-> IF e \in Range(SubSeq(flush[f].batch, 1, n))
                                          THEN copies[e] + 1 ELSE copies[e]]
          /\ rejected' = rejected \cup
                 Range(SubSeq(flush[f].batch, n + 1, Len(flush[f].batch)))
    BY <1>5 DEF Store
  <2>3. rejected' \subseteq Event
    <3>1. SubSeq(flush[f].batch, n + 1, Len(flush[f].batch)) \in Seq(Event)
      BY <2>1, RangeOfSplit
    <3>2. Range(SubSeq(flush[f].batch, n + 1, Len(flush[f].batch))) \subseteq Event
      BY <3>1, RangeOfType
    <3> QED BY <2>2, <3>2 DEF TypeOK
  <2>4. copies' \in [Event -> Nat]
    BY <2>2 DEF TypeOK
  <2>5. flush' \in [Flush -> [phase : Phase, batch : Seq(Event)]]
    BY <1>5 DEF Store, TypeOK, Phase
  <2> QED BY <1>5, <2>3, <2>4, <2>5 DEF Store, TypeOK
<1>6. ASSUME NEW f \in Flush, Complete(f) PROVE TypeOK'
  BY <1>6 DEF Complete, TypeOK, Phase, Idle
<1>7. ASSUME Crash PROVE TypeOK'
  <2>1. Range(buffer) \subseteq Event
    BY RangeOfType DEF TypeOK
  <2> QED BY <1>7, <2>1, PipelineAssumption DEF Crash, TypeOK, Phase, Idle
<1>8. ASSUME UNCHANGED vars PROVE TypeOK'
  BY <1>8 DEF vars, TypeOK
<1> QED BY <1>1, <1>2, <1>3, <1>4, <1>5, <1>6, <1>7, <1>8 DEF Next, IntervalIdle

(* The variables keep their types whatever fails and however callbacks     *)
(* interleave.                                                             *)
THEOREM TypeCorrect == Spec => []TypeOK
  BY InitTypeOK, NextTypeOK, PTL DEF Spec

-----------------------------------------------------------------------------
(* A buffer at the batch size is being flushed: inductive with the types.  *)
LEMMA NextFullBufferIsFlushing ==
  TypeOK /\ FullBufferIsFlushing /\ [Next]_vars => FullBufferIsFlushing'
<1> SUFFICES ASSUME TypeOK, FullBufferIsFlushing, [Next]_vars,
                    Len(buffer') >= BatchSize
             PROVE  \E f \in Flush : flush'[f].phase # "idle"
  BY DEF FullBufferIsFlushing, Active
<1>1. ASSUME NEW f \in Flush, NEW b, StartFlush(f, b)
      PROVE  flush'[f].phase # "idle"
  BY <1>1 DEF StartFlush, TypeOK
<1>2. ASSUME UNCHANGED <<buffer, flush>> PROVE \E f \in Flush : flush'[f].phase # "idle"
  BY <1>2 DEF FullBufferIsFlushing, Active
<1>3. ASSUME NEW d \in Delivery, Push(d) PROVE \E f \in Flush : flush'[f].phase # "idle"
  <2>1. Len(buffer \o Carried[d]) \in Nat
    BY CarriedType DEF TypeOK
  <2> QED BY <1>1, <1>3, <2>1, PipelineAssumption DEF Push
<1>4. ASSUME IntervalFlush PROVE \E f \in Flush : flush'[f].phase # "idle"
  BY <1>1, <1>4 DEF IntervalFlush
<1>5. ASSUME NEW f \in Flush, ReadBatch(f) PROVE flush'[f].phase # "idle"
  BY <1>5 DEF ReadBatch, TypeOK
<1>6. ASSUME NEW f \in Flush, Store(f) PROVE flush'[f].phase # "idle"
  BY <1>6 DEF Store, TypeOK
<1>7. buffer' # <<>>
  BY PipelineAssumption
<1> QED BY <1>2, <1>3, <1>4, <1>5, <1>6, <1>7
        DEF Next, Receive, IntervalIdle, Complete, Crash, vars

(* The buffer exceeds BATCH_SIZE only while an insert is outstanding.      *)
THEOREM FullBufferAlwaysFlushing == Spec => []FullBufferIsFlushing
<1>1. Init => FullBufferIsFlushing
  BY PipelineAssumption DEF Init, FullBufferIsFlushing
<1> QED BY <1>1, NextFullBufferIsFlushing, TypeCorrect, PTL DEF Spec

-----------------------------------------------------------------------------
(* What a step does to the set of pushed events.                           *)
LEMMA PushedUnchanged ==
  ASSUME \A d \in Delivery : handler'[d] = "buffered" <=> handler[d] = "buffered"
  PROVE  Pushed' = Pushed
  BY DEF Pushed

LEMMA PushedGrows ==
  ASSUME TypeOK, NEW d \in Delivery, Push(d)
  PROVE  Pushed' = Pushed \cup Range(Carried[d])
<1>1. {c \in Delivery : handler'[c] = "buffered"}
        = {c \in Delivery : handler[c] = "buffered"} \cup {d}
  BY DEF TypeOK, Push
<1> QED BY <1>1 DEF Pushed

LEMMA NextPushed ==
  ASSUME TypeOK, [Next]_vars
  PROVE  Pushed' = Pushed \/ \E d \in Delivery : Push(d)
<1>1. ASSUME UNCHANGED handler PROVE Pushed' = Pushed
  BY <1>1, PushedUnchanged
<1>2. ASSUME NEW d \in Delivery, Receive(d) PROVE Pushed' = Pushed
  BY <1>2, PushedUnchanged DEF Receive, TypeOK
<1>3. ASSUME Crash PROVE Pushed' = Pushed
  BY <1>3, PushedUnchanged DEF Crash, TypeOK
<1> QED BY <1>1, <1>2, <1>3
        DEF Next, IntervalFlush, IntervalIdle, ReadBatch, Store, Complete, vars

-----------------------------------------------------------------------------
(* Losses have a cause.  Excused: the events that something has befallen;  *)
(* Safe(e): e is stored, or the next insert to settle will store it.       *)
Excused == overlapped \cup rejected \cup crashed

Safe(e) ==
    \/ copies[e] > 0
    \/ /\ e \in Range(buffer)
       /\ \A f \in Flush : /\ flush[f].phase # "settled"
                           /\ flush[f].phase = "inserting" => e \in Range(flush[f].batch)

(* Each step keeps the safe events safe, or records why not.               *)
LEMMA SafeKept ==
  ASSUME TypeOK, [Next]_vars, NEW e \in Event, Safe(e), e \notin Excused'
  PROVE  Safe(e)'
<1> USE DEF Safe, Excused
<1>1. ASSUME NEW d \in Delivery, Receive(d) PROVE Safe(e)'
  BY <1>1 DEF Receive
<1>2. ASSUME NEW d \in Delivery, Push(d) PROVE Safe(e)'
  <2>1. Range(buffer') = Range(buffer) \cup Range(Carried[d])
    BY <1>2, CarriedType, RangeOfConcat DEF Push, TypeOK
  <2>2. \A f \in Flush : \/ flush'[f] = flush[f]
                         \/ flush'[f].phase = "handed"
    BY <1>2 DEF Push, StartFlush, TypeOK
  <2> QED BY <1>2, <2>1, <2>2 DEF Push
<1>3. ASSUME IntervalFlush PROVE Safe(e)'
  <2>1. \A f \in Flush : \/ flush'[f] = flush[f]
                         \/ flush'[f].phase = "handed"
    BY <1>3 DEF IntervalFlush, StartFlush, TypeOK
  <2> QED BY <1>3, <2>1 DEF IntervalFlush
<1>4. ASSUME NEW f \in Flush, ReadBatch(f) PROVE Safe(e)'
  <2>1. CASE copies[e] > 0
    BY <1>4, <2>1 DEF ReadBatch
  <2>2. CASE ~(copies[e] > 0)
    <3>1. e \in Range(buffer)
      BY <2>2
    <3>2. flush' = [flush EXCEPT ![f] = [phase |-> "inserting", batch |-> buffer]]
      BY <1>4, <3>1 DEF ReadBatch
    <3> QED BY <1>4, <2>2, <3>1, <3>2 DEF ReadBatch, TypeOK
  <2> QED BY <2>1, <2>2
<1>5. ASSUME NEW f \in Flush, Store(f) PROVE Safe(e)'
  <2>1. flush[f].batch \in Seq(Event)
    BY DEF TypeOK
  <2>2. PICK n \in 0 .. Len(flush[f].batch) :
          /\ copies' = [x \in Event |-> IF x \in Range(SubSeq(flush[f].batch, 1, n))
                                          THEN copies[x] + 1 ELSE copies[x]]
          /\ rejected' = rejected \cup
                 Range(SubSeq(flush[f].batch, n + 1, Len(flush[f].batch)))
    BY <1>5 DEF Store
  <2>3. copies[e] \in Nat
    BY DEF TypeOK
  <2>4. CASE copies[e] > 0
    BY <2>2, <2>3, <2>4
  <2>5. CASE ~(copies[e] > 0)
    <3>1. e \in Range(flush[f].batch)
      BY <1>5, <2>5 DEF Store
    <3>2. e \in Range(SubSeq(flush[f].batch, 1, n))
      BY <2>1, <2>2, <3>1, RangeOfSplit
    <3> QED BY <2>2, <2>3, <3>2
  <2> QED BY <2>4, <2>5
<1>6. ASSUME NEW f \in Flush, Complete(f) PROVE Safe(e)'
  BY <1>6 DEF Complete
<1>7. ASSUME Crash PROVE Safe(e)'
  BY <1>7 DEF Crash
<1>8. ASSUME UNCHANGED vars PROVE Safe(e)'
  BY <1>8 DEF vars
<1> QED BY <1>1, <1>2, <1>3, <1>4, <1>5, <1>6, <1>7, <1>8 DEF Next, IntervalIdle

(* The events of a message are safe when they have just been pushed.       *)
LEMMA PushedIsSafe ==
  ASSUME TypeOK, NEW d \in Delivery, Push(d), NEW e \in Range(Carried[d]),
         e \notin overlapped'
  PROVE  Safe(e)'
<1>1. Active(flush) = {}
  BY DEF Push
<1>2. \A f \in Flush : flush'[f].phase \in {"idle", "handed"}
  <2>1. \A f \in Flush : flush[f].phase = "idle"
    BY <1>1 DEF Active
  <2>2. \A f \in Flush : \/ flush'[f] = flush[f]
                         \/ flush'[f].phase = "handed"
    BY DEF Push, StartFlush, TypeOK
  <2> QED BY <2>1, <2>2
<1>3. e \in Range(buffer')
  BY CarriedType, RangeOfConcat DEF Push, TypeOK
<1> QED BY <1>2, <1>3 DEF Safe

LEMMA ExcusesStay == TypeOK /\ [Next]_vars => Excused \subseteq Excused'
<1> SUFFICES ASSUME TypeOK, [Next]_vars PROVE Excused \subseteq Excused'
  OBVIOUS
<1>1. overlapped \subseteq overlapped' /\ crashed \subseteq crashed'
  BY DEF Next, Receive, Push, IntervalFlush, IntervalIdle, ReadBatch, Store, Complete,
         Crash, vars
<1>2. rejected \subseteq rejected'
  BY DEF Next, Receive, Push, IntervalFlush, IntervalIdle, ReadBatch, Store, Complete,
         Crash, vars
<1> QED BY <1>1, <1>2 DEF Excused

LEMMA PushedType == Pushed \subseteq Event
  BY CarriedType DEF Pushed

LEMMA NextBatchesCoverBuffer ==
  TypeOK /\ BatchesCoverBuffer /\ [Next]_vars => BatchesCoverBuffer'
<1> SUFFICES ASSUME TypeOK, BatchesCoverBuffer, [Next]_vars,
                    NEW e \in Pushed', e \notin Excused'
             PROVE  Safe(e)'
  BY DEF BatchesCoverBuffer, Safe, Excused
<1>1. e \notin Excused
  BY ExcusesStay
<1>2. CASE e \in Pushed
  <2>1. Safe(e)
    BY <1>1, <1>2 DEF BatchesCoverBuffer, Safe, Excused
  <2> QED BY <1>2, <2>1, SafeKept, PushedType
<1>3. CASE e \notin Pushed
  <2>1. PICK d \in Delivery : Push(d)
    BY <1>3, NextPushed
  <2>2. e \in Range(Carried[d])
    BY <1>3, <2>1, PushedGrows
  <2> QED BY <2>1, <2>2, PushedIsSafe DEF Excused
<1> QED BY <1>2, <1>3

(* Every flush in progress covers the events that nothing has befallen.    *)
THEOREM BatchesAlwaysCoverBuffer == Spec => []BatchesCoverBuffer
<1>1. Init => BatchesCoverBuffer
  BY DEF Init, BatchesCoverBuffer, Pushed
<1> QED BY <1>1, NextBatchesCoverBuffer, TypeCorrect, PTL DEF Spec

(* A pushed event is buffered or stored, unless it was pushed while a      *)
(* flush was in progress, an insert that covered it failed, or the process *)
(* died while it was buffered.                                             *)
THEOREM EveryLossHasCause == Spec => []LossHasCause
<1>1. TypeOK /\ BatchesCoverBuffer => LossHasCause
  BY PushedType DEF BatchesCoverBuffer, LossHasCause
<1> QED BY <1>1, BatchesAlwaysCoverBuffer, TypeCorrect, PTL

-----------------------------------------------------------------------------
(* Duplicates have a cause.  Untouched(e): an event that has not been      *)
(* pushed is nowhere.  Once(e): an event has one document at most, and     *)
(* while it has none, or its flush has not truncated the buffer yet, no    *)
(* second flush is in progress.                                            *)
Untouched(e) ==
    /\ copies[e] = 0
    /\ e \notin Range(buffer)
    /\ \A f \in Flush : flush[f].phase = "inserting" => e \notin Range(flush[f].batch)

Once(e) ==
    /\ copies[e] \in {0, 1}
    /\ e \in Range(buffer) => ~ TwoActive(flush)
    /\ e \in Range(buffer) /\ copies[e] = 1 => \E f \in Flush : flush[f].phase = "settled"
    /\ \A f \in Flush :
         flush[f].phase = "inserting" /\ e \in Range(flush[f].batch) =>
            copies[e] = 0 /\ e \in Range(buffer)

OnceInv ==
    /\ \A e \in Event \ Pushed : Untouched(e)
    /\ \A e \in Event \ contended : Once(e)

(* Two flushes in progress are two different elements of Flush.            *)
LEMMA TwoActiveBy ==
  ASSUME NEW f \in Flush, NEW g \in Flush, f # g,
         flush[f].phase # "idle", flush[g].phase # "idle"
  PROVE  TwoActive(flush)
  BY DEF TwoActive, Active

(* The effect of Store(f) on one event.                                    *)
LEMMA StoreEffect ==
  ASSUME TypeOK, NEW f \in Flush, Store(f), NEW e \in Event
  PROVE  \/ copies'[e] = copies[e]
         \/ e \in Range(flush[f].batch) /\ copies'[e] = copies[e] + 1
<1>1. flush[f].batch \in Seq(Event)
  BY DEF TypeOK
<1>2. PICK n \in 0 .. Len(flush[f].batch) :
        copies' = [x \in Event |-> IF x \in Range(SubSeq(flush[f].batch, 1, n))
                                    THEN copies[x] + 1 ELSE copies[x]]
  BY DEF Store
<1>3. Range(SubSeq(flush[f].batch, 1, n)) \subseteq Range(flush[f].batch)
  BY <1>1, RangeOfSplit
<1> QED BY <1>2, <1>3

LEMMA StartFlushEffect ==
  ASSUME TypeOK, NEW f \in Flush, NEW b, StartFlush(f, b)
  PROVE  \A g \in Flush :
            flush'[g] = flush[g] \/ (flush[g].phase = "idle" /\ flush'[g].phase = "handed")
<1>1. /\ flush[f].phase = "idle"
      /\ flush' = [flush EXCEPT ![f].phase = "handed"]
  BY DEF StartFlush
<1>2. flush'[f].phase = "handed" /\ \A g \in Flush \ {f} : flush'[g] = flush[g]
  BY <1>1 DEF TypeOK
<1> QED BY <1>1, <1>2

(* The buffer after a push, and the flushes after one may have been begun. *)
LEMMA PushEffect ==
  ASSUME TypeOK, NEW d \in Delivery, Push(d)
  PROVE  /\ Range(buffer') = Range(buffer) \cup Range(Carried[d])
         /\ \A f \in Flush :
              flush'[f] = flush[f] \/ (flush[f].phase = "idle" /\ flush'[f].phase = "handed")
<1>1. Range(buffer') = Range(buffer) \cup Range(Carried[d])
  BY CarriedType, RangeOfConcat DEF Push, TypeOK
<1> QED BY <1>1, StartFlushEffect DEF Push

LEMMA NextUntouched ==
  ASSUME TypeOK, [Next]_vars, NEW e \in Event, Untouched(e), e \notin Pushed'
  PROVE  Untouched(e)'
<1> USE DEF Untouched
<1>1. ASSUME NEW d \in Delivery, Receive(d) PROVE Untouched(e)'
  BY <1>1 DEF Receive
<1>2. ASSUME NEW d \in Delivery, Push(d) PROVE Untouched(e)'
  <2>1. e \notin Range(Carried[d])
    BY <1>2, PushedGrows
  <2> QED BY <1>2, <2>1, PushEffect DEF Push
<1>3. ASSUME IntervalFlush PROVE Untouched(e)'
  <2>1. \A f \in Flush : flush'[f] = flush[f] \/ flush'[f].phase = "handed"
    BY <1>3 DEF IntervalFlush, StartFlush, TypeOK
  <2> QED BY <1>3, <2>1 DEF IntervalFlush
<1>4. ASSUME NEW f \in Flush, ReadBatch(f) PROVE Untouched(e)'
  <2>1. \A g \in Flush : flush'[g] = flush[g] \/ flush'[g].batch = buffer
    BY <1>4 DEF ReadBatch, TypeOK
  <2> QED BY <1>4, <2>1 DEF ReadBatch
<1>5. ASSUME NEW f \in Flush, Store(f) PROVE Untouched(e)'
  <2>1. copies'[e] = copies[e]
    BY <1>5, StoreEffect DEF Store
  <2>2. \A g \in Flush : flush'[g] = flush[g] \/ flush'[g].phase = "settled"
    BY <1>5 DEF Store, TypeOK
  <2> QED BY <1>5, <2>1, <2>2 DEF Store
<1>6. ASSUME NEW f \in Flush, Complete(f) PROVE Untouched(e)'
  <2>1. \A g \in Flush : flush'[g] = flush[g] \/ flush'[g].phase = "idle"
    BY <1>6 DEF Complete, Idle, TypeOK
  <2> QED BY <1>6, <2>1, RangeOfEmpty DEF Complete
<1>7. ASSUME Crash PROVE Untouched(e)'
  BY <1>7, RangeOfEmpty DEF Crash, Idle
<1>8. ASSUME UNCHANGED vars PROVE Untouched(e)'
  BY <1>8 DEF vars
<1> QED BY <1>1, <1>2, <1>3, <1>4, <1>5, <1>6, <1>7, <1>8 DEF Next, IntervalIdle

(* A message is pushed once, and no other message carries its events.      *)
LEMMA PushedAreFresh ==
  ASSUME TypeOK, NEW d \in Delivery, Push(d)
  PROVE  Range(Carried[d]) \cap Pushed = {}
<1>1. \A c \in Delivery : handler[c] = "buffered" => c # d
  BY DEF Push
<1> QED BY <1>1, FreshEvents DEF Pushed

LEMMA ContendedStays == [Next]_vars => contended \subseteq contended'
  BY DEF Next, Receive, Push, IntervalFlush, IntervalIdle, ReadBatch, Store, Complete,
         Crash, vars

LEMMA NextOnce ==
  ASSUME TypeOK, OnceInv, [Next]_vars, NEW e \in Event, e \notin contended'
  PROVE  Once(e)'
<1>1. Once(e)
  BY ContendedStays DEF OnceInv
<1>2. ASSUME NEW d \in Delivery, Receive(d) PROVE Once(e)'
  BY <1>1, <1>2 DEF Receive, Once
<1>3. ASSUME NEW d \in Delivery, Push(d) PROVE Once(e)'
  <2>1. e \in Range(buffer') => ~ TwoActive(flush')
    BY <1>3 DEF Push
  <2>2. e \in Range(Carried[d]) => copies[e] = 0
    BY <1>3, PushedAreFresh DEF OnceInv, Untouched
  <2>3. copies' = copies
    BY <1>3 DEF Push
  <2>4. /\ Range(buffer') = Range(buffer) \cup Range(Carried[d])
        /\ \A f \in Flush :
             flush'[f] = flush[f] \/ (flush[f].phase = "idle" /\ flush'[f].phase = "handed")
    BY <1>3, PushEffect
  <2> QED BY <1>1, <2>1, <2>2, <2>3, <2>4 DEF Once
<1>4. ASSUME IntervalFlush PROVE Once(e)'
  <2>1. e \in Range(buffer) => ~ TwoActive(flush')
    BY <1>4 DEF IntervalFlush
  <2>2. \A f \in Flush :
          flush'[f] = flush[f] \/ (flush[f].phase = "idle" /\ flush'[f].phase = "handed")
    BY <1>4, StartFlushEffect DEF IntervalFlush
  <2> QED BY <1>1, <1>4, <2>1, <2>2 DEF IntervalFlush, Once
<1>5. ASSUME NEW f \in Flush, ReadBatch(f) PROVE Once(e)'
  <2>1. e \in Range(buffer) => copies[e] = 0
    <3>1. ASSUME NEW g \in Flush, flush[g].phase = "settled" PROVE TwoActive(flush)
      BY <1>5, <3>1, TwoActiveBy DEF ReadBatch
    <3> QED BY <1>1, <3>1 DEF Once
  <2>2. /\ \A g \in Flush \ {f} : flush'[g] = flush[g]
        /\ flush'[f].phase # "idle"
        /\ flush'[f].batch = buffer
    BY <1>5 DEF ReadBatch, TypeOK
  <2>3. TwoActive(flush') => TwoActive(flush)
    BY <1>5, <2>2 DEF TwoActive, Active, ReadBatch
  <2>4. buffer' = buffer /\ copies' = copies /\ flush[f].phase = "handed"
    BY <1>5 DEF ReadBatch
  <2> QED BY <1>1, <2>1, <2>2, <2>3, <2>4 DEF Once
<1>6. ASSUME NEW f \in Flush, Store(f) PROVE Once(e)'
  <2>1. /\ \A g \in Flush \ {f} : flush'[g] = flush[g]
        /\ flush'[f].phase = "settled"
    BY <1>6 DEF Store, TypeOK
  <2>2. TwoActive(flush') => TwoActive(flush)
    BY <1>6, <2>1 DEF TwoActive, Active, Store
  <2>3. buffer' = buffer /\ flush[f].phase = "inserting"
    BY <1>6 DEF Store
  <2>4. CASE copies'[e] = copies[e]
    BY <1>1, <2>1, <2>2, <2>3, <2>4 DEF Once
  <2>5. CASE e \in Range(flush[f].batch) /\ copies'[e] = copies[e] + 1
    <3>1. copies[e] = 0 /\ e \in Range(buffer)
      BY <1>1, <2>3, <2>5 DEF Once
    <3>2. ASSUME NEW g \in Flush \ {f} PROVE flush[g].phase = "idle"
      BY <1>1, <2>3, <3>1, TwoActiveBy DEF Once
    <3> QED BY <1>1, <2>1, <2>2, <2>3, <2>5, <3>1, <3>2 DEF Once
  <2> QED BY <1>6, <2>4, <2>5, StoreEffect
<1>7. ASSUME NEW f \in Flush, Complete(f) PROVE Once(e)'
  <2>1. /\ \A g \in Flush \ {f} : flush'[g] = flush[g]
        /\ flush'[f].phase = "idle"
    BY <1>7 DEF Complete, Idle, TypeOK
  <2>2. ASSUME NEW g \in Flush \ {f}, flush[g].phase = "inserting"
        PROVE  e \notin Range(flush[g].batch)
    BY <1>1, <1>7, <2>2, TwoActiveBy DEF Once, Complete
  <2>3. e \notin Range(buffer') /\ copies' = copies
    BY <1>7, RangeOfEmpty DEF Complete
  <2> QED BY <1>1, <2>1, <2>2, <2>3 DEF Once
<1>8. ASSUME Crash PROVE Once(e)'
  <2>1. e \notin Range(buffer') /\ copies' = copies
    BY <1>8, RangeOfEmpty DEF Crash
  <2>2. \A g \in Flush : flush'[g].phase = "idle"
    BY <1>8 DEF Crash, Idle
  <2> QED BY <1>1, <2>1, <2>2 DEF Once
<1>9. ASSUME UNCHANGED vars PROVE Once(e)'
  BY <1>1, <1>9 DEF vars, Once, TwoActive, Active
<1> QED BY <1>2, <1>3, <1>4, <1>5, <1>6, <1>7, <1>8, <1>9 DEF Next, IntervalIdle

LEMMA NextOnceInv == TypeOK /\ OnceInv /\ [Next]_vars => OnceInv'
<1> SUFFICES ASSUME TypeOK, OnceInv, [Next]_vars PROVE OnceInv'
  OBVIOUS
<1>1. Pushed \subseteq Pushed'
  BY NextPushed, PushedGrows
<1>2. ASSUME NEW e \in Event, e \notin Pushed' PROVE Untouched(e)'
  BY <1>1, <1>2, NextUntouched DEF OnceInv
<1> QED BY <1>2, NextOnce DEF OnceInv

(* An event is stored twice only if it was in the buffer while two flushes *)
(* were in progress.                                                       *)
THEOREM EveryDuplicateHasCause == Spec => []DuplicateHasCause
<1>1. Init => OnceInv
  <2> SUFFICES ASSUME Init, NEW e \in Event PROVE Untouched(e) /\ Once(e)
    BY DEF OnceInv
  <2>1. copies[e] = 0 /\ e \notin Range(buffer)
    BY RangeOfEmpty DEF Init
  <2>2. \A f \in Flush : flush[f].phase = "idle"
    BY DEF Init, Idle
  <2> QED BY <2>1, <2>2 DEF Untouched, Once
<1>2. OnceInv => DuplicateHasCause
  BY DEF OnceInv, Once, DuplicateHasCause
<1> QED BY <1>1, <1>2, NextOnceInv, TypeCorrect, PTL DEF Spec

-----------------------------------------------------------------------------
(* The refinement of EventLog, but for its liveness: the fate of every     *)
(* event is "new" at first, and each step of the pipeline is a step of the *)
(* log or leaves all fates alone.                                          *)
(* An event that has not been pushed is nowhere: what the mapping needs.   *)
NowhereBefore == \A e \in Event \ Pushed : Untouched(e)

LEMMA AlwaysNowhereBefore == Spec => []NowhereBefore
<1>1. Init => NowhereBefore
  <2> SUFFICES ASSUME Init, NEW e \in Event PROVE Untouched(e)
    BY DEF NowhereBefore
  <2>1. copies[e] = 0 /\ e \notin Range(buffer)
    BY RangeOfEmpty DEF Init
  <2>2. \A f \in Flush : flush[f].phase = "idle"
    BY DEF Init, Idle
  <2> QED BY <2>1, <2>2 DEF Untouched
<1>2. TypeOK /\ NowhereBefore /\ [Next]_vars => NowhereBefore'
  <2> SUFFICES ASSUME TypeOK, NowhereBefore, [Next]_vars, NEW e \in Event, e \notin Pushed'
               PROVE  Untouched(e)'
    BY DEF NowhereBefore
  <2>1. Pushed \subseteq Pushed'
    BY NextPushed, PushedGrows
  <2>2. Untouched(e)
    BY <2>1 DEF NowhereBefore
  <2> QED BY <2>2, NextUntouched
<1> QED BY <1>1, <1>2, TypeCorrect, PTL DEF Spec

LEMMA FateType == Fate \in [Event -> Log!Fates]
  BY DEF Fate, Log!Fates

(* Quiet(e): what a step that pushes nothing may do to e.                  *)
Quiet(e) ==
    /\ copies'[e] >= copies[e]
    /\ copies'[e] > copies[e] => Waiting(e)
    /\ Waiting(e)' => Waiting(e)

(* Such steps settle events or leave all fates alone.                      *)
LEMMA QuietSettles ==
  ASSUME TypeOK, TypeOK', NowhereBefore, Pushed' = Pushed, \A e \in Event : Quiet(e)
  PROVE  Log!Settle
<1> SUFFICES ASSUME NEW e \in Event, Fate'[e] # Fate[e]
             PROVE  Fate[e] = "waiting" /\ Fate'[e] \in {"stored", "lost"}
  BY DEF Log!Settle, Log!Changed
<1>1. copies[e] \in Nat /\ copies'[e] \in Nat
  BY DEF TypeOK
<1>2. CASE copies[e] > 0
  <2>1. copies'[e] > 0
    BY <1>1, <1>2 DEF Quiet
  <2> QED BY <1>2, <2>1 DEF Fate
<1>3. CASE copies[e] = 0 /\ ~ Waiting(e)
  <2>1. ~ (copies[e] > 0) /\ ~ (copies'[e] > 0) /\ ~ Waiting(e)'
    BY <1>1, <1>3 DEF Quiet
  <2> QED BY <1>3, <2>1 DEF Fate
<1>4. CASE copies[e] = 0 /\ Waiting(e)
  <2>1. e \in Pushed
    BY <1>4 DEF NowhereBefore, Untouched, Waiting
  <2>2. ~ (copies[e] > 0)
    BY <1>4
  <2> QED BY <1>4, <2>1, <2>2 DEF Fate
<1> QED BY <1>1, <1>2, <1>3, <1>4

(* A push accepts the events of its message, which nothing has seen before. *)
LEMMA PushAccepts ==
  ASSUME TypeOK, NowhereBefore, NEW d \in Delivery, Push(d)
  PROVE  Log!Accept
<1> SUFFICES ASSUME NEW e \in Event, Fate'[e] # Fate[e]
             PROVE  Fate[e] = "new" /\ Fate'[e] = "waiting"
  BY DEF Log!Accept, Log!Changed
<1>1. copies' = copies /\ copies[e] \in Nat
  BY DEF Push, TypeOK
<1>2. Waiting(e)' <=> Waiting(e) \/ e \in Range(Carried[d])
  BY PushEffect DEF Waiting
<1>3. Pushed' = Pushed \cup Range(Carried[d])
  BY PushedGrows
<1>4. CASE e \in Range(Carried[d])
  <2>1. e \notin Pushed
    BY <1>4, PushedAreFresh
  <2>2. copies[e] = 0 /\ ~ Waiting(e)
    BY <2>1 DEF NowhereBefore, Untouched, Waiting
  <2> QED BY <1>1, <1>2, <1>4, <2>1, <2>2 DEF Fate
<1>5. CASE e \notin Range(Carried[d])
  BY <1>1, <1>2, <1>3, <1>5 DEF Fate
<1> QED BY <1>4, <1>5

(* The other steps are quiet.                                              *)
LEMMA OthersAreQuiet ==
  ASSUME TypeOK, [Next]_vars, ~ \E d \in Delivery : Push(d), NEW e \in Event
  PROVE  Quiet(e)
<1> USE DEF Quiet, Waiting
<1>0. copies[e] \in Nat
  BY DEF TypeOK
<1>1. ASSUME NEW d \in Delivery, Receive(d) PROVE Quiet(e)
  BY <1>0, <1>1 DEF Receive
<1>3. ASSUME IntervalFlush PROVE Quiet(e)
  <2>1. \A f \in Flush : flush'[f] = flush[f] \/ flush'[f].phase = "handed"
    BY <1>3 DEF IntervalFlush, StartFlush, TypeOK
  <2> QED BY <1>0, <1>3, <2>1 DEF IntervalFlush
<1>4. ASSUME NEW f \in Flush, ReadBatch(f) PROVE Quiet(e)
  <2>1. \A g \in Flush : flush'[g] = flush[g] \/ flush'[g].batch = buffer
    BY <1>4 DEF ReadBatch, TypeOK
  <2> QED BY <1>0, <1>4, <2>1 DEF ReadBatch
<1>5. ASSUME NEW f \in Flush, Store(f) PROVE Quiet(e)
  <2>1. \A g \in Flush : flush'[g] = flush[g] \/ flush'[g].phase = "settled"
    BY <1>5 DEF Store, TypeOK
  <2>2. buffer' = buffer /\ flush[f].phase = "inserting"
    BY <1>5 DEF Store
  <2>3. \/ copies'[e] = copies[e]
        \/ e \in Range(flush[f].batch) /\ copies'[e] = copies[e] + 1
    BY <1>5, StoreEffect
  <2> QED BY <1>0, <2>1, <2>2, <2>3
<1>6. ASSUME NEW f \in Flush, Complete(f) PROVE Quiet(e)
  <2>1. \A g \in Flush : flush'[g] = flush[g] \/ flush'[g].phase = "idle"
    BY <1>6 DEF Complete, Idle, TypeOK
  <2> QED BY <1>0, <1>6, <2>1, RangeOfEmpty DEF Complete
<1>7. ASSUME Crash PROVE Quiet(e)
  BY <1>0, <1>7, RangeOfEmpty DEF Crash, Idle
<1>8. ASSUME UNCHANGED vars PROVE Quiet(e)
  BY <1>0, <1>8 DEF vars
<1> QED BY <1>1, <1>3, <1>4, <1>5, <1>6, <1>7, <1>8 DEF Next, IntervalIdle

(* Every event starts new.                                                 *)
LEMMA LogInit == Init => Log!Init
<1> SUFFICES ASSUME Init, NEW e \in Event PROVE Fate[e] = "new"
  BY DEF Log!Init, Fate
<1>1. copies[e] = 0 /\ e \notin Range(buffer) /\ \A f \in Flush : flush[f].phase = "idle"
  BY RangeOfEmpty DEF Init, Idle
<1>2. e \notin Pushed
  BY DEF Init, Pushed
<1> QED BY <1>1, <1>2 DEF Fate, Waiting

LEMMA LogStep ==
  ASSUME TypeOK, TypeOK', NowhereBefore, [Next]_vars
  PROVE  Log!Next
<1>1. Fate' \in [Event -> Log!Fates]
  BY DEF Fate, Log!Fates
<1>2. CASE \E d \in Delivery : Push(d)
  BY <1>1, <1>2, PushAccepts DEF Log!Next
<1>3. CASE ~ \E d \in Delivery : Push(d)
  BY <1>1, <1>3, NextPushed, OthersAreQuiet, QuietSettles DEF Log!Next
<1> QED BY <1>2, <1>3

(* Whatever flushes overlap, fail or break off, an event is accepted once  *)
(* and settled for good: the refinement of the log, but for its liveness.  *)
THEOREM PipelineImplementsLog == Spec => Log!Init /\ [][Log!Next]_Fate
<1>1. TypeOK /\ TypeOK' /\ NowhereBefore /\ [Next]_vars => [Log!Next]_Fate
  BY LogStep
<1> QED BY <1>1, LogInit, TypeCorrect, AlwaysNowhereBefore, PTL DEF Spec
=============================================================================
