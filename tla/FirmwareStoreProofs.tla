-------------------------- MODULE FirmwareStoreProofs --------------------------
(***************************************************************************)
(* Theorems about the firmwares of Services, for any records, files,       *)
(* categories, requests, failures and restarts.                            *)
(***************************************************************************)
EXTENDS Services, TLAPS

FirmwareRequest == Request \ {Earlier}
FileOrNone == File \cup {None}
CategoryOrNone == Category \cup {None}
RequestState ==
    [pc : {"idle", "loaded", "looking", "saving", "deleting", "counted", "done"},
     op : {"create", "update", "remove", "assign", None}, on : Firmware \cup {None},
     file : FileOrNone, category : CategoryOrNone, seen : FileOrNone]
PastState == [files : SUBSET File, ids : SUBSET Firmware, lost : SUBSET FileOrNone, raced : SUBSET Category, faults : Nat]

Flying(r) == request[r].pc \notin {"idle", "done"}
Placed(q) ==
    /\ q.pc \in {"looking", "saving"} => q.op \in {"create", "update"}
    /\ q.pc \in {"looking", "counted"} => q.category \in Category
    /\ q.pc = "counted" => q.file = None /\ q.seen = None
    /\ q.pc = "deleting" => q.op = "remove"
    /\ q.op = "create" => q.seen = None
    /\ q.pc = "loaded" => q.op \in {"update", "remove", "assign"}
    /\ q.pc \in {"loaded", "looking", "saving", "deleting"} /\ q.op # "create" => q.on \in Firmware
Types ==
    /\ firmware \in [Firmware -> F!Record \cup {None}]
    /\ category \in [Category -> {"no", "yes", "deleted"}]
    /\ disk \in SUBSET File
    /\ request \in [FirmwareRequest -> RequestState]
    /\ past \in PastState /\ None \notin past.files
    /\ \A r \in FirmwareRequest : Placed(request[r])

-----------------------------------------------------------------------------
(* Every file has one record or one request to write it, and a request may *)
(* unlink only the file of the record that it has loaded.                  *)
Known ==
    /\ \A f \in Firmware : firmware[f] # None => f \in past.ids /\ firmware[f].file \in past.files \cup {None}
    /\ \A r \in FirmwareRequest : Flying(r) => /\ request[r].file \in past.files \cup {None}
                                               /\ request[r].seen \in past.files \cup {None}
OneRecord == \A f, g \in Firmware :
    firmware[f] # None /\ firmware[g] # None /\ firmware[f].file = firmware[g].file /\ firmware[f].file # None => f = g
OneWriter == \A r \in FirmwareRequest : Flying(r) /\ request[r].file # None =>
    /\ \A f \in Firmware : firmware[f] # None => firmware[f].file # request[r].file
    /\ \A o \in FirmwareRequest : Flying(o) /\ request[o].file = request[r].file => o = r
    /\ request[r].pc \in {"looking", "saving"} => request[r].file \in disk
OnlyItsOwn == \A r \in FirmwareRequest : Flying(r) /\ request[r].seen # None =>
    /\ \A f \in Firmware : firmware[f] # None /\ firmware[f].file = request[r].seen => f = request[r].on
    /\ \A o \in FirmwareRequest : Flying(o) => request[o].file # request[r].seen
FilesInv == Known /\ OneRecord /\ OneWriter /\ OnlyItsOwn

(* A category that is about to be deleted is in no record and no request.  *)
CountedInv == \A q \in FirmwareRequest : request[q].pc = "counted" =>
    LET k == request[q].category IN
    k \notin past.raced /\ k # None =>
        /\ \A f \in Firmware : firmware[f] # None => firmware[f].category # k
        /\ \A r \in FirmwareRequest : request[r].pc \in {"loaded", "looking", "saving"} => request[r].category # k
SavedInv == \A r \in FirmwareRequest : request[r].pc = "saving" =>
    LET k == request[r].category IN k = None \/ category[k] = "yes" \/ k \in past.raced
CategoryInv == CountedInv /\ SavedInv /\ F!CategoryHasCause

FirmwareInv == Types /\ FilesInv /\ F!RecordHasFile /\ CategoryInv

-----------------------------------------------------------------------------
LEMMA InitFirmware == Init /\ focus = "firmwares" => FirmwareInv
<1> SUFFICES ASSUME F!Init PROVE FirmwareInv
  BY DEF Init
<1>1. /\ \A r \in FirmwareRequest : request[r] = F!Idle
      /\ request \in [FirmwareRequest -> RequestState]
      /\ \A r \in FirmwareRequest : request[r].pc = "idle"
  BY DEF F!Init, F!Idle, RequestState, FirmwareRequest, FileOrNone, CategoryOrNone
<1>2. PICK first \in {None} \cup [file : FileOrNone, category : {None} \cup {k \in Category : category[k] = "yes"}],
           f \in Firmware :
         /\ firmware = [[g \in Firmware |-> None] EXCEPT ![f] = first]
         /\ disk = IF first = None THEN {} ELSE {first.file} \ {None}
  BY DEF F!Init, FileOrNone
<1>3. /\ firmware \in [Firmware -> F!Record \cup {None}] /\ firmware[f] = first
      /\ \A g \in Firmware \ {f} : firmware[g] = None
  BY <1>2 DEF F!Record, FileOrNone
<1>4. first # None => /\ first.file \in FileOrNone
                      /\ first.category = None \/ (first.category \in Category /\ category[first.category] = "yes")
  <2> SUFFICES ASSUME first # None PROVE /\ first.file \in FileOrNone
                                         /\ first.category \in {None} \cup {k \in Category : category[k] = "yes"}
    OBVIOUS
  <2>1. first \in [file : FileOrNone, category : {None} \cup {k \in Category : category[k] = "yes"}]
    BY <1>2
  <2> HIDE <1>2
  <2> QED BY <2>1
<1>5. disk \in SUBSET File /\ None \notin disk /\ (first # None => first.file \in disk \cup {None})
  BY <1>2, <1>4 DEF FileOrNone
<1>6. past.files = disk /\ past.ids = F!Stored /\ past.lost = {} /\ past.raced = {} /\ past \in PastState
  BY <1>5 DEF F!Init, F!Stored, PastState
<1>7. Types
  BY <1>1, <1>3, <1>5, <1>6 DEF Types, Placed, F!Init, F!Idle
<1>8. FilesInv
  BY <1>1, <1>3, <1>5, <1>6 DEF FilesInv, Known, OneRecord, OneWriter, OnlyItsOwn, Flying, F!Stored
<1>9. F!RecordHasFile
  BY <1>3, <1>5 DEF F!RecordHasFile, F!Stored
<1>10. CategoryInv
  BY <1>1, <1>3, <1>4 DEF CategoryInv, CountedInv, SavedInv, F!CategoryHasCause, F!Stored
<1> QED BY <1>7, <1>8, <1>9, <1>10 DEF FirmwareInv

(* Steps that end requests and change nothing else.                        *)
LEMMA Ending ==
  ASSUME FirmwareInv, Types', UNCHANGED <<firmware, category, disk>>,
         \A o \in FirmwareRequest : Flying(o)' => request'[o] = request[o],
         past.files \subseteq past'.files, past'.ids = past.ids,
         past.lost \subseteq past'.lost, past.raced \subseteq past'.raced,
         \A o \in FirmwareRequest : F!Unlinked(o) =>
             request'[o] = request[o] \/ request[o].seen \in past'.lost \/ firmware[request[o].on] = None
  PROVE  FirmwareInv'
<1>1. \A o \in FirmwareRequest : Flying(o)' => Flying(o)
  BY DEF Flying
<1>2. FilesInv'
  BY <1>1 DEF FirmwareInv, FilesInv, Known, OneRecord, OneWriter, OnlyItsOwn
<1>3. F!RecordHasFile'
  BY DEF FirmwareInv, F!RecordHasFile, F!Stored, F!Unlinked, F!At, FirmwareRequest
<1>4. CategoryInv'
  <2>1. \A o \in FirmwareRequest : request'[o].pc \in {"counted", "loaded", "looking", "saving"} => request'[o] = request[o]
    BY DEF Flying
  <2>2. CountedInv'
    BY <2>1 DEF FirmwareInv, CategoryInv, CountedInv
  <2>3. SavedInv'
    BY <2>1 DEF FirmwareInv, CategoryInv, SavedInv
  <2>4. F!CategoryHasCause'
    BY DEF FirmwareInv, CategoryInv, F!CategoryHasCause, F!Stored
  <2> QED BY <2>2, <2>3, <2>4 DEF CategoryInv
<1> QED BY <1>2, <1>3, <1>4 DEF FirmwareInv

LEMMA EndsTo ==
  ASSUME Types, NEW r \in FirmwareRequest, F!Ends(r)
  PROVE  /\ request' \in [FirmwareRequest -> RequestState] /\ request'[r].pc = "done" /\ ~ Flying(r)'
         /\ \A o \in FirmwareRequest \ {r} : request'[o] = request[o]
         /\ \A o \in FirmwareRequest : Placed(request[o])'
<1>1. /\ [F!Idle EXCEPT !.pc = "done"] \in RequestState /\ [F!Idle EXCEPT !.pc = "done"].pc = "done"
      /\ [F!Idle EXCEPT !.pc = "done"].seen = None
  BY DEF F!Idle, RequestState, FileOrNone, CategoryOrNone
<1> QED BY <1>1 DEF F!Ends, Types, Flying, Placed

(* Named of a request that starts.                                         *)
LEMMA NamedTo ==
  ASSUME Types, NEW file \in FileOrNone, NEW k \in CategoryOrNone, F!Named(file, k)
  PROVE  /\ past' \in PastState /\ None \notin past'.files
         /\ past'.files = past.files \cup ({file} \ {None}) /\ past'.ids = past.ids /\ past'.lost = past.lost
         /\ past.raced \subseteq past'.raced
         /\ \A q \in FirmwareRequest : request[q].pc = "counted" /\ request[q].category = k /\ k # None => k \in past'.raced
<1> DEFINE X == F!Meets(k, {"counted"}) \ {None}
<1>1. X \in SUBSET Category /\ {file} \ {None} \in SUBSET File
  BY DEF F!Meets, CategoryOrNone, FileOrNone
<1>2. \A q \in FirmwareRequest : request[q].pc = "counted" /\ request[q].category = k /\ k # None => k \in X
  BY DEF F!Meets, F!InFlight, FirmwareRequest
<1>3. past' = [past EXCEPT !.files = @ \cup ({file} \ {None}), !.raced = @ \cup X]
  BY DEF F!Named
<1> HIDE DEF X
<1> QED BY <1>1, <1>2, <1>3 DEF Types, PastState

LEMMA StartCreateSteps ==
  ASSUME FirmwareInv, NEW r \in FirmwareRequest, NEW file \in FileOrNone, NEW k \in CategoryOrNone,
         F!StartCreate(r, file, k)
  PROVE  FirmwareInv'
<1> USE DEF FirmwareInv
<1> DEFINE p == [F!Idle EXCEPT !.pc = F!AfterFile(k), !.op = "create", !.file = file, !.category = k]
<1>1. /\ p \in RequestState /\ p.pc = (IF k = None THEN "saving" ELSE "looking") /\ p.op = "create"
      /\ p.on = None /\ p.file = file /\ p.category = k /\ p.seen = None
  BY DEF F!Idle, F!AfterFile, RequestState, FileOrNone, CategoryOrNone
<1>2. /\ request' \in [FirmwareRequest -> RequestState] /\ request'[r] = p
      /\ \A o \in FirmwareRequest \ {r} : request'[o] = request[o]
  BY <1>1 DEF F!StartCreate, Types
<1>3. /\ UNCHANGED <<firmware, category>> /\ disk' = disk \cup ({file} \ {None})
      /\ file \notin past.files /\ request[r].pc = "idle" /\ F!Named(file, k)
  BY DEF F!StartCreate, F!At
<1>4. /\ past' \in PastState /\ None \notin past'.files
      /\ past'.files = past.files \cup ({file} \ {None}) /\ past'.ids = past.ids /\ past'.lost = past.lost
      /\ past.raced \subseteq past'.raced
      /\ \A q \in FirmwareRequest : request[q].pc = "counted" /\ request[q].category = k /\ k # None => k \in past'.raced
  BY <1>3, NamedTo
<1> HIDE DEF p
<1>5. Types'
  BY <1>1, <1>2, <1>3, <1>4 DEF Types, Placed, FileOrNone, CategoryOrNone
<1>6. \A o \in FirmwareRequest \ {r} : (Flying(o)' <=> Flying(o)) /\ ~ Flying(r)
  BY <1>2, <1>3 DEF Flying
<1>7. FilesInv'
  <2>1. Known'
    BY <1>1, <1>2, <1>3, <1>4, <1>6 DEF FilesInv, Known
  <2>2. OneRecord'
    BY <1>3 DEF FilesInv, OneRecord
  <2>3. OneWriter'
    BY <1>1, <1>2, <1>3, <1>6 DEF FilesInv, Known, OneWriter
  <2>4. OnlyItsOwn'
    BY <1>1, <1>2, <1>3, <1>6 DEF FilesInv, Known, OnlyItsOwn
  <2> QED BY <2>1, <2>2, <2>3, <2>4 DEF FilesInv
<1>8. F!RecordHasFile'
  <2>1. \A o \in FirmwareRequest : F!Unlinked(o) => o # r
    BY <1>3 DEF F!Unlinked, F!At
  <2> QED BY <1>2, <1>3, <1>4, <2>1 DEF F!RecordHasFile, F!Stored, F!Unlinked, F!At, FirmwareRequest
<1>9. CategoryInv'
  <2>1. CountedInv'
    BY <1>1, <1>2, <1>3, <1>4 DEF CategoryInv, CountedInv
  <2>2. SavedInv'
    BY <1>1, <1>2, <1>3, <1>4 DEF CategoryInv, SavedInv
  <2>3. F!CategoryHasCause'
    BY <1>3, <1>4 DEF CategoryInv, F!CategoryHasCause, F!Stored
  <2> QED BY <2>1, <2>2, <2>3 DEF CategoryInv
<1> QED BY <1>5, <1>7, <1>8, <1>9

LEMMA LoadSteps ==
  ASSUME FirmwareInv, NEW r \in FirmwareRequest, NEW op \in {"update", "remove", "assign"}, NEW f \in Firmware,
         NEW file \in FileOrNone, NEW k \in CategoryOrNone, F!Load(r, op, f, file, k)
  PROVE  FirmwareInv'
<1> USE DEF FirmwareInv
<1>1. /\ UNCHANGED <<firmware, category, disk>> /\ file \notin past.files /\ request[r].pc = "idle" /\ F!Named(file, k)
  BY DEF F!Load, F!At
<1>2. /\ past' \in PastState /\ None \notin past'.files
      /\ past'.files = past.files \cup ({file} \ {None}) /\ past'.ids = past.ids /\ past'.lost = past.lost
      /\ past.raced \subseteq past'.raced
      /\ \A q \in FirmwareRequest : request[q].pc = "counted" /\ request[q].category = k /\ k # None => k \in past'.raced
  BY <1>1, NamedTo
<1>3. CASE f \notin F!Stored
  <2>1. F!Ends(r)
    BY <1>3 DEF F!Load
  <2>2. Types'
    BY <1>1, <1>2, <2>1, EndsTo DEF Types
  <2>3. \A o \in FirmwareRequest : /\ Flying(o)' => request'[o] = request[o]
                                   /\ F!Unlinked(o) => request'[o] = request[o]
    BY <1>1, <2>1, EndsTo DEF F!Unlinked, F!At
  <2> QED BY <1>1, <1>2, <2>2, <2>3, Ending
<1>4. CASE f \in F!Stored
  <2> DEFINE p == [pc |-> "loaded", op |-> op, on |-> f, file |-> file, category |-> k, seen |-> firmware[f].file]
  <2>1. firmware[f] # None /\ firmware[f].file \in FileOrNone
    BY <1>4 DEF F!Stored, Types, F!Record, FileOrNone
  <2>2. p \in RequestState
    BY <2>1 DEF RequestState
  <2>3. /\ p.pc = "loaded" /\ p.op = op /\ p.on = f /\ p.file = file /\ p.category = k /\ p.seen = firmware[f].file
    OBVIOUS
  <2>4. /\ request' \in [FirmwareRequest -> RequestState] /\ request'[r] = p
        /\ \A o \in FirmwareRequest \ {r} : request'[o] = request[o]
    BY <1>4, <2>2 DEF F!Load, Types
  <2> HIDE DEF p
  <2>5. Types'
    BY <1>1, <1>2, <2>3, <2>4 DEF Types, Placed
  <2>6. \A o \in FirmwareRequest \ {r} : (Flying(o)' <=> Flying(o)) /\ ~ Flying(r)
    BY <1>1, <2>4 DEF Flying
  <2>7. FilesInv'
    <3>1. Known'
      BY <1>1, <1>2, <2>1, <2>3, <2>4, <2>6 DEF FilesInv, Known
    <3>2. OneRecord'
      BY <1>1 DEF FilesInv, OneRecord
    <3>3. OneWriter'
      BY <1>1, <2>3, <2>4, <2>6 DEF FilesInv, Known, OneWriter
    <3>4. OnlyItsOwn'
      <4>1. \A o \in FirmwareRequest : Flying(o) /\ request[o].seen # None => request[o].seen # file
        BY <1>1 DEF FilesInv, Known
      <4>2. p.seen # None => \A o \in FirmwareRequest : Flying(o) => request[o].file # p.seen
        BY <2>1, <2>3 DEF FilesInv, OneWriter
      <4>3. p.seen # None => file # p.seen
        BY <1>1, <2>1, <2>3 DEF FilesInv, Known
      <4>4. p.seen # None => \A g \in Firmware : firmware[g] # None /\ firmware[g].file = p.seen => g = f
        BY <2>1, <2>3 DEF FilesInv, OneRecord
      <4>5. ASSUME NEW o \in FirmwareRequest, Flying(o)', request'[o].seen # None
            PROVE  /\ \A g \in Firmware : firmware[g] # None /\ firmware[g].file = request'[o].seen => g = request'[o].on
                   /\ \A x \in FirmwareRequest : Flying(x)' => request'[x].file # request'[o].seen
        <5>1. CASE o = r
          BY <2>3, <2>4, <2>6, <4>2, <4>3, <4>4, <4>5, <5>1
        <5>2. CASE o # r
          BY <2>3, <2>4, <2>6, <4>1, <4>5, <5>2 DEF FilesInv, OnlyItsOwn
        <5> QED BY <5>1, <5>2
      <4> QED BY <1>1, <4>5 DEF OnlyItsOwn
    <3> QED BY <3>1, <3>2, <3>3, <3>4 DEF FilesInv
  <2>8. F!RecordHasFile'
    <3>1. \A o \in FirmwareRequest : F!Unlinked(o) => o # r
      BY <1>1 DEF F!Unlinked, F!At
    <3> QED BY <1>1, <1>2, <2>4, <3>1 DEF F!RecordHasFile, F!Stored, F!Unlinked, F!At, FirmwareRequest
  <2>9. CategoryInv'
    <3>1. CountedInv'
      BY <1>1, <1>2, <2>3, <2>4 DEF CategoryInv, CountedInv
    <3>2. SavedInv'
      BY <1>1, <1>2, <2>3, <2>4 DEF CategoryInv, SavedInv
    <3>3. F!CategoryHasCause'
      BY <1>1, <1>2 DEF CategoryInv, F!CategoryHasCause, F!Stored
    <3> QED BY <3>1, <3>2, <3>3 DEF CategoryInv
  <2> QED BY <2>5, <2>7, <2>8, <2>9
<1> QED BY <1>3, <1>4

LEMMA GotoTo ==
  ASSUME Types, NEW r \in FirmwareRequest, NEW pc \in {"looking", "saving", "deleting"}, F!Goto(r, pc)
  PROVE  /\ request' \in [FirmwareRequest -> RequestState] /\ request'[r].pc = pc
         /\ request'[r].op = request[r].op /\ request'[r].on = request[r].on /\ request'[r].file = request[r].file
         /\ request'[r].category = request[r].category /\ request'[r].seen = request[r].seen
         /\ \A o \in FirmwareRequest \ {r} : request'[o] = request[o]
<1>1. request[r] \in RequestState /\ [request[r] EXCEPT !.pc = pc] \in RequestState
  BY DEF Types, RequestState
<1>2. request' = [request EXCEPT ![r] = [request[r] EXCEPT !.pc = pc]]
  BY DEF F!Goto, Types
<1> QED BY <1>1, <1>2 DEF Types, RequestState

LEMMA SwapSteps ==
  ASSUME FirmwareInv, NEW r \in FirmwareRequest, F!Swap(r)
  PROVE  FirmwareInv'
<1> USE DEF FirmwareInv
<1> DEFINE q == request[r]
           pc == F!AfterFile(q.category)
<1>1. /\ q \in RequestState /\ q.pc = "loaded" /\ q.op = "update" /\ q.on \in Firmware /\ Flying(r) /\ Placed(q)
      /\ UNCHANGED <<firmware, category, past>>
      /\ disk' = IF q.file = None THEN disk ELSE (disk \ {q.seen}) \cup {q.file}
  BY DEF F!Swap, F!At, Types, Placed, Flying
<1>2. pc \in {"looking", "saving"} /\ (pc = "looking" <=> q.category # None)
  BY DEF F!AfterFile
<1>3. /\ request' \in [FirmwareRequest -> RequestState] /\ request'[r].pc = pc
      /\ request'[r].op = q.op /\ request'[r].on = q.on /\ request'[r].file = q.file
      /\ request'[r].category = q.category /\ request'[r].seen = q.seen
      /\ \A o \in FirmwareRequest \ {r} : request'[o] = request[o]
  BY <1>2, GotoTo DEF F!Swap
<1> HIDE DEF pc
<1>4. Types'
  <2>1. disk' \in SUBSET File
    BY <1>1 DEF Types, RequestState, FileOrNone
  <2> QED BY <1>1, <1>2, <1>3, <2>1 DEF Types, Placed, RequestState, CategoryOrNone
<1>5. \A o \in FirmwareRequest : Flying(o)' <=> Flying(o)
  BY <1>1, <1>2, <1>3 DEF Flying
<1>6. FilesInv'
  <2>1. Known'
    BY <1>1, <1>3, <1>5 DEF FilesInv, Known
  <2>2. OneRecord'
    BY <1>1 DEF FilesInv, OneRecord
  <2>3. \A o \in FirmwareRequest : request'[o].file = request[o].file /\ request'[o].seen = request[o].seen
                                   /\ request'[o].on = request[o].on
    BY <1>3
  <2>4. ASSUME NEW o \in FirmwareRequest, Flying(o), request[o].file # None, request'[o].pc \in {"looking", "saving"}
        PROVE  request[o].file \in disk'
    <3>1. CASE o = r
      BY <1>1, <2>4, <3>1
    <3>2. CASE o # r
      <4>1. request[o].file \in disk
        BY <1>3, <2>4, <3>2 DEF FilesInv, OneWriter
      <4>2. q.file # None => request[o].file # q.seen
        BY <1>1, <2>4 DEF FilesInv, OnlyItsOwn
      <4> QED BY <1>1, <4>1, <4>2
    <3> QED BY <3>1, <3>2
  <2>5. OneWriter'
    BY <1>1, <1>5, <2>3, <2>4 DEF FilesInv, OneWriter
  <2>6. OnlyItsOwn'
    BY <1>1, <1>5, <2>3 DEF FilesInv, OnlyItsOwn
  <2> QED BY <2>1, <2>2, <2>5, <2>6 DEF FilesInv
<1>7. F!RecordHasFile'
  <2> SUFFICES ASSUME NEW f \in Firmware, firmware[f] # None
               PROVE  \/ firmware[f].file \in disk' \cup {None} \cup past.lost
                      \/ \E o \in FirmwareRequest : /\ F!Unlinked(o)' /\ request'[o].on = f
                                                    /\ request'[o].seen = firmware[f].file
    BY <1>1 DEF F!RecordHasFile, F!Stored, FirmwareRequest
  <2>1. \A o \in FirmwareRequest : F!Unlinked(o) => o # r /\ F!Unlinked(o)'
    BY <1>1, <1>3 DEF F!Unlinked, F!At
  <2>2. q.file # None => F!Unlinked(r)'
    BY <1>2, <1>3 DEF F!Unlinked, F!At
  <2>3. \/ firmware[f].file \in disk \cup {None} \cup past.lost
        \/ \E o \in FirmwareRequest : F!Unlinked(o) /\ request[o].on = f /\ request[o].seen = firmware[f].file
    BY DEF F!RecordHasFile, F!Stored, FirmwareRequest
  <2>4. CASE \E o \in FirmwareRequest : F!Unlinked(o) /\ request[o].on = f /\ request[o].seen = firmware[f].file
    BY <1>3, <2>1, <2>4
  <2>5. CASE firmware[f].file = q.seen /\ q.file # None /\ q.seen # None
    <3>1. f = q.on
      BY <1>1, <2>5 DEF FilesInv, OnlyItsOwn
    <3> QED BY <1>3, <2>2, <2>5, <3>1
  <2> QED BY <1>1, <2>3, <2>4, <2>5
<1>8. CategoryInv'
  <2>1. CountedInv'
    BY <1>1, <1>2, <1>3 DEF CategoryInv, CountedInv
  <2>2. SavedInv'
    BY <1>1, <1>2, <1>3 DEF CategoryInv, SavedInv
  <2>3. F!CategoryHasCause'
    BY <1>1 DEF CategoryInv, F!CategoryHasCause, F!Stored
  <2> QED BY <2>1, <2>2, <2>3 DEF CategoryInv
<1> QED BY <1>4, <1>6, <1>7, <1>8

LEMMA LostTo ==
  ASSUME Types, NEW rs \in SUBSET FirmwareRequest
  PROVE  F!Lost(rs) \in SUBSET FileOrNone
  BY DEF F!Lost, F!Unlinked, F!At, Types, RequestState

LEMMA LookSteps ==
  ASSUME FirmwareInv, NEW r \in FirmwareRequest, F!Look(r)
  PROVE  FirmwareInv'
<1> USE DEF FirmwareInv
<1> DEFINE q == request[r]
<1>1. /\ q \in RequestState /\ q.pc = "looking" /\ Placed(q) /\ UNCHANGED <<firmware, category, disk>> /\ Flying(r)
  BY DEF F!Look, F!At, Types, Flying
<1>2. CASE category[q.category] = "yes"
  <2>1. F!Goto(r, "saving") /\ UNCHANGED past
    BY <1>2 DEF F!Look
  <2>2. /\ request' \in [FirmwareRequest -> RequestState] /\ request'[r].pc = "saving"
        /\ request'[r].op = q.op /\ request'[r].on = q.on /\ request'[r].file = q.file
        /\ request'[r].category = q.category /\ request'[r].seen = q.seen
        /\ \A o \in FirmwareRequest \ {r} : request'[o] = request[o]
    BY <2>1, GotoTo
  <2>3. Types'
    BY <1>1, <2>1, <2>2 DEF Types, Placed
  <2>4. \A o \in FirmwareRequest : /\ Flying(o)' <=> Flying(o)
                                   /\ F!Unlinked(o) => F!Unlinked(o)'
                                   /\ request'[o].file = request[o].file /\ request'[o].seen = request[o].seen
                                   /\ request'[o].on = request[o].on
    BY <1>1, <2>2 DEF Flying, F!Unlinked, F!At
  <2>5. FilesInv'
    BY <1>1, <2>1, <2>2, <2>4 DEF FilesInv, Known, OneRecord, OneWriter, OnlyItsOwn
  <2>6. F!RecordHasFile'
    BY <1>1, <2>1, <2>4 DEF F!RecordHasFile, F!Stored, FirmwareRequest
  <2>7. CategoryInv'
    <3>1. CountedInv'
      BY <1>1, <2>1, <2>2 DEF CategoryInv, CountedInv
    <3>2. SavedInv'
      BY <1>1, <1>2, <2>1, <2>2 DEF CategoryInv, SavedInv
    <3>3. F!CategoryHasCause'
      BY <1>1, <2>1 DEF CategoryInv, F!CategoryHasCause, F!Stored
    <3> QED BY <3>1, <3>2, <3>3 DEF CategoryInv
  <2> QED BY <2>3, <2>5, <2>6, <2>7
<1>3. CASE category[q.category] # "yes"
  <2>1. F!Ends(r) /\ past' = [past EXCEPT !.lost = @ \cup F!Lost({r})]
    BY <1>3 DEF F!Look
  <2>2. /\ past' \in PastState /\ past'.files = past.files /\ past'.ids = past.ids /\ past'.raced = past.raced
        /\ past'.lost = past.lost \cup F!Lost({r})
    <3>1. PICK X \in SUBSET FileOrNone : X = F!Lost({r})
      BY LostTo
    <3> QED BY <2>1, <3>1 DEF Types, PastState
  <2>3. Types'
    BY <1>1, <2>1, <2>2, EndsTo DEF Types
  <2>4. F!Unlinked(r) => q.seen \in F!Lost({r})
    BY DEF F!Lost
  <2> QED BY <1>1, <2>1, <2>2, <2>3, <2>4, EndsTo, Ending
<1> QED BY <1>2, <1>3

(* Request r writes record f: the file that it alone has, and a category.  *)
LEMMA SavesRecord ==
  ASSUME FirmwareInv, NEW r \in FirmwareRequest, NEW f \in Firmware, NEW new \in F!Record,
         request[r].pc = "saving", F!Ends(r), UNCHANGED <<category, disk>>,
         firmware' = [firmware EXCEPT ![f] = new],
         Types', past'.files = past.files, past'.lost = past.lost, past'.raced = past.raced,
         past'.ids = past.ids \cup {f}, firmware[f] = None => f \notin past.ids,
         new.file = request[r].file \/ (request[r].file = None /\ firmware[f] # None /\ new.file = firmware[f].file),
         new.category = request[r].category
            \/ (request[r].category = None /\ firmware[f] # None /\ new.category = firmware[f].category),
         request[r].op = "update" => request[r].on = f
  PROVE  FirmwareInv'
<1> USE DEF FirmwareInv
<1> DEFINE q == request[r]
<1>1. /\ \A o \in FirmwareRequest \ {r} : request'[o] = request[o]
      /\ ~ Flying(r)' /\ request'[r].pc = "done" /\ Flying(r) /\ q \in RequestState
  BY EndsTo DEF Flying, Types
<1>2. firmware'[f] = new /\ new # None /\ \A g \in Firmware \ {f} : firmware'[g] = firmware[g]
  BY ServicesAssumption DEF Types, F!Record
<1>3. \A o \in FirmwareRequest : Flying(o)' => o # r /\ Flying(o) /\ request'[o] = request[o]
  BY <1>1 DEF Flying
<1>4. \A g \in Firmware : firmware'[g] # None /\ firmware'[g].file # None =>
         \/ g = f /\ firmware'[g].file = q.file
         \/ firmware[g] # None /\ firmware'[g].file = firmware[g].file
  BY <1>2
<1>5. FilesInv'
  <2>1. Known'
    BY <1>1, <1>2, <1>3, <1>4 DEF FilesInv, Known
  <2>2. OneRecord'
    <3> SUFFICES ASSUME NEW g \in Firmware, NEW h \in Firmware, firmware'[g] # None, firmware'[h] # None,
                        firmware'[g].file = firmware'[h].file, firmware'[g].file # None, g # h
                 PROVE FALSE
      BY DEF OneRecord
    <3>1. CASE firmware[g] # None /\ firmware'[g].file = firmware[g].file
      BY <1>1, <1>4, <3>1 DEF FilesInv, OneRecord, OneWriter
    <3>2. CASE g = f /\ firmware'[g].file = q.file
      BY <1>1, <1>4, <3>2 DEF FilesInv, OneWriter
    <3> QED BY <1>4, <3>1, <3>2
  <2>3. OneWriter'
    <3>1. \A o \in FirmwareRequest : Flying(o) /\ o # r /\ request[o].file # None => request[o].file # q.file
      BY <1>1 DEF FilesInv, OneWriter
    <3>2. ASSUME NEW o \in FirmwareRequest, Flying(o)', request[o].file # None, NEW g \in Firmware, firmware'[g] # None
          PROVE  firmware'[g].file # request[o].file
      BY <1>3, <1>4, <3>1, <3>2 DEF FilesInv, OneWriter
    <3> QED BY <1>3, <3>2 DEF FilesInv, OneWriter
  <2>4. OnlyItsOwn'
    <3>1. \A o \in FirmwareRequest : Flying(o) /\ request[o].seen # None => request[o].seen # q.file
      BY <1>1 DEF FilesInv, OnlyItsOwn
    <3>2. ASSUME NEW o \in FirmwareRequest, Flying(o)', request[o].seen # None, NEW g \in Firmware, firmware'[g] # None,
                 firmware'[g].file = request[o].seen
          PROVE  g = request[o].on
      BY <1>3, <1>4, <3>1, <3>2 DEF FilesInv, OnlyItsOwn
    <3> QED BY <1>3, <3>2 DEF FilesInv, OnlyItsOwn
  <2> QED BY <2>1, <2>2, <2>3, <2>4 DEF FilesInv
<1>6. F!RecordHasFile'
  <2> SUFFICES ASSUME NEW g \in Firmware, firmware'[g] # None, firmware'[g].file \notin disk \cup {None} \cup past.lost
               PROVE  \E o \in FirmwareRequest : /\ F!Unlinked(o)' /\ request'[o].on = g
                                                 /\ request'[o].seen = firmware'[g].file
    BY DEF F!RecordHasFile, F!Stored, FirmwareRequest
  <2>1. q.file \in disk \cup {None}
    BY <1>1 DEF FilesInv, OneWriter
  <2>2. firmware[g] # None /\ firmware'[g].file = firmware[g].file
    BY <1>4, <2>1
  <2>3. PICK o \in FirmwareRequest : F!Unlinked(o) /\ request[o].on = g /\ request[o].seen = firmware[g].file
    BY <2>2 DEF F!RecordHasFile, F!Stored, FirmwareRequest
  <2>4. o # r
    <3>1. CASE g = f
      <4>1. q.file = None
        BY <1>1, <1>2, <2>1, <2>2, <3>1
      <4> QED BY <2>3, <4>1 DEF F!Unlinked, F!At
    <3>2. CASE g # f
      BY <1>1, <2>2, <2>3, <3>2 DEF Types, Placed
    <3> QED BY <3>1, <3>2
  <2> QED BY <1>1, <2>2, <2>3, <2>4 DEF F!Unlinked, F!At
<1>7. CategoryInv'
  <2>1. \A o \in FirmwareRequest : request'[o].pc # "done" => o # r /\ request'[o] = request[o]
    BY <1>1
  <2>2. CountedInv'
    <3> SUFFICES ASSUME NEW o \in FirmwareRequest, request[o].pc = "counted", request'[o] = request[o],
                        request[o].category \notin past.raced, request[o].category # None,
                        NEW g \in Firmware, firmware'[g] # None, firmware'[g].category = request[o].category
                 PROVE FALSE
      BY <2>1 DEF CategoryInv, CountedInv
    <3> QED BY <1>2 DEF CategoryInv, CountedInv
  <2>3. SavedInv'
    BY <2>1 DEF CategoryInv, SavedInv
  <2>4. F!CategoryHasCause'
    BY <1>2 DEF CategoryInv, SavedInv, F!CategoryHasCause, F!Stored
  <2> QED BY <2>2, <2>3, <2>4 DEF CategoryInv
<1> QED BY <1>5, <1>6, <1>7

LEMMA SaveNewSteps ==
  ASSUME FirmwareInv, NEW r \in FirmwareRequest, F!SaveNew(r)
  PROVE  FirmwareInv'
<1> DEFINE q == request[r]
           new == [file |-> q.file, category |-> q.category]
<1>1. q \in RequestState /\ q.pc = "saving" /\ q.op = "create" /\ F!Ends(r) /\ UNCHANGED <<category, disk>>
  BY DEF F!SaveNew, F!At, FirmwareInv, Types
<1>2. PICK f \in Firmware \ past.ids : firmware' = [firmware EXCEPT ![f] = new] /\ past' = [past EXCEPT !.ids = @ \cup {f}]
  BY DEF F!SaveNew
<1>3. new \in F!Record
  BY <1>1 DEF RequestState, F!Record, FileOrNone, CategoryOrNone
<1>4. firmware[f] = None
  BY DEF FirmwareInv, FilesInv, Known
<1>5. /\ past' \in PastState /\ past'.files = past.files /\ past'.lost = past.lost /\ past'.raced = past.raced
      /\ past'.ids = past.ids \cup {f}
  BY <1>2 DEF FirmwareInv, Types, PastState
<1>6. firmware' \in [Firmware -> F!Record \cup {None}]
  BY <1>2, <1>3 DEF FirmwareInv, Types
<1>7. Types'
  BY <1>1, <1>5, <1>6, EndsTo DEF FirmwareInv, Types
<1> QED BY <1>1, <1>2, <1>3, <1>4, <1>5, <1>7, SavesRecord

LEMMA SaveUpdateSteps ==
  ASSUME FirmwareInv, NEW r \in FirmwareRequest, F!SaveUpdate(r)
  PROVE  FirmwareInv'
<1> DEFINE q == request[r]
           f == q.on
           old == firmware[f]
           new == [file |-> F!NewFile(old, q), category |-> IF q.category = None THEN old.category ELSE q.category]
<1>1. /\ q \in RequestState /\ q.pc = "saving" /\ q.op = "update" /\ f \in Firmware /\ F!Ends(r)
      /\ UNCHANGED <<category, disk, past>>
  BY DEF F!SaveUpdate, F!At, FirmwareInv, Types, Placed
<1>2. CASE old = None
  <2>1. UNCHANGED firmware
    BY <1>2 DEF F!SaveUpdate
  <2>2. Types'
    BY <1>1, <2>1, EndsTo DEF FirmwareInv, Types
  <2>3. Types
    BY DEF FirmwareInv
  <2>4. \A o \in FirmwareRequest : /\ Flying(o)' => request'[o] = request[o]
                                   /\ F!Unlinked(o) => request'[o] = request[o] \/ firmware[request[o].on] = None
    BY <1>1, <1>2, <2>3, EndsTo
  <2> QED BY <1>1, <2>1, <2>2, <2>4, Ending
<1>3. CASE old # None
  <2>1. firmware' = [firmware EXCEPT ![f] = new]
    BY <1>3 DEF F!SaveUpdate
  <2>2. old \in F!Record /\ new \in F!Record
    BY <1>1, <1>3 DEF FirmwareInv, Types, F!NewFile, RequestState, F!Record, FileOrNone, CategoryOrNone
  <2>3. /\ new.file = q.file \/ (q.file = None /\ new.file = old.file)
        /\ new.category = q.category \/ (q.category = None /\ new.category = old.category)
    BY DEF F!NewFile
  <2>4. Types'
    BY <1>1, <2>1, <2>2, EndsTo DEF FirmwareInv, Types
  <2>5. f \in past.ids
    BY <1>1, <1>3 DEF FirmwareInv, FilesInv, Known
  <2> HIDE DEF new
  <2> QED BY <1>1, <1>3, <2>1, <2>2, <2>3, <2>4, <2>5, SavesRecord
<1> QED BY <1>2, <1>3

LEMMA UnlinkSteps ==
  ASSUME FirmwareInv, NEW r \in FirmwareRequest, F!Unlink(r)
  PROVE  FirmwareInv'
<1> USE DEF FirmwareInv
<1> DEFINE q == request[r]
<1>1. /\ q \in RequestState /\ q.pc = "loaded" /\ q.op = "remove" /\ q.on \in Firmware /\ Flying(r)
      /\ UNCHANGED <<firmware, category, past>> /\ disk' = disk \ {q.seen}
  BY DEF F!Unlink, F!At, Types, Placed, Flying
<1>2. /\ request' \in [FirmwareRequest -> RequestState] /\ request'[r].pc = "deleting"
      /\ request'[r].op = q.op /\ request'[r].on = q.on /\ request'[r].file = q.file
      /\ request'[r].category = q.category /\ request'[r].seen = q.seen
      /\ \A o \in FirmwareRequest \ {r} : request'[o] = request[o]
  BY GotoTo DEF F!Unlink
<1>3. Types'
  BY <1>1, <1>2 DEF Types, Placed
<1>4. \A o \in FirmwareRequest : /\ Flying(o)' <=> Flying(o)
                                 /\ request'[o].file = request[o].file /\ request'[o].seen = request[o].seen
                                 /\ request'[o].on = request[o].on
                                 /\ request'[o].pc \in {"looking", "saving"} => request[o].pc \in {"looking", "saving"}
                                 /\ F!Unlinked(o) => F!Unlinked(o)'
  BY <1>1, <1>2 DEF Flying, F!Unlinked, F!At
<1>5. FilesInv'
  <2>1. Known' /\ OneRecord'
    BY <1>1, <1>4 DEF FilesInv, Known, OneRecord
  <2>2. \A o \in FirmwareRequest : Flying(o) /\ request[o].file # None => request[o].file # q.seen
    BY <1>1 DEF FilesInv, OnlyItsOwn
  <2>3. OneWriter'
    BY <1>1, <1>4, <2>2 DEF FilesInv, OneWriter
  <2>4. OnlyItsOwn'
    BY <1>1, <1>4 DEF FilesInv, OnlyItsOwn
  <2> QED BY <2>1, <2>3, <2>4 DEF FilesInv
<1>6. F!RecordHasFile'
  <2> SUFFICES ASSUME NEW f \in Firmware, firmware[f] # None, firmware[f].file \notin disk' \cup {None} \cup past.lost
               PROVE  \E o \in FirmwareRequest : /\ F!Unlinked(o)' /\ request'[o].on = f
                                                 /\ request'[o].seen = firmware[f].file
    BY <1>1 DEF F!RecordHasFile, F!Stored, FirmwareRequest
  <2>1. CASE firmware[f].file \in disk
    <3>1. firmware[f].file = q.seen /\ q.seen # None
      BY <1>1, <2>1
    <3>2. f = q.on
      BY <1>1, <3>1 DEF FilesInv, OnlyItsOwn
    <3>3. F!Unlinked(r)'
      BY <1>2 DEF F!Unlinked, F!At
    <3> QED BY <1>2, <3>1, <3>2, <3>3
  <2>2. CASE firmware[f].file \notin disk
    <3>1. PICK o \in FirmwareRequest : F!Unlinked(o) /\ request[o].on = f /\ request[o].seen = firmware[f].file
      BY <2>2 DEF F!RecordHasFile, F!Stored, FirmwareRequest
    <3> QED BY <1>4, <3>1
  <2> QED BY <2>1, <2>2
<1>7. CategoryInv'
  <2>1. CountedInv'
    BY <1>1, <1>2 DEF CategoryInv, CountedInv
  <2>2. SavedInv'
    BY <1>1, <1>2 DEF CategoryInv, SavedInv
  <2>3. F!CategoryHasCause'
    BY <1>1 DEF CategoryInv, F!CategoryHasCause, F!Stored
  <2> QED BY <2>1, <2>2, <2>3 DEF CategoryInv
<1> QED BY <1>3, <1>5, <1>6, <1>7

LEMMA DeleteRecordSteps ==
  ASSUME FirmwareInv, NEW r \in FirmwareRequest, F!DeleteRecord(r)
  PROVE  FirmwareInv'
<1> USE DEF FirmwareInv
<1> DEFINE f == request[r].on
<1>1. /\ request[r].pc = "deleting" /\ f \in Firmware /\ F!Ends(r) /\ UNCHANGED <<category, disk, past>>
      /\ firmware' = [firmware EXCEPT ![f] = None]
  BY DEF F!DeleteRecord, F!At, Types, Placed
<1>2. /\ firmware' \in [Firmware -> F!Record \cup {None}] /\ firmware'[f] = None
      /\ \A g \in Firmware : firmware'[g] # None => firmware[g] # None /\ firmware'[g] = firmware[g] /\ g # f
  BY <1>1 DEF Types
<1>3. Types'
  BY <1>1, <1>2, EndsTo DEF Types
<1>4. \A o \in FirmwareRequest : request'[o].pc # "done" => o # r /\ request'[o] = request[o]
  BY <1>1, EndsTo
<1>5. \A o \in FirmwareRequest : Flying(o)' => Flying(o) /\ request'[o] = request[o]
  BY <1>4 DEF Flying
<1>6. FilesInv'
  BY <1>1, <1>2, <1>5 DEF FilesInv, Known, OneRecord, OneWriter, OnlyItsOwn
<1>7. F!RecordHasFile'
  <2> SUFFICES ASSUME NEW g \in Firmware, firmware'[g] # None, firmware'[g].file \notin disk \cup {None} \cup past.lost
               PROVE  \E o \in FirmwareRequest : /\ F!Unlinked(o)' /\ request'[o].on = g
                                                 /\ request'[o].seen = firmware'[g].file
    BY <1>1 DEF F!RecordHasFile, F!Stored, FirmwareRequest
  <2>1. PICK o \in FirmwareRequest : F!Unlinked(o) /\ request[o].on = g /\ request[o].seen = firmware[g].file
    BY <1>2 DEF F!RecordHasFile, F!Stored, FirmwareRequest
  <2>2. o # r
    BY <1>2, <2>1
  <2>3. request'[o] = request[o]
    BY <1>1, <2>2, EndsTo
  <2> QED BY <1>2, <2>1, <2>3 DEF F!Unlinked, F!At
<1>8. CategoryInv'
  <2>1. CountedInv'
    BY <1>1, <1>2, <1>4 DEF CategoryInv, CountedInv
  <2>2. SavedInv'
    BY <1>1, <1>4 DEF CategoryInv, SavedInv
  <2>3. F!CategoryHasCause'
    BY <1>1, <1>2 DEF CategoryInv, F!CategoryHasCause, F!Stored
  <2> QED BY <2>1, <2>2, <2>3 DEF CategoryInv
<1> QED BY <1>3, <1>6, <1>7, <1>8

LEMMA AssignSteps ==
  ASSUME FirmwareInv, NEW r \in FirmwareRequest, F!AssignToDevices(r)
  PROVE  FirmwareInv'
<1>1. Types /\ request[r].pc = "loaded" /\ F!Ends(r) /\ UNCHANGED <<firmware, category, disk, past>>
  BY DEF F!AssignToDevices, F!At, FirmwareInv
<1>2. Types'
  BY <1>1, EndsTo DEF Types
<1>3. \A o \in FirmwareRequest : /\ Flying(o)' => request'[o] = request[o]
                                 /\ F!Unlinked(o) => request'[o] = request[o]
  BY <1>1, EndsTo DEF F!Unlinked, F!At
<1> QED BY <1>1, <1>2, <1>3, Ending

LEMMA CreateCategorySteps ==
  ASSUME FirmwareInv, NEW k \in Category, F!CreateCategory(k)
  PROVE  FirmwareInv'
<1> USE DEF FirmwareInv
<1>1. /\ UNCHANGED <<firmware, disk, request, past>> /\ category[k] = "no"
      /\ category' = [category EXCEPT ![k] = "yes"]
  BY DEF F!CreateCategory
<1>2. Types'
  BY <1>1 DEF Types, Placed
<1>3. \A c : category[c] = "yes" => category'[c] = "yes"
  BY <1>1 DEF Types
<1>4. FilesInv'
  BY <1>1 DEF FilesInv, Known, OneRecord, OneWriter, OnlyItsOwn, Flying
<1>5. F!RecordHasFile'
  BY <1>1 DEF F!RecordHasFile, F!Stored, F!Unlinked, F!At
<1>6. CategoryInv'
  BY <1>1, <1>3 DEF CategoryInv, CountedInv, SavedInv, F!CategoryHasCause, F!Stored
<1> QED BY <1>2, <1>4, <1>5, <1>6

LEMMA CountSteps ==
  ASSUME FirmwareInv, NEW r \in FirmwareRequest, NEW k \in Category, F!CountFirmwares(r, k)
  PROVE  FirmwareInv'
<1> DEFINE X == F!Meets(k, {"loaded", "looking", "saving"})
<1>1. /\ Types /\ request[r].pc = "idle" /\ UNCHANGED <<firmware, category, disk>>
      /\ past' = [past EXCEPT !.raced = @ \cup X] /\ ~ F!Unlinked(r) /\ ~ Flying(r)
  BY DEF F!CountFirmwares, F!At, FirmwareInv, F!Unlinked, Flying
<1>2. /\ X \in SUBSET Category
      /\ \A o \in FirmwareRequest : request[o].pc \in {"loaded", "looking", "saving"} /\ request[o].category = k => k \in X
  BY DEF F!Meets, F!InFlight, FirmwareRequest
<1> HIDE DEF X
<1>3. /\ past' \in PastState /\ past'.files = past.files /\ past'.ids = past.ids /\ past'.lost = past.lost
      /\ past'.raced = past.raced \cup X
  BY <1>1, <1>2 DEF Types, PastState
<1>4. CASE \E f \in F!Stored : firmware[f].category = k
  <2>1. F!Ends(r)
    BY <1>4 DEF F!CountFirmwares
  <2>2. Types'
    BY <1>1, <1>3, <2>1, EndsTo DEF Types
  <2>3. \A o \in FirmwareRequest : /\ Flying(o)' => request'[o] = request[o]
                                   /\ F!Unlinked(o) => request'[o] = request[o]
    BY <1>1, <2>1, EndsTo
  <2> QED BY <1>1, <1>3, <2>2, <2>3, Ending
<1>5. CASE ~ \E f \in F!Stored : firmware[f].category = k
  <2> USE DEF FirmwareInv
  <2> DEFINE p == [F!Idle EXCEPT !.pc = "counted", !.category = k]
  <2>1. /\ p \in RequestState /\ p.pc = "counted" /\ p.category = k /\ p.file = None /\ p.seen = None
        /\ p.op = None
    BY DEF F!Idle, RequestState, FileOrNone, CategoryOrNone
  <2>2. /\ request' \in [FirmwareRequest -> RequestState] /\ request'[r] = p
        /\ \A o \in FirmwareRequest \ {r} : request'[o] = request[o]
    BY <1>5, <2>1 DEF F!CountFirmwares, Types
  <2> HIDE DEF p
  <2>3. Types'
    BY <1>1, <1>3, <2>1, <2>2 DEF Types, Placed
  <2>4. \A o \in FirmwareRequest \ {r} : Flying(o)' <=> Flying(o)
    BY <2>2 DEF Flying
  <2>5. FilesInv'
    <3>1. Known'
      BY <1>1, <1>3, <2>1, <2>2, <2>4 DEF FilesInv, Known
    <3>2. OneRecord'
      BY <1>1 DEF FilesInv, OneRecord
    <3>3. OneWriter'
      BY <1>1, <2>1, <2>2, <2>4 DEF FilesInv, OneWriter
    <3>4. OnlyItsOwn'
      BY <1>1, <2>1, <2>2, <2>4 DEF FilesInv, OnlyItsOwn
    <3> QED BY <3>1, <3>2, <3>3, <3>4 DEF FilesInv
  <2>6. F!RecordHasFile'
    BY <1>1, <1>3, <2>2 DEF F!RecordHasFile, F!Stored, F!Unlinked, F!At, FirmwareRequest
  <2>7. CategoryInv'
    <3>1. \A o \in FirmwareRequest : request'[o].pc \in {"loaded", "looking", "saving"} => o # r /\ request'[o] = request[o]
      BY <2>1, <2>2
    <3>2. \A f \in Firmware : firmware[f] # None => firmware[f].category # k
      BY <1>5 DEF F!Stored
    <3>3. CountedInv'
      <4> SUFFICES ASSUME NEW q \in FirmwareRequest, request'[q].pc = "counted",
                          request'[q].category \notin past.raced \cup X, request'[q].category # None
                   PROVE  LET c == request'[q].category IN
                          /\ \A f \in Firmware : firmware[f] # None => firmware[f].category # c
                          /\ \A o \in FirmwareRequest : request'[o].pc \in {"loaded", "looking", "saving"}
                                                          => request'[o].category # c
        BY <1>1, <1>3 DEF CountedInv
      <4>1. CASE q = r
        BY <1>2, <2>1, <2>2, <3>1, <3>2, <4>1
      <4>2. CASE q # r
        BY <2>2, <3>1, <4>2 DEF CategoryInv, CountedInv
      <4> QED BY <4>1, <4>2
    <3>4. SavedInv'
      BY <1>1, <1>3, <3>1 DEF CategoryInv, SavedInv
    <3>5. F!CategoryHasCause'
      BY <1>1, <1>3 DEF CategoryInv, F!CategoryHasCause, F!Stored
    <3> QED BY <3>3, <3>4, <3>5 DEF CategoryInv
  <2> QED BY <2>3, <2>5, <2>6, <2>7
<1> QED BY <1>4, <1>5

LEMMA DeleteCategorySteps ==
  ASSUME FirmwareInv, NEW r \in FirmwareRequest, F!DeleteCategory(r)
  PROVE  FirmwareInv'
<1> USE DEF FirmwareInv
<1> DEFINE k == request[r].category
<1>1. /\ request[r].pc = "counted" /\ k \in Category /\ F!Ends(r) /\ UNCHANGED <<firmware, disk, past>>
      /\ category' = [category EXCEPT ![k] = IF @ = "yes" THEN "deleted" ELSE @]
  BY DEF F!DeleteCategory, F!At, Types, Placed
<1>2. /\ category' \in [Category -> {"no", "yes", "deleted"}]
      /\ \A c : c # k => category'[c] = category[c]
  BY <1>1 DEF Types
<1>3. Types'
  BY <1>1, <1>2, EndsTo DEF Types
<1>4. \A o \in FirmwareRequest : request'[o].pc # "done" => request'[o] = request[o]
  BY <1>1, EndsTo
<1>5. \A o \in FirmwareRequest : /\ Flying(o)' => Flying(o) /\ request'[o] = request[o]
                                 /\ F!Unlinked(o) => F!Unlinked(o)' /\ request'[o] = request[o]
  BY <1>1, EndsTo DEF Flying, F!Unlinked, F!At
<1>6. FilesInv'
  BY <1>1, <1>5 DEF FilesInv, Known, OneRecord, OneWriter, OnlyItsOwn
<1>7. F!RecordHasFile'
  BY <1>1, <1>5 DEF F!RecordHasFile, F!Stored, FirmwareRequest
<1>8. CategoryInv'
  <2>1. CountedInv'
    BY <1>1, <1>4 DEF CategoryInv, CountedInv
  <2>2. SavedInv'
    BY <1>1, <1>2, <1>4 DEF CategoryInv, CountedInv, SavedInv
  <2>3. F!CategoryHasCause'
    BY <1>1, <1>2 DEF CategoryInv, CountedInv, F!CategoryHasCause, F!Stored
  <2> QED BY <2>1, <2>2, <2>3 DEF CategoryInv
<1> QED BY <1>3, <1>6, <1>7, <1>8

LEMMA FailPast ==
  ASSUME Types, NEW rs \in SUBSET FirmwareRequest,
         past' = [past EXCEPT !.lost = @ \cup F!Lost(rs), !.faults = @ + 1]
  PROVE  /\ past' \in PastState /\ past'.files = past.files /\ past'.ids = past.ids /\ past'.raced = past.raced
         /\ past'.lost = past.lost \cup F!Lost(rs)
<1>1. PICK X \in SUBSET FileOrNone, n \in Nat : X = F!Lost(rs) /\ n = past.faults + 1
  BY LostTo DEF Types, PastState
<1>2. past' = [past EXCEPT !.lost = past.lost \cup X, !.faults = n]
  BY <1>1
<1>3. past \in PastState /\ past.lost \cup X \in SUBSET FileOrNone
  BY DEF Types, PastState
<1> HIDE <1>1
<1>4. /\ past' \in PastState /\ past'.files = past.files /\ past'.ids = past.ids /\ past'.raced = past.raced
      /\ past'.lost = past.lost \cup X
  BY <1>2, <1>3 DEF PastState
<1> QED BY <1>1, <1>4

LEMMA FailSteps ==
  ASSUME FirmwareInv, NEW r \in FirmwareRequest, F!Fail(r)
  PROVE  FirmwareInv'
<1>1. /\ Types /\ F!Ends(r) /\ UNCHANGED <<firmware, category, disk>>
      /\ past' = [past EXCEPT !.lost = @ \cup F!Lost({r}), !.faults = @ + 1]
  BY DEF F!Fail, FirmwareInv
<1>2. /\ past' \in PastState /\ past'.files = past.files /\ past'.ids = past.ids /\ past'.raced = past.raced
      /\ past'.lost = past.lost \cup F!Lost({r})
  BY <1>1, FailPast
<1>3. Types'
  BY <1>1, <1>2, EndsTo DEF Types
<1>4. F!Unlinked(r) => request[r].seen \in F!Lost({r})
  BY DEF F!Lost
<1>5. \A o \in FirmwareRequest : /\ Flying(o)' => request'[o] = request[o]
                                 /\ F!Unlinked(o) => request'[o] = request[o] \/ request[o].seen \in past'.lost
  BY <1>1, <1>2, <1>4, EndsTo
<1> QED BY <1>1, <1>2, <1>3, <1>5, Ending

LEMMA CrashSteps ==
  ASSUME FirmwareInv, F!Crash
  PROVE  FirmwareInv'
<1> DEFINE done == [F!Idle EXCEPT !.pc = "done"]
<1>1. /\ Types /\ UNCHANGED <<firmware, category, disk>>
      /\ F!InFlight \in SUBSET FirmwareRequest
      /\ past' = [past EXCEPT !.lost = @ \cup F!Lost(F!InFlight), !.faults = @ + 1]
      /\ request' = [r \in FirmwareRequest |-> IF r \in F!InFlight THEN done ELSE request[r]]
  BY DEF F!Crash, F!InFlight, FirmwareInv, FirmwareRequest
<1>2. /\ past' \in PastState /\ past'.files = past.files /\ past'.ids = past.ids /\ past'.raced = past.raced
      /\ past'.lost = past.lost \cup F!Lost(F!InFlight)
  BY <1>1, FailPast
<1>3. done \in RequestState /\ done.pc = "done" /\ done.seen = None
  BY DEF F!Idle, RequestState, FileOrNone, CategoryOrNone
<1> HIDE DEF done
<1>4. Types'
  BY <1>1, <1>2, <1>3 DEF Types, Placed
<1>5. \A o \in FirmwareRequest : F!Unlinked(o) => o \in F!InFlight
  BY DEF F!Unlinked, F!At, F!InFlight, FirmwareRequest
<1>6. \A o \in FirmwareRequest : /\ Flying(o)' => request'[o] = request[o]
                                 /\ F!Unlinked(o) => request[o].seen \in past'.lost
  BY <1>1, <1>2, <1>3, <1>5 DEF Flying, F!Lost
<1> QED BY <1>1, <1>2, <1>4, <1>6, Ending

LEMMA NextFirmware ==
  ASSUME focus = "firmwares", FirmwareInv, [Next]_vars
  PROVE  FirmwareInv'
<1>1. CASE UNCHANGED vars
  <2>1. Types'
    BY <1>1 DEF vars, firmwares, FirmwareInv, Types, Placed
  <2> QED BY <1>1, <2>1, Ending DEF vars, firmwares
<1>2. CASE F!Next
  BY <1>2, StartCreateSteps, LoadSteps, SwapSteps, LookSteps, SaveNewSteps, SaveUpdateSteps, UnlinkSteps,
     DeleteRecordSteps, AssignSteps, CreateCategorySteps, CountSteps, DeleteCategorySteps, FailSteps, CrashSteps
     DEF F!Next, FirmwareRequest, FileOrNone, CategoryOrNone
<1> QED BY <1>1, <1>2 DEF Next

(* What is assigned to a device, or loaded to be, has been a record.       *)
NamedInv ==
    /\ assigned \in past.ids \cup {None}
    /\ \A r \in FirmwareRequest : request[r].pc = "loaded" => request[r].on \in past.ids

LEMMA QuietNames ==
  ASSUME NamedInv, past.ids \subseteq past'.ids, assigned' = assigned,
         \A r \in FirmwareRequest : request'[r].pc = "loaded" => request[r].pc = "loaded" /\ request'[r].on = request[r].on
  PROVE  NamedInv'
  BY DEF NamedInv

LEMMA EndingNames ==
  ASSUME Types, NamedInv, past.ids \subseteq past'.ids, assigned' = assigned, NEW r \in FirmwareRequest, F!Ends(r)
  PROVE  NamedInv'
<1>1. request'[r].pc = "done" /\ \A o \in FirmwareRequest \ {r} : request'[o] = request[o]
  BY EndsTo
<1> QED BY <1>1, QuietNames

LEMMA GoingNames ==
  ASSUME Types, NamedInv, past.ids \subseteq past'.ids, assigned' = assigned, NEW r \in FirmwareRequest,
         NEW pc \in {"looking", "saving", "deleting"}, F!Goto(r, pc)
  PROVE  NamedInv'
<1>1. request'[r].pc = pc /\ \A o \in FirmwareRequest \ {r} : request'[o] = request[o]
  BY DEF F!Goto, Types, RequestState
<1> QED BY <1>1, QuietNames

LEMMA NextNames ==
  ASSUME Types, Known, NamedInv, F!Next
  PROVE  NamedInv'
<1> USE DEF Types, PastState
<1>1. ASSUME NEW r \in FirmwareRequest, NEW op, NEW f \in Firmware, NEW file, NEW k, F!Load(r, op, f, file, k)
      PROVE  NamedInv'
  <2>1. past'.ids = past.ids /\ assigned' = assigned
    BY <1>1 DEF F!Load, F!Named
  <2>2. CASE F!Ends(r)
    BY <2>1, <2>2, EndingNames
  <2>3. CASE f \in F!Stored /\ request' = [request EXCEPT ![r] = [pc |-> "loaded", op |-> op, on |-> f, file |-> file,
                                                                 category |-> k, seen |-> firmware[f].file]]
    <3>1. f \in past.ids /\ request'[r].on = f /\ \A o \in FirmwareRequest \ {r} : request'[o] = request[o]
      BY <2>3 DEF F!Stored, Known
    <3> QED BY <2>1, <3>1 DEF NamedInv
  <2> QED BY <1>1, <2>2, <2>3 DEF F!Load
<1>2. ASSUME NEW r \in FirmwareRequest, F!AssignToDevices(r) PROVE NamedInv'
  <2>1. past'.ids = past.ids /\ assigned' \in past.ids
    BY <1>2 DEF F!AssignToDevices, F!At, NamedInv
  <2>2. request'[r].pc = "done" /\ \A o \in FirmwareRequest \ {r} : request'[o] = request[o]
    BY <1>2, EndsTo DEF F!AssignToDevices
  <2> QED BY <2>1, <2>2 DEF NamedInv
<1>3. ASSUME NEW r \in FirmwareRequest, NEW file, NEW k, F!StartCreate(r, file, k) PROVE NamedInv'
  BY <1>3, QuietNames DEF F!StartCreate, F!AfterFile, F!Named, F!Idle
<1>4. ASSUME NEW r \in FirmwareRequest, F!Swap(r) PROVE NamedInv'
  BY <1>4, GoingNames DEF F!Swap, F!AfterFile
<1>5. ASSUME NEW r \in FirmwareRequest, F!Look(r) PROVE NamedInv'
  <2>1. past'.ids = past.ids /\ assigned' = assigned
    BY <1>5 DEF F!Look
  <2> QED BY <1>5, <2>1, GoingNames, EndingNames DEF F!Look
<1>6. ASSUME NEW r \in FirmwareRequest, F!SaveNew(r) PROVE NamedInv'
  BY <1>6, EndingNames DEF F!SaveNew
<1>7. ASSUME NEW r \in FirmwareRequest, F!SaveUpdate(r) \/ F!Unlink(r) \/ F!DeleteRecord(r) PROVE NamedInv'
  <2>1. past' = past /\ assigned' = assigned /\ (F!Goto(r, "deleting") \/ F!Ends(r))
    BY <1>7 DEF F!SaveUpdate, F!Unlink, F!DeleteRecord
  <2> QED BY <2>1, GoingNames, EndingNames
<1>8. ASSUME NEW r \in FirmwareRequest, NEW k \in Category, F!CountFirmwares(r, k) PROVE NamedInv'
  <2>1. past'.ids = past.ids /\ assigned' = assigned
    BY <1>8 DEF F!CountFirmwares
  <2>2. CASE request' = [request EXCEPT ![r] = [F!Idle EXCEPT !.pc = "counted", !.category = k]]
    BY <2>1, <2>2, QuietNames DEF F!Idle
  <2> QED BY <1>8, <2>1, <2>2, EndingNames DEF F!CountFirmwares
<1>9. ASSUME NEW r \in FirmwareRequest, F!DeleteCategory(r) \/ F!Fail(r) PROVE NamedInv'
  <2>1. past'.ids = past.ids /\ assigned' = assigned /\ F!Ends(r)
    BY <1>9 DEF F!DeleteCategory, F!Fail
  <2> QED BY <2>1, EndingNames
<1>10. ASSUME NEW k \in Category, F!CreateCategory(k) PROVE NamedInv'
  BY <1>10, QuietNames DEF F!CreateCategory
<1>11. CASE F!Crash
  BY <1>11, QuietNames DEF F!Crash, F!Idle, FirmwareRequest
<1> QED BY <1>1, <1>2, <1>3, <1>4, <1>5, <1>6, <1>7, <1>8, <1>9, <1>10, <1>11 DEF F!Next, FirmwareRequest

(* The invariant of the firmwares holds for as long as they are in focus.  *)
LEMMA FirmwaresAlways == Spec => [](focus = "firmwares" => FirmwareInv /\ NamedInv)
<1> DEFINE Inv == focus = "firmwares" => FirmwareInv /\ NamedInv
<1>1. Init => Inv
  <2>1. Init /\ focus = "firmwares" => NamedInv
    BY DEF Init, F!Init, F!Idle, NamedInv, FirmwareRequest
  <2> QED BY <2>1, InitFirmware
<1>2. Inv /\ [Next]_vars => Inv'
  <2> SUFFICES ASSUME focus = "firmwares", FirmwareInv, NamedInv, [Next]_vars PROVE NamedInv'
    BY NextFirmware DEF Next, vars
  <2>1. CASE UNCHANGED vars
    BY <2>1 DEF vars, firmwares, NamedInv
  <2>2. CASE F!Next
    BY <2>2, NextNames DEF FirmwareInv, FilesInv
  <2> QED BY <2>1, <2>2 DEF Next
<1> QED BY <1>1, <1>2, PTL DEF Spec

(* The file and the category that a record names are there, unless the     *)
(* file was unlinked by a request that has yet to write the record, or     *)
(* broke off before it, or the category was deleted while a request had    *)
(* named it.                                                               *)
THEOREM FirmwareAlwaysWhole == Spec => []FirmwareIsWhole
<1>1. (focus = "firmwares" => FirmwareInv /\ NamedInv) => FirmwareIsWhole
  BY DEF FirmwareIsWhole, FirmwareInv, CategoryInv
<1> QED BY <1>1, FirmwaresAlways, PTL
=============================================================================
