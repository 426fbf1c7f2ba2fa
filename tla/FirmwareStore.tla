----------------------------- MODULE FirmwareStore -----------------------------
(***************************************************************************)
(* FirmwareService and FirmwareCategoriesService: a firmware is a record   *)
(* of the database and a file on disk, written at different times.  A      *)
(* request names at most one category.  File names are hashes of a name    *)
(* and the millisecond: two uploads of one name in one millisecond, which  *)
(* would share a file, are not followed.  Firmwares are assigned to one    *)
(* device, which is there.                                                 *)
(***************************************************************************)
EXTENDS Naturals, FiniteSets

CONSTANTS
    Firmware,     \* ids of firmware records
    Category,     \* ids of categories
    File,         \* names of files
    Request,      \* requests that are made in a behaviour
    MaxFaults,    \* bound: failing database calls and restarts
    None          \* no record, no file, no category

VARIABLES
    firmware,     \* the records
    category,     \* "no", "yes" or "deleted", by category
    disk,         \* the files in FIRMWARE_DIR
    assigned,     \* assignedFirmware of the device
    request,      \* where each request is
    past          \* history: ids and names that were used, and see the invariants

firmwareVars == <<firmware, category, disk, assigned, request, past>>

Record == [file : File \cup {None}, category : Category \cup {None}]
Stored == {f \in Firmware : firmware[f] # None}
Idle == [pc |-> "idle", op |-> None, on |-> None, file |-> None, category |-> None, seen |-> None]
InFlight == {r \in Request : request[r].pc \notin {"idle", "done"}}

Init ==
    /\ category \in [Category -> {"no", "yes"}]
    /\ \E first \in {None} \cup [file : File \cup {None}, category : {None} \cup {k \in Category : category[k] = "yes"}],
          f \in Firmware :
          /\ firmware = [[g \in Firmware |-> None] EXCEPT ![f] = first]
          /\ disk = IF first = None THEN {} ELSE {first.file} \ {None}
    /\ assigned = None
    /\ request = [r \in Request |-> Idle]
    /\ past = [files |-> disk, ids |-> Stored, lost |-> {}, raced |-> {}, faults |-> 0]

-----------------------------------------------------------------------------
At(r, pc) == request[r].pc = pc
Goto(r, pc) == request' = [request EXCEPT ![r].pc = pc]
Ends(r) == request' = [request EXCEPT ![r] = [Idle EXCEPT !.pc = "done"]]
AfterFile(k) == IF k = None THEN "saving" ELSE "looking"

(* History: a file that is unlinked and stays in its record.               *)
Unlinked(r) == At(r, "deleting") \/ (request[r].file # None /\ request[r].pc \in {"looking", "saving"})
Lost(rs) == {request[r].seen : r \in {r \in rs : Unlinked(r)}}
(* History: a count of the firmwares of a category meets a request with it. *)
Meets(k, pcs) == IF \E r \in InFlight : request[r].pc \in pcs /\ request[r].category = k THEN {k} ELSE {}
Named(file, k) ==
    past' = [past EXCEPT !.files = @ \cup ({file} \ {None}), !.raced = @ \cup (Meets(k, {"counted"}) \ {None})]

(* create: the file is written first, before the first await.              *)
StartCreate(r, file, k) ==
    /\ At(r, "idle") /\ file \notin past.files
    /\ request' = [request EXCEPT ![r] = [Idle EXCEPT !.pc = AfterFile(k), !.op = "create", !.file = file, !.category = k]]
    /\ disk' = disk \cup ({file} \ {None})
    /\ Named(file, k)
    /\ UNCHANGED <<assigned, firmware, category>>

(* findById of update, remove and assignToDevices; 404 without the record. *)
Load(r, op, f, file, k) ==
    /\ At(r, "idle") /\ file \notin past.files
    /\ IF f \in Stored
         THEN request' = [request EXCEPT ![r] =
                 [pc |-> "loaded", op |-> op, on |-> f, file |-> file, category |-> k, seen |-> firmware[f].file]]
         ELSE Ends(r)
    /\ Named(file, k)
    /\ UNCHANGED <<assigned, firmware, category, disk>>

(* update goes on: with a new file, the old one is unlinked at once.       *)
Swap(r) ==
    LET q == request[r] IN
    /\ At(r, "loaded") /\ q.op = "update"
    /\ disk' = IF q.file = None THEN disk ELSE (disk \ {q.seen}) \cup {q.file}
    /\ Goto(r, AfterFile(q.category))
    /\ UNCHANGED <<assigned, firmware, category, past>>

(* The categories are looked up when the file has been swapped: the throw  *)
(* for an unknown one leaves the record with the old name.                 *)
Look(r) ==
    /\ At(r, "looking")
    /\ IF category[request[r].category] = "yes" THEN Goto(r, "saving") /\ UNCHANGED past
       ELSE Ends(r) /\ past' = [past EXCEPT !.lost = @ \cup Lost({r})]
    /\ UNCHANGED <<assigned, firmware, category, disk>>

SaveNew(r) ==
    LET q == request[r] IN
    /\ At(r, "saving") /\ q.op = "create"
    /\ \E f \in Firmware \ past.ids :
          /\ firmware' = [firmware EXCEPT ![f] = [file |-> q.file, category |-> q.category]]
          /\ past' = [past EXCEPT !.ids = @ \cup {f}]
    /\ Ends(r)
    /\ UNCHANGED <<assigned, category, disk>>

(* Fault for FirmwareIsWhole: the name of the new file is not taken over.  *)
NewFile_Old(record, q) == record.file

(* firmware.filePath and the categories are written where they were given. *)
NewFile(record, q) == IF q.file = None THEN record.file ELSE q.file

(* save of a record that was removed throws.                               *)
SaveUpdate(r) ==
    LET q == request[r]
        record == firmware[q.on] IN
    /\ At(r, "saving") /\ q.op = "update"
    /\ firmware' = IF record = None THEN firmware
                   ELSE [firmware EXCEPT ![q.on] =
                            [file |-> NewFile(record, q),
                             category |-> IF q.category = None THEN record.category ELSE q.category]]
    /\ Ends(r)
    /\ UNCHANGED <<assigned, category, disk, past>>

(* remove: the file first, then the record.                                *)
Unlink(r) ==
    /\ At(r, "loaded") /\ request[r].op = "remove"
    /\ disk' = disk \ {request[r].seen}
    /\ Goto(r, "deleting")
    /\ UNCHANGED <<assigned, firmware, category, past>>

DeleteRecord(r) ==
    /\ At(r, "deleting")
    /\ firmware' = [firmware EXCEPT ![request[r].on] = None]
    /\ Ends(r)
    /\ UNCHANGED <<assigned, category, disk, past>>

(* assignToDevices: updateMany, when the devices have been looked up; the  *)
(* record may have gone, and nothing tells the device.                     *)
AssignToDevices(r) ==
    /\ At(r, "loaded") /\ request[r].op = "assign"
    /\ assigned' = request[r].on
    /\ Ends(r)
    /\ UNCHANGED <<firmware, category, disk, past>>

(* The categories: removal counts the firmwares first.                     *)
CreateCategory(k) ==
    /\ category[k] = "no"
    /\ category' = [category EXCEPT ![k] = "yes"]
    /\ UNCHANGED <<assigned, firmware, disk, request, past>>

CountFirmwares(r, k) ==
    /\ At(r, "idle")
    /\ IF \E f \in Stored : firmware[f].category = k THEN Ends(r)
       ELSE request' = [request EXCEPT ![r] = [Idle EXCEPT !.pc = "counted", !.category = k]]
    /\ past' = [past EXCEPT !.raced = @ \cup Meets(k, {"loaded", "looking", "saving"})]
    /\ UNCHANGED <<assigned, firmware, category, disk>>

DeleteCategory(r) ==
    /\ At(r, "counted")
    /\ category' = [category EXCEPT ![request[r].category] = IF @ = "yes" THEN "deleted" ELSE @]
    /\ Ends(r)
    /\ UNCHANGED <<assigned, firmware, disk, past>>

(* A call to the database fails, which ends its request; a restart ends    *)
(* all of them.                                                            *)
Fail(r) ==
    /\ r \in InFlight \ {r2 \in Request : At(r2, "loaded")}
    /\ past.faults < MaxFaults
    /\ past' = [past EXCEPT !.lost = @ \cup Lost({r}), !.faults = @ + 1]
    /\ Ends(r)
    /\ UNCHANGED <<assigned, firmware, category, disk>>
Crash ==
    /\ past.faults < MaxFaults
    /\ past' = [past EXCEPT !.lost = @ \cup Lost(InFlight), !.faults = @ + 1]
    /\ request' = [r \in Request |-> IF r \in InFlight THEN [Idle EXCEPT !.pc = "done"] ELSE request[r]]
    /\ UNCHANGED <<assigned, firmware, category, disk>>

Next ==
    \/ \E r \in Request :
          \/ \E file \in File \cup {None}, k \in Category \cup {None} :
                \/ StartCreate(r, file, k)
                \/ \E f \in Firmware : Load(r, "update", f, file, k)
          \/ \E f \in Firmware, op \in {"remove", "assign"} : Load(r, op, f, None, None)
          \/ AssignToDevices(r)
          \/ Swap(r) \/ Look(r) \/ SaveNew(r) \/ SaveUpdate(r) \/ Unlink(r) \/ DeleteRecord(r)
          \/ \E k \in Category : CountFirmwares(r, k)
          \/ DeleteCategory(r) \/ Fail(r)
    \/ \E k \in Category : CreateCategory(k)
    \/ Crash

Spec == Init /\ [][Next]_firmwareVars

-----------------------------------------------------------------------------
TypeOK ==
    /\ firmware \in [Firmware -> Record \cup {None}]
    /\ category \in [Category -> {"no", "yes", "deleted"}]
    /\ disk \subseteq File
    /\ assigned \in past.ids \cup {None}

(* The file that a record names is on disk, unless it was unlinked by a    *)
(* request that has yet to write the record (106-148), or that broke off   *)
(* in between: for an unknown category, a failing call or a restart.       *)
RecordHasFile == \A f \in Stored :
    LET file == firmware[f].file IN
    \/ file \in disk \cup {None} \cup past.lost
    \/ \E r \in Request : Unlinked(r) /\ request[r].on = f /\ request[r].seen = file

(* The category that a record names exists, unless its removal met a       *)
(* request that had named it (firmware-categories.service.ts:80-85).       *)
CategoryHasCause == \A f \in Stored :
    LET k == firmware[f].category IN k = None \/ category[k] = "yes" \/ k \in past.raced
=============================================================================
