----------------------------- MODULE DeviceGroups -----------------------------
(***************************************************************************)
(* DeviceGroupsService: requests that read one group, await further reads  *)
(* and then write it, and commands to all devices of the group.  The list  *)
(* of members is an array: the same id may be in it twice.                 *)
(***************************************************************************)
EXTENDS Naturals, FiniteSets

CONSTANTS
    Device,       \* ids of devices
    Request,      \* requests that are made in a behaviour
    MaxCrashes,   \* bound: restarts of the process
    None          \* no list given, nothing read

VARIABLES
    registered,   \* devices of the devices collection
    stored,       \* whether the group is there; its name is unique
    members,      \* how often each device is in its list
    request,      \* where each request is, and what it has read
    published,    \* devices that publishCommand was called for, by request
    recorded,     \* devices with a record of the group command, by request
    crashes,
    past          \* history, see the invariants

groupVars == <<registered, stored, members, request, published, recorded, crashes, past>>

Lists == [Device -> 0 .. Cardinality(Request) + 1]
In(list) == {d \in Device : list[d] > 0}
ListOf(ids) == [d \in Device |-> IF d \in ids THEN 1 ELSE 0]

(* Requests; nothing validates the type and the priority of a command.     *)
Operation ==
    {todo \in [op : {"create", "add", "remove", "update", "send"}, ids : {None} \cup SUBSET Device,
               body : {"valid", "badType", "badPriority"}] :
        /\ todo.op = "send" => todo.ids = None
        /\ todo.ids = None => todo.op \in {"update", "send"}
        /\ todo.body = "valid" \/ todo.op = "send"}
Idle == [pc |-> "idle", todo |-> None, seen |-> None]
Done == [Idle EXCEPT !.pc = "done"]

Init ==
    /\ registered = Device
    /\ stored \in {"no", "yes"}
    /\ members \in {ListOf(ids) : ids \in SUBSET Device}
    /\ stored = "no" => members = ListOf({})
    /\ request = [r \in Request |-> Idle]
    /\ published = [r \in Request |-> {}] /\ recorded = published
    /\ crashes = 0
    /\ past = [wanted |-> In(members), stale |-> {}, raced |-> {}, failed |-> {}]

-----------------------------------------------------------------------------
Ends(r) == request' = [request EXCEPT ![r] = Done]
Loaded(r) == request[r].pc \in {"loaded", "checked"}
Others(r) == {q \in Request \ {r} : Loaded(q)}

(* History: r writes for the devices of ids what others read before.       *)
Wrote(r, ids, wanted) ==
    past' = [past EXCEPT !.wanted = wanted,
                         !.stale = IF Others(r) = {} THEN @ ELSE @ \cup ids]

Named(todo) == IF todo.ids = None THEN Device ELSE todo.ids

(* findById, or findOne with the name for a new group: 404 without the     *)
(* group, 400 with it.                                                     *)
Load(r, todo) ==
    LET goesOn == (stored = "yes") # (todo.op = "create")
        adding == {q \in Others(r) : request[q].todo.op \in {"add", "update"}} IN
    /\ request[r] = Idle
    /\ IF goesOn THEN request' = [request EXCEPT ![r] = [pc |-> "loaded", todo |-> todo, seen |-> members]]
       ELSE Ends(r)
    /\ past' = IF goesOn /\ todo.op \in {"add", "update"}
                 THEN [past EXCEPT !.raced = @ \cup UNION {Named(todo) \cap Named(request[q].todo) : q \in adding}]
                 ELSE past
    /\ UNCHANGED <<registered, stored, members, published, recorded, crashes>>

(* The ids of the body have to be those of registered devices, else 400.   *)
Check(r) ==
    LET ids == request[r].todo.ids IN
    /\ request[r].pc = "loaded"
    /\ request[r].todo.op \in {"create", "add", "update"}
    /\ IF ids = None \/ ids \subseteq registered
         THEN request' = [request EXCEPT ![r].pc = "checked"] ELSE Ends(r)
    /\ UNCHANGED <<registered, stored, members, published, recorded, crashes, past>>

(* save: the unique index refuses a second group of the name.              *)
Create(r) ==
    LET ids == request[r].todo.ids IN
    /\ request[r].pc = "checked" /\ request[r].todo.op = "create"
    /\ Ends(r)
    /\ IF stored = "no"
         THEN /\ stored' = "yes" /\ members' = ListOf(ids)
              /\ past' = [past EXCEPT !.wanted = ids]
         ELSE UNCHANGED <<stored, members, past>>
    /\ UNCHANGED <<registered, published, recorded, crashes>>

(* findByIdAndUpdate of a group that is gone writes nothing.               *)
Write(list) == members' = IF stored = "yes" THEN list ELSE members

(* $push of the devices that were not in the list when it was loaded.      *)
AddDevices(r) ==
    LET ids == request[r].todo.ids
        new == ids \ In(request[r].seen) IN
    /\ request[r].pc = "checked" /\ request[r].todo.op = "add"
    /\ Write([d \in Device |-> members[d] + (IF d \in new THEN 1 ELSE 0)])
    /\ Wrote(r, ids, past.wanted \cup ids)
    /\ Ends(r)
    /\ UNCHANGED <<registered, stored, published, recorded, crashes>>

(* $pull takes every copy of the devices from the list as it is.           *)
RemoveDevices(r) ==
    LET ids == request[r].todo.ids IN
    /\ request[r].pc = "loaded" /\ request[r].todo.op = "remove"
    /\ Write([d \in Device |-> IF d \in ids THEN 0 ELSE members[d]])
    /\ Wrote(r, ids, past.wanted \ ids)
    /\ Ends(r)
    /\ UNCHANGED <<registered, stored, published, recorded, crashes>>

(* Fault for MembershipDriftHasCause: update with no list clears it.       *)
NewList_Cleared(todo, seen) == IF todo.ids = None THEN ListOf({}) ELSE ListOf(todo.ids)

(* dto.deviceIds || group.devices: without a list, the one that was loaded. *)
NewList(todo, seen) == IF todo.ids = None THEN seen ELSE ListOf(todo.ids)

Update(r) ==
    LET todo == request[r].todo IN
    /\ request[r].pc = "checked" /\ todo.op = "update"
    /\ Write(NewList(todo, request[r].seen))
    /\ Wrote(r, Device, IF todo.ids = None THEN past.wanted ELSE todo.ids)
    /\ Ends(r)
    /\ UNCHANGED <<registered, stored, published, recorded, crashes>>

Delete ==
    /\ stored = "yes"
    /\ stored' = "deleted"
    /\ UNCHANGED <<registered, members, request, published, recorded, crashes, past>>

(* Another endpoint deletes a device; groups keep its id.                  *)
DeleteDevice(d) ==
    /\ registered' = registered \ {d}
    /\ UNCHANGED <<stored, members, request, published, recorded, crashes, past>>

(* sendCommandToGroup: populate drops the ids of deleted devices; the loop *)
(* awaits nothing, pushes a record before it looks at the type, and calls  *)
(* publishCommand.  The records are inserted when it is through.           *)
Publish(r) ==
    LET devices == In(request[r].seen) \cap registered IN
    /\ request[r].pc = "loaded" /\ request[r].todo.op = "send"
    /\ IF devices = {} THEN Ends(r) /\ UNCHANGED published
       ELSE /\ request' = [request EXCEPT ![r].pc = "inserting", ![r].seen = ListOf(devices)]
            /\ published' = [published EXCEPT ![r] = IF request[r].todo.body = "badType" THEN {} ELSE devices]
    /\ UNCHANGED <<registered, stored, members, recorded, crashes, past>>

(* Fault for SendRecords: the records are not awaited, a failure is lost.  *)
Insert_Unawaited(r) ==
    /\ request[r].pc = "inserting"
    /\ \E ids \in SUBSET In(request[r].seen) : recorded' = [recorded EXCEPT ![r] = ids]
    /\ Ends(r)
    /\ UNCHANGED <<registered, stored, members, published, crashes, past>>

(* insertMany, which validates the priority of all records before it       *)
(* inserts any; a failure leaves the first ones, and the answer is 500.    *)
Insert(r) ==
    LET devices == In(request[r].seen)
        refused == request[r].todo.body = "badPriority" IN
    /\ request[r].pc = "inserting"
    /\ \/ /\ ~ refused
          /\ recorded' = [recorded EXCEPT ![r] = devices]
          /\ UNCHANGED past
       \/ /\ \E ids \in SUBSET devices :
                /\ refused => ids = {}
                /\ recorded' = [recorded EXCEPT ![r] = ids]
          /\ past' = [past EXCEPT !.failed = @ \cup {r}]
    /\ Ends(r)
    /\ UNCHANGED <<registered, stored, members, published, crashes>>

(* A restart: the requests that are being handled are dropped.             *)
Crash ==
    /\ crashes < MaxCrashes
    /\ crashes' = crashes + 1
    /\ request' = [r \in Request |-> IF request[r].pc = "idle" THEN Idle ELSE Done]
    /\ UNCHANGED <<registered, stored, members, published, recorded, past>>

Next ==
    \/ \E r \in Request :
          \/ \E todo \in Operation : Load(r, todo)
          \/ Check(r) \/ Create(r) \/ AddDevices(r) \/ RemoveDevices(r) \/ Update(r)
          \/ Publish(r) \/ Insert(r)
    \/ Delete
    \/ \E d \in Device : DeleteDevice(d)
    \/ Crash

Spec == Init /\ [][Next]_groupVars

-----------------------------------------------------------------------------
TypeOK ==
    /\ registered \subseteq Device
    /\ stored \in {"no", "yes", "deleted"}
    /\ members \in Lists
    /\ \A r \in Request : Loaded(r) => request[r].todo \in Operation /\ request[r].seen \in Lists

(* The members are those that the completed requests ask for, each once,   *)
(* unless another request had read the group when one wrote it: an update  *)
(* puts an older list back (line 108), an addition counts as done for a    *)
(* device that is being removed; a device is in the list twice only when   *)
(* an addition that found it missing (line 145) overlapped another one, or *)
(* an update that lists it.                                                *)
MembershipDriftHasCause == stored = "yes" => \A d \in Device :
    /\ (members[d] > 0 <=> d \in past.wanted) \/ d \in past.stale
    /\ members[d] < 2 \/ d \in past.raced

(* A group command that was handed to MQTT is recorded for the same        *)
(* devices once its request is over, unless insertMany failed after the    *)
(* fact or the process was restarted before it; only an invalid type       *)
(* leaves records of commands that nobody sent (lines 220-229, 250).       *)
SendRecords == \A r \in Request : request[r].pc = "done" =>
    \/ recorded[r] = published[r]
    \/ published[r] = {}
    \/ recorded[r] \subseteq published[r] /\ (r \in past.failed \/ crashes > 0)
=============================================================================
