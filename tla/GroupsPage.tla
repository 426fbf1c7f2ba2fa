------------------------------ MODULE GroupsPage ------------------------------
(***************************************************************************)
(* The page "/device-groups" of the web frontend: the table of groups and  *)
(* its five dialogs.  A handler that has changed something ends with       *)
(* refreshData; isLoading disables the submit buttons of the dialogs only. *)
(* The deletion of devices is left out.                                    *)
(***************************************************************************)
EXTENDS PageHandlers

CONSTANTS
    Group,        \* ids of groups
    Existing,     \* those that exist when the page is mounted
    Device        \* ids of devices

Members == SUBSET Device
Table == [Group -> Members \cup {None}]
Dialogs == {"create", "command", "history", "details", "manage"}

(* A running handler: the step it awaits, the group, and for an update     *)
(* what its closure computed from the ticks and the members of the group.  *)
Free == [pc |-> "free", op |-> "none", step |-> "none", group |-> None,
         ticks |-> {}, add |-> {}, remove |-> {}, answer |-> None]
Handler(op, step, g) == [Free EXCEPT !.pc = "sent", !.op = op, !.step = step, !.group = g]

(* The groups that getGroups may find, and the page when it is mounted.    *)
ServersAtMount == {[g \in Group |-> IF g \in Existing THEN members[g] ELSE None] :
                        members \in [Existing -> Members]}
ViewAtMount == [groups |-> [g \in Group |-> None], devices |-> {}, ticks |-> {}, loading |-> TRUE,
                selected |-> None, members |-> {}, dialogs |-> {}]
CallsAtMount == [[i \in Slot |-> Free] EXCEPT ![1] = Handler("load", "refresh", None)]

Init ==
    /\ page = Path
    /\ server \in ServersAtMount
    /\ view = ViewAtMount
    /\ calls = CallsAtMount
    /\ past = PastAtMount

-----------------------------------------------------------------------------
(* The rows of the table, each with the buttons of its group.              *)
InTable(g) == view.groups[g] # None

(* setSelectedGroup(group) of a button in the row of g.                    *)
Chosen(g) == [view EXCEPT !.selected = g, !.members = view.groups[g]]

OpenCreate == Show([view EXCEPT !.dialogs = @ \cup {"create"}])

OpenCommand(g) ==
    /\ InTable(g)
    /\ Show([Chosen(g) EXCEPT !.dialogs = @ \cup {"command"}])

Cancel(dialog) ==
    /\ dialog \in view.dialogs
    /\ Show([view EXCEPT !.dialogs = @ \ {dialog}])

(* The two dialogs with devices share the ticks.                           *)
Ticked(ticks) ==
    /\ Here
    /\ {"create", "manage"} \cap view.dialogs # {}
    /\ view' = [view EXCEPT !.ticks = ticks]
    /\ UNCHANGED <<page, server, calls, past>>

Tick(d) ==
    /\ d \in view.devices
    /\ Ticked(IF d \in view.ticks THEN view.ticks \ {d} ELSE view.ticks \cup {d})

TickAll == Ticked(IF view.ticks = view.devices THEN {} ELSE view.devices)

(* "Manage" in the row of g: handleManageDevices reads selectedGroup and   *)
(* deviceSelections of its closure, from before setSelectedGroup(g).  It   *)
(* awaits nothing, and sets and clears isLoading at once.                  *)
Manage(g) ==
    /\ InTable(g)
    /\ Click
    /\ past' = [Counted EXCEPT !.overlap = @ \/ (view.selected # None /\ Running # {})]
    /\ view' = IF view.selected = None THEN Chosen(g)
               ELSE [Chosen(g) EXCEPT !.loading = FALSE, !.dialogs = @ \cup {"manage"},
                                      !.ticks = IF view.members = {} THEN @ ELSE view.members]
    /\ UNCHANGED <<page, server, calls>>

(* "History" in the row of g has the same closure; "Apply Filters" asks    *)
(* for the group that is selected when the dialog shows.                   *)
History(i, g) ==
    /\ InTable(g)
    /\ IF view.selected = None THEN Show(Chosen(g))
       ELSE Start(i, Handler("history", "history", view.selected), Chosen(g))

(* The dialogs that are open and can be submitted.                         *)
Submittable(dialog) == dialog \in view.dialogs /\ ~ view.loading
CreateModal == Submittable("create")
CommandModal == Submittable("command")
HistoryModal == Submittable("history")
ManageModal == Submittable("manage")

ApplyFilters(i) == HistoryModal /\ Start(i, Handler("history", "history", view.selected), view)

Details(i) == "history" \in view.dialogs /\ Start(i, Handler("details", "details", view.selected), view)

SubmitGroup(i) ==
    /\ CreateModal
    /\ Start(i, [Handler("create", "create", None) EXCEPT !.ticks = view.ticks], view)

SendCommand(i) == CommandModal /\ Start(i, Handler("command", "send", view.selected), view)

QuickCommand(i, g) == InTable(g) /\ Start(i, Handler("quick", "send", g), view)

DeleteGroup(i, g) == InTable(g) /\ Start(i, Handler("delete", "delete", g), view)

(* Fault for UpdateSavesTicked: devices are added and never removed.       *)
Update_AddsOnly(ticks, members) ==
    LET h == [Handler("update", "add", view.selected) EXCEPT !.ticks = ticks, !.add = ticks \ members] IN
    IF h.add # {} THEN h ELSE [h EXCEPT !.step = "refresh"]

(* Steps of handleUpdateGroupDevices: the calls it needs, then refreshData. *)
Update(ticks, members) ==
    LET h == [Handler("update", "add", view.selected) EXCEPT
                !.ticks = ticks, !.add = ticks \ members, !.remove = members \ ticks] IN
    CASE h.add # {} -> h
      [] h.add = {} /\ h.remove # {} -> [h EXCEPT !.step = "remove"]
      [] OTHER -> [h EXCEPT !.step = "refresh"]

(* With no call to wait for the dialog is closed at once.                  *)
UpdateGroupDevices(i) ==
    LET h == Update(view.ticks, view.members) IN
    /\ ManageModal
    /\ Start(i, h, [view EXCEPT !.dialogs = IF h.step = "refresh" THEN @ \ {"manage"} ELSE @])

-----------------------------------------------------------------------------
(* A new group has an id that nothing refers to (a call that needs one      *)
(* fails when the ids of the model have run out).                          *)
NewIds == {g \in Group :
    /\ server[g] = None /\ view.groups[g] = None /\ view.selected # g
    /\ \A i \in Slot : calls[i].group # g /\ (calls[i].answer # None => calls[i].answer[g] = None)}

(* The backend: calls that name a group fail when there is none, and a     *)
(* command when it has no devices; members are added and pulled from what  *)
(* the group has by then.                                                  *)
Refused(c) ==
    \/ c.step = "create" /\ NewIds = {}
    \/ c.step \in {"send", "delete", "add", "remove", "history"} /\ server[c.group] = None
    \/ c.step = "send" /\ server[c.group] = {}

Executed(c) ==
    CASE c.step = "create" -> {[server EXCEPT ![g] = c.ticks] : g \in NewIds}
      [] c.step = "delete" -> {[server EXCEPT ![c.group] = None]}
      [] c.step = "add" -> {[server EXCEPT ![c.group] = @ \cup c.add]}
      [] c.step = "remove" -> {[server EXCEPT ![c.group] = @ \ c.remove]}
      [] OTHER -> {server}

Answer(i) ==
    LET c == calls[i] IN
    /\ Here
    /\ c.pc = "sent"
    /\ \/ /\ ~ Refused(c)
          /\ server' \in Executed(c)
          /\ calls' = [calls EXCEPT ![i].pc = "answered", ![i].answer = IF c.step = "refresh" THEN server ELSE None]
          /\ UNCHANGED past
       \/ Fails(i, Refused(c))
    /\ UNCHANGED <<page, view>>

(* Another client of the backend changes the members of a group.           *)
Changed(g) ==
    server[g] # None /\ \E members \in Members : Elsewhere([server EXCEPT ![g] = members])

DialogOf(op) == IF op = "update" THEN "manage" ELSE op

(* The continuation of a call: the page after it ...                       *)
Shown(c) ==
    IF c.pc = "failed" THEN [view EXCEPT !.loading = FALSE]
    ELSE CASE c.step = "refresh" ->
            [view EXCEPT !.groups = c.answer, !.devices = Device, !.loading = FALSE,
                         !.ticks = IF c.op = "load" THEN {} ELSE @]
      [] c.step = "history" ->
            [view EXCEPT !.dialogs = @ \cup {"history"}, !.loading = FALSE]
      [] c.step = "details" -> [view EXCEPT !.dialogs = @ \cup {"details"}, !.loading = FALSE]
      [] c.step = "add" /\ c.remove # {} -> view
      [] OTHER -> [view EXCEPT !.dialogs = @ \ {DialogOf(c.op)}, !.loading = TRUE]

(* ... and the call it makes next.                                         *)
Following(c) ==
    IF c.pc = "failed" \/ c.step \in {"refresh", "history", "details"} THEN Free
    ELSE IF c.step = "add" /\ c.remove # {} THEN [c EXCEPT !.pc = "sent", !.step = "remove"]
    ELSE [c EXCEPT !.pc = "sent", !.step = "refresh"]

Continue(i) == Proceed(i, Shown(calls[i]), Following(calls[i]))

Next == Here /\
    \/ \E i \in Slot :
          \/ SubmitGroup(i) \/ SendCommand(i) \/ UpdateGroupDevices(i) \/ ApplyFilters(i) \/ Details(i)
          \/ Answer(i) \/ Continue(i)
          \/ \E g \in Group : History(i, g) \/ QuickCommand(i, g) \/ DeleteGroup(i, g)
    \/ OpenCreate \/ TickAll
    \/ \E dialog \in Dialogs : Cancel(dialog)
    \/ \E d \in Device : Tick(d)
    \/ \E g \in Group : OpenCommand(g) \/ Manage(g) \/ Changed(g)

Spec == Init /\ [][Next]_vars

-----------------------------------------------------------------------------
TypeOK ==
    /\ server \in Table /\ view.groups \in Table
    /\ view.devices \in Members /\ view.ticks \in Members /\ view.members \in Members
    /\ view.selected \in Group \cup {None}
    /\ view.dialogs \subseteq Dialogs
    /\ view.dialogs \ {"create"} # {} => view.selected # None
    /\ \A i \in Slot : calls[i].step = "refresh" /\ calls[i].pc = "answered" => calls[i].answer \in Table

(* When the calls of an update have been answered the group has the        *)
(* devices that were ticked, if handlers ran one at a time, no call failed *)
(* and no other client changed the group.                                  *)
UpdateSavesTicked == [][
    Here => \A i \in Slot :
        LET c == calls[i] IN
        /\ c.op = "update" /\ c.step # "refresh" /\ calls'[i].step = "refresh"
        /\ ~ past.overlap /\ past.faults = 0
        => server[c.group] = c.ticks]_vars

(* The comment of handleManageDevices (line 289): "Pre-select devices that *)
(* are already in the group": a device that the opening of the dialog      *)
(* ticks is one that the row of the group shows.                           *)
MembersArePreselected == [][
    "manage" \in view'.dialogs \ view.dialogs => view'.ticks \ view.ticks \subseteq view'.members]_vars
=============================================================================
