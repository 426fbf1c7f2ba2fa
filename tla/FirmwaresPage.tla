----------------------------- MODULE FirmwaresPage -----------------------------
(***************************************************************************)
(* The page "/firmwares" of the web frontend: the tables of firmwares and  *)
(* of categories, the two forms, and the dialogs that assign a firmware    *)
(* and send an upgrade.  The two dialogs share the selected firmware and   *)
(* the selected devices.                                                   *)
(***************************************************************************)
EXTENDS PageHandlers

CONSTANTS
    Firmware,     \* ids of firmwares
    Category,     \* ids of categories
    Device        \* ids of devices

Dialogs == {"upload", "category", "assign", "upgrade"}
Firmwares == [Firmware -> (SUBSET Category) \cup {None}]
Lists == [firmwares |-> [f \in Firmware |-> None], categories |-> {}]

(* A running handler, the id it is about and the devices of its closure.   *)
Free == [pc |-> "free", op |-> "none", step |-> "none", id |-> None, devices |-> {},
         lists |-> Lists, awaited |-> {}]
Handler(op, id, devices) ==
    [Free EXCEPT !.pc = "sent", !.op = op, !.step = op, !.id = id, !.devices = devices]
(* Promise.all of the lists.                                               *)
Fetching(c) == [c EXCEPT !.pc = "sent", !.step = "fetch", !.awaited = {"firmwares", "categories"}]

(* When the page is mounted there is one firmware, and every category.     *)
ServersAtMount ==
    {[firmwares |-> [f \in Firmware |-> IF f = first THEN {} ELSE None],
      categories |-> Category, assigned |-> [d \in Device |-> None]] : first \in Firmware}
ViewAtMount == [lists |-> Lists, devices |-> {}, firmware |-> None, selected |-> {},
                dialogs |-> {}, loading |-> TRUE]
CallsAtMount == [[i \in Slot |-> Free] EXCEPT ![1] = Fetching(Handler("load", None, {}))]

Init ==
    /\ page = Path
    /\ server \in ServersAtMount
    /\ view = ViewAtMount
    /\ calls = CallsAtMount
    /\ past = PastAtMount

-----------------------------------------------------------------------------
(* The rows of the two tables.                                             *)
Listed(f) == view.lists.firmwares[f] # None
ListedCategory(k) == k \in view.lists.categories

OpenForm(form) == Show([view EXCEPT !.dialogs = @ \cup {form}])

OpenDialog(dialog, f) == Listed(f) /\ Show([view EXCEPT !.dialogs = @ \cup {dialog}, !.firmware = f])

(* Cancel of a dialog with devices clears the selection.                   *)
Cancel(dialog) ==
    /\ dialog \in view.dialogs
    /\ Show([view EXCEPT !.dialogs = @ \ {dialog},
                         !.selected = IF dialog \in {"assign", "upgrade"} THEN {} ELSE @])

Selected(devices) ==
    /\ Here
    /\ {"assign", "upgrade"} \cap view.dialogs # {}
    /\ view' = [view EXCEPT !.selected = devices]
    /\ UNCHANGED <<page, server, calls, past>>

SelectDevice(d) ==
    /\ d \in view.devices
    /\ Selected(IF d \in view.selected THEN view.selected \ {d} ELSE view.selected \cup {d})

SelectAll == Selected(IF view.selected = view.devices THEN {} ELSE view.devices)

(* The dialogs that are open and can be submitted; the upload form offers  *)
(* the categories that have been fetched.                                  *)
Submittable(dialog) == dialog \in view.dialogs /\ ~ view.loading
UploadForm(categories) == Submittable("upload") /\ \A k \in categories : ListedCategory(k)
CategoryForm == Submittable("category")
AssignModal == Submittable("assign") /\ view.selected # {}
UpgradeModal == Submittable("upgrade") /\ view.selected # {}

SubmitFirmware(i) ==
    \E categories \in SUBSET Category :
        /\ UploadForm(categories)
        /\ Start(i, [Handler("upload", None, {}) EXCEPT !.lists.categories = categories], view)

SubmitCategory(i) == CategoryForm /\ Start(i, Handler("category", None, {}), view)

AssignFirmware(i) == AssignModal /\ Start(i, Handler("assign", view.firmware, view.selected), view)

UpgradeDevices(i) == UpgradeModal /\ Start(i, Handler("upgrade", view.firmware, view.selected), view)

DeleteFirmware(i, f) == Listed(f) /\ Start(i, Handler("deleteFirmware", f, {}), view)

DeleteCategory(i, k) == ListedCategory(k) /\ Start(i, Handler("deleteCategory", k, {}), view)

-----------------------------------------------------------------------------
(* The backend.  upgradeFirmware takes the whole body for its list of      *)
(* devices, which is no list, and fails; so does what names a document     *)
(* that is gone, and the deletion of a category that a firmware has.       *)
Refused(c) ==
    CASE c.op = "upload" -> ~ c.lists.categories \subseteq server.categories
      [] c.op \in {"assign", "deleteFirmware"} -> server.firmwares[c.id] = None
      [] c.op = "deleteCategory" -> c.id \notin server.categories
            \/ \E f \in Firmware : server.firmwares[f] # None /\ c.id \in server.firmwares[f]
      [] OTHER -> c.op = "upgrade"

(* A new document has an id that nothing refers to (a call that needs one   *)
(* fails when the ids of the model have run out).                          *)
NewFirmware(f) ==
    /\ \A d \in Device : server.assigned[d] # f
    /\ server.firmwares[f] = None /\ view.lists.firmwares[f] = None /\ view.firmware # f
    /\ \A i \in Slot : calls[i].id # f /\ calls[i].lists.firmwares[f] = None
NewCategory(k) ==
    /\ k \notin server.categories \cup view.lists.categories
    /\ \A i \in Slot : calls[i].id # k /\ k \notin calls[i].lists.categories

Executed(c) ==
    CASE c.op = "upload" ->
            {[server EXCEPT !.firmwares[f] = c.lists.categories] : f \in {f \in Firmware : NewFirmware(f)}}
      [] c.op = "category" ->
            {[server EXCEPT !.categories = @ \cup {k}] : k \in {k \in Category : NewCategory(k)}}
      [] c.op = "deleteFirmware" -> {[server EXCEPT !.firmwares[c.id] = None]}
      [] c.op = "deleteCategory" -> {[server EXCEPT !.categories = @ \ {c.id}]}
      [] c.op = "assign" -> {[server EXCEPT !.assigned =
            [d \in Device |-> IF d \in c.devices THEN c.id ELSE @[d]]]}
      [] OTHER -> {}

Answer(i) ==
    LET c == calls[i] IN
    /\ Here
    /\ c.pc = "sent" /\ c.step # "fetch"
    /\ \/ /\ ~ Refused(c)
          /\ server' \in Executed(c)
          /\ calls' = [calls EXCEPT ![i].pc = "answered"]
          /\ UNCHANGED past
       \/ Fails(i, Refused(c) \/ Executed(c) = {})
    /\ UNCHANGED <<page, view>>

(* The lists are read one by one.                                          *)
AnswerList(i, list) ==
    LET c == calls[i] IN
    /\ Here
    /\ c.pc = "sent" /\ list \in c.awaited
    /\ \/ /\ calls' = [calls EXCEPT ![i].awaited = @ \ {list}, ![i].lists[list] = server[list],
                                    ![i].pc = IF c.awaited = {list} THEN "answered" ELSE "sent"]
          /\ UNCHANGED <<server, past>>
       \/ Fails(i, FALSE)
    /\ UNCHANGED <<page, view>>

RemovedElsewhere(f) == server.firmwares[f] # None /\ Elsewhere([server EXCEPT !.firmwares[f] = None])

(* The continuation: assignments end here, the other changes refreshData.  *)
Ends(c) == c.pc = "failed" \/ c.step \in {"fetch", "assign"}

(* Fault for LoadingMeansRunning: the flag is cleared where an answer came. *)
Shown_NoFinally(c) ==
    IF c.pc = "failed" THEN view
    ELSE CASE c.step = "fetch" -> [view EXCEPT !.loading = FALSE, !.lists = c.lists, !.devices = Device]
      [] c.step = "assign" -> [view EXCEPT !.loading = FALSE, !.dialogs = @ \ {"assign"}, !.selected = {}]
      [] OTHER -> [view EXCEPT !.loading = TRUE, !.dialogs = @ \ {c.op}]

Shown(c) ==
    IF c.pc = "failed" THEN [view EXCEPT !.loading = FALSE]
    ELSE CASE c.step = "fetch" ->
            [view EXCEPT !.loading = FALSE, !.lists = c.lists, !.devices = IF c.op = "load" THEN Device ELSE @]
      [] c.step = "assign" -> [view EXCEPT !.loading = FALSE, !.dialogs = @ \ {"assign"}, !.selected = {}]
      [] OTHER -> [view EXCEPT !.loading = TRUE, !.dialogs = @ \ {c.op}]

Continue(i) ==
    LET c == calls[i] IN Proceed(i, Shown(c), IF Ends(c) THEN Free ELSE Fetching(c))

Next == Here /\
    \/ \E i \in Slot :
          \/ SubmitFirmware(i) \/ SubmitCategory(i) \/ Answer(i) \/ Continue(i)
          \/ AssignFirmware(i) \/ UpgradeDevices(i)
          \/ \E f \in Firmware : DeleteFirmware(i, f)
          \/ \E k \in Category : DeleteCategory(i, k)
          \/ \E list \in {"firmwares", "categories"} : AnswerList(i, list)
    \/ SelectAll
    \/ \E form \in {"upload", "category"} : OpenForm(form)
    \/ \E dialog \in Dialogs : Cancel(dialog)
    \/ \E d \in Device : SelectDevice(d)
    \/ \E f \in Firmware :
          RemovedElsewhere(f) \/ \E dialog \in {"assign", "upgrade"} : OpenDialog(dialog, f)

Spec == Init /\ [][Next]_vars

-----------------------------------------------------------------------------
TypeOK ==
    /\ server.firmwares \in Firmwares /\ view.lists.firmwares \in Firmwares
    /\ server.categories \subseteq Category /\ view.lists.categories \subseteq Category
    /\ server.assigned \in [Device -> Firmware \cup {None}]
    /\ view.devices \subseteq Device /\ view.selected \subseteq Device
    /\ view.firmware \in Firmware \cup {None}
    /\ view.dialogs \subseteq Dialogs
    /\ view.dialogs \cap {"assign", "upgrade"} # {} => view.firmware # None
    /\ \A i \in Slot : calls[i].awaited # {} => calls[i].step = "fetch" /\ calls[i].pc # "answered"

(* With handlers one at a time, no failure and no other client, the page   *)
(* has the lists of the backend whenever it is not loading, although the   *)
(* two lists are read one by one and an assignment is not followed by a    *)
(* refresh.                                                                *)
ListsMatch == Here /\ ~ past.overlap /\ past.faults = 0 /\ ~ view.loading /\ Running = {} =>
    \A list \in DOMAIN view.lists : view.lists[list] = server[list]
=============================================================================
