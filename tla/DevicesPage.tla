----------------------------- MODULE DevicesPage -----------------------------
(***************************************************************************)
(* The page "/devices" of the web frontend: React state, dialogs, calls of *)
(* the REST API and what their continuations do.  A handler is a closure:  *)
(* what it reads after an await is what the page showed at the click.      *)
(* The list is fetched again every 30 seconds; answers come in any order.  *)
(* The name and location of a device and the search box are left out.      *)
(***************************************************************************)
EXTENDS PageHandlers

CONSTANT Device   \* devices, each known by its serial number and its id

Status == {"online", "offline"}
Timeout == {"default", "longer", "negative"}
Row == [status : Status, timeout : Timeout]
Table == [Device -> Row \cup {None}]
Empty == [d \in Device |-> None]
Dialogs == {"none", "add", "edit", "timeout", "config"}
NoDialog == [kind |-> "none", device |-> None, row |-> None]

Free == [pc |-> "free", op |-> "none", device |-> None, row |-> None, bulk |-> FALSE,
         seen |-> None, filter |-> "", answer |-> None]
Fetch(f) == [Free EXCEPT !.pc = "sent", !.op = "fetch", !.filter = f]
(* Handlers that compute the new list from the one of their closure.       *)
UsesList == {"delete", "put", "timeout", "config"}
CallOf(op, d, row) ==
    [Free EXCEPT !.pc = "sent", !.op = op, !.device = d, !.row = row,
                 !.filter = view.filter, !.seen = IF op \in UsesList THEN view.devices ELSE None]

(* What getAllDevices or getDevicesByStatus answers.                       *)
Listed(docs, f) ==
    [d \in Device |-> IF docs[d] # None /\ f \in {"", docs[d].status} THEN docs[d] ELSE None]

(* useEffect fetches when the page is mounted.                             *)
ServerAtMount == [d \in Device |-> [status |-> "online", timeout |-> "default"]]
ViewAtMount == [devices |-> Empty, filter |-> "", selected |-> {}, dialog |-> NoDialog]
CallsAtMount == [[i \in Slot |-> Free] EXCEPT ![1] = Fetch("")]
History == [clicks |-> 0, faults |-> 0, reported |-> [d \in Device |-> "online"], overwritten |-> {}]

Init ==
    /\ page = Path
    /\ server = ServerAtMount
    /\ view = ViewAtMount
    /\ calls = CallsAtMount
    /\ past = History

-----------------------------------------------------------------------------
Send(i, c) == Unused(i) /\ calls' = [calls EXCEPT ![i] = c]

(* The effect of statusFilter: a new interval, and a fetch at once.        *)
SetFilter(i, f) ==
    /\ Click /\ past' = Counted
    /\ f # view.filter
    /\ view' = [view EXCEPT !.filter = f]
    /\ Send(i, Fetch(f))
    /\ UNCHANGED <<page, server>>

Refresh(i) ==
    /\ Here
    /\ Send(i, Fetch(view.filter))
    /\ UNCHANGED <<page, server, view, past>>

(* The cards of the grid, each with the buttons of its device.             *)
Grid == {d \in Device : view.devices[d] # None}

Toggle(d) ==
    /\ d \in Grid
    /\ Show([view EXCEPT !.selected = IF d \in @ THEN @ \ {d} ELSE @ \cup {d}])

(* The buttons that open a dialog copy the row of the device.              *)
OpenDialog(kind, d) ==
    /\ view.dialog = NoDialog
    /\ d \in Grid
    /\ Show([view EXCEPT !.dialog = [kind |-> kind, device |-> d, row |-> view.devices[d]]])

HandleEditDevice(d) == OpenDialog("edit", d)
OpenTimeoutModal(d) == OpenDialog("timeout", d)
OpenConfigModal(d) == OpenDialog("config", d)

OpenForm ==
    /\ view.dialog = NoDialog
    /\ Show([view EXCEPT !.dialog = [NoDialog EXCEPT !.kind = "add"]])

Cancel ==
    /\ Here
    /\ view.dialog # NoDialog
    /\ view' = [view EXCEPT !.dialog = NoDialog]
    /\ UNCHANGED <<page, server, calls, past>>

Submit(i, op, row) ==
    /\ Click /\ past' = Counted
    /\ Send(i, CallOf(op, view.dialog.device, row))
    /\ UNCHANGED <<page, server, view>>

(* What each form can be submitted with when it is open: of the fields of  *)
(* a device, only the timeout is told apart.                               *)
Form(kind, rows) == IF view.dialog.kind = kind THEN rows ELSE {}
Typed == {[view.dialog.row EXCEPT !.timeout = t] : t \in Timeout}
AddForm == Form("add", {None})
EditForm == IF view.dialog.row = None THEN {} ELSE Form("edit", Typed)
TimeoutModal == IF view.dialog.row = None THEN {} ELSE Form("timeout", Typed)
ConfigModal == Form("config", {None})

AddDevice(i) == \E row \in AddForm : Submit(i, "add", row)
UpdateDevice(i) == \E row \in EditForm : Submit(i, "put", row)
UpdateTimeout(i) == \E row \in TimeoutModal : Submit(i, "timeout", row)
UpdateModeConfig(i) == \E row \in ConfigModal : Submit(i, "config", row)

(* The other buttons of a card.  Start sends the mode first; stop and      *)
(* reboot are single commands.                                             *)
Press(i, d, op) ==
    /\ Click /\ past' = Counted
    /\ d \in Grid
    /\ Send(i, CallOf(op, d, None))
    /\ UNCHANGED <<page, server, view>>

DeleteDevice(i, d) == Press(i, d, "delete")
SendStart(i, d) == Press(i, d, "mode")
SendCommand(i, d) == Press(i, d, "command")

(* sendCommandToSelected.  Start reads the row of every ticked device and  *)
(* throws at the first that is listed no more, when the calls for those    *)
(* ticked before it have been made.                                        *)
SendToSelected(op) ==
    LET gone == {d \in view.selected : view.devices[d] = None}
        throws == op = "mode" /\ gone # {} IN
    /\ Click /\ past' = Counted
    /\ view.selected # {}
    /\ \E reached \in SUBSET view.selected, at \in [view.selected -> Slot] :
          /\ IF throws THEN reached \cap gone = {} ELSE reached = view.selected
          /\ \A d, e \in reached : at[d] = at[e] => d = e
          /\ \A d \in reached : calls[at[d]].pc = "free"
          /\ calls' = [i \in Slot |->
                IF \E d \in reached : at[d] = i
                  THEN [CallOf(op, CHOOSE d \in reached : at[d] = i, None) EXCEPT !.bulk = ~ throws]
                  ELSE calls[i]]
    /\ UNCHANGED <<page, server, view>>

-----------------------------------------------------------------------------
(* The cron job and the reports of a device change its status.             *)
Flip(d) ==
    /\ Here
    /\ past.faults < MaxFaults
    /\ server[d] # None
    /\ \E s \in Status \ {server[d].status} :
          /\ server' = [server EXCEPT ![d].status = s]
          /\ past' = [past EXCEPT !.faults = @ + 1, !.reported[d] = s]
    /\ UNCHANGED <<page, view, calls>>

(* Another client of the backend deletes a device.                         *)
Removed(d) == Elsewhere([server EXCEPT ![d] = None])

(* Fault for StatusIsReported: the row is sent with its timeout.           *)
Execute_Row(c) ==
    LET d == c.device IN
    CASE c.op = "delete" -> [server EXCEPT ![d] = None]
      [] c.op \in {"put", "timeout"} /\ server[d] # None -> [server EXCEPT ![d] = c.row]
      [] OTHER -> server

(* What a call does to the documents.  PUT stores every field of the copy; *)
(* a timeout below zero is refused, with the status 200.                   *)
Execute(c) ==
    LET d == c.device IN
    CASE c.op = "delete" -> [server EXCEPT ![d] = None]
      [] c.op = "put" /\ server[d] # None -> [server EXCEPT ![d] = c.row]
      [] c.op = "timeout" /\ server[d] # None /\ c.row.timeout # "negative" ->
            [server EXCEPT ![d].timeout = c.row.timeout]
      [] OTHER -> server

(* POST /devices lacks the required type and fails, and so does a timeout  *)
(* of a device that is gone.  An update of such a device answers null.     *)
MustFail(c) == c.op = "add" \/ (c.op = "timeout" /\ server[c.device] = None)

Answer(i) ==
    LET c == calls[i] IN
    /\ Here
    /\ c.pc = "sent"
    /\ \/ /\ ~ MustFail(c)
          /\ server' = Execute(c)
          /\ calls' = [calls EXCEPT ![i].pc = "answered", ![i].answer =
                CASE c.op = "fetch" -> Listed(server, c.filter)
                  [] c.op = "put" -> server'[c.device]
                  [] OTHER -> None]
          /\ past' = IF c.op = "put" /\ server[c.device] # None /\ c.row.status # server[c.device].status
                       THEN [past EXCEPT !.overwritten = @ \cup {c.device}] ELSE past
       \/ Fails(i, MustFail(c))
    /\ UNCHANGED <<page, view>>

Closed(kind) == IF view.dialog.kind = kind THEN NoDialog ELSE view.dialog
(* map leaves out what is not in the list of the closure.                  *)
Mapped(seen, d, row) == IF seen[d] = None THEN seen ELSE [seen EXCEPT ![d] = row]

(* The continuation of a successful call, on the React state.              *)
Shown(c) ==
    LET d == c.device IN
    CASE c.op = "fetch" -> [view EXCEPT !.devices = c.answer]
      [] c.op = "delete" -> [view EXCEPT !.devices = [c.seen EXCEPT ![d] = None]]
      [] c.op = "put" -> [view EXCEPT !.devices = Mapped(c.seen, d, c.answer), !.dialog = Closed("edit")]
      [] c.op = "timeout" ->
            [view EXCEPT !.dialog = Closed("timeout"), !.devices =
                IF c.seen[d] = None THEN c.seen ELSE [c.seen EXCEPT ![d].timeout = c.row.timeout]]
      [] c.op = "config" -> [view EXCEPT !.devices = c.seen, !.dialog = Closed("config")]
      [] OTHER -> view

(* ... and on the calls: commands end with fetchDevices of their closure.  *)
Following(c) ==
    CASE c.pc = "answered" /\ c.op = "mode" -> [c EXCEPT !.pc = "sent", !.op = "start"]
      [] c.pc = "answered" /\ c.op \in {"start", "command", "config"} -> Fetch(c.filter)
      [] OTHER -> Free

(* The selection is cleared when the last call of sendCommandToSelected    *)
(* has settled: its failures are caught one by one.                        *)
EndsBulk(i) ==
    /\ calls[i].bulk
    /\ Following(calls[i]).op # "start"
    /\ \A j \in Slot \ {i} : ~ calls[j].bulk

Continue(i) ==
    LET c == calls[i]
        shown == IF c.pc = "answered" THEN Shown(c) ELSE view IN
    Proceed(i, IF EndsBulk(i) THEN [shown EXCEPT !.selected = {}] ELSE shown, Following(c))

Next == Here /\
    \/ \E i \in Slot :
          \/ Refresh(i) \/ Answer(i) \/ Continue(i)
          \/ AddDevice(i) \/ UpdateDevice(i) \/ UpdateTimeout(i) \/ UpdateModeConfig(i)
          \/ \E f \in Status \cup {""} : SetFilter(i, f)
          \/ \E d \in Device : DeleteDevice(i, d) \/ SendStart(i, d) \/ SendCommand(i, d)
    \/ OpenForm \/ Cancel
    \/ \E op \in {"mode", "command"} : SendToSelected(op)
    \/ \E d \in Device :
          \/ Toggle(d) \/ HandleEditDevice(d) \/ OpenTimeoutModal(d) \/ OpenConfigModal(d)
          \/ Flip(d) \/ Removed(d)

Spec == Init /\ [][Next]_vars

-----------------------------------------------------------------------------
TypeOK ==
    /\ server \in Table
    /\ view.devices \in Table
    /\ view.filter \in Status \cup {""}
    /\ view.selected \subseteq Device
    /\ view.dialog.kind \in Dialogs
    /\ \A i \in Slot :
          /\ calls[i].pc \in {"free", "sent", "answered", "failed"}
          /\ calls[i].seen \in Table \cup {None}
          /\ calls[i].pc = "answered" /\ calls[i].op = "fetch" => calls[i].answer \in Table

(* What the page ends up with however answers overtake one another, and    *)
(* whatever lists the handlers write back from their closures (lines 69,   *)
(* 111, 190, 279, 386): the documents that its filter asks for.            *)
Settled == Here => view.devices = Listed(server, view.filter)

(* The communicationStatus of a document is the one that the backend has   *)
(* determined, unless the edit form has saved a copy with an older one:    *)
(* updateDevice sends the whole row (line 189), the other handlers do not. *)
StatusIsReported ==
    Here => \A d \in Device :
        server[d] # None /\ server[d].status # past.reported[d] => d \in past.overwritten
=============================================================================
