----------------------------- MODULE TemplatesPage -----------------------------
(***************************************************************************)
(* The page "/provisioning-templates" of the web frontend.  The list is    *)
(* fetched once; afterwards the handlers compute it from the list of their *)
(* closure and the answer, and nothing corrects it.                        *)
(***************************************************************************)
EXTENDS PageHandlers

CONSTANTS
    Template,     \* ids of templates
    Name          \* names of templates

Row == [name : Name, isDefault : BOOLEAN]
Table == [Template -> Row \cup {None}]
NoRows == [t \in Template |-> None]

(* A running handler: the template, the form and the list of its closure.  *)
Free == [pc |-> "free", op |-> "none", id |-> None, form |-> None, seen |-> NoRows, answer |-> NoRows]
Handler(op, id, form) ==
    [Free EXCEPT !.pc = "sent", !.op = op, !.id = id, !.form = form, !.seen = view.templates]

(* onModuleInit of the backend has created a default template.             *)
ServersAtMount ==
    {[NoRows EXCEPT ![t] = [name |-> n, isDefault |-> TRUE]] : t \in Template, n \in Name}
ViewAtMount == [templates |-> NoRows, open |-> FALSE, edit |-> FALSE, selected |-> None, loading |-> TRUE]
CallsAtMount == [[i \in Slot |-> Free] EXCEPT ![1].pc = "sent", ![1].op = "fetch"]

Init ==
    /\ page = Path
    /\ server \in ServersAtMount
    /\ view = ViewAtMount
    /\ calls = CallsAtMount
    /\ past = PastAtMount

-----------------------------------------------------------------------------
(* The rows of the table, each with its buttons.                           *)
Listed(t) == view.templates[t] # None

OpenForm == Show([view EXCEPT !.open = TRUE, !.edit = FALSE])

EditTemplate(t) ==
    /\ Listed(t)
    /\ Show([view EXCEPT !.open = TRUE, !.edit = TRUE, !.selected = t])

(* Fault for TypeOK: the form stays in edit mode when it is closed.        *)
Closed_KeepsMode == [view EXCEPT !.open = FALSE, !.selected = None]

Closed == [view EXCEPT !.open = FALSE, !.edit = FALSE, !.selected = None]

Cancel == view.open /\ Show(Closed)

(* What the form can be sent with: any name, default or not.               *)
Form == IF view.open /\ ~ view.loading THEN Row ELSE {}

SaveTemplate(i) ==
    \E form \in Form :
          Start(i, IF view.edit THEN Handler("update", view.selected, form)
                                ELSE Handler("create", None, form), view)

DeleteTemplate(i, t) ==
    /\ Listed(t) /\ ~ view.templates[t].isDefault
    /\ Start(i, Handler("delete", t, None), view)

-----------------------------------------------------------------------------
(* The backend: names are unique, the default template stays; a default is *)
(* not taken from the template that had it.  The deletion of a template    *)
(* that devices use fails like any other call.                             *)
Named(n, t) == \E u \in Template \ {t} : server[u] # None /\ server[u].name = n

Refused(c) ==
    CASE c.op = "create" -> Named(c.form.name, None)
      [] c.op = "update" -> server[c.id] = None \/ Named(c.form.name, c.id)
      [] c.op = "delete" -> server[c.id] # None /\ server[c.id].isDefault
      [] OTHER -> FALSE

(* A new template has an id that nothing refers to (a call that needs one   *)
(* fails when the ids of the model have run out).                          *)
NewId(t) ==
    /\ server[t] = None /\ view.templates[t] = None /\ view.selected # t
    /\ \A i \in Slot : calls[i].id # t /\ calls[i].seen[t] = None /\ calls[i].answer[t] = None

Executed(c) ==
    CASE c.op = "create" -> {[server EXCEPT ![t] = c.form] : t \in {t \in Template : NewId(t)}}
      [] c.op = "update" -> {[server EXCEPT ![c.id] = c.form]}
      [] c.op = "delete" -> {[server EXCEPT ![c.id] = None]}
      [] OTHER -> {server}

(* What the answer has of a save: the template that has been stored.       *)
Stored(c, documents) ==
    CASE c.op = "fetch" -> documents
      [] c.op = "create" -> [t \in Template |-> IF server[t] = None THEN documents[t] ELSE None]
      [] c.op = "update" -> [NoRows EXCEPT ![c.id] = documents[c.id]]
      [] OTHER -> NoRows

Answer(i) ==
    LET c == calls[i] IN
    /\ Here
    /\ c.pc = "sent"
    /\ \/ /\ ~ Refused(c)
          /\ server' \in Executed(c)
          /\ calls' = [calls EXCEPT ![i].pc = "answered", ![i].answer = Stored(c, server')]
          /\ UNCHANGED past
       \/ Fails(i, Refused(c) \/ Executed(c) = {})
    /\ UNCHANGED <<page, view>>

(* A call is executed and its answer is lost.                              *)
LostAnswer(i) ==
    /\ Here
    /\ past.faults < MaxFaults
    /\ calls[i].pc = "sent" /\ ~ Refused(calls[i])
    /\ server' \in Executed(calls[i])
    /\ calls' = [calls EXCEPT ![i].pc = "failed"]
    /\ past' = [past EXCEPT !.faults = @ + 1]
    /\ UNCHANGED <<page, view>>

DeletedElsewhere(t) ==
    /\ server[t] # None /\ ~ server[t].isDefault
    /\ Elsewhere([server EXCEPT ![t] = None])

(* Fault for TablesMatch: a deletion leaves the list as it was.            *)
Rows_KeepsDeleted(c) ==
    CASE c.op = "fetch" -> c.answer
      [] c.op = "delete" -> c.seen
      [] OTHER -> [t \in Template |-> IF c.answer[t] = None THEN c.seen[t] ELSE c.answer[t]]

(* setTemplates of the continuation.                                       *)
Rows(c) ==
    CASE c.op = "fetch" -> c.answer
      [] c.op = "delete" -> [c.seen EXCEPT ![c.id] = None]
      [] c.op = "update" ->     \* map: a row that is not in the list is not added
            [t \in Template |-> IF c.answer[t] # None /\ c.seen[t] # None THEN c.answer[t] ELSE c.seen[t]]
      [] OTHER -> [t \in Template |-> IF c.answer[t] = None THEN c.seen[t] ELSE c.answer[t]]

(* A save that succeeds closes the form, whatever it shows by then.        *)
Shown(c) ==
    LET base == IF c.pc = "answered" /\ c.op \in {"create", "update"} THEN Closed ELSE view IN
    [base EXCEPT !.loading = FALSE, !.templates = IF c.pc = "answered" THEN Rows(c) ELSE @]

Continue(i) == Proceed(i, Shown(calls[i]), Free)

Next == Here /\
    \/ OpenForm \/ Cancel
    \/ \E t \in Template : EditTemplate(t) \/ DeletedElsewhere(t)
    \/ \E i \in Slot :
          \/ SaveTemplate(i) \/ Answer(i) \/ LostAnswer(i) \/ Continue(i)
          \/ \E t \in Template : DeleteTemplate(i, t)

Spec == Init /\ [][Next]_vars

-----------------------------------------------------------------------------
TypeOK ==
    /\ server \in Table /\ view.templates \in Table
    /\ view.selected \in Template \cup {None}
    /\ view.edit => view.open /\ view.selected # None
    /\ \A i \in Slot : calls[i].seen \in Table /\ calls[i].answer \in Table

(* The list that the handlers write from their closures is the one of the  *)
(* backend when nothing runs, unless handlers have overlapped (the later   *)
(* writes back what it saw: deleted rows return, new rows vanish, and stay *)
(* so until the page is mounted again), a call failed or another client    *)
(* changed the templates.                                                  *)
RowsMatch == Here /\ ~ past.overlap /\ past.faults = 0 /\ Running = {} => view.templates = server
=============================================================================
