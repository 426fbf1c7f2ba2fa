----------------------------- MODULE WebAppProofs -----------------------------
(***************************************************************************)
(* Theorems about WebApp, for any documents, any number of handlers at a   *)
(* time, of clicks and of faults.  A page's invariant holds when the page  *)
(* is mounted, and only the steps of that page are taken afterwards.       *)
(***************************************************************************)
EXTENDS WebApp, TLAPS

(* Where the call of a handler is.                                         *)
Progress == {"free", "sent", "answered", "failed"}

-----------------------------------------------------------------------------
(* The history of a page after a click.                                    *)
PastType == [clicks : Nat, faults : Nat, overlap : BOOLEAN]
WizardPast == [clicks : Nat, faults : Nat, overlap : BOOLEAN, left : SUBSET Device]

LEMMA ClickIsCounted ==
  ASSUME NEW p \in PastType, NEW b \in BOOLEAN
  PROVE  LET q == [p EXCEPT !.clicks = @ + 1]
             s == [q EXCEPT !.overlap = @ \/ b] IN
         /\ q \in PastType /\ q.faults = p.faults /\ q.overlap = p.overlap
         /\ s \in PastType /\ s.faults = p.faults /\ s.overlap = (p.overlap \/ b)
<1> DEFINE q == [p EXCEPT !.clicks = @ + 1]
           s == [q EXCEPT !.overlap = q.overlap \/ b]
<1>1. q \in PastType /\ q.faults = p.faults /\ q.overlap = p.overlap
  BY DEF PastType
<1>2. (q.overlap \/ b) \in BOOLEAN
  OBVIOUS
<1>3. s \in PastType /\ s.faults = q.faults /\ s.overlap = (q.overlap \/ b)
  <2> HIDE DEF q
  <2> QED BY <1>1, <1>2 DEF PastType
<1> QED BY <1>1, <1>3

LEMMA WizardClickIsCounted ==
  ASSUME NEW p \in WizardPast, NEW b \in BOOLEAN
  PROVE  LET q == [p EXCEPT !.clicks = @ + 1]
             s == [q EXCEPT !.overlap = @ \/ b] IN
         /\ q \in WizardPast /\ q.faults = p.faults /\ q.left = p.left
         /\ s \in WizardPast /\ s.faults = p.faults /\ s.left = p.left
<1> DEFINE q == [p EXCEPT !.clicks = @ + 1]
           s == [q EXCEPT !.overlap = q.overlap \/ b]
<1>1. q \in WizardPast /\ q.faults = p.faults /\ q.left = p.left
  BY DEF WizardPast
<1>2. (q.overlap \/ b) \in BOOLEAN
  OBVIOUS
<1>3. s \in WizardPast /\ s.faults = q.faults /\ s.left = q.left
  <2> HIDE DEF q
  <2> QED BY <1>1, <1>2 DEF WizardPast
<1> QED BY <1>1, <1>3

-----------------------------------------------------------------------------
(* After the login the page stays the same.                                *)
LEMMA StatsStay == (H!Next => page = "/" /\ page' = page) /\ (M!Next => page = "/metrics" /\ page' = page)
  BY DEF H!Next, H!Here, H!Answer, H!Continue, H!Proceed, H!Refresh, H!SetTimeRange, H!StatusChanges, H!Elsewhere,
         M!Next, M!Here, M!Answer, M!Continue, M!Proceed, M!Refresh, M!SetTimeRange, M!StatusChanges, M!Elsewhere

LEMMA DevicesStay == D!Next => page = "/devices" /\ page' = page
  BY DEF D!Next, D!Here, D!Refresh, D!Answer, D!Continue, D!Proceed, D!AddDevice, D!UpdateDevice, D!UpdateTimeout,
         D!UpdateModeConfig, D!Submit, D!SetFilter, D!DeleteDevice, D!SendStart, D!SendCommand, D!Press, D!OpenForm,
         D!Cancel, D!SendToSelected, D!Toggle, D!HandleEditDevice, D!OpenTimeoutModal, D!OpenConfigModal,
         D!OpenDialog, D!Show, D!Flip, D!Removed, D!Elsewhere

LEMMA GroupsStay == G!Next => page = "/device-groups" /\ page' = page
  BY DEF G!Next, G!Here, G!SubmitGroup, G!SendCommand, G!UpdateGroupDevices, G!ApplyFilters, G!Details, G!Answer,
         G!Continue, G!Proceed, G!History, G!QuickCommand, G!DeleteGroup, G!OpenCreate, G!TickAll, G!Cancel, G!Tick,
         G!Ticked, G!OpenCommand, G!Manage, G!Changed, G!Show, G!Start, G!Elsewhere

LEMMA FirmwaresStay == F!Next => page = "/firmwares" /\ page' = page
  BY DEF F!Next, F!Here, F!SubmitFirmware, F!SubmitCategory, F!Answer, F!Continue, F!Proceed, F!AssignFirmware,
         F!UpgradeDevices, F!DeleteFirmware, F!DeleteCategory, F!AnswerList, F!SelectAll, F!OpenForm, F!Cancel,
         F!SelectDevice, F!Selected, F!RemovedElsewhere, F!OpenDialog, F!Show, F!Start, F!Elsewhere

LEMMA TemplatesStay == T!Next => page = "/provisioning-templates" /\ page' = page
  BY DEF T!Next, T!Here, T!OpenForm, T!Cancel, T!EditTemplate, T!DeletedElsewhere, T!SaveTemplate, T!Answer,
         T!LostAnswer, T!Continue, T!Proceed, T!DeleteTemplate, T!Show, T!Start, T!Elsewhere

LEMMA OnboardingStays == O!Next => page = "/device-onboarding" /\ page' = page
  BY DEF O!Next, O!Here, O!Back, O!OnboardAnother, O!Type, O!DeletedElsewhere, O!StoredElsewhere, O!SelectTemplate, O!ClaimDevice,
         O!ApplyTemplate, O!GenerateCertificate, O!CompleteProvisioning, O!Answer, O!LostAnswer, O!Continue,
         O!Show, O!Start, O!Elsewhere

Path == {"/", "/metrics", "/devices", "/device-groups", "/firmwares", "/provisioning-templates", "/device-onboarding"}

LEMMA PageSteps == [Next]_vars =>
    \/ page = "login" /\ page' \in Path /\ Login
    \/ /\ page' = page
       /\ \/ UNCHANGED vars
          \/ page = "/" /\ H!Next
          \/ page = "/metrics" /\ M!Next
          \/ page = "/devices" /\ D!Next
          \/ page = "/device-groups" /\ G!Next
          \/ page = "/firmwares" /\ F!Next
          \/ page = "/provisioning-templates" /\ T!Next
          \/ page = "/device-onboarding" /\ O!Next
<1>1. CASE Login
  BY <1>1 DEF Login, Mount, Path
<1> QED BY <1>1, StatsStay, DevicesStay, GroupsStay, FirmwaresStay, TemplatesStay, OnboardingStays DEF Next, vars

-----------------------------------------------------------------------------
(* Onboarding.  Besides the fetch of the templates one handler runs at a   *)
(* time, and the wizard does not get past its step meanwhile.              *)
WizardServer == [devices : O!Documents, default : Template \cup {None}, issued : SUBSET Device, identified : BOOLEAN]
WizardTypes ==
    /\ server \in WizardServer
    /\ view \in [step : 1 .. 5, typed : Device \cup {None}, templates : SUBSET Template,
                 template : Template \cup {None}, device : Device \cup {None}, loading : BOOLEAN]
    /\ calls \in [O!Slot -> [pc : Progress, op : {"none", "fetch", "claim", "apply", "certificate", "complete"},
                             device : Device \cup {None}, template : Template \cup {None}]]
    /\ past \in WizardPast
Busy == {i \in O!Slot : calls[i].pc # "free" /\ calls[i].op # "fetch"}
OneBusy == (view.loading <=> Busy # {}) /\ \A i, j \in Busy : i = j
StepOf(op) == CASE op = "claim" -> 1 [] op = "apply" -> 2 [] op = "certificate" -> 3 [] op = "complete" -> 4 [] OTHER -> 0
(* What an operation has made of the document by the time that it is       *)
(* answered.                                                               *)
Achieved(op, document) ==
    CASE op = "claim" -> document.status # "unclaimed"
      [] op = "apply" -> document.template # None
      [] op = "complete" -> document.status = "provisioned"
      [] OTHER -> TRUE
AsStarted(i) ==
    LET c == calls[i]
        document == server.devices[c.device] IN
    /\ c.device \in Device
    /\ view.step <= StepOf(c.op)
    /\ c.op # "claim" => c.device = view.device
    /\ c.op = "apply" => c.template # None
    /\ c.op # "claim" \/ c.pc = "answered" => server.identified
    /\ c.op = "complete" \/ (c.op = "certificate" /\ c.pc = "answered") => c.device \in server.issued
    /\ document # None =>
        /\ c.op \in {"certificate", "complete"} => document.template # None
        /\ c.pc = "answered" => Achieved(c.op, document)
DeviceIsClaimed ==
    view.device # None /\ server.devices[view.device] # None => server.devices[view.device].status # "unclaimed"
(* Only another client stores a certificateId, and only the wizard completes. *)
Equipped(d) == server.devices[d] # None =>
    /\ server.devices[d].certificate => past.faults > 0
    /\ server.devices[d].status = "provisioned" => server.devices[d].certificate /\ d \in server.issued
WizardInv ==
    /\ WizardTypes /\ OneBusy /\ (\A i \in Busy : AsStarted(i)) /\ DeviceIsClaimed
    /\ (\A d \in Device : Equipped(d)) /\ O!StepIsBacked

(* A claimed device that the wizard is not about has been given up, or its *)
(* claim has been answered.                                                *)
Stranded(d) == server.devices[d] # None /\ server.devices[d].status = "claimed" /\ view.device # d
StrandedInv == past.faults = 0 => \A d \in Device \ past.left :
    Stranded(d) => \E i \in Busy : calls[i].pc = "answered" /\ calls[i].op = "claim" /\ calls[i].device = d

LEMMA InitWizard ==
  ASSUME NEW s \in O!ServersAtMount, server' = s, view' = O!ViewAtMount, calls' = O!CallsAtMount, past' = O!History
  PROVE  WizardInv' /\ StrandedInv'
<1> USE WebAppAssumption DEF O!ServersAtMount, O!ViewAtMount, O!CallsAtMount, O!History, O!Slot, O!Free, O!Call
<1>1. WizardTypes'
  <2>1. PICK t \in Template \cup {None}, b \in BOOLEAN :
            s = [devices |-> [d \in Device |-> O!New], default |-> t, issued |-> {}, identified |-> b]
    OBVIOUS
  <2>2. s.devices \in O!Documents
    BY <2>1 DEF O!Documents, O!Document, O!New
  <2>3. s \in WizardServer
    BY <2>1, <2>2 DEF WizardServer
  <2> QED BY <2>3 DEF WizardTypes, WizardPast, Progress
<1>2. Busy' = {}
  BY DEF Busy
<1> QED BY <1>1, <1>2 DEF WizardInv, StrandedInv, OneBusy, DeviceIsClaimed, Equipped, O!StepIsBacked, Stranded, O!New

(* The user goes back or types: no handler starts or ends.                 *)
LEMMA WizardShows ==
  ASSUME WizardInv, StrandedInv, O!Next,
         O!Back \/ (\E d \in Device : O!Type(d)) \/ (\E t \in Template : O!SelectTemplate(t))
  PROVE  WizardInv' /\ StrandedInv'
<1> USE WebAppAssumption DEF O!Back, O!Type, O!SelectTemplate, O!Show, O!Click, O!Counted, WizardInv
<1>1. WizardTypes'
  BY DEF WizardTypes, WizardPast
<1>2. /\ view'.step \in 1 .. view.step /\ view'.device = view.device /\ view'.loading = view.loading
      /\ UNCHANGED <<page, server, calls>> /\ past'.faults = past.faults /\ past'.left = past.left
  BY DEF WizardTypes, WizardPast
<1>3. Busy' = Busy /\ OneBusy'
  BY <1>2 DEF Busy, OneBusy
<1>4. \A i \in Busy' : AsStarted(i)'
  BY <1>2, <1>3 DEF AsStarted, Achieved, WizardTypes, StepOf, Busy
<1>5. DeviceIsClaimed' /\ (\A d \in Device : Equipped(d)') /\ O!StepIsBacked'
  BY <1>2 DEF DeviceIsClaimed, Equipped, O!StepIsBacked, O!Here, WizardTypes
<1>6. StrandedInv'
  BY <1>2, <1>3 DEF StrandedInv, Stranded
<1> QED BY <1>1, <1>3, <1>4, <1>5, <1>6

LEMMA WizardRestarts ==
  ASSUME WizardInv, StrandedInv, O!OnboardAnother
  PROVE  WizardInv' /\ StrandedInv'
<1> USE WebAppAssumption DEF O!OnboardAnother, O!Show, O!Click, O!Counted, WizardInv
<1>1. WizardTypes'
  <2>1. view' = [view EXCEPT !.step = 1, !.typed = None, !.device = None]
    OBVIOUS
  <2>2. view' = [step |-> 1, typed |-> None, templates |-> view.templates, template |-> view.template,
                 device |-> None, loading |-> view.loading]
    BY <2>1 DEF WizardTypes
  <2>3. past' \in WizardPast
    BY DEF WizardTypes, WizardPast
  <2> QED BY <2>2, <2>3 DEF WizardTypes
<1>2. Busy = {}
  <2>1. \A i \in Busy : view.step <= 4
    BY DEF AsStarted, StepOf, WizardTypes
  <2> QED BY <2>1
<1>3. Busy' = {} /\ OneBusy'
  BY <1>2 DEF Busy, OneBusy, WizardTypes
<1>4. DeviceIsClaimed' /\ (\A d \in Device : Equipped(d)') /\ O!StepIsBacked'
  BY DEF DeviceIsClaimed, Equipped, O!StepIsBacked, O!Here, WizardTypes, WizardPast
<1>5. StrandedInv'
  <2>1. \A d \in Device : server.devices[d] # None /\ server.devices[d].status = "claimed" => view.device # d
    BY DEF O!StepIsBacked, O!Here, O!Click, WizardTypes
  <2> QED BY <1>2, <1>3, <2>1 DEF StrandedInv, Stranded, WizardTypes
<1> QED BY <1>1, <1>3, <1>4, <1>5

(* The button of a panel, which is enabled only when no handler is busy.   *)
LEMMA WizardStarts ==
  ASSUME WizardInv, StrandedInv, NEW i \in O!Slot, ~ view.loading,
         NEW op \in {"claim", "apply", "certificate", "complete"}, NEW d \in Device, NEW t \in Template \cup {None},
         view.step = StepOf(op), op # "claim" => d = view.device, op = "apply" => t # None,
         O!Start(i, O!Call(op, d, t), view)
  PROVE  WizardInv' /\ StrandedInv'
<1> USE WebAppAssumption DEF O!Start, O!Click, O!Counted, O!Call, WizardInv
<1>0. i \notin O!Running /\ Busy = {}
  BY DEF O!Unused, OneBusy
<1>1. /\ calls' = [calls EXCEPT ![i] = [pc |-> "sent", op |-> op, device |-> d, template |-> t]]
      /\ view' = [view EXCEPT !.loading = TRUE] /\ UNCHANGED <<page, server>>
      /\ past'.faults = past.faults /\ past'.left = past.left
  BY DEF WizardTypes
<1>2. WizardTypes'
  <2>1. calls' \in [O!Slot -> [pc : Progress, op : {"none", "fetch", "claim", "apply", "certificate", "complete"},
                               device : Device \cup {None}, template : Template \cup {None}]]
    BY <1>1 DEF WizardTypes, Progress
  <2>2. past' \in WizardPast
    <3>1. (O!Running # {}) \in BOOLEAN
      OBVIOUS
    <3> QED BY <3>1, WizardClickIsCounted DEF WizardTypes
  <2> QED BY <1>1, <2>1, <2>2 DEF WizardTypes
<1>3. calls'[i] = [pc |-> "sent", op |-> op, device |-> d, template |-> t] /\ \A j \in O!Slot \ {i} : calls'[j] = calls[j]
  BY <1>1 DEF WizardTypes
<1>4. Busy' = {i}
  BY <1>0, <1>3 DEF Busy
<1>5. OneBusy'
  BY <1>1, <1>4 DEF OneBusy, WizardTypes
<1>6. view'.step = view.step /\ view'.device = view.device
  BY <1>1 DEF WizardTypes
<1>7. AsStarted(i)'
  <2>1. StepOf(op) \in Nat
    BY DEF StepOf
  <2>2. page = "/device-onboarding"
    BY DEF O!Here
  <2> QED BY <1>1, <1>3, <1>6, <2>1, <2>2 DEF AsStarted, StepOf, O!StepIsBacked, O!Here
<1>8. DeviceIsClaimed' /\ (\A e \in Device : Equipped(e)') /\ O!StepIsBacked'
  BY <1>1, <1>6 DEF DeviceIsClaimed, Equipped, O!StepIsBacked, O!Here
<1>9. StrandedInv'
  BY <1>0, <1>1, <1>6 DEF StrandedInv, Stranded
<1> QED BY <1>2, <1>4, <1>5, <1>7, <1>8, <1>9

LEMMA WizardButtons ==
  ASSUME WizardInv, StrandedInv, NEW i \in O!Slot,
         O!ClaimDevice(i) \/ O!ApplyTemplate(i) \/ O!GenerateCertificate(i) \/ O!CompleteProvisioning(i)
  PROVE  WizardInv' /\ StrandedInv'
<1>0. /\ view.typed \in Device \cup {None} /\ view.template \in Template \cup {None}
      /\ O!Here => (view.step > 1 => view.device \in Device)
  BY DEF WizardInv, WizardTypes, O!StepIsBacked
<1>1. CASE O!ClaimDevice(i)
  BY <1>0, <1>1, WizardStarts DEF O!ClaimDevice, O!ClaimPanel, O!Panel, StepOf
<1>2. CASE O!ApplyTemplate(i)
  <2>1. view.device \in Device
    BY <1>0, <1>2 DEF O!ApplyTemplate, O!TemplatePanel, O!Panel, O!Start, O!Click
  <2> QED BY <1>0, <1>2, <2>1, WizardStarts DEF O!ApplyTemplate, O!TemplatePanel, O!Panel, StepOf
<1>3. CASE O!GenerateCertificate(i)
  <2>1. view.device \in Device
    BY <1>0, <1>3 DEF O!GenerateCertificate, O!CertificatePanel, O!Panel, O!Start, O!Click
  <2> QED BY <1>3, <2>1, WizardStarts DEF O!GenerateCertificate, O!CertificatePanel, O!Panel, StepOf
<1>4. CASE O!CompleteProvisioning(i)
  <2>1. view.device \in Device
    BY <1>0, <1>4 DEF O!CompleteProvisioning, O!CompletionPanel, O!Panel, O!Start, O!Click
  <2> QED BY <1>4, <2>1, WizardStarts DEF O!CompleteProvisioning, O!CompletionPanel, O!Panel, StepOf
<1> QED BY <1>1, <1>2, <1>3, <1>4

(* What the backend does for a call that it does not refuse.               *)
NewDocument(c) ==
    LET document == server.devices[c.device] IN
    CASE c.op = "claim" -> [document EXCEPT !.status = "claimed", !.template = server.default]
      [] c.op = "apply" -> [document EXCEPT !.template = c.template]
      [] OTHER -> [document EXCEPT !.status = "provisioned"]
Executes(c, s) ==
    /\ s.issued = IF c.op = "certificate" THEN server.issued \cup {c.device} ELSE server.issued
    /\ c.op = "certificate" => s.devices = server.devices
    /\ c.op # "certificate" =>
        /\ server.devices[c.device] # None
        /\ NewDocument(c) \in O!Document
        /\ s.devices = [server.devices EXCEPT ![c.device] = NewDocument(c)]
    /\ c.op = "claim" => server.devices[c.device].status = "unclaimed" /\ server.identified
    /\ c.op = "complete" => server.devices[c.device].template # None /\ server.devices[c.device].certificate

LEMMA WizardExecutes ==
  ASSUME WizardInv, NEW i \in O!Slot, calls[i].pc = "sent", ~ O!Refused(calls[i]), NEW s, s = O!Executed(calls[i])
  PROVE  /\ s \in WizardServer /\ s.identified = server.identified
         /\ IF i \in Busy THEN Executes(calls[i], s) ELSE s = server
<1> USE WebAppAssumption DEF WizardInv
<1> DEFINE c == calls[i]
           document == server.devices[c.device]
<1>1. CASE i \notin Busy
  BY <1>1 DEF Busy, O!Executed, WizardTypes
<1>2. CASE i \in Busy
  <2>1. /\ c.op \in {"claim", "apply", "certificate", "complete"} /\ c.device \in Device
        /\ c.template \in Template \cup {None} /\ server \in WizardServer
    <3>1. AsStarted(i)
      BY <1>2
    <3>2. c.op # "none"
      BY <3>1 DEF AsStarted, StepOf, WizardTypes
    <3> QED BY <1>2, <3>1, <3>2 DEF AsStarted, Busy, WizardTypes
  <2>2. CASE c.op = "certificate"
    BY <1>2, <2>1, <2>2 DEF O!Executed, O!Issued, Executes, WizardServer
  <2>3. CASE c.op # "certificate"
    <3>1. document \in O!Document /\ document # None
      BY <2>1, <2>3 DEF O!Refused, O!Documents, WizardServer
    <3>2. /\ c.op = "claim" => document.status = "unclaimed" /\ server.identified
          /\ c.op = "complete" => document.template # None /\ document.certificate
      BY <2>1, <3>1 DEF O!Refused, O!MayClaim, O!MayComplete
    <3>3. NewDocument(c) \in O!Document
      BY <2>1, <2>3, <3>1 DEF NewDocument, O!Document, WizardServer
    <3>4. s = [server EXCEPT !.devices = [server.devices EXCEPT ![c.device] = NewDocument(c)]]
      BY <2>1, <2>3, <3>1 DEF O!Executed, NewDocument, O!Document, O!Documents, WizardServer
    <3>5. [server.devices EXCEPT ![c.device] = NewDocument(c)] \in O!Documents
      BY <2>1, <3>3 DEF O!Documents, WizardServer
    <3> QED BY <1>2, <2>1, <2>3, <3>1, <3>2, <3>3, <3>4, <3>5 DEF Executes, WizardServer
  <2> QED BY <2>2, <2>3
<1> QED BY <1>1, <1>2

LEMMA WizardAnswered ==
  ASSUME WizardInv, StrandedInv, NEW i \in O!Slot, calls[i].pc = "sent", ~ O!Refused(calls[i]),
         server' = O!Executed(calls[i]), NEW p \in {"answered", "failed"}, calls' = [calls EXCEPT ![i].pc = p],
         UNCHANGED <<page, view>>, past' \in WizardPast, past'.left = past.left, past'.faults >= past.faults,
         past'.faults = 0 => p = "answered" /\ past.faults = 0
  PROVE  WizardInv' /\ StrandedInv'
<1> USE WebAppAssumption DEF WizardInv
<1> DEFINE c == calls[i]
<1>0. c \in [pc : Progress, op : {"none", "fetch", "claim", "apply", "certificate", "complete"},
             device : Device \cup {None}, template : Template \cup {None}]
  BY DEF WizardTypes
<1>1. /\ server' \in WizardServer /\ server'.identified = server.identified
      /\ IF i \in Busy THEN Executes(c, server') ELSE server' = server
  BY WizardExecutes
<1>2. WizardTypes'
  BY <1>1 DEF WizardTypes, Progress
<1>3. /\ \A j \in O!Slot \ {i} : calls'[j] = calls[j]
      /\ calls'[i] = [c EXCEPT !.pc = p]
  BY DEF WizardTypes
<1>4. Busy' = Busy
  BY <1>0, <1>3 DEF Busy
<1>5. OneBusy'
  BY <1>4 DEF OneBusy
<1>6. CASE i \notin Busy
  <2>1. server' = server /\ \A j \in Busy : calls'[j] = calls[j]
    BY <1>1, <1>3, <1>6
  <2>2. \A j \in Busy' : AsStarted(j)'
    <3> SUFFICES ASSUME NEW j \in Busy PROVE AsStarted(j)'
      BY <1>4
    <3>1. calls'[j] = calls[j] /\ server' = server /\ AsStarted(j)
      BY <2>1
    <3> QED BY <3>1 DEF AsStarted
  <2>3. DeviceIsClaimed' /\ (\A d \in Device : Equipped(d)') /\ O!StepIsBacked'
    BY <2>1, <1>2 DEF DeviceIsClaimed, Equipped, O!StepIsBacked, O!Here, WizardTypes, WizardPast
  <2>4. StrandedInv'
    BY <1>4, <2>1 DEF StrandedInv, Stranded
  <2> QED BY <1>2, <1>4, <1>5, <2>2, <2>3, <2>4
<1>7. CASE i \in Busy
  <2> DEFINE old == server.devices[c.device]
             new == NewDocument(c)
  <2>1. /\ AsStarted(i) /\ c.device \in Device /\ c.op \in {"claim", "apply", "certificate", "complete"}
        /\ c.template \in Template \cup {None} /\ (c.op = "apply" => c.template # None)
    BY <1>0, <1>7 DEF AsStarted, StepOf, Busy, WizardTypes
  <2>2. /\ c.op # "certificate" => old \in O!Document /\ old # None /\ new \in O!Document /\ server'.devices[c.device] = new
        /\ c.op = "certificate" => server'.devices[c.device] = old
        /\ \A d \in Device \ {c.device} : server'.devices[d] = server.devices[d]
        /\ server'.issued = IF c.op = "certificate" THEN server.issued \cup {c.device} ELSE server.issued
        /\ c.op = "claim" => old.status = "unclaimed" /\ server.identified
        /\ c.op = "complete" => old.template # None /\ old.certificate
    BY <1>1, <1>7, <2>1 DEF Executes, WizardTypes, WizardServer, O!Documents
  <2>3. /\ c.op = "claim" => new.status = "claimed" /\ new.certificate = old.certificate
        /\ c.op \in {"apply", "complete"} =>
              /\ old.template # None => new.template # None
              /\ new.certificate = old.certificate
              /\ old.status \in {"claimed", "unclaimed"} => new.status \in {old.status, "provisioned"}
              /\ old.status = "provisioned" => new.status = "provisioned"
              /\ c.op = "apply" => new.status = old.status
        /\ c.op # "certificate" => Achieved(c.op, new)
    BY <2>1, <2>2 DEF NewDocument, Achieved, O!Document
  <2>4. AsStarted(i)'
    <3>1. /\ calls'[i].pc = p /\ calls'[i].op = c.op /\ calls'[i].device = c.device /\ calls'[i].template = c.template
      BY <1>0, <1>3
    <3>2. c.op = "certificate" => \A x : Achieved(c.op, x)
      BY DEF Achieved
    <3> QED BY <1>1, <2>1, <2>2, <2>3, <3>1, <3>2 DEF AsStarted
  <2>5. \A j \in Busy' : AsStarted(j)'
    BY <1>4, <1>7, <2>4 DEF OneBusy
  <2>6. view.device = c.device => c.op # "claim"
    BY <2>1, <2>2 DEF DeviceIsClaimed
  <2>7. DeviceIsClaimed'
    BY <2>1, <2>2, <2>3, <2>6 DEF DeviceIsClaimed, WizardTypes, O!Document
  <2>8. O!StepIsBacked'
    BY <1>1, <2>1, <2>2, <2>3, <2>6, <1>2 DEF O!StepIsBacked, O!Here, WizardTypes, O!Document
  <2>10. ASSUME NEW d \in Device PROVE Equipped(d)'
    <3>1. past.faults \in Nat /\ past'.faults \in Nat
      BY DEF WizardTypes, WizardPast
    <3>2. Equipped(d)
      OBVIOUS
    <3>3. CASE d # c.device
      BY <2>2, <3>1, <3>2, <3>3 DEF Equipped
    <3>4. CASE d = c.device /\ c.op = "complete"
      <4>1. c.device \in server.issued
        BY <2>1, <3>4 DEF AsStarted
      <4> QED BY <2>2, <2>3, <3>1, <3>2, <3>4, <4>1 DEF Equipped
    <3>5. CASE d = c.device /\ c.op # "complete"
      BY <2>1, <2>2, <2>3, <3>1, <3>2, <3>5 DEF Equipped, O!Document
    <3> QED BY <3>3, <3>4, <3>5
  <2>9. StrandedInv'
    <3> SUFFICES ASSUME past'.faults = 0, NEW d \in Device \ past.left, Stranded(d)'
                 PROVE  \E j \in Busy' : calls'[j].pc = "answered" /\ calls'[j].op = "claim" /\ calls'[j].device = d
      BY DEF StrandedInv
    <3>1. CASE d = c.device /\ c.op = "claim"
      BY <1>0, <1>3, <1>4, <1>7, <3>1
    <3>2. CASE ~ (d = c.device /\ c.op = "claim")
      <4>1. Stranded(d)
        BY <2>1, <2>2, <2>3, <3>2 DEF Stranded, O!Document
      <4> QED BY <1>7, <4>1 DEF StrandedInv, OneBusy
    <3> QED BY <3>1, <3>2
  <2> QED BY <1>2, <1>5, <2>5, <2>7, <2>8, <2>9, <2>10
<1> QED BY <1>6, <1>7

LEMMA WizardFails ==
  ASSUME WizardInv, StrandedInv, NEW i \in O!Slot, calls[i].pc = "sent", O!Fails(i, O!Refused(calls[i])),
         UNCHANGED <<page, view>>
  PROVE  WizardInv' /\ StrandedInv'
<1> USE WebAppAssumption DEF O!Fails, WizardInv
<1> DEFINE c == calls[i]
<1>1. WizardTypes'
  BY DEF WizardTypes, WizardPast, Progress
<1>2. /\ \A j \in O!Slot \ {i} : calls'[j] = calls[j]
      /\ calls'[i].pc = "failed" /\ calls'[i].op = c.op /\ calls'[i].device = c.device /\ calls'[i].template = c.template
  BY DEF WizardTypes
<1>3. Busy' = Busy
  BY <1>2 DEF Busy
<1>4. OneBusy'
  BY <1>3 DEF OneBusy
<1>5. ASSUME NEW j \in Busy PROVE AsStarted(j)'
  <2>1. CASE j = i
    BY <1>2, <2>1, <1>5 DEF AsStarted
  <2>2. CASE j # i
    <3>1. calls'[j] = calls[j]
      BY <1>2, <1>5, <2>2 DEF Busy
    <3> QED BY <1>5, <3>1 DEF AsStarted
  <2> QED BY <2>1, <2>2
<1>6. DeviceIsClaimed' /\ (\A d \in Device : Equipped(d)') /\ O!StepIsBacked'
  <2>1. past.faults \in Nat /\ past'.faults >= past.faults
    BY DEF WizardTypes, WizardPast
  <2> QED BY <2>1 DEF DeviceIsClaimed, Equipped, O!StepIsBacked, O!Here
<1>7. StrandedInv'
  <2> SUFFICES ASSUME past'.faults = 0, NEW d \in Device \ past'.left, Stranded(d)'
               PROVE  \E j \in Busy' : calls'[j].pc = "answered" /\ calls'[j].op = "claim" /\ calls'[j].device = d
    BY DEF StrandedInv
  <2>1. past' = past
    BY DEF WizardTypes, WizardPast
  <2>2. PICK j \in Busy : calls[j].pc = "answered" /\ calls[j].op = "claim" /\ calls[j].device = d
    BY <2>1 DEF StrandedInv, Stranded
  <2> QED BY <1>2, <1>3, <2>2 DEF Busy
<1> QED BY <1>1, <1>3, <1>4, <1>5, <1>6, <1>7

(* Another client deletes a device, or stores a certificateId in one.      *)
LEMMA WizardOthers ==
  ASSUME WizardInv, StrandedInv, NEW d \in Device, O!DeletedElsewhere(d) \/ O!StoredElsewhere(d)
  PROVE  WizardInv' /\ StrandedInv'
<1> USE WebAppAssumption DEF O!DeletedElsewhere, O!StoredElsewhere, O!Elsewhere, WizardInv
<1>0. /\ server \in WizardServer /\ server.devices[d] \in O!Document /\ UNCHANGED <<page, view, calls>>
      /\ past' = [past EXCEPT !.faults = @ + 1]
  BY DEF WizardTypes, WizardServer, O!Documents
<1>1. PICK x \in {None, [server.devices[d] EXCEPT !.certificate = TRUE]} :
          server' = [server EXCEPT !.devices = [server.devices EXCEPT ![d] = x]]
  BY DEF WizardTypes, WizardServer
<1>2. server' \in WizardServer /\ server'.issued = server.issued /\ server'.identified = server.identified
      /\ server'.devices[d] = x /\ \A e \in Device \ {d} : server'.devices[e] = server.devices[e]
  <2>1. x \in O!Document \cup {None}
    BY <1>0 DEF O!Document
  <2>2. [server.devices EXCEPT ![d] = x] \in O!Documents
    BY <1>0, <2>1 DEF WizardServer, O!Documents
  <2> QED BY <1>0, <1>1, <2>2 DEF WizardServer, O!Documents
<1>3. WizardTypes' /\ past'.faults > 0
  BY <1>0, <1>2 DEF WizardTypes, WizardPast
<1>4. x # None => x.status = server.devices[d].status /\ x.template = server.devices[d].template
  BY <1>0 DEF O!Document
<1>5. Busy' = Busy /\ OneBusy'
  BY <1>0 DEF Busy, OneBusy
<1>6. ASSUME NEW j \in Busy PROVE AsStarted(j)'
  <2>1. AsStarted(j) /\ calls' = calls /\ view' = view
    BY <1>0
  <2> QED BY <1>0, <1>2, <1>4, <2>1 DEF AsStarted, Achieved
<1>7. DeviceIsClaimed' /\ O!StepIsBacked'
  BY <1>0, <1>2, <1>4 DEF DeviceIsClaimed, O!StepIsBacked, O!Here, WizardTypes
<1>8. ASSUME NEW e \in Device PROVE Equipped(e)'
  BY <1>0, <1>1, <1>2, <1>3 DEF Equipped, O!Document
<1>9. StrandedInv'
  BY <1>3 DEF StrandedInv
<1> QED BY <1>3, <1>5, <1>6, <1>7, <1>8, <1>9

LEMMA WizardContinues ==
  ASSUME WizardInv, StrandedInv, NEW i \in O!Slot, O!Continue(i)
  PROVE  WizardInv' /\ StrandedInv'
<1> USE WebAppAssumption DEF O!Continue, WizardInv
<1> DEFINE c == calls[i]
<1>0. c \in [pc : Progress, op : {"none", "fetch", "claim", "apply", "certificate", "complete"},
             device : Device \cup {None}, template : Template \cup {None}]
  BY DEF WizardTypes
<1>1. /\ \A j \in O!Slot \ {i} : calls'[j] = calls[j]
      /\ calls'[i] = O!Free /\ O!Free.pc = "free" /\ UNCHANGED <<page, server>>
  BY DEF WizardTypes, O!Free
<1>2. Busy' = Busy \ {i}
  BY <1>1 DEF Busy
<1>3. CASE i \notin Busy
  <2>1. /\ view' \in [step : 1 .. 5, typed : Device \cup {None}, templates : SUBSET Template,
                      template : Template \cup {None}, device : Device \cup {None}, loading : BOOLEAN]
        /\ view'.step = view.step /\ view'.device = view.device /\ view'.loading = view.loading
    BY <1>3 DEF O!Shown, Busy, WizardTypes, WizardServer
  <2>2. past' = past
    BY <2>1 DEF WizardTypes, WizardPast
  <2>3. WizardTypes'
    BY <1>1, <2>1, <2>2 DEF WizardTypes, Progress, O!Free
  <2>4. Busy' = Busy /\ OneBusy'
    BY <1>2, <1>3, <2>1 DEF OneBusy
  <2>5. ASSUME NEW j \in Busy PROVE AsStarted(j)'
    <3>1. calls'[j] = calls[j]
      BY <1>1, <1>3, <2>5 DEF Busy
    <3> QED BY <1>1, <2>1, <2>5, <3>1 DEF AsStarted
  <2>6. DeviceIsClaimed' /\ (\A d \in Device : Equipped(d)') /\ O!StepIsBacked'
    BY <1>1, <2>1, <2>2 DEF DeviceIsClaimed, Equipped, O!StepIsBacked, O!Here
  <2>7. StrandedInv'
    BY <1>1, <1>3, <2>1, <2>2, <2>4 DEF StrandedInv, Stranded, Busy
  <2> QED BY <2>3, <2>4, <2>5, <2>6, <2>7
<1>4. CASE i \in Busy
  <2>1. /\ AsStarted(i) /\ c.device \in Device /\ c.op \in {"claim", "apply", "certificate", "complete"}
        /\ (c.op # "claim" => c.device = view.device)
    BY <1>0, <1>4 DEF AsStarted, StepOf, Busy, WizardTypes
  <2>2. Busy' = {}
    BY <1>2, <1>4 DEF OneBusy
  <2>3. /\ view' = [view EXCEPT !.step = O!StepAfter(c), !.loading = FALSE,
                                !.device = IF c.op # "certificate" /\ c.pc = "answered" THEN c.device ELSE @]
        /\ O!StepAfter(c) = IF c.pc = "answered" THEN StepOf(c.op) + 1 ELSE view.step
    BY <1>0, <1>4, <2>1 DEF O!Shown, O!StepAfter, StepOf, Busy
  <2>4. StepOf(c.op) \in 1 .. 4
    BY <2>1 DEF StepOf
  <2>5. /\ view'.step = (IF c.pc = "answered" THEN StepOf(c.op) + 1 ELSE view.step)
        /\ view'.device = (IF c.op = "claim" /\ c.pc = "answered" THEN c.device ELSE view.device)
        /\ view'.loading = FALSE
        /\ view'.typed = view.typed /\ view'.templates = view.templates /\ view'.template = view.template
    BY <2>1, <2>3 DEF WizardTypes
  <2>6. WizardTypes'
    <3>1. view' \in [step : 1 .. 5, typed : Device \cup {None}, templates : SUBSET Template,
                     template : Template \cup {None}, device : Device \cup {None}, loading : BOOLEAN]
      <4>1. view' = [step |-> view'.step, typed |-> view'.typed, templates |-> view'.templates,
                     template |-> view'.template, device |-> view'.device, loading |-> view'.loading]
        BY <2>3 DEF WizardTypes
      <4>2. view'.step \in 1 .. 5 /\ view'.device \in Device \cup {None}
        BY <2>1, <2>4, <2>5 DEF WizardTypes
      <4> QED BY <2>5, <4>1, <4>2 DEF WizardTypes
    <3>2. past' \in WizardPast
      BY DEF WizardTypes, WizardPast
    <3> QED BY <1>1, <3>1, <3>2 DEF WizardTypes, Progress, O!Free
  <2>7. OneBusy'
    BY <2>2, <2>5 DEF OneBusy
  <2>8. DeviceIsClaimed'
    BY <1>1, <2>1, <2>5 DEF DeviceIsClaimed, AsStarted, Achieved
  <2>9. O!StepIsBacked'
    <3>1. CASE c.pc = "answered"
      <4>1. c.device = view'.device /\ view'.step = StepOf(c.op) + 1
        BY <2>1, <2>5, <3>1
      <4>2. server.devices[c.device] # None =>
              /\ c.op = "claim" => server.devices[c.device].status # "unclaimed"
              /\ c.op # "claim" => server.devices[c.device].status # "unclaimed"
              /\ c.op \in {"apply", "certificate", "complete"} => server.devices[c.device].template # None
              /\ c.op = "complete" => server.devices[c.device].status = "provisioned"
        BY <2>1, <3>1 DEF AsStarted, Achieved, DeviceIsClaimed
      <4>3. server.identified /\ (c.op \in {"certificate", "complete"} => c.device \in server.issued)
        BY <2>1, <3>1 DEF AsStarted
      <4> QED BY <1>1, <2>1, <4>1, <4>2, <4>3 DEF O!StepIsBacked, O!Here, StepOf
    <3>2. CASE c.pc # "answered"
      <4>1. view'.step = view.step /\ view'.device = view.device
        BY <2>5, <3>2
      <4> QED BY <1>1, <4>1 DEF O!StepIsBacked, O!Here
    <3> QED BY <3>1, <3>2
  <2>11. ASSUME NEW d \in Device PROVE Equipped(d)'
    <3>1. past'.faults = past.faults
      BY DEF WizardTypes, WizardPast
    <3> QED BY <1>1, <3>1 DEF Equipped
  <2>10. StrandedInv'
    <3> SUFFICES ASSUME past'.faults = 0, NEW d \in Device \ past'.left, Stranded(d)' PROVE FALSE
      BY DEF StrandedInv
    <3>1. past'.faults = past.faults /\ past.left \subseteq past'.left
          /\ (view'.device # view.device => view.device \in past'.left \cup {None})
      BY DEF WizardTypes, WizardPast
    <3>2. view.device # d
      BY <1>1, <3>1 DEF Stranded
    <3>3. c.pc = "answered" /\ c.op = "claim" /\ c.device = d
      BY <1>1, <1>4, <3>1, <3>2 DEF StrandedInv, Stranded, OneBusy
    <3> QED BY <2>5, <3>3 DEF Stranded
  <2> QED BY <2>2, <2>6, <2>7, <2>8, <2>9, <2>10, <2>11
<1> QED BY <1>3, <1>4

LEMMA WizardSteps ==
  ASSUME page = "/device-onboarding", WizardInv, StrandedInv, O!Next
  PROVE  WizardInv' /\ StrandedInv'
<1>1. ASSUME NEW i \in O!Slot, O!Answer(i) PROVE WizardInv' /\ StrandedInv'
  <2>1. CASE O!Fails(i, O!Refused(calls[i]))
    BY <1>1, <2>1, WizardFails DEF O!Answer
  <2>2. CASE ~ O!Fails(i, O!Refused(calls[i]))
    <3>1. /\ calls[i].pc = "sent" /\ ~ O!Refused(calls[i]) /\ server' = O!Executed(calls[i])
          /\ calls' = [calls EXCEPT ![i].pc = "answered"] /\ UNCHANGED <<past, page, view>>
      BY <1>1, <2>2 DEF O!Answer
    <3>2. past' \in WizardPast /\ past'.left = past.left /\ past'.faults = past.faults /\ past'.faults >= past.faults
      BY <3>1 DEF WizardInv, WizardTypes, WizardPast
    <3> QED BY <3>1, <3>2, WizardAnswered
  <2> QED BY <2>1, <2>2
<1>2. ASSUME NEW i \in O!Slot, O!LostAnswer(i) PROVE WizardInv' /\ StrandedInv'
  <2>1. past' \in WizardPast /\ past'.left = past.left /\ past'.faults > 0 /\ past'.faults >= past.faults
    BY <1>2 DEF O!LostAnswer, WizardInv, WizardTypes, WizardPast
  <2>2. past'.faults # 0
    BY <2>1
  <2> QED BY <1>2, <2>1, <2>2, WizardAnswered DEF O!LostAnswer
<1> QED BY <1>1, <1>2, WizardShows, WizardRestarts, WizardButtons, WizardOthers, WizardContinues DEF O!Next

LEMMA AlwaysWizard == Spec => [](O!Here => WizardInv /\ StrandedInv)
<1> DEFINE Inv == O!Here => WizardInv /\ StrandedInv
<1>1. Init => Inv
  BY DEF Init, O!Here
<1>2. Inv /\ [Next]_vars => Inv'
  <2> SUFFICES ASSUME Inv, [Next]_vars, page' = "/device-onboarding" PROVE WizardInv' /\ StrandedInv'
    BY DEF O!Here
  <2>1. CASE Login
    <3>1. Mount("/device-onboarding", O!ServersAtMount, O!ViewAtMount, O!CallsAtMount, O!History)
      BY <2>1 DEF Login, Mount
    <3> QED BY <3>1, InitWizard DEF Mount
  <2>2. CASE UNCHANGED vars
    <3>1. WizardInv /\ StrandedInv
      BY <2>2 DEF vars, O!Here
    <3> QED BY <2>2, <3>1 DEF vars, WizardInv, StrandedInv, WizardTypes, OneBusy, Busy, AsStarted, Achieved,
                              DeviceIsClaimed, Equipped, Stranded, O!StepIsBacked, O!Here
  <2>3. CASE page = "/device-onboarding" /\ O!Next
    BY <2>3, WizardSteps DEF O!Here
  <2> QED BY <2>1, <2>2, <2>3, PageSteps
<1> QED BY <1>1, <1>2, PTL DEF Spec

(* What a step of the wizard takes for done has been done, also when the   *)
(* user goes back while a call is outstanding, and calls fail or are       *)
(* executed without an answer.                                             *)
THEOREM StepAlwaysBacked == Spec => []StepIsBacked
<1>1. (O!Here => WizardInv /\ StrandedInv) => StepIsBacked
  BY DEF StepIsBacked, WizardInv, O!StepIsBacked
<1> QED BY <1>1, AlwaysWizard, PTL

(* A device that is claimed and not provisioned is the one of the wizard   *)
(* or about to be, but for the named causes, and becomes provisioned only  *)
(* when another client stores a certificateId in it.                       *)
THEOREM EveryStrandedHasCause == Spec => []StrandedHasCause
<1>1. ASSUME O!Here => WizardInv /\ StrandedInv PROVE StrandedHasCause
  <2> SUFFICES ASSUME O!Here, NEW d \in Device, server.devices[d] # None
               PROVE  /\ server.devices[d].status = "claimed" =>
                            \/ view.device = d
                            \/ \E i \in O!Slot : calls[i].op = "claim" /\ calls[i].device = d
                            \/ past.faults > 0 \/ d \in past.left
                      /\ server.devices[d].status = "provisioned" => past.faults > 0 /\ d \in server.issued
    BY DEF StrandedHasCause, O!StrandedHasCause
  <2>1. past.faults \in Nat /\ Equipped(d)
    BY <1>1 DEF WizardInv, WizardTypes, WizardPast
  <2>2. ASSUME server.devices[d].status = "claimed", view.device # d, past.faults = 0, d \notin past.left
        PROVE  \E i \in O!Slot : calls[i].op = "claim" /\ calls[i].device = d
    BY <1>1, <2>2 DEF StrandedInv, Stranded, Busy
  <2> QED BY <2>1, <2>2 DEF Equipped
<1> QED BY <1>1, AlwaysWizard, PTL

-----------------------------------------------------------------------------
(* The pages with isLoading: unless handlers have overlapped, one handler   *)
(* runs at a time, and the page is loading as long as it does.             *)
Slots == 1 .. MaxCalls
Runs == {i \in Slots : calls[i].pc # "free"}
Alone == ~ past.overlap => (view.loading <=> Runs # {}) /\ \A i, j \in Runs : i = j

LEMMA AloneStart ==
  ASSUME Alone, past \in PastType, NEW i \in Slots, i \notin Runs, calls'[i].pc = "sent",
         \A j \in Slots \ {i} : calls'[j] = calls[j],
         view'.loading = TRUE, past'.overlap = (past.overlap \/ Runs # {})
  PROVE  Alone' /\ (~ past'.overlap => ~ past.overlap /\ Runs = {} /\ Runs' = {i})
<1>1. Runs' = Runs \cup {i}
  BY DEF Runs
<1> QED BY <1>1 DEF Alone

(* Nothing starts or ends.                                                 *)
LEMMA AloneStill ==
  ASSUME Alone, \A j \in Slots : calls'[j].pc = "free" <=> calls[j].pc = "free",
         view'.loading = view.loading, past'.overlap = past.overlap
  PROVE  Alone' /\ Runs' = Runs
<1>1. Runs' = Runs
  BY DEF Runs
<1> QED BY <1>1 DEF Alone

(* A handler ends, or goes on to its next call.                            *)
LEMMA AloneContinues ==
  ASSUME Alone, NEW i \in Runs, \A j \in Slots \ {i} : calls'[j] = calls[j], past'.overlap = past.overlap,
         \/ calls'[i].pc = "free" /\ view'.loading = FALSE
         \/ calls'[i].pc = "sent" /\ view'.loading \in {TRUE, view.loading}
  PROVE  /\ Alone' /\ Runs' = (IF calls'[i].pc = "free" THEN Runs \ {i} ELSE Runs)
         /\ ~ past.overlap => Runs = {i}
<1>1. Runs' = (IF calls'[i].pc = "free" THEN Runs \ {i} ELSE Runs)
  BY DEF Runs
<1> QED BY <1>1 DEF Alone

-----------------------------------------------------------------------------
(* Provisioning templates.                                                 *)
TemplateView ==
    [templates : T!Table, open : BOOLEAN, edit : BOOLEAN, selected : Template \cup {None}, loading : BOOLEAN]
TemplateCall == [pc : Progress, op : {"none", "fetch", "create", "update", "delete"}, id : Template \cup {None},
                 form : T!Row \cup {None}, seen : T!Table, answer : T!Table]
Filled(c) == /\ c.op \in {"update", "delete"} => c.id # None
             /\ c.op \in {"create", "update"} => c.form # None
TemplateTypes ==
    /\ server \in T!Table
    /\ view \in TemplateView
    /\ view.edit => view.open /\ view.selected # None
    /\ calls \in [Slots -> TemplateCall]
    /\ \A i \in Slots : Filled(calls[i])
    /\ past \in PastType
(* Undisturbed, the page and the closure of the running handler have the   *)
(* rows of the backend, or will have them when its answer is handled.      *)
RowsAfter(i) == IF calls[i].pc = "answered" THEN T!Rows(calls[i]) = server
                ELSE calls[i].op # "fetch" => view.templates = server /\ calls[i].seen = server
RowsInv == ~ past.overlap /\ past.faults = 0 =>
    /\ Runs = {} => view.templates = server
    /\ \A i \in Runs : RowsAfter(i) /\ (calls[i].op = "fetch" => calls[i].pc # "failed")
TemplateInv == TemplateTypes /\ Alone /\ RowsInv

LEMMA InitTemplates ==
  ASSUME NEW s \in T!ServersAtMount, server' = s, view' = T!ViewAtMount, calls' = T!CallsAtMount,
         past' = T!PastAtMount
  PROVE  TemplateInv'
<1> USE WebAppAssumption DEF T!Slot, Slots
<1>0. T!NoRows \in T!Table
  BY DEF T!NoRows, T!Table
<1>1. server' \in T!Table
  <2>1. PICK t \in Template, n \in Name : s = [T!NoRows EXCEPT ![t] = [name |-> n, isDefault |-> TRUE]]
    BY DEF T!ServersAtMount
  <2>2. [name |-> n, isDefault |-> TRUE] \in T!Row
    BY DEF T!Row
  <2> QED BY <1>0, <2>1, <2>2 DEF T!Table
<1>2. view' \in TemplateView /\ ~ view'.edit /\ view'.loading = TRUE
  BY <1>0 DEF T!ViewAtMount, TemplateView
<1> DEFINE first == [T!Free EXCEPT !.pc = "sent", !.op = "fetch"]
<1>3. calls' = [i \in Slots |-> IF i = 1 THEN first ELSE T!Free]
  BY DEF T!CallsAtMount, T!Free
<1>4. /\ T!Free \in TemplateCall /\ first \in TemplateCall
      /\ first.pc = "sent" /\ first.op = "fetch" /\ T!Free.pc = "free" /\ T!Free.op = "none"
  BY <1>0 DEF T!Free, TemplateCall, Progress
<1> HIDE DEF first
<1>5. calls' \in [Slots -> TemplateCall]
  BY <1>3, <1>4
<1>6. \A i \in Slots : Filled(calls'[i])
  BY <1>3, <1>4 DEF Filled
<1>7. past' \in PastType /\ past'.overlap = FALSE
  BY DEF T!PastAtMount, PastType
<1>8. Runs' = {1} /\ calls'[1].op = "fetch" /\ calls'[1].pc = "sent"
  BY <1>3, <1>4 DEF Runs
<1>9. Alone'
  BY <1>2, <1>8 DEF Alone
<1>10. RowsInv'
  BY <1>8 DEF RowsInv, RowsAfter
<1> QED BY <1>1, <1>2, <1>5, <1>6, <1>7, <1>9, <1>10 DEF TemplateInv, TemplateTypes

(* The form is opened or closed: no handler starts or ends.                *)
LEMMA TemplatesShow ==
  ASSUME TemplateInv, T!OpenForm \/ T!Cancel \/ (\E t \in Template : T!EditTemplate(t))
  PROVE  TemplateInv'
<1> USE WebAppAssumption DEF TemplateInv
<1>1. /\ view' \in TemplateView /\ (view'.edit => view'.open /\ view'.selected # None)
      /\ view'.templates = view.templates /\ view'.loading = view.loading
  <2>1. CASE T!OpenForm
    BY <2>1 DEF TemplateTypes, TemplateView, T!OpenForm, T!Show
  <2>2. CASE T!Cancel
    BY <2>2 DEF TemplateTypes, TemplateView, T!Cancel, T!Show, T!Closed
  <2>3. CASE \E t \in Template : T!EditTemplate(t)
    BY <2>3 DEF TemplateTypes, TemplateView, T!EditTemplate, T!Show
  <2> QED BY <2>1, <2>2, <2>3
<1>2. UNCHANGED <<page, server, calls>> /\ past' = [past EXCEPT !.clicks = @ + 1]
  BY DEF T!OpenForm, T!Cancel, T!EditTemplate, T!Show, T!Counted
<1>3. past' \in PastType /\ past'.overlap = past.overlap /\ past'.faults = past.faults
  BY <1>2, ClickIsCounted DEF TemplateTypes
<1>4. Alone' /\ Runs' = Runs
  BY <1>1, <1>2, <1>3, AloneStill
<1>5. TemplateTypes'
  BY <1>1, <1>2, <1>3 DEF TemplateTypes
<1>6. RowsInv'
  BY <1>1, <1>2, <1>3, <1>4 DEF RowsInv, RowsAfter, T!Rows
<1> QED BY <1>4, <1>5, <1>6

(* A handler starts with the list of the page in its closure.              *)
LEMMA TemplatesStart ==
  ASSUME TemplateInv, NEW i \in Slots, NEW h \in TemplateCall, T!Start(i, h, view), Filled(h),
         h.pc = "sent", h.op # "fetch", h.seen = view.templates
  PROVE  TemplateInv'
<1> USE WebAppAssumption DEF TemplateInv
<1>1. /\ calls' = [calls EXCEPT ![i] = h] /\ view' = [view EXCEPT !.loading = TRUE] /\ UNCHANGED <<page, server>>
      /\ i \notin Runs
  BY DEF T!Start, T!Unused, T!Running, T!Slot, Runs, Slots
<1>2. past' \in PastType /\ past'.overlap = (past.overlap \/ Runs # {}) /\ past'.faults = past.faults
  <2>1. (T!Running # {}) \in BOOLEAN /\ past \in PastType
    BY DEF TemplateTypes
  <2>2. past' \in PastType /\ past'.overlap = (past.overlap \/ T!Running # {}) /\ past'.faults = past.faults
    BY <2>1, ClickIsCounted DEF T!Start, T!Counted
  <2>3. T!Running = Runs
    BY DEF T!Running, T!Slot, Runs, Slots
  <2> QED BY <2>2, <2>3
<1>3. calls'[i] = h /\ \A j \in Slots \ {i} : calls'[j] = calls[j]
  BY <1>1 DEF TemplateTypes
<1>4. /\ view' \in TemplateView /\ view'.loading = TRUE /\ view'.templates = view.templates
      /\ view'.edit = view.edit /\ view'.open = view.open /\ view'.selected = view.selected
  BY <1>1 DEF TemplateTypes, TemplateView
<1>5. Alone' /\ (~ past'.overlap => ~ past.overlap /\ Runs = {} /\ Runs' = {i})
  BY <1>1, <1>2, <1>3, <1>4, AloneStart DEF TemplateTypes
<1>6. TemplateTypes'
  BY <1>1, <1>2, <1>3, <1>4 DEF TemplateTypes
<1>7. RowsInv'
  BY <1>1, <1>2, <1>3, <1>4, <1>5 DEF RowsInv, RowsAfter
<1> QED BY <1>5, <1>6, <1>7

LEMMA TemplatesButtons ==
  ASSUME TemplateInv, NEW i \in Slots, T!SaveTemplate(i) \/ (\E t \in Template : T!DeleteTemplate(i, t))
  PROVE  TemplateInv'
<1> USE WebAppAssumption
<1>0. view \in TemplateView /\ T!NoRows \in T!Table
  BY DEF TemplateInv, TemplateTypes, T!NoRows, T!Table
<1>1. ASSUME NEW op \in {"create", "update", "delete"}, NEW id \in Template \cup {None}, NEW form \in T!Row \cup {None},
             op # "create" => id # None, op # "delete" => form # None
      PROVE  /\ T!Handler(op, id, form) \in TemplateCall /\ Filled(T!Handler(op, id, form))
             /\ T!Handler(op, id, form).pc = "sent" /\ T!Handler(op, id, form).op # "fetch"
             /\ T!Handler(op, id, form).seen = view.templates
  BY <1>0, <1>1 DEF T!Handler, T!Free, TemplateCall, TemplateView, Progress, Filled
<1>2. CASE T!SaveTemplate(i)
  <2>1. PICK form \in T!Form : T!Start(i, IF view.edit THEN T!Handler("update", view.selected, form)
                                                      ELSE T!Handler("create", None, form), view)
    BY <1>2 DEF T!SaveTemplate
  <2>2. form \in T!Row /\ form # None
    BY <2>1 DEF T!Form, T!Row
  <2>3. CASE view.edit
    <3>1. view.selected # None /\ view.selected \in Template
      BY <2>3 DEF TemplateInv, TemplateTypes, TemplateView
    <3> QED BY <1>1, <2>1, <2>2, <2>3, <3>1, TemplatesStart
  <2>4. CASE ~ view.edit
    BY <1>1, <2>1, <2>2, <2>4, TemplatesStart
  <2> QED BY <2>3, <2>4
<1>3. CASE \E t \in Template : T!DeleteTemplate(i, t)
  BY <1>1, <1>3, TemplatesStart DEF T!DeleteTemplate
<1> QED BY <1>2, <1>3
(* What the answer of a call does to the documents and to the rows that    *)
(* its handler computes from its closure.                                  *)
LEMMA TemplatesExecute ==
  ASSUME TemplateTypes, NEW i \in Slots, calls[i].pc = "sent", ~ T!Refused(calls[i]),
         NEW s, s \in T!Executed(calls[i]), NEW c,
         c = [calls[i] EXCEPT !.pc = "answered", !.answer = T!Stored(calls[i], s)]
  PROVE  /\ s \in T!Table /\ T!Stored(calls[i], s) \in T!Table
         /\ calls[i].op = "fetch" \/ calls[i].seen = server => T!Rows(c) = s
<1> USE WebAppAssumption
<1> DEFINE b == calls[i]
<1>0. /\ b \in TemplateCall /\ server \in T!Table /\ T!NoRows \in T!Table /\ Filled(b)
      /\ None \notin T!Row
  BY DEF TemplateTypes, T!NoRows, T!Table, T!Row
<1>1. /\ c.op = b.op /\ c.id = b.id /\ c.form = b.form /\ c.seen = b.seen /\ c.answer = T!Stored(b, s)
  BY <1>0 DEF TemplateCall
<1> HIDE DEF b
<1>2. CASE b.op = "fetch" \/ b.op = "none"
  <2>1. s = server
    BY <1>2 DEF T!Executed, b
  <2>2. T!Stored(b, s) = (IF b.op = "fetch" THEN s ELSE T!NoRows)
    BY <1>2 DEF T!Stored
  <2>3. CASE b.op = "fetch"
    BY <1>0, <1>1, <2>1, <2>2, <2>3 DEF T!Rows, b
  <2>4. CASE b.op = "none"
    <3>1. T!Rows(c) = [t \in Template |-> IF c.answer[t] = None THEN c.seen[t] ELSE c.answer[t]]
      BY <1>1, <2>4 DEF T!Rows
    <3> QED BY <1>0, <1>1, <2>1, <2>2, <2>4, <3>1 DEF T!NoRows, T!Table, b
  <2> QED BY <1>2, <2>3, <2>4
<1>3. CASE b.op = "create"
  <2>1. PICK t \in Template : T!NewId(t) /\ s = [server EXCEPT ![t] = b.form]
    BY <1>3 DEF T!Executed, b
  <2>2. b.form \in T!Row /\ server[t] = None
    BY <1>0, <1>3, <2>1 DEF Filled, TemplateCall, T!NewId
  <2>3. s \in T!Table
    BY <1>0, <2>1, <2>2 DEF T!Table
  <2>4. T!Stored(b, s) = [u \in Template |-> IF server[u] = None THEN s[u] ELSE None]
    BY <1>3 DEF T!Stored
  <2>5. T!Stored(b, s) \in T!Table
    BY <2>3, <2>4 DEF T!Table
  <2>6. ASSUME b.seen = server PROVE T!Rows(c) = s
    <3>1. T!Rows(c) = [u \in Template |-> IF c.answer[u] = None THEN c.seen[u] ELSE c.answer[u]]
      BY <1>1, <1>3 DEF T!Rows
    <3>2. ASSUME NEW u \in Template PROVE T!Rows(c)[u] = s[u]
      <4>1. c.answer[u] = (IF server[u] = None THEN s[u] ELSE None) /\ c.seen[u] = server[u]
        BY <1>1, <2>4, <2>6
      <4>2. s[u] = (IF u = t THEN b.form ELSE server[u]) /\ b.form # None
        BY <1>0, <2>1, <2>2 DEF T!Table
      <4> QED BY <2>2, <3>1, <4>1, <4>2
    <3> QED BY <2>3, <3>1, <3>2 DEF T!Table
  <2> QED BY <1>3, <2>3, <2>5, <2>6 DEF b
<1>4. CASE b.op = "update"
  <2>1. s = [server EXCEPT ![b.id] = b.form]
    BY <1>4 DEF T!Executed, b
  <2>2. b.form \in T!Row /\ b.id \in Template /\ server[b.id] # None
    BY <1>0, <1>4 DEF Filled, TemplateCall, T!Refused, b
  <2>3. s \in T!Table
    BY <1>0, <2>1, <2>2 DEF T!Table
  <2>4. T!Stored(b, s) = [T!NoRows EXCEPT ![b.id] = s[b.id]]
    BY <1>4 DEF T!Stored
  <2>5. T!Stored(b, s) \in T!Table
    BY <1>0, <2>2, <2>3, <2>4 DEF T!Table
  <2>6. ASSUME b.seen = server PROVE T!Rows(c) = s
    <3>1. T!Rows(c) = [u \in Template |-> IF c.answer[u] # None /\ c.seen[u] # None THEN c.answer[u] ELSE c.seen[u]]
      BY <1>1, <1>4 DEF T!Rows
    <3>2. ASSUME NEW u \in Template PROVE T!Rows(c)[u] = s[u]
      <4>1. c.answer[u] = (IF u = b.id THEN s[u] ELSE None) /\ c.seen[u] = server[u]
        BY <1>1, <2>2, <2>4, <2>6 DEF T!NoRows
      <4>2. s[u] = (IF u = b.id THEN b.form ELSE server[u]) /\ b.form # None
        BY <1>0, <2>1, <2>2 DEF T!Table
      <4> QED BY <2>2, <3>1, <4>1, <4>2
    <3> QED BY <2>3, <3>1, <3>2 DEF T!Table
  <2> QED BY <1>4, <2>3, <2>5, <2>6 DEF b
<1>5. CASE b.op = "delete"
  <2>1. s = [server EXCEPT ![b.id] = None]
    BY <1>5 DEF T!Executed, b
  <2>2. b.id \in Template
    BY <1>0, <1>5 DEF Filled, TemplateCall
  <2>3. s \in T!Table
    BY <1>0, <2>1, <2>2 DEF T!Table
  <2>4. T!Stored(b, s) \in T!Table
    BY <1>0, <1>5 DEF T!Stored
  <2>5. ASSUME b.seen = server PROVE T!Rows(c) = s
    BY <1>1, <1>5, <2>1, <2>5 DEF T!Rows
  <2> QED BY <1>5, <2>3, <2>4, <2>5 DEF b
<1>6. b.op \in {"none", "fetch", "create", "update", "delete"}
  BY <1>0 DEF TemplateCall
<1> QED BY <1>2, <1>3, <1>4, <1>5, <1>6

LEMMA TemplatesAnswered ==
  ASSUME TemplateInv, NEW i \in Slots, calls[i].pc = "sent", ~ T!Refused(calls[i]),
         server' \in T!Executed(calls[i]),
         calls' = [calls EXCEPT ![i].pc = "answered", ![i].answer = T!Stored(calls[i], server')],
         UNCHANGED <<page, view, past>>
  PROVE  TemplateInv'
<1> USE WebAppAssumption DEF TemplateInv
<1> DEFINE c == [calls[i] EXCEPT !.pc = "answered", !.answer = T!Stored(calls[i], server')]
<1>0. calls[i] \in TemplateCall /\ Filled(calls[i])
  BY DEF TemplateTypes
<1>1. calls'[i] = c /\ (\A j \in Slots \ {i} : calls'[j] = calls[j]) /\ calls' = [calls EXCEPT ![i] = c]
  BY DEF TemplateTypes
<1>2. /\ server' \in T!Table /\ T!Stored(calls[i], server') \in T!Table
      /\ calls[i].op = "fetch" \/ calls[i].seen = server => T!Rows(c) = server'
  BY TemplatesExecute
<1>3. /\ c \in TemplateCall /\ c.pc = "answered" /\ c.op = calls[i].op /\ Filled(c)
  BY <1>0, <1>2 DEF TemplateCall, Progress, Filled
<1> HIDE DEF c
<1>4. Alone' /\ Runs' = Runs /\ i \in Runs
  <2>1. \A j \in Slots : calls'[j].pc = "free" <=> calls[j].pc = "free"
    BY <1>1, <1>3
  <2> QED BY <2>1, AloneStill DEF Runs
<1>5. TemplateTypes'
  BY <1>1, <1>2, <1>3 DEF TemplateTypes
<1>6. RowsInv'
  <2> SUFFICES ASSUME ~ past.overlap, past.faults = 0
               PROVE  RowsAfter(i)'
    BY <1>1, <1>3, <1>4 DEF Alone, RowsInv
  <2>1. calls[i].op # "fetch" => calls[i].seen = server
    BY <1>4 DEF RowsInv, RowsAfter
  <2>2. T!Rows(calls'[i]) = T!Rows(calls[i])'
    BY DEF T!Rows
  <2> QED BY <1>1, <1>2, <1>3, <2>1, <2>2 DEF RowsAfter
<1> QED BY <1>4, <1>5, <1>6

(* A call fails without effect; the backend refuses no fetch.              *)
LEMMA TemplatesFail ==
  ASSUME TemplateInv, NEW i \in Slots, calls[i].pc = "sent", UNCHANGED <<page, view>>,
         T!Fails(i, T!Refused(calls[i]) \/ T!Executed(calls[i]) = {})
  PROVE  TemplateInv'
<1> USE WebAppAssumption DEF TemplateInv
<1>0. calls[i] \in TemplateCall /\ Filled(calls[i])
  BY DEF TemplateTypes
<1>1. /\ \A j \in Slots \ {i} : calls'[j] = calls[j]
      /\ calls'[i] = [calls[i] EXCEPT !.pc = "failed"] /\ calls' = [calls EXCEPT ![i] = [calls[i] EXCEPT !.pc = "failed"]]
  BY DEF T!Fails, TemplateTypes
<1>2. /\ calls'[i] \in TemplateCall /\ Filled(calls'[i]) /\ calls'[i].pc = "failed"
      /\ calls'[i].op = calls[i].op /\ calls'[i].seen = calls[i].seen
  BY <1>0, <1>1 DEF TemplateCall, Progress, Filled
<1>3. /\ past' \in PastType /\ past'.overlap = past.overlap
      /\ past'.faults = 0 => past.faults = 0 /\ calls[i].op # "fetch"
  BY DEF T!Fails, TemplateTypes, PastType, T!Refused, T!Executed
<1>4. Alone' /\ Runs' = Runs
  BY <1>1, <1>2, <1>3, AloneStill
<1>5. TemplateTypes'
  BY <1>1, <1>2, <1>3 DEF TemplateTypes, T!Fails
<1>6. RowsInv'
  <2> SUFFICES ASSUME ~ past'.overlap, past'.faults = 0
               PROVE  /\ Runs = {} => view.templates = server
                      /\ \A j \in Runs : RowsAfter(j)' /\ (calls'[j].op = "fetch" => calls'[j].pc # "failed")
    BY <1>4 DEF RowsInv, T!Fails
  <2>1. RowsAfter(i)' /\ i \in Runs
    BY <1>2, <1>3 DEF RowsAfter, RowsInv, Runs, T!Fails
  <2> QED BY <1>2, <1>3, <2>1 DEF Alone, RowsInv
<1> QED BY <1>4, <1>5, <1>6

(* The documents change and the page does not learn of it.                 *)
LEMMA TemplatesElsewhere ==
  ASSUME TemplateInv, server' \in T!Table, past' = [past EXCEPT !.faults = @ + 1], UNCHANGED <<page, view>>,
         \/ UNCHANGED calls
         \/ \E i \in Slots : calls[i].pc = "sent" /\ calls' = [calls EXCEPT ![i].pc = "failed"]
  PROVE  TemplateInv'
<1> USE WebAppAssumption DEF TemplateInv
<1>1. past' \in PastType /\ past'.overlap = past.overlap /\ past'.faults # 0
  BY DEF TemplateTypes, PastType
<1>2. /\ calls' \in [Slots -> TemplateCall]
      /\ \A j \in Slots : Filled(calls'[j]) /\ (calls'[j].pc = "free" <=> calls[j].pc = "free")
  BY DEF TemplateTypes, TemplateCall, Filled, Progress
<1>3. Alone'
  BY <1>1, <1>2, AloneStill
<1>4. TemplateTypes'
  BY <1>1, <1>2 DEF TemplateTypes
<1> QED BY <1>1, <1>3, <1>4 DEF RowsInv

LEMMA TemplatesContinue ==
  ASSUME TemplateInv, NEW i \in Slots, T!Continue(i)
  PROVE  TemplateInv'
<1> USE WebAppAssumption DEF TemplateInv
<1> DEFINE c == calls[i]
<1>0. c \in TemplateCall /\ Filled(c) /\ c.pc \in {"answered", "failed"} /\ i \in Runs
  BY DEF TemplateTypes, T!Continue, T!Proceed, Runs
<1>1. calls' = [calls EXCEPT ![i] = T!Free] /\ UNCHANGED <<page, server, past>> /\ view' = T!Shown(c)
  BY DEF T!Continue, T!Proceed
<1>2. T!Free \in TemplateCall /\ Filled(T!Free) /\ T!Free.pc = "free"
  BY DEF T!Free, TemplateCall, Filled, Progress, T!NoRows, T!Table
<1>3. calls'[i] = T!Free /\ \A j \in Slots \ {i} : calls'[j] = calls[j]
  BY <1>1 DEF TemplateTypes
<1>4. T!Rows(c) \in T!Table
  <2>1. c.seen \in T!Table /\ c.answer \in T!Table /\ (c.op = "delete" => c.id \in Template)
    BY <1>0 DEF TemplateCall, Filled
  <2>2. CASE c.op = "fetch"
    BY <2>1, <2>2 DEF T!Rows
  <2>3. CASE c.op = "delete"
    BY <2>1, <2>3 DEF T!Rows, T!Table
  <2>4. CASE c.op = "update"
    BY <2>1, <2>4 DEF T!Rows, T!Table
  <2>5. CASE c.op \notin {"fetch", "delete", "update"}
    <3>1. T!Rows(c) = [t \in Template |-> IF c.answer[t] = None THEN c.seen[t] ELSE c.answer[t]]
      BY <2>5 DEF T!Rows
    <3> QED BY <2>1, <3>1 DEF T!Table
  <2> QED BY <2>2, <2>3, <2>4, <2>5
<1> HIDE DEF c
<1>5. /\ view' \in TemplateView /\ (view'.edit => view'.open /\ view'.selected # None)
      /\ view'.loading = FALSE
      /\ view'.templates = (IF c.pc = "answered" THEN T!Rows(c) ELSE view.templates)
  BY <1>1, <1>4 DEF T!Shown, T!Closed, TemplateTypes, TemplateView
<1>6. Alone' /\ Runs' = Runs \ {i} /\ (~ past.overlap => Runs = {i})
  BY <1>0, <1>1, <1>2, <1>3, <1>5, AloneContinues
<1>7. TemplateTypes'
  BY <1>1, <1>2, <1>3, <1>5 DEF TemplateTypes
<1>8. RowsInv'
  <2> SUFFICES ASSUME ~ past.overlap, past.faults = 0 PROVE view'.templates = server
    BY <1>1, <1>6 DEF RowsInv
  <2> QED BY <1>0, <1>5 DEF RowsInv, RowsAfter, c
<1> QED BY <1>6, <1>7, <1>8

LEMMA TemplatesSteps ==
  ASSUME TemplateInv, T!Next
  PROVE  TemplateInv'
<1>1. ASSUME NEW i \in Slots, T!Answer(i) PROVE TemplateInv'
  BY <1>1, TemplatesAnswered, TemplatesFail DEF T!Answer
<1>2. ASSUME NEW i \in Slots, T!LostAnswer(i) PROVE TemplateInv'
  <2>1. server' \in T!Table
    BY <1>2, TemplatesExecute DEF T!LostAnswer, TemplateInv
  <2> QED BY <1>2, <2>1, TemplatesElsewhere DEF T!LostAnswer
<1>3. ASSUME NEW t \in Template, T!DeletedElsewhere(t) PROVE TemplateInv'
  <2>1. server' \in T!Table
    BY <1>3 DEF T!DeletedElsewhere, T!Elsewhere, TemplateInv, TemplateTypes, T!Table
  <2> QED BY <1>3, <2>1, TemplatesElsewhere DEF T!DeletedElsewhere, T!Elsewhere
<1> QED BY <1>1, <1>2, <1>3, TemplatesShow, TemplatesButtons, TemplatesContinue DEF T!Next, T!Slot, Slots

LEMMA AlwaysTemplates == Spec => [](T!Here => TemplateInv)
<1> DEFINE Inv == T!Here => TemplateInv
<1>1. Init => Inv
  BY DEF Init, T!Here
<1>2. Inv /\ [Next]_vars => Inv'
  <2> SUFFICES ASSUME Inv, [Next]_vars, page' = "/provisioning-templates" PROVE TemplateInv'
    BY DEF T!Here
  <2>1. CASE Login
    <3>1. Mount("/provisioning-templates", T!ServersAtMount, T!ViewAtMount, T!CallsAtMount, T!PastAtMount)
      BY <2>1 DEF Login, Mount
    <3> QED BY <3>1, InitTemplates DEF Mount
  <2>2. CASE UNCHANGED vars
    <3>1. TemplateInv
      BY <2>2 DEF vars, T!Here
    <3> QED BY <2>2, <3>1 DEF vars, TemplateInv, TemplateTypes, Alone, Runs, RowsInv, RowsAfter, T!Rows
  <2>3. CASE page = "/provisioning-templates" /\ T!Next
    BY <2>3, TemplatesSteps DEF T!Here
  <2> QED BY <2>1, <2>2, <2>3, PageSteps
<1> QED BY <1>1, <1>2, PTL DEF Spec

-----------------------------------------------------------------------------
(* Firmwares.                                                              *)
FirmwareOp == {"upload", "category", "assign", "upgrade", "deleteFirmware", "deleteCategory"}
FirmwareLists == [firmwares : F!Firmwares, categories : SUBSET Category]
FirmwareServer ==
    [firmwares : F!Firmwares, categories : SUBSET Category, assigned : [Device -> Firmware \cup {None}]]
FirmwareView ==
    [lists : FirmwareLists, devices : SUBSET Device, firmware : Firmware \cup {None},
     selected : SUBSET Device, dialogs : SUBSET F!Dialogs, loading : BOOLEAN]
FirmwareCall ==
    [pc : Progress, op : {"none", "load"} \cup FirmwareOp, step : {"none", "fetch"} \cup FirmwareOp,
     id : (Firmware \cup Category) \cup {None}, devices : SUBSET Device, lists : FirmwareLists,
     awaited : SUBSET {"firmwares", "categories"}]
ChosenWhenOpen(v) == v.dialogs \cap {"assign", "upgrade"} # {} => v.firmware # None
Addressed(c) ==
    /\ c.op \in {"assign", "deleteFirmware"} => c.id \in Firmware
    /\ c.op = "deleteCategory" => c.id \in Category
    /\ c.step \in {"fetch", c.op}
    /\ c.awaited # {} => c.step = "fetch" /\ c.pc # "answered"
FirmwareTypes ==
    /\ server \in FirmwareServer
    /\ view \in FirmwareView /\ ChosenWhenOpen(view)
    /\ calls \in [Slots -> FirmwareCall]
    /\ \A i \in Slots : Addressed(calls[i])
    /\ past \in PastType
(* Undisturbed, the page has the lists of the backend, or the running      *)
(* handler has changed them and will fetch them, or has fetched them.      *)
SameLists == view.lists.firmwares = server.firmwares /\ view.lists.categories = server.categories
Fetched(c) ==
    /\ c.pc # "failed"
    /\ "firmwares" \notin c.awaited => c.lists.firmwares = server.firmwares
    /\ "categories" \notin c.awaited => c.lists.categories = server.categories
ListsAfter(c) ==
    IF c.step = "fetch" THEN Fetched(c) ELSE c.pc # "answered" \/ c.step = "assign" => SameLists
ListsInv == ~ past.overlap /\ past.faults = 0 =>
    (Runs = {} => SameLists) /\ \A i \in Runs : ListsAfter(calls[i])
FirmwareInv == FirmwareTypes /\ Alone /\ ListsInv

LEMMA InitFirmwares ==
  ASSUME NEW s \in F!ServersAtMount, server' = s, view' = F!ViewAtMount, calls' = F!CallsAtMount,
         past' = F!PastAtMount
  PROVE  FirmwareInv'
<1> USE WebAppAssumption DEF F!Slot, Slots
<1>0. F!Lists \in FirmwareLists
  BY DEF F!Lists, FirmwareLists, F!Firmwares
<1>1. server' \in FirmwareServer
  BY DEF F!ServersAtMount, FirmwareServer, F!Firmwares
<1>2. view' \in FirmwareView /\ ChosenWhenOpen(view') /\ view'.loading = TRUE
  BY <1>0 DEF F!ViewAtMount, FirmwareView, ChosenWhenOpen
<1> DEFINE first == F!Fetching(F!Handler("load", None, {}))
<1>3. calls' = [i \in Slots |-> IF i = 1 THEN first ELSE F!Free]
  BY DEF F!CallsAtMount
<1>4. /\ F!Free \in FirmwareCall /\ Addressed(F!Free) /\ F!Free.pc = "free"
      /\ first \in FirmwareCall /\ Addressed(first) /\ first.pc = "sent" /\ first.step = "fetch"
      /\ first.awaited = {"firmwares", "categories"}
  BY <1>0 DEF F!Free, F!Fetching, F!Handler, FirmwareCall, FirmwareOp, Addressed, Progress
<1> HIDE DEF first
<1>5. calls' \in [Slots -> FirmwareCall] /\ \A i \in Slots : Addressed(calls'[i])
  BY <1>3, <1>4
<1>6. past' \in PastType
  BY DEF F!PastAtMount, PastType
<1>7. Runs' = {1} /\ calls'[1] = first
  BY <1>3, <1>4 DEF Runs
<1>8. Alone'
  BY <1>2, <1>7 DEF Alone
<1>9. ListsInv'
  BY <1>4, <1>7 DEF ListsInv, ListsAfter, Fetched
<1> QED BY <1>1, <1>2, <1>5, <1>6, <1>8, <1>9 DEF FirmwareInv, FirmwareTypes

(* A form, a dialog or a selection changes: no handler starts or ends.     *)
LEMMA FirmwaresShow ==
  ASSUME FirmwareInv, view' \in FirmwareView, ChosenWhenOpen(view'), view'.lists = view.lists,
         view'.loading = view.loading, UNCHANGED <<page, server, calls>>,
         past' = past \/ past' = [past EXCEPT !.clicks = @ + 1]
  PROVE  FirmwareInv'
<1> USE WebAppAssumption DEF FirmwareInv
<1>1. past' \in PastType /\ past'.overlap = past.overlap /\ past'.faults = past.faults
  BY ClickIsCounted DEF FirmwareTypes
<1>2. Alone' /\ Runs' = Runs
  BY <1>1, AloneStill
<1>3. FirmwareTypes'
  BY <1>1 DEF FirmwareTypes
<1>4. ListsInv'
  BY <1>1, <1>2 DEF ListsInv, ListsAfter, Fetched, SameLists
<1> QED BY <1>2, <1>3, <1>4

LEMMA FirmwaresDialogs ==
  ASSUME FirmwareInv,
         \/ \E form \in {"upload", "category"} : F!OpenForm(form)
         \/ \E dialog \in F!Dialogs : F!Cancel(dialog)
         \/ \E f \in Firmware, dialog \in {"assign", "upgrade"} : F!OpenDialog(dialog, f)
         \/ F!SelectAll
         \/ \E d \in Device : F!SelectDevice(d)
  PROVE  FirmwareInv'
<1> USE WebAppAssumption
<1>0. view \in FirmwareView /\ ChosenWhenOpen(view)
  BY DEF FirmwareInv, FirmwareTypes
<1>1. ASSUME NEW form \in {"upload", "category"}, F!OpenForm(form) PROVE FirmwareInv'
  <2>1. /\ view' \in FirmwareView /\ ChosenWhenOpen(view') /\ view'.lists = view.lists
        /\ view'.loading = view.loading
    BY <1>0, <1>1 DEF F!OpenForm, F!Show, FirmwareView, ChosenWhenOpen, F!Dialogs
  <2> QED BY <1>1, <2>1, FirmwaresShow DEF F!OpenForm, F!Show, F!Counted
<1>2. ASSUME NEW dialog \in F!Dialogs, F!Cancel(dialog) PROVE FirmwareInv'
  <2>1. /\ view' \in FirmwareView /\ ChosenWhenOpen(view') /\ view'.lists = view.lists
        /\ view'.loading = view.loading
    BY <1>0, <1>2 DEF F!Cancel, F!Show, FirmwareView, ChosenWhenOpen, F!Dialogs
  <2> QED BY <1>2, <2>1, FirmwaresShow DEF F!Cancel, F!Show, F!Counted
<1>3. ASSUME NEW f \in Firmware, NEW dialog \in {"assign", "upgrade"}, F!OpenDialog(dialog, f) PROVE FirmwareInv'
  <2>1. /\ view' \in FirmwareView /\ ChosenWhenOpen(view') /\ view'.lists = view.lists
        /\ view'.loading = view.loading
    BY <1>0, <1>3 DEF F!OpenDialog, F!Show, FirmwareView, ChosenWhenOpen, F!Dialogs
  <2> QED BY <1>3, <2>1, FirmwaresShow DEF F!OpenDialog, F!Show, F!Counted
<1>4. ASSUME NEW devices \in SUBSET Device, F!Selected(devices) PROVE FirmwareInv'
  <2>1. /\ view' \in FirmwareView /\ ChosenWhenOpen(view') /\ view'.lists = view.lists
        /\ view'.loading = view.loading
    BY <1>0, <1>4 DEF F!Selected, FirmwareView, ChosenWhenOpen
  <2> QED BY <1>4, <2>1, FirmwaresShow DEF F!Selected
<1>5. view.devices \subseteq Device /\ view.selected \subseteq Device
  BY <1>0 DEF FirmwareView
<1>6. ASSUME F!SelectAll \/ \E d \in Device : F!SelectDevice(d) PROVE FirmwareInv'
  BY <1>4, <1>5, <1>6 DEF F!SelectAll, F!SelectDevice
<1> QED BY <1>1, <1>2, <1>3, <1>6

(* A handler starts with a call that changes the documents.                *)
LEMMA FirmwaresStart ==
  ASSUME FirmwareInv, NEW i \in Slots, NEW h \in FirmwareCall, F!Start(i, h, view), Addressed(h),
         h.pc = "sent", h.step \in FirmwareOp
  PROVE  FirmwareInv'
<1> USE WebAppAssumption DEF FirmwareInv
<1>1. /\ calls' = [calls EXCEPT ![i] = h] /\ view' = [view EXCEPT !.loading = TRUE] /\ UNCHANGED <<page, server>>
      /\ i \notin Runs
  BY DEF F!Start, F!Unused, F!Running, F!Slot, Runs, Slots
<1>2. past' \in PastType /\ past'.overlap = (past.overlap \/ Runs # {}) /\ past'.faults = past.faults
  <2>1. (F!Running # {}) \in BOOLEAN /\ past \in PastType
    BY DEF FirmwareTypes
  <2>2. past' \in PastType /\ past'.overlap = (past.overlap \/ F!Running # {}) /\ past'.faults = past.faults
    BY <2>1, ClickIsCounted DEF F!Start, F!Counted
  <2>3. F!Running = Runs
    BY DEF F!Running, F!Slot, Runs, Slots
  <2> QED BY <2>2, <2>3
<1>3. calls'[i] = h /\ \A j \in Slots \ {i} : calls'[j] = calls[j]
  BY <1>1 DEF FirmwareTypes
<1>4. /\ view' \in FirmwareView /\ view'.loading = TRUE /\ view'.lists = view.lists
      /\ view'.dialogs = view.dialogs /\ view'.firmware = view.firmware
  BY <1>1 DEF FirmwareTypes, FirmwareView
<1>5. Alone' /\ (~ past'.overlap => ~ past.overlap /\ Runs = {} /\ Runs' = {i})
  BY <1>1, <1>2, <1>3, <1>4, AloneStart DEF FirmwareTypes
<1>6. FirmwareTypes'
  BY <1>1, <1>2, <1>3, <1>4 DEF FirmwareTypes, ChosenWhenOpen
<1>7. ListsInv'
  BY <1>1, <1>2, <1>3, <1>4, <1>5 DEF ListsInv, ListsAfter, SameLists, FirmwareOp
<1> QED BY <1>5, <1>6, <1>7

LEMMA FirmwaresButtons ==
  ASSUME FirmwareInv, NEW i \in Slots,
         \/ F!SubmitFirmware(i) \/ F!SubmitCategory(i) \/ F!AssignFirmware(i) \/ F!UpgradeDevices(i)
         \/ \E f \in Firmware : F!DeleteFirmware(i, f)
         \/ \E k \in Category : F!DeleteCategory(i, k)
  PROVE  FirmwareInv'
<1> USE WebAppAssumption
<1>0. /\ view \in FirmwareView /\ ChosenWhenOpen(view)
      /\ F!Lists \in FirmwareLists
  BY DEF FirmwareInv, FirmwareTypes, F!Lists, FirmwareLists, F!Firmwares
<1>1. ASSUME NEW op \in FirmwareOp, NEW id \in (Firmware \cup Category) \cup {None}, NEW devices \in SUBSET Device,
             op \in {"assign", "deleteFirmware"} => id \in Firmware, op = "deleteCategory" => id \in Category
      PROVE  LET h == F!Handler(op, id, devices) IN
             h \in FirmwareCall /\ Addressed(h) /\ h.pc = "sent" /\ h.step = op
  BY <1>0, <1>1 DEF F!Handler, F!Free, FirmwareCall, Addressed, Progress, FirmwareOp
<1>2. CASE F!SubmitFirmware(i)
  <2>1. PICK categories \in SUBSET Category :
          F!Start(i, [F!Handler("upload", None, {}) EXCEPT !.lists.categories = categories], view)
    BY <1>2 DEF F!SubmitFirmware
  <2> DEFINE g == F!Handler("upload", None, {})
             h == [g EXCEPT !.lists = [g.lists EXCEPT !.categories = categories]]
  <2>2. g \in FirmwareCall /\ Addressed(g) /\ g.pc = "sent" /\ g.step = "upload"
    BY <1>1 DEF FirmwareOp
  <2>3. h \in FirmwareCall /\ Addressed(h) /\ h.pc = "sent" /\ h.step = "upload"
    BY <2>2 DEF FirmwareCall, FirmwareLists, Addressed
  <2>4. F!Start(i, h, view)
    BY <2>1
  <2> HIDE DEF h
  <2> QED BY <2>3, <2>4, FirmwaresStart DEF FirmwareOp
<1>3. CASE F!SubmitCategory(i)
  BY <1>1, <1>3, FirmwaresStart DEF F!SubmitCategory, FirmwareOp
<1>4. view.selected \in SUBSET Device
      /\ (view.dialogs \cap {"assign", "upgrade"} # {} => view.firmware \in Firmware)
  BY <1>0 DEF FirmwareView, ChosenWhenOpen
<1>5. CASE F!AssignFirmware(i)
  BY <1>1, <1>4, <1>5, FirmwaresStart DEF F!AssignFirmware, F!AssignModal, F!Submittable, FirmwareOp
<1>6. CASE F!UpgradeDevices(i)
  BY <1>1, <1>4, <1>6, FirmwaresStart DEF F!UpgradeDevices, F!UpgradeModal, F!Submittable, FirmwareOp
<1>7. CASE \E f \in Firmware : F!DeleteFirmware(i, f)
  BY <1>1, <1>7, FirmwaresStart DEF F!DeleteFirmware, FirmwareOp
<1>8. CASE \E k \in Category : F!DeleteCategory(i, k)
  BY <1>1, <1>8, FirmwaresStart DEF F!DeleteCategory, FirmwareOp
<1> QED BY <1>2, <1>3, <1>5, <1>6, <1>7, <1>8

(* A change of the documents has an answer.                                *)
LEMMA FirmwaresAnswer ==
  ASSUME FirmwareInv, NEW i \in Slots, F!Answer(i)
  PROVE  FirmwareInv'
<1> USE WebAppAssumption DEF FirmwareInv
<1> DEFINE c == calls[i]
<1>0. /\ c \in FirmwareCall /\ Addressed(c) /\ c.pc = "sent" /\ c.step # "fetch" /\ c.awaited = {} /\ c.step = c.op
      /\ server \in FirmwareServer /\ i \in Runs
  BY DEF FirmwareTypes, F!Answer, Addressed, Runs
<1>1. PICK p \in {"answered", "failed"} :
        /\ calls' = [calls EXCEPT ![i].pc = p] /\ UNCHANGED <<page, view>>
        /\ p = "answered" => ~ F!Refused(c) /\ server' \in F!Executed(c) /\ past' = past
        /\ p = "failed" => server' = server /\ past' \in {past, [past EXCEPT !.faults = @ + 1]}
  BY DEF F!Answer, F!Fails
<1>2. /\ calls' = [calls EXCEPT ![i] = [c EXCEPT !.pc = p]] /\ calls'[i] = [c EXCEPT !.pc = p]
      /\ \A j \in Slots \ {i} : calls'[j] = calls[j]
  BY <1>1 DEF FirmwareTypes
<1> HIDE DEF c
<1>3. /\ calls'[i] \in FirmwareCall /\ Addressed(calls'[i])
      /\ calls'[i].pc = p /\ calls'[i].step = c.step /\ calls'[i].op = c.op
  BY <1>0, <1>2 DEF FirmwareCall, Addressed, Progress
<1>4. past' \in PastType /\ past'.overlap = past.overlap /\ (past'.faults = 0 => past.faults = 0)
  BY <1>1 DEF FirmwareTypes, PastType
<1>5. server' \in FirmwareServer /\ (c.step = "assign" \/ p = "failed" =>
          server'.firmwares = server.firmwares /\ server'.categories = server.categories)
  <2>1. CASE p = "failed"
    BY <1>0, <1>1, <2>1
  <2>2. CASE p = "answered" /\ c.op = "upload"
    <3>1. PICK f \in Firmware : server' = [server EXCEPT !.firmwares[f] = c.lists.categories]
      BY <1>1, <2>2 DEF F!Executed
    <3>2. c.lists.categories \in SUBSET Category
      BY <1>0 DEF FirmwareCall, FirmwareLists
    <3> QED BY <1>0, <2>2, <3>1, <3>2 DEF FirmwareServer, F!Firmwares
  <2>3. CASE p = "answered" /\ c.op = "category"
    BY <1>0, <1>1, <2>3 DEF F!Executed, FirmwareServer
  <2>4. CASE p = "answered" /\ c.op = "deleteFirmware"
    BY <1>0, <1>1, <2>4 DEF F!Executed, FirmwareServer, F!Firmwares, Addressed
  <2>5. CASE p = "answered" /\ c.op = "deleteCategory"
    BY <1>0, <1>1, <2>5 DEF F!Executed, FirmwareServer
  <2>6. CASE p = "answered" /\ c.op = "assign"
    <3>1. server' = [server EXCEPT !.assigned =
                       [d \in Device |-> IF d \in c.devices THEN c.id ELSE server.assigned[d]]]
      BY <1>1, <2>6 DEF F!Executed
    <3>2. c.id \in Firmware
      BY <1>0, <2>6 DEF Addressed
    <3>3. [d \in Device |-> IF d \in c.devices THEN c.id ELSE server.assigned[d]] \in [Device -> Firmware \cup {None}]
      BY <1>0, <3>2 DEF FirmwareServer
    <3> QED BY <1>0, <3>1, <3>3 DEF FirmwareServer
  <2>7. CASE p = "answered" /\ c.op \in {"none", "load", "upgrade"}
    BY <1>1, <2>7 DEF F!Executed
  <2> QED BY <1>0, <2>1, <2>2, <2>3, <2>4, <2>5, <2>6, <2>7 DEF FirmwareCall, FirmwareOp
<1>6. Alone' /\ Runs' = Runs
  <2>1. \A j \in Slots : calls'[j].pc = "free" <=> calls[j].pc = "free"
    BY <1>0, <1>2, <1>3 DEF c
  <2> QED BY <1>1, <1>4, <2>1, AloneStill
<1>7. FirmwareTypes'
  BY <1>1, <1>2, <1>3, <1>4, <1>5 DEF FirmwareTypes
<1>8. ListsInv'
  <2> SUFFICES ASSUME ~ past.overlap, past.faults = 0 PROVE ListsAfter(calls[i])'
    BY <1>0, <1>4, <1>6 DEF ListsInv, Alone
  <2>1. SameLists
    BY <1>0 DEF ListsInv, ListsAfter, c
  <2>2. c.step = "assign" \/ p = "failed" => SameLists'
    BY <1>1, <1>5, <2>1 DEF SameLists
  <2> QED BY <1>0, <1>1, <1>3, <2>2 DEF ListsAfter
<1> QED BY <1>6, <1>7, <1>8

(* One of the lists is read.                                               *)
LEMMA FirmwaresAnswerList ==
  ASSUME FirmwareInv, NEW i \in Slots, NEW list \in {"firmwares", "categories"}, F!AnswerList(i, list)
  PROVE  FirmwareInv'
<1> USE WebAppAssumption DEF FirmwareInv
<1> DEFINE c == calls[i]
<1>0. /\ c \in FirmwareCall /\ Addressed(c) /\ c.pc = "sent" /\ list \in c.awaited /\ c.step = "fetch"
      /\ server \in FirmwareServer /\ i \in Runs
  BY DEF FirmwareTypes, F!AnswerList, Addressed, Runs
<1>1. PICK new \in FirmwareCall :
        /\ calls' = [calls EXCEPT ![i] = new] /\ Addressed(new) /\ new.pc # "free" /\ new.step = "fetch"
        /\ \/ /\ past' = past /\ new.pc # "failed" /\ new.awaited = c.awaited \ {list}
              /\ new.lists.firmwares = (IF list = "firmwares" THEN server.firmwares ELSE c.lists.firmwares)
              /\ new.lists.categories = (IF list = "categories" THEN server.categories ELSE c.lists.categories)
           \/ past' = [past EXCEPT !.faults = @ + 1]
  <2>1. CASE F!Fails(i, FALSE)
    <3> DEFINE new == [c EXCEPT !.pc = "failed"]
    <3>1. calls' = [calls EXCEPT ![i] = new] /\ past' = [past EXCEPT !.faults = @ + 1]
      BY <2>1 DEF F!Fails, FirmwareTypes
    <3>2. new \in FirmwareCall /\ Addressed(new) /\ new.pc # "free" /\ new.step = "fetch"
      BY <1>0 DEF FirmwareCall, Addressed, Progress
    <3> QED BY <3>1, <3>2
  <2>2. CASE ~ F!Fails(i, FALSE)
    <3> DEFINE lists == [c.lists EXCEPT ![list] = server[list]]
               new == [c EXCEPT !.awaited = @ \ {list}, !.lists = lists,
                                !.pc = IF c.awaited = {list} THEN "answered" ELSE "sent"]
    <3>1. /\ calls' = [calls EXCEPT ![i].awaited = @ \ {list}, ![i].lists[list] = server[list],
                                    ![i].pc = IF c.awaited = {list} THEN "answered" ELSE "sent"]
          /\ past' = past
      BY <2>2 DEF F!AnswerList
    <3>2. calls' = [calls EXCEPT ![i] = new]
      BY <1>0, <3>1 DEF FirmwareTypes, FirmwareCall
    <3>3. /\ lists \in FirmwareLists
          /\ lists.firmwares = (IF list = "firmwares" THEN server.firmwares ELSE c.lists.firmwares)
          /\ lists.categories = (IF list = "categories" THEN server.categories ELSE c.lists.categories)
      BY <1>0 DEF FirmwareCall, FirmwareLists, FirmwareServer
    <3> HIDE DEF lists
    <3>4. new \in FirmwareCall /\ Addressed(new) /\ new.pc \in {"answered", "sent"} /\ new.step = "fetch"
      BY <1>0, <3>3 DEF FirmwareCall, Addressed, Progress
    <3>5. new.lists = lists /\ new.awaited = c.awaited \ {list}
      BY <1>0 DEF FirmwareCall
    <3> HIDE DEF new
    <3> QED BY <3>1, <3>2, <3>3, <3>4, <3>5
  <2> QED BY <2>1, <2>2
<1>2. UNCHANGED <<page, view, server>>
  BY DEF F!AnswerList, F!Fails
<1>3. calls'[i] = new /\ \A j \in Slots \ {i} : calls'[j] = calls[j]
  BY <1>1 DEF FirmwareTypes
<1>4. past' \in PastType /\ past'.overlap = past.overlap /\ (past'.faults = 0 => past' = past)
  BY <1>1 DEF FirmwareTypes, PastType
<1>5. Alone' /\ Runs' = Runs
  <2>1. \A j \in Slots : calls'[j].pc = "free" <=> calls[j].pc = "free"
    BY <1>0, <1>1, <1>3
  <2> QED BY <1>2, <1>4, <2>1, AloneStill
<1>6. FirmwareTypes'
  BY <1>1, <1>2, <1>3, <1>4 DEF FirmwareTypes
<1>7. ListsInv'
  <2> SUFFICES ASSUME ~ past.overlap, past.faults = 0, past' = past PROVE ListsAfter(calls[i])'
    BY <1>0, <1>4, <1>5 DEF ListsInv, Alone
  <2>1. Fetched(c)
    BY <1>0 DEF ListsInv, ListsAfter
  <2>2. past'.faults # past.faults + 1
    OBVIOUS
  <2>3. /\ new.pc # "failed" /\ new.awaited = c.awaited \ {list}
        /\ new.lists.firmwares = (IF list = "firmwares" THEN server.firmwares ELSE c.lists.firmwares)
        /\ new.lists.categories = (IF list = "categories" THEN server.categories ELSE c.lists.categories)
    BY <1>1, <2>2 DEF FirmwareTypes, PastType
  <2>4. Fetched(new)
    BY <2>1, <2>3 DEF Fetched
  <2>5. Fetched(calls[i])'
    BY <1>2, <1>3, <2>4 DEF Fetched
  <2> QED BY <1>1, <1>3, <2>5 DEF ListsAfter
<1> QED BY <1>5, <1>6, <1>7

LEMMA FirmwaresElsewhere ==
  ASSUME FirmwareInv, NEW f \in Firmware, F!RemovedElsewhere(f)
  PROVE  FirmwareInv'
<1> USE WebAppAssumption DEF FirmwareInv
<1>1. server' \in FirmwareServer /\ UNCHANGED <<page, view, calls>>
  BY DEF F!RemovedElsewhere, F!Elsewhere, FirmwareTypes, FirmwareServer, F!Firmwares
<1>2. past' \in PastType /\ past'.overlap = past.overlap /\ past'.faults # 0
  BY DEF F!RemovedElsewhere, F!Elsewhere, FirmwareTypes, PastType
<1>3. Alone'
  BY <1>1, <1>2, AloneStill
<1> QED BY <1>1, <1>2, <1>3 DEF FirmwareTypes, ListsInv

LEMMA FirmwaresContinue ==
  ASSUME FirmwareInv, NEW i \in Slots, F!Continue(i)
  PROVE  FirmwareInv'
<1> USE WebAppAssumption DEF FirmwareInv
<1> DEFINE c == calls[i]
           next == IF F!Ends(c) THEN F!Free ELSE F!Fetching(c)
<1>0. c \in FirmwareCall /\ Addressed(c) /\ c.pc \in {"answered", "failed"} /\ i \in Runs
  BY DEF FirmwareTypes, F!Continue, F!Proceed, Runs
<1>1. calls' = [calls EXCEPT ![i] = next] /\ UNCHANGED <<page, server, past>> /\ view' = F!Shown(c)
  BY DEF F!Continue, F!Proceed
<1>2. /\ next \in FirmwareCall /\ Addressed(next)
      /\ IF F!Ends(c) THEN next.pc = "free"
         ELSE next.pc = "sent" /\ next.step = "fetch" /\ next.awaited = {"firmwares", "categories"}
  <2>1. F!Free \in FirmwareCall /\ Addressed(F!Free) /\ F!Free.pc = "free"
    BY DEF F!Free, FirmwareCall, Addressed, Progress, F!Lists, FirmwareLists, F!Firmwares
  <2>2. /\ F!Fetching(c) \in FirmwareCall /\ Addressed(F!Fetching(c)) /\ F!Fetching(c).pc = "sent"
        /\ F!Fetching(c).step = "fetch" /\ F!Fetching(c).awaited = {"firmwares", "categories"}
    BY <1>0 DEF F!Fetching, FirmwareCall, Addressed, Progress
  <2> QED BY <2>1, <2>2
<1>3. calls'[i] = next /\ \A j \in Slots \ {i} : calls'[j] = calls[j]
  BY <1>1 DEF FirmwareTypes
<1> HIDE DEF c, next
<1>4. /\ view' \in FirmwareView /\ ChosenWhenOpen(view')
      /\ view'.loading = ~ F!Ends(c)
      /\ view'.lists = (IF c.pc = "answered" /\ c.step = "fetch" THEN c.lists ELSE view.lists)
  <2> USE DEF FirmwareTypes
  <2>1. CASE c.pc = "failed"
    BY <1>0, <1>1, <2>1 DEF F!Shown, F!Ends, FirmwareView, ChosenWhenOpen
  <2>2. CASE c.pc = "answered" /\ c.step = "fetch"
    <3>1. c.lists \in FirmwareLists
      BY <1>0 DEF FirmwareCall
    <3> QED BY <1>1, <2>2, <3>1 DEF F!Shown, F!Ends, FirmwareView, ChosenWhenOpen
  <2>3. CASE c.pc = "answered" /\ c.step = "assign"
    BY <1>1, <2>3 DEF F!Shown, F!Ends, FirmwareView, ChosenWhenOpen
  <2>4. CASE c.pc = "answered" /\ c.step \notin {"fetch", "assign"}
    <3>1. view' = [view EXCEPT !.loading = TRUE, !.dialogs = @ \ {c.op}]
      BY <1>1, <2>4 DEF F!Shown
    <3> QED BY <2>4, <3>1 DEF F!Ends, FirmwareView, ChosenWhenOpen
  <2> QED BY <1>0, <2>1, <2>2, <2>3, <2>4
<1>5. /\ Alone' /\ Runs' = (IF F!Ends(c) THEN Runs \ {i} ELSE Runs)
      /\ ~ past.overlap => Runs = {i}
  <2>1. \/ calls'[i].pc = "free" /\ view'.loading = FALSE /\ F!Ends(c)
        \/ calls'[i].pc = "sent" /\ view'.loading = TRUE /\ ~ F!Ends(c)
    BY <1>2, <1>3, <1>4
  <2> QED BY <1>0, <1>1, <1>3, <2>1, AloneContinues
<1>6. FirmwareTypes'
  BY <1>1, <1>2, <1>3, <1>4 DEF FirmwareTypes
<1>7. ListsInv'
  <2> SUFFICES ASSUME ~ past.overlap, past.faults = 0
               PROVE  IF F!Ends(c) THEN SameLists' ELSE ListsAfter(calls[i])'
    BY <1>1, <1>5 DEF ListsInv
  <2>1. ListsAfter(c)
    BY <1>0 DEF ListsInv, c
  <2>2. CASE c.step = "fetch"
    <3>1. c.pc = "answered" /\ c.awaited = {} /\ Fetched(c)
      BY <1>0, <2>1, <2>2 DEF ListsAfter, Fetched, Addressed
    <3>2. SameLists'
      BY <1>1, <1>4, <2>2, <3>1 DEF SameLists, Fetched
    <3> QED BY <2>2, <3>2 DEF F!Ends
  <2>3. CASE c.step # "fetch" /\ F!Ends(c)
    BY <1>0, <1>1, <1>4, <2>1, <2>3 DEF F!Ends, ListsAfter, SameLists
  <2>4. CASE ~ F!Ends(c)
    BY <1>2, <1>3, <2>4 DEF ListsAfter, Fetched
  <2> QED BY <2>2, <2>3, <2>4
<1> QED BY <1>5, <1>6, <1>7

LEMMA FirmwaresSteps ==
  ASSUME FirmwareInv, F!Next
  PROVE  FirmwareInv'
BY FirmwaresDialogs, FirmwaresButtons, FirmwaresAnswer, FirmwaresAnswerList, FirmwaresElsewhere, FirmwaresContinue
   DEF F!Next, F!Slot, Slots

LEMMA AlwaysFirmwares == Spec => [](F!Here => FirmwareInv)
<1> DEFINE Inv == F!Here => FirmwareInv
<1>1. Init => Inv
  BY DEF Init, F!Here
<1>2. Inv /\ [Next]_vars => Inv'
  <2> SUFFICES ASSUME Inv, [Next]_vars, page' = "/firmwares" PROVE FirmwareInv'
    BY DEF F!Here
  <2>1. CASE Login
    <3>1. Mount("/firmwares", F!ServersAtMount, F!ViewAtMount, F!CallsAtMount, F!PastAtMount)
      BY <2>1 DEF Login, Mount
    <3> QED BY <3>1, InitFirmwares DEF Mount
  <2>2. CASE UNCHANGED vars
    <3>1. FirmwareInv
      BY <2>2 DEF vars, F!Here
    <3> QED BY <2>2, <3>1 DEF vars, FirmwareInv, FirmwareTypes, Alone, Runs, ListsInv, ListsAfter, SameLists, Fetched
  <2>3. CASE page = "/firmwares" /\ F!Next
    BY <2>3, FirmwaresSteps DEF F!Here
  <2> QED BY <2>1, <2>2, <2>3, PageSteps
<1> QED BY <1>1, <1>2, PTL DEF Spec

(* Without overlapping handlers, failures and other clients the tables of  *)
(* firmwares, categories and templates are those of the backend whenever   *)
(* no handler runs, although the two lists of a refresh are read one after *)
(* the other, and the templates are never read again.                      *)
THEOREM TablesAlwaysMatch == Spec => []TablesMatch
<1>1. ASSUME F!Here => FirmwareInv, T!Here => TemplateInv PROVE TablesMatch
  <2>1. F!ListsMatch
    <3> SUFFICES ASSUME F!Here, ~ past.overlap, past.faults = 0, F!Running = {}, NEW list \in DOMAIN view.lists
                 PROVE  view.lists[list] = server[list]
      BY DEF F!ListsMatch
    <3>1. F!Running = Runs
      BY DEF F!Running, F!Slot, Runs, Slots
    <3>2. SameLists /\ view.lists \in FirmwareLists
      BY <1>1, <3>1 DEF FirmwareInv, ListsInv, FirmwareTypes, FirmwareView
    <3>3. list \in {"firmwares", "categories"}
      BY <3>2 DEF FirmwareLists
    <3> QED BY <3>2, <3>3 DEF SameLists
  <2>2. T!RowsMatch
    <3>1. T!Running = Runs
      BY DEF T!Running, T!Slot, Runs, Slots
    <3> QED BY <1>1, <3>1 DEF T!RowsMatch, TemplateInv, RowsInv
  <2> QED BY <2>1, <2>2 DEF TablesMatch
<1> QED BY <1>1, AlwaysFirmwares, AlwaysTemplates, PTL

-----------------------------------------------------------------------------
(* Device groups.                                                          *)
GroupOp == {"none", "load", "create", "command", "quick", "delete", "history", "details", "update"}
GroupStep == {"none", "refresh", "create", "send", "delete", "history", "details", "add", "remove"}
GroupView ==
    [groups : G!Table, devices : G!Members, ticks : G!Members, loading : BOOLEAN,
     selected : Group \cup {None}, members : G!Members, dialogs : SUBSET G!Dialogs]
GroupCall ==
    [pc : Progress, op : GroupOp, step : GroupStep, group : Group \cup {None},
     ticks : G!Members, add : G!Members, remove : G!Members, answer : G!Table \cup {None}]
SelectedWhenOpen(v) == v.dialogs \ {"create"} # {} => v.selected # None
Proper(c) ==
    /\ c.step \in {"send", "delete", "add", "remove", "history"} => c.group \in Group
    /\ c.step = "refresh" /\ c.pc = "answered" => c.answer \in G!Table
    /\ c.op = "update" => c.group \in Group /\ c.step \in {"add", "remove", "refresh"}
    /\ c.step \in {"add", "remove"} => c.op = "update"
    /\ c.pc = "free" => c.op = "none"
    /\ c.step = "none" => c.pc = "free"
    /\ c.step \in {"history", "details"} => view.selected # None
GroupTypes ==
    /\ server \in G!Table
    /\ view \in GroupView /\ SelectedWhenOpen(view)
    /\ calls \in [Slots -> GroupCall]
    /\ \A i \in Slots : Proper(calls[i])
    /\ past \in PastType

(* What the handler that runs alone has done and will do to the group: an  *)
(* update ends with the ticks, and the table is out of date only when the  *)
(* handler will refresh it.                                                *)
UpdateOnItsWay(c) ==
    LET members == server[c.group] IN
    /\ c.pc = "failed" => members = None
    /\ c.pc = "answered" => members # None
    /\ members # None =>
          IF c.step = "add" /\ c.pc = "sent" THEN (members \cup c.add) \ c.remove = c.ticks
          ELSE IF c.step = "remove" /\ c.pc = "answered" THEN members = c.ticks
          ELSE members \ c.remove = c.ticks
OnItsWay(c) ==
    /\ c.step = "refresh" => c.pc # "failed" /\ (c.pc = "answered" => c.answer = server)
    /\ c.step \in {"add", "remove"} => UpdateOnItsWay(c)
    /\ c.step \in {"create", "send", "delete", "add"} /\ c.pc # "answered" => view.groups = server
    /\ c.step = "remove" /\ server[c.group] = None => view.groups = server
    /\ c.step \in {"history", "details"} => view.groups = server
(* A row, and the dialog, show the members of their group, unless it has   *)
(* been deleted or is being updated.                                       *)
Updates(c, g) == c.op = "update" /\ c.group = g /\ (c.step # "refresh" \/ "manage" \notin view.dialogs)
Updating(g) == \E i \in Runs : Updates(calls[i], g)
RowsShown == \A g \in Group : view.groups[g] # None => server[g] \in {view.groups[g], None} \/ Updating(g)
DialogShown == "manage" \in view.dialogs => server[view.selected] \in {view.members, None} \/ Updating(view.selected)
GroupsUndisturbed == ~ past.overlap /\ past.faults = 0 =>
    /\ Runs = {} => view.groups = server
    /\ \A i \in Runs : OnItsWay(calls[i])
    /\ RowsShown /\ DialogShown
GroupInv == GroupTypes /\ Alone /\ GroupsUndisturbed

LEMMA InitGroups ==
  ASSUME NEW s \in G!ServersAtMount, server' = s, view' = G!ViewAtMount, calls' = G!CallsAtMount,
         past' = G!PastAtMount
  PROVE  GroupInv'
<1> USE WebAppAssumption DEF G!Slot, Slots
<1>1. server' \in G!Table
  BY DEF G!ServersAtMount, G!Table, G!Members
<1>2. /\ view' \in GroupView /\ view'.dialogs = {} /\ view'.loading = TRUE
      /\ \A g \in Group : view'.groups[g] = None
  BY DEF G!ViewAtMount, GroupView, G!Table, G!Members
<1> DEFINE first == G!Handler("load", "refresh", None)
<1>3. calls' = [i \in Slots |-> IF i = 1 THEN first ELSE G!Free]
  BY DEF G!CallsAtMount
<1>4. /\ G!Free \in GroupCall /\ G!Free.pc = "free" /\ G!Free.op = "none" /\ G!Free.step = "none"
      /\ first \in GroupCall /\ first.pc = "sent" /\ first.step = "refresh" /\ first.op = "load"
  BY DEF G!Free, G!Handler, GroupCall, GroupOp, GroupStep, Progress, G!Members
<1> HIDE DEF first
<1>5. calls' \in [Slots -> GroupCall] /\ \A i \in Slots : Proper(calls[i])'
  BY <1>3, <1>4 DEF Proper
<1>6. past' \in PastType
  BY DEF G!PastAtMount, PastType
<1>7. Runs' = {1} /\ calls'[1] = first
  BY <1>3, <1>4 DEF Runs
<1>8. Alone'
  BY <1>2, <1>7 DEF Alone
<1>9. GroupsUndisturbed'
  BY <1>2, <1>4, <1>7 DEF GroupsUndisturbed, OnItsWay, RowsShown, DialogShown
<1> QED BY <1>1, <1>2, <1>5, <1>6, <1>8, <1>9 DEF GroupInv, GroupTypes, SelectedWhenOpen

(* The page after setSelectedGroup.                                        *)
LEMMA GroupChosen ==
  ASSUME GroupTypes, NEW g \in Group, G!InTable(g)
  PROVE  /\ G!Chosen(g) \in GroupView /\ G!Chosen(g).selected = g /\ G!Chosen(g).members = view.groups[g]
         /\ G!Chosen(g).groups = view.groups /\ G!Chosen(g).dialogs = view.dialogs
         /\ G!Chosen(g).loading = view.loading
<1>1. view.groups[g] \in G!Members
  BY DEF GroupTypes, GroupView, G!Table, G!InTable
<1> QED BY <1>1 DEF GroupTypes, GroupView, G!Chosen

(* No handler starts or ends, and the dialog of the ticks is not opened.   *)
LEMMA GroupsShow ==
  ASSUME GroupInv, view' \in GroupView, SelectedWhenOpen(view'), view'.groups = view.groups,
         view'.loading = view.loading, UNCHANGED <<page, server, calls>>,
         "manage" \in view'.dialogs => "manage" \in view.dialogs,
         \/ view'.selected = view.selected /\ view'.members = view.members
         \/ \E g \in Group : G!InTable(g) /\ view'.selected = g /\ view'.members = view.groups[g],
         past' = past \/ past' = [past EXCEPT !.clicks = @ + 1]
  PROVE  GroupInv'
<1> USE WebAppAssumption DEF GroupInv
<1>1. past' \in PastType /\ past'.overlap = past.overlap /\ past'.faults = past.faults
  BY ClickIsCounted DEF GroupTypes
<1>2. Alone' /\ Runs' = Runs
  BY <1>1, AloneStill
<1>3. GroupTypes'
  <2>1. view.selected # None => view'.selected # None
    OBVIOUS
  <2> QED BY <1>1, <2>1 DEF GroupTypes, Proper
<1>4. GroupsUndisturbed'
  <2> SUFFICES ASSUME ~ past.overlap, past.faults = 0
               PROVE  /\ Runs = {} => view.groups = server
                      /\ \A i \in Runs : OnItsWay(calls[i])'
                      /\ RowsShown' /\ DialogShown'
    BY <1>1, <1>2 DEF GroupsUndisturbed
  <2>1. \A i \in Runs : OnItsWay(calls[i])'
    BY DEF GroupsUndisturbed, OnItsWay, UpdateOnItsWay
  <2>2. \A g \in Group \cup {None} : Updating(g) => Updating(g)'
    BY <1>2 DEF Updating, Updates
  <2>3. RowsShown'
    BY <2>2 DEF GroupsUndisturbed, RowsShown
  <2>4. DialogShown'
    <3> SUFFICES ASSUME "manage" \in view'.dialogs
                 PROVE  server[view'.selected] \in {view'.members, None} \/ Updating(view.selected)'
      BY DEF DialogShown
    <3>1. CASE view'.selected = view.selected /\ view'.members = view.members
      <4>1. view.selected \in Group \cup {None}
        BY DEF GroupTypes, GroupView
      <4>2. Updating(view.selected) => Updating(view.selected)'
        BY <1>2, <3>1 DEF Updating, Updates
      <4> QED BY <3>1, <4>2 DEF GroupsUndisturbed, DialogShown
    <3>2. CASE \E g \in Group : G!InTable(g) /\ view'.selected = g /\ view'.members = view.groups[g]
      <4>1. PICK g \in Group : G!InTable(g) /\ view'.selected = g /\ view'.members = view.groups[g]
        BY <3>2
      <4>2. server[g] \in {view.groups[g], None} \/ Updating(g)
        BY <4>1 DEF GroupsUndisturbed, RowsShown, G!InTable
      <4>3. Updating(g) => Updating(view.selected)'
        BY <1>2, <4>1 DEF Updating, Updates
      <4> QED BY <4>1, <4>2, <4>3
    <3> QED BY <3>1, <3>2
  <2> QED BY <2>1, <2>3, <2>4 DEF GroupsUndisturbed
<1> QED BY <1>2, <1>3, <1>4

LEMMA GroupsDialogs ==
  ASSUME GroupInv,
         \/ G!OpenCreate \/ G!TickAll
         \/ \E dialog \in G!Dialogs : G!Cancel(dialog)
         \/ \E d \in Device : G!Tick(d)
         \/ \E g \in Group : G!OpenCommand(g)
  PROVE  GroupInv'
<1> USE WebAppAssumption
<1>0. view \in GroupView /\ SelectedWhenOpen(view)
  BY DEF GroupInv, GroupTypes
<1>1. CASE G!OpenCreate
  <2>1. /\ view' \in GroupView /\ SelectedWhenOpen(view') /\ view'.groups = view.groups
        /\ view'.loading = view.loading /\ view'.selected = view.selected /\ view'.members = view.members
        /\ view'.dialogs = view.dialogs \cup {"create"}
    BY <1>0, <1>1 DEF G!OpenCreate, G!Show, GroupView, SelectedWhenOpen, G!Dialogs
  <2> QED BY <1>1, <2>1, GroupsShow DEF G!OpenCreate, G!Show, G!Counted
<1>2. ASSUME NEW dialog \in G!Dialogs, G!Cancel(dialog) PROVE GroupInv'
  <2>1. /\ view' \in GroupView /\ SelectedWhenOpen(view') /\ view'.groups = view.groups
        /\ view'.loading = view.loading /\ view'.selected = view.selected /\ view'.members = view.members
        /\ view'.dialogs = view.dialogs \ {dialog}
    BY <1>0, <1>2 DEF G!Cancel, G!Show, GroupView, SelectedWhenOpen, G!Dialogs
  <2> QED BY <1>2, <2>1, GroupsShow DEF G!Cancel, G!Show, G!Counted
<1>3. ASSUME NEW ticks \in SUBSET Device, G!Ticked(ticks) PROVE GroupInv'
  <2>1. /\ view' \in GroupView /\ SelectedWhenOpen(view') /\ view'.groups = view.groups
        /\ view'.loading = view.loading /\ view'.selected = view.selected /\ view'.members = view.members
        /\ view'.dialogs = view.dialogs
    BY <1>0, <1>3 DEF G!Ticked, GroupView, SelectedWhenOpen, G!Members
  <2> QED BY <1>3, <2>1, GroupsShow DEF G!Ticked
<1>4. view.devices \subseteq Device /\ view.ticks \subseteq Device
  BY <1>0 DEF GroupView, G!Members
<1>5. ASSUME G!TickAll \/ \E d \in Device : G!Tick(d) PROVE GroupInv'
  BY <1>3, <1>4, <1>5 DEF G!TickAll, G!Tick
<1>6. ASSUME NEW g \in Group, G!OpenCommand(g) PROVE GroupInv'
  <2>1. view' = [G!Chosen(g) EXCEPT !.dialogs = @ \cup {"command"}] /\ G!InTable(g)
        /\ UNCHANGED <<page, server, calls>> /\ past' = [past EXCEPT !.clicks = @ + 1]
    BY <1>6 DEF G!OpenCommand, G!Show, G!Counted
  <2>2. /\ G!Chosen(g) \in GroupView /\ G!Chosen(g).selected = g /\ G!Chosen(g).members = view.groups[g]
        /\ G!Chosen(g).groups = view.groups /\ G!Chosen(g).dialogs = view.dialogs
        /\ G!Chosen(g).loading = view.loading
    BY <2>1, GroupChosen DEF GroupInv
  <2>3. /\ view' \in GroupView /\ view'.selected = g /\ view'.members = view.groups[g]
        /\ view'.groups = view.groups /\ view'.loading = view.loading
        /\ view'.dialogs = view.dialogs \cup {"command"}
    <3> DEFINE v == G!Chosen(g)
    <3>1. v \in GroupView /\ view' = [v EXCEPT !.dialogs = @ \cup {"command"}]
      BY <2>1, <2>2
    <3> HIDE DEF v
    <3>2. /\ view' \in GroupView /\ view'.selected = v.selected /\ view'.members = v.members
          /\ view'.groups = v.groups /\ view'.loading = v.loading /\ view'.dialogs = v.dialogs \cup {"command"}
      BY <3>1 DEF GroupView, G!Dialogs
    <3> QED BY <2>2, <3>2 DEF v
  <2>4. SelectedWhenOpen(view')
    BY <2>3 DEF SelectedWhenOpen
  <2> QED BY <2>1, <2>3, <2>4, GroupsShow
<1> QED BY <1>1, <1>2, <1>5, <1>6

(* "Manage" opens the dialog, also while handlers run, which counts as     *)
(* overlapping: undisturbed, nothing runs and the row is up to date.       *)
LEMMA GroupsManage ==
  ASSUME GroupInv, NEW g \in Group, G!Manage(g)
  PROVE  GroupInv'
<1> USE WebAppAssumption
<1> DEFINE chosen == G!Chosen(g)
<1>1. /\ G!InTable(g) /\ UNCHANGED <<page, server, calls>>
      /\ view' = IF view.selected = None THEN chosen
                 ELSE [chosen EXCEPT !.loading = FALSE, !.dialogs = @ \cup {"manage"},
                                     !.ticks = IF view.members = {} THEN @ ELSE view.members]
  BY DEF G!Manage
<1>2. /\ chosen \in GroupView /\ chosen.selected = g /\ chosen.members = view.groups[g]
      /\ chosen.groups = view.groups /\ chosen.dialogs = view.dialogs /\ chosen.loading = view.loading
  BY <1>1, GroupChosen DEF GroupInv
<1>3. /\ past' \in PastType /\ past'.faults = past.faults
      /\ past'.overlap = (past.overlap \/ (view.selected # None /\ Runs # {}))
  <2> DEFINE b == view.selected # None /\ G!Running # {}
  <2>1. b \in BOOLEAN /\ past \in PastType
    BY DEF GroupInv, GroupTypes
  <2>2. past' \in PastType /\ past'.overlap = (past.overlap \/ b) /\ past'.faults = past.faults
    BY <2>1, ClickIsCounted DEF G!Manage, G!Counted
  <2>3. G!Running = Runs
    BY DEF G!Running, G!Slot, Runs, Slots
  <2> QED BY <2>2, <2>3
<1> HIDE DEF chosen
<1>4. CASE view.selected = None
  <2>1. "manage" \in view.dialogs => FALSE
    BY <1>4 DEF GroupInv, GroupTypes, SelectedWhenOpen
  <2>2. SelectedWhenOpen(view') /\ view' = chosen
    BY <1>1, <1>2, <1>4 DEF SelectedWhenOpen
  <2>3. past' = [past EXCEPT !.clicks = @ + 1]
    <3> DEFINE q == [past EXCEPT !.clicks = @ + 1]
    <3>1. past \in PastType
      BY DEF GroupInv, GroupTypes
    <3>2. past' = [q EXCEPT !.overlap = q.overlap \/ (view.selected # None /\ G!Running # {})]
      BY DEF G!Manage, G!Counted
    <3>3. q \in PastType
      BY <3>1, ClickIsCounted
    <3> HIDE DEF q
    <3>4. past' = q
      BY <1>4, <3>2, <3>3 DEF PastType
    <3> QED BY <3>4 DEF q
  <2> QED BY <1>1, <1>2, <1>4, <2>2, <2>3, GroupsShow
<1>5. CASE view.selected # None
  <2>1. /\ view' \in GroupView /\ view'.selected = g /\ view'.members = view.groups[g] /\ view'.loading = FALSE
        /\ view'.groups = view.groups
    <3>1. view.members \in G!Members
      BY DEF GroupInv, GroupTypes, GroupView
    <3> QED BY <1>1, <1>2, <1>5, <3>1 DEF GroupView, G!Dialogs
  <2>2. GroupTypes'
    BY <1>1, <1>3, <1>5, <2>1 DEF GroupInv, GroupTypes, SelectedWhenOpen, Proper
  <2>3. ~ past'.overlap => ~ past.overlap /\ Runs = {} /\ Runs' = {}
    BY <1>1, <1>3, <1>5 DEF Runs
  <2>4. Alone'
    BY <2>1, <2>3 DEF Alone
  <2>5. GroupsUndisturbed'
    BY <1>1, <1>3, <2>1, <2>3 DEF GroupInv, GroupsUndisturbed, RowsShown, DialogShown
  <2> QED BY <2>2, <2>4, <2>5 DEF GroupInv
<1> QED BY <1>4, <1>5

(* A handler starts.  An update has computed from the ticks and from the   *)
(* members that the dialog shows what it adds and what it removes.         *)
LEMMA GroupsStart ==
  ASSUME GroupInv, NEW i \in Slots, NEW h \in GroupCall, NEW v \in GroupView, G!Start(i, h, v),
         h.pc = "sent", h.op # "none", Proper(h), h.step # "none", h.step \in {"history", "details"} => v.selected # None,
         \/ v = view
         \/ v = [view EXCEPT !.dialogs = @ \ {"manage"}]
         \/ \E g \in Group : G!InTable(g) /\ v = G!Chosen(g),
         h.op = "update" => /\ "manage" \in view.dialogs /\ h.group = view.selected
                            /\ h.ticks = view.ticks /\ h.add = view.ticks \ view.members
                            /\ h.remove = view.members \ view.ticks
                            /\ h.step = "remove" => h.add = {}
  PROVE  GroupInv'
<1> USE WebAppAssumption DEF GroupInv
<1>1. /\ calls' = [calls EXCEPT ![i] = h] /\ view' = [v EXCEPT !.loading = TRUE] /\ UNCHANGED <<page, server>>
      /\ i \notin Runs
  BY DEF G!Start, G!Unused, G!Running, G!Slot, Runs, Slots
<1>2. past' \in PastType /\ past'.overlap = (past.overlap \/ Runs # {}) /\ past'.faults = past.faults
  <2>1. (G!Running # {}) \in BOOLEAN /\ past \in PastType
    BY DEF GroupTypes
  <2>2. past' \in PastType /\ past'.overlap = (past.overlap \/ G!Running # {}) /\ past'.faults = past.faults
    BY <2>1, ClickIsCounted DEF G!Start, G!Counted
  <2>3. G!Running = Runs
    BY DEF G!Running, G!Slot, Runs, Slots
  <2> QED BY <2>2, <2>3
<1>3. calls'[i] = h /\ \A j \in Slots \ {i} : calls'[j] = calls[j]
  BY <1>1 DEF GroupTypes
<1>4. /\ view' \in GroupView /\ view'.loading = TRUE /\ view'.groups = v.groups
      /\ view'.dialogs = v.dialogs /\ view'.selected = v.selected /\ view'.members = v.members
  BY <1>1 DEF GroupView
<1>5. /\ v.groups = view.groups /\ v.dialogs \subseteq view.dialogs
      /\ \/ v.selected = view.selected /\ v.members = view.members
         \/ \E g \in Group : G!InTable(g) /\ v.selected = g /\ v.members = view.groups[g]
  BY GroupChosen DEF GroupTypes, GroupView
<1>6. Alone' /\ (~ past'.overlap => ~ past.overlap /\ Runs = {} /\ Runs' = {i})
  BY <1>1, <1>2, <1>3, <1>4, AloneStart DEF GroupTypes
<1>7. GroupTypes'
  <2>1. (view.selected # None => view'.selected # None) /\ SelectedWhenOpen(view')
    BY <1>4, <1>5 DEF GroupTypes, SelectedWhenOpen
  <2>2. ASSUME NEW j \in Slots PROVE Proper(calls[j])'
    <3>1. CASE j = i
      BY <1>3, <1>4, <3>1 DEF Proper
    <3>2. CASE j # i
      <4>1. calls'[j] = calls[j] /\ Proper(calls[j])
        BY <1>3, <3>2 DEF GroupTypes
      <4> QED BY <2>1, <4>1 DEF Proper
    <3> QED BY <3>1, <3>2
  <2> QED BY <1>1, <1>2, <1>4, <2>1, <2>2 DEF GroupTypes
<1>8. GroupsUndisturbed'
  <2> SUFFICES ASSUME ~ past.overlap, past.faults = 0, Runs = {}, Runs' = {i}, view.groups = server
               PROVE  OnItsWay(h)' /\ RowsShown' /\ DialogShown'
    BY <1>2, <1>3, <1>6 DEF GroupsUndisturbed
  <2>1. view'.groups = server'
    BY <1>1, <1>4, <1>5
  <2>2. RowsShown'
    BY <2>1 DEF RowsShown
  <2>3. "manage" \in view.dialogs => server[view.selected] \in {view.members, None}
    BY DEF GroupsUndisturbed, DialogShown, Updating
  <2>4. DialogShown'
    <3>1. "manage" \in view'.dialogs => server[view'.selected] \in {view'.members, None}
      BY <1>4, <1>5, <2>3
    <3> QED BY <1>1, <3>1 DEF DialogShown
  <2>5. h.step \in {"add", "remove"} => UpdateOnItsWay(h)
    <3> SUFFICES ASSUME h.step \in {"add", "remove"}, server[h.group] # None
                 PROVE  IF h.step = "add" THEN (server[h.group] \cup h.add) \ h.remove = h.ticks
                        ELSE server[h.group] \ h.remove = h.ticks
      BY DEF UpdateOnItsWay
    <3>1. h.op = "update"
      BY DEF Proper
    <3>2. server[h.group] = view.members
      BY <2>3, <3>1
    <3> QED BY <3>1, <3>2
  <2>6. UpdateOnItsWay(h) => UpdateOnItsWay(h)'
    BY <1>1 DEF UpdateOnItsWay
  <2> QED BY <2>1, <2>2, <2>4, <2>5, <2>6 DEF OnItsWay
<1> QED BY <1>6, <1>7, <1>8

LEMMA GroupsHistory ==
  ASSUME GroupInv, NEW i \in Slots, NEW g \in Group, G!History(i, g)
  PROVE  GroupInv'
<1> USE WebAppAssumption
<1>0. G!InTable(g) /\ view \in GroupView /\ GroupTypes
  BY DEF G!History, GroupInv, GroupTypes
<1>1. /\ G!Chosen(g) \in GroupView /\ G!Chosen(g).selected = g /\ G!Chosen(g).members = view.groups[g]
      /\ G!Chosen(g).groups = view.groups /\ G!Chosen(g).dialogs = view.dialogs
      /\ G!Chosen(g).loading = view.loading
  BY <1>0, GroupChosen
<1>2. CASE view.selected = None
  <2>1. /\ view' = G!Chosen(g) /\ UNCHANGED <<page, server, calls>> /\ past' = [past EXCEPT !.clicks = @ + 1]
    BY <1>2 DEF G!History, G!Show, G!Counted
  <2>2. SelectedWhenOpen(view')
    BY <1>1, <2>1 DEF SelectedWhenOpen
  <2> QED BY <1>0, <1>1, <2>1, <2>2, GroupsShow
<1>3. CASE view.selected # None
  <2> DEFINE h == G!Handler("history", "history", view.selected)
  <2>1. G!Start(i, h, G!Chosen(g))
    BY <1>3 DEF G!History
  <2>2. /\ h \in GroupCall /\ h.pc = "sent" /\ h.op = "history" /\ h.step = "history" /\ Proper(h)
    BY <1>0, <1>3 DEF G!Handler, G!Free, GroupCall, GroupOp, GroupStep, Progress, G!Members, GroupView, Proper
  <2> HIDE DEF h
  <2> QED BY <1>0, <1>1, <2>1, <2>2, GroupsStart
<1> QED BY <1>2, <1>3

LEMMA GroupsButtons ==
  ASSUME GroupInv, NEW i \in Slots,
         \/ G!SubmitGroup(i) \/ G!SendCommand(i) \/ G!ApplyFilters(i) \/ G!Details(i)
         \/ \E g \in Group : G!QuickCommand(i, g) \/ G!DeleteGroup(i, g)
  PROVE  GroupInv'
<1> USE WebAppAssumption
<1>0. view \in GroupView /\ SelectedWhenOpen(view)
  BY DEF GroupInv, GroupTypes
<1>1. ASSUME NEW op \in {"command", "quick", "delete", "history", "details"},
             NEW step \in {"send", "delete", "history", "details"}, NEW g \in Group,
             step \in {"history", "details"} => view.selected # None,
             G!Start(i, G!Handler(op, step, g), view)
      PROVE  GroupInv'
  <2> DEFINE h == G!Handler(op, step, g)
  <2>1. h \in GroupCall /\ h.pc = "sent" /\ h.op = op /\ h.step = step /\ Proper(h)
    BY <1>1 DEF G!Handler, G!Free, GroupCall, GroupOp, GroupStep, Progress, G!Members, Proper
  <2>2. G!Start(i, h, view)
    BY <1>1
  <2> HIDE DEF h
  <2> QED BY <1>0, <1>1, <2>1, <2>2, GroupsStart
<1>2. \A dialog \in {"command", "history", "manage"} : dialog \in view.dialogs => view.selected \in Group
  BY <1>0 DEF GroupView, SelectedWhenOpen
<1>3. CASE G!SubmitGroup(i)
  <2> DEFINE h == [G!Handler("create", "create", None) EXCEPT !.ticks = view.ticks]
  <2>1. h \in GroupCall /\ h.pc = "sent" /\ h.op = "create" /\ h.step = "create" /\ Proper(h)
    <3>1. view.ticks \in G!Members
      BY <1>0 DEF GroupView
    <3> QED BY <3>1 DEF G!Handler, G!Free, GroupCall, GroupOp, GroupStep, Progress, G!Members, Proper
  <2>2. G!Start(i, h, view)
    BY <1>3 DEF G!SubmitGroup
  <2> HIDE DEF h
  <2> QED BY <1>0, <2>1, <2>2, GroupsStart
<1>4. CASE G!SendCommand(i)
  BY <1>1, <1>2, <1>4 DEF G!SendCommand, G!CommandModal, G!Submittable
<1>5. CASE G!ApplyFilters(i)
  <2>1. view.selected \in Group /\ view.selected # None
    BY <1>2, <1>5 DEF G!ApplyFilters, G!HistoryModal, G!Submittable
  <2> QED BY <1>1, <1>5, <2>1 DEF G!ApplyFilters
<1>6. CASE G!Details(i)
  <2>1. view.selected \in Group /\ view.selected # None
    BY <1>2, <1>6 DEF G!Details
  <2> QED BY <1>1, <1>6, <2>1 DEF G!Details
<1>7. ASSUME NEW g \in Group, G!QuickCommand(i, g) \/ G!DeleteGroup(i, g) PROVE GroupInv'
  BY <1>1, <1>7 DEF G!QuickCommand, G!DeleteGroup
<1> QED BY <1>3, <1>4, <1>5, <1>6, <1>7

LEMMA GroupsUpdate ==
  ASSUME GroupInv, NEW i \in Slots, G!UpdateGroupDevices(i)
  PROVE  GroupInv'
<1> USE WebAppAssumption
<1> DEFINE h == G!Update(view.ticks, view.members)
<1>0. /\ view \in GroupView /\ "manage" \in view.dialogs /\ view.selected \in Group
      /\ view.ticks \in G!Members /\ view.members \in G!Members
  BY DEF G!UpdateGroupDevices, G!ManageModal, G!Submittable, GroupInv, GroupTypes, SelectedWhenOpen, GroupView
<1> DEFINE g == [G!Handler("update", "add", view.selected) EXCEPT
                   !.ticks = view.ticks, !.add = view.ticks \ view.members, !.remove = view.members \ view.ticks]
<1>1. /\ g \in GroupCall /\ g.pc = "sent" /\ g.op = "update" /\ g.step = "add" /\ g.group = view.selected
      /\ g.ticks = view.ticks /\ g.add = view.ticks \ view.members /\ g.remove = view.members \ view.ticks
  BY <1>0 DEF G!Handler, G!Free, GroupCall, GroupOp, GroupStep, Progress, G!Members
<1>2. h = CASE g.add # {} -> g
            [] g.add = {} /\ g.remove # {} -> [g EXCEPT !.step = "remove"]
            [] OTHER -> [g EXCEPT !.step = "refresh"]
  BY DEF G!Update
<1> HIDE DEF g
<1>3. h \in {g, [g EXCEPT !.step = "remove"], [g EXCEPT !.step = "refresh"]}
      /\ (h = [g EXCEPT !.step = "remove"] => g.add = {} \/ h = g)
  BY <1>1, <1>2 DEF GroupCall
<1>4. /\ h \in GroupCall /\ h.pc = "sent" /\ h.op = "update" /\ h.step \in {"add", "remove", "refresh"}
      /\ h.group = view.selected /\ h.ticks = view.ticks /\ h.add = view.ticks \ view.members
      /\ h.remove = view.members \ view.ticks /\ (h.step = "remove" => h.add = {})
  BY <1>1, <1>3 DEF GroupCall, GroupStep
<1> DEFINE closed == [view EXCEPT !.dialogs = @ \ {"manage"}]
<1>5. G!Start(i, h, view) \/ G!Start(i, h, closed)
  <2>1. G!Start(i, h, [view EXCEPT !.dialogs = IF h.step = "refresh" THEN @ \ {"manage"} ELSE @])
    BY DEF G!UpdateGroupDevices
  <2>2. CASE h.step = "refresh"
    BY <2>1, <2>2
  <2>3. CASE h.step # "refresh"
    <3>1. [view EXCEPT !.dialogs = IF h.step = "refresh" THEN @ \ {"manage"} ELSE @] = view
      BY <1>0, <2>3 DEF GroupView
    <3> QED BY <2>1, <3>1
  <2> QED BY <2>2, <2>3
<1> HIDE DEF h
<1>6. Proper(h)
  BY <1>0, <1>4 DEF Proper
<1>7. CASE G!Start(i, h, view)
  BY <1>0, <1>4, <1>6, <1>7, GroupsStart
<1>8. CASE G!Start(i, h, closed)
  <2>1. closed \in GroupView
    BY <1>0 DEF GroupView
  <2> QED BY <1>0, <1>4, <1>6, <1>8, <2>1, GroupsStart
<1> QED BY <1>5, <1>7, <1>8

(* What a call of the handler that runs alone does to the documents: only  *)
(* its group changes, or a new one that the page does not show.            *)
LEMMA GroupsExecute ==
  ASSUME GroupTypes, NEW i \in Slots, calls[i].pc = "sent", ~ G!Refused(calls[i]),
         NEW s, s \in G!Executed(calls[i])
  PROVE  LET c == calls[i] IN
         /\ s \in G!Table
         /\ c.step \notin {"create", "delete", "add", "remove"} => s = server
         /\ c.step = "create" => \E g \in Group :
               /\ view.groups[g] = None /\ view.selected # g
               /\ \A h \in Group \ {g} : s[h] = server[h]
         /\ c.step \in {"delete", "add", "remove"} =>
               /\ c.group \in Group /\ server[c.group] \in G!Members
               /\ s[c.group] = (CASE c.step = "delete" -> None [] c.step = "add" -> server[c.group] \cup c.add
                                  [] c.step = "remove" -> server[c.group] \ c.remove)
               /\ \A h \in Group \ {c.group} : s[h] = server[h]
<1> USE WebAppAssumption
<1> DEFINE c == calls[i]
<1>0. c \in GroupCall /\ Proper(c) /\ server \in G!Table
  BY DEF GroupTypes
<1>1. CASE c.step = "create"
  <2>1. PICK g \in G!NewIds : s = [server EXCEPT ![g] = c.ticks]
    BY <1>1 DEF G!Executed
  <2>2. g \in Group /\ view.groups[g] = None /\ view.selected # g
    BY DEF G!NewIds
  <2>3. c.ticks \in G!Members
    BY <1>0 DEF GroupCall
  <2> QED BY <1>0, <1>1, <2>1, <2>2, <2>3 DEF G!Table
<1>2. CASE c.step \in {"delete", "add", "remove"}
  <2>1. c.group \in Group /\ server[c.group] \in G!Members /\ c.add \in G!Members /\ c.remove \in G!Members
    BY <1>0, <1>2 DEF Proper, G!Refused, G!Table, GroupCall
  <2>2. CASE c.step = "delete"
    BY <1>0, <2>1, <2>2 DEF G!Executed, G!Table
  <2>3. CASE c.step = "add"
    <3>1. s = [server EXCEPT ![c.group] = server[c.group] \cup c.add] /\ server[c.group] \cup c.add \in G!Members
      BY <2>1, <2>3 DEF G!Executed, G!Members
    <3> QED BY <1>0, <2>1, <2>3, <3>1 DEF G!Table
  <2>4. CASE c.step = "remove"
    <3>1. s = [server EXCEPT ![c.group] = server[c.group] \ c.remove] /\ server[c.group] \ c.remove \in G!Members
      BY <2>1, <2>4 DEF G!Executed, G!Members
    <3> QED BY <1>0, <2>1, <2>4, <3>1 DEF G!Table
  <2> QED BY <1>2, <2>2, <2>3, <2>4
<1>3. CASE c.step \notin {"create", "delete", "add", "remove"}
  BY <1>0, <1>3 DEF G!Executed
<1> QED BY <1>1, <1>2, <1>3

LEMMA GroupsAnswered ==
  ASSUME GroupInv, NEW i \in Slots, calls[i].pc = "sent", ~ G!Refused(calls[i]),
         server' \in G!Executed(calls[i]),
         calls' = [calls EXCEPT ![i].pc = "answered",
                                ![i].answer = IF calls[i].step = "refresh" THEN server ELSE None],
         UNCHANGED <<page, view, past>>
  PROVE  GroupInv'
<1> USE WebAppAssumption DEF GroupInv
<1> DEFINE c == calls[i]
           new == [c EXCEPT !.pc = "answered", !.answer = IF c.step = "refresh" THEN server ELSE None]
<1>0. c \in GroupCall /\ Proper(c) /\ server \in G!Table /\ i \in Runs
  BY DEF GroupTypes, Runs
<1>1. calls' = [calls EXCEPT ![i] = new] /\ calls'[i] = new /\ \A j \in Slots \ {i} : calls'[j] = calls[j]
  BY DEF GroupTypes
<1>2. /\ new \in GroupCall /\ new.pc = "answered" /\ new.op = c.op /\ new.step = c.step /\ new.group = c.group
      /\ new.ticks = c.ticks /\ new.add = c.add /\ new.remove = c.remove
      /\ (c.step = "refresh" => new.answer = server)
  BY <1>0 DEF GroupCall, Progress
<1>3. /\ server' \in G!Table
      /\ c.step \notin {"create", "delete", "add", "remove"} => server' = server
      /\ c.step = "create" => \E g \in Group :
            /\ view.groups[g] = None /\ view.selected # g /\ \A h \in Group \ {g} : server'[h] = server[h]
      /\ c.step \in {"delete", "add", "remove"} =>
            /\ c.group \in Group /\ server[c.group] \in G!Members
            /\ server'[c.group] = (CASE c.step = "delete" -> None [] c.step = "add" -> server[c.group] \cup c.add
                                     [] c.step = "remove" -> server[c.group] \ c.remove)
            /\ \A h \in Group \ {c.group} : server'[h] = server[h]
  BY GroupsExecute DEF GroupInv
<1> HIDE DEF new, c
<1>4. Alone' /\ Runs' = Runs
  <2>1. \A j \in Slots : calls'[j].pc = "free" <=> calls[j].pc = "free"
    BY <1>1, <1>2 DEF c
  <2> QED BY <2>1, AloneStill
<1>5. GroupTypes'
  <2>1. Proper(calls[i])'
    BY <1>0, <1>1, <1>2 DEF Proper, c
  <2>2. \A j \in Slots \ {i} : Proper(calls[j])'
    <3> SUFFICES ASSUME NEW j \in Slots \ {i} PROVE Proper(calls[j])'
      OBVIOUS
    <3>1. calls'[j] = calls[j] /\ Proper(calls[j]) /\ view' = view
      BY <1>1 DEF GroupTypes
    <3> QED BY <3>1 DEF Proper
  <2> QED BY <1>1, <1>2, <1>3, <2>1, <2>2 DEF GroupTypes
<1>6. GroupsUndisturbed'
  <2> SUFFICES ASSUME ~ past.overlap, past.faults = 0, Runs = {i}
               PROVE  OnItsWay(calls[i])' /\ RowsShown' /\ DialogShown'
    BY <1>0, <1>4 DEF Alone, GroupsUndisturbed
  <2>1. OnItsWay(c) /\ RowsShown /\ DialogShown
    BY DEF GroupsUndisturbed, c
  <2>2. \A g : Updating(g) <=> Updates(c, g)
    BY DEF Updating, c
  <2>3. \A g : Updating(g)' <=> Updates(c, g)
    <3>1. \A g : Updating(g)' <=> Updates(calls[i], g)'
      BY <1>4 DEF Updating
    <3>2. \A g : Updates(calls[i], g)' <=> Updates(c, g)
      BY <1>1, <1>2 DEF Updates
    <3> QED BY <3>1, <3>2
  <2>4. c.step \in {"add", "remove"} => c.op = "update" /\ (\A g : Updates(c, g) <=> c.group = g)
    BY <1>0 DEF Proper, Updates
  <2>5. \A g \in Group : server'[g] \in {server[g], None} \/ Updates(c, g) \/ (view.groups[g] = None /\ view.selected # g)
    BY <1>3, <2>4
  <2>6. RowsShown'
    BY <2>1, <2>2, <2>3, <2>5 DEF RowsShown
  <2>7. DialogShown'
    <3>1. "manage" \in view.dialogs => view.selected \in Group
      BY DEF GroupTypes, GroupView, SelectedWhenOpen
    <3> QED BY <2>1, <2>2, <2>3, <2>5, <3>1 DEF DialogShown
  <2>8. c.step \in {"add", "remove"} => UpdateOnItsWay(calls[i])'
    <3> SUFFICES ASSUME c.step \in {"add", "remove"}
                 PROVE  /\ server'[c.group] # None
                        /\ IF c.step = "remove" THEN server'[c.group] = c.ticks
                           ELSE server'[c.group] \ c.remove = c.ticks
      BY <1>1, <1>2 DEF UpdateOnItsWay
    <3>1. UpdateOnItsWay(c) /\ c.pc = "sent" /\ server[c.group] \in G!Members /\ server[c.group] # None
      BY <1>3, <2>1 DEF OnItsWay, G!Members, c
    <3>2. c.add \in G!Members /\ c.remove \in G!Members
      BY <1>0 DEF GroupCall
    <3>3. server'[c.group] \in G!Members
      BY <1>3, <3>1, <3>2 DEF G!Members
    <3> QED BY <1>3, <3>1, <3>3 DEF UpdateOnItsWay, G!Members
  <2>9. OnItsWay(calls[i])'
    <3>1. c.step = "remove" => server'[c.group] # None
      BY <1>1, <1>2, <2>8 DEF UpdateOnItsWay
    <3> QED BY <1>1, <1>2, <1>3, <2>1, <2>8, <3>1 DEF OnItsWay
  <2> QED BY <2>6, <2>7, <2>9
<1> QED BY <1>4, <1>5, <1>6

(* A call fails without effect; the backend refuses those that name a      *)
(* group which is gone, a command for an empty one and never the lists.    *)
LEMMA GroupsFail ==
  ASSUME GroupInv, NEW i \in Slots, calls[i].pc = "sent", UNCHANGED <<page, view>>,
         G!Fails(i, G!Refused(calls[i]))
  PROVE  GroupInv'
<1> USE WebAppAssumption DEF GroupInv
<1> DEFINE c == calls[i]
           new == [c EXCEPT !.pc = "failed"]
<1>0. c \in GroupCall /\ Proper(c) /\ i \in Runs /\ server' = server
  BY DEF GroupTypes, Runs, G!Fails
<1>1. calls' = [calls EXCEPT ![i] = new] /\ calls'[i] = new /\ \A j \in Slots \ {i} : calls'[j] = calls[j]
  BY DEF GroupTypes, G!Fails
<1>2. /\ new \in GroupCall /\ new.pc = "failed" /\ new.op = c.op /\ new.step = c.step /\ new.group = c.group
      /\ new.ticks = c.ticks /\ new.add = c.add /\ new.remove = c.remove
  BY <1>0 DEF GroupCall, Progress
<1>3. /\ past' \in PastType /\ past'.overlap = past.overlap
      /\ past'.faults = 0 => past.faults = 0 /\ G!Refused(c)
  BY DEF G!Fails, GroupTypes, PastType
<1> HIDE DEF new, c
<1>4. Alone' /\ Runs' = Runs
  <2>1. \A j \in Slots : calls'[j].pc = "free" <=> calls[j].pc = "free"
    BY <1>1, <1>2 DEF c
  <2> QED BY <1>3, <2>1, AloneStill
<1>5. GroupTypes'
  <2>1. Proper(calls[i])'
    BY <1>0, <1>1, <1>2 DEF Proper, c
  <2>2. \A j \in Slots \ {i} : Proper(calls[j])'
    <3> SUFFICES ASSUME NEW j \in Slots \ {i} PROVE Proper(calls[j])'
      OBVIOUS
    <3>1. calls'[j] = calls[j] /\ Proper(calls[j]) /\ view' = view
      BY <1>1 DEF GroupTypes
    <3> QED BY <3>1 DEF Proper
  <2> QED BY <1>0, <1>1, <1>2, <1>3, <2>1, <2>2 DEF GroupTypes
<1>6. GroupsUndisturbed'
  <2> SUFFICES ASSUME ~ past.overlap, past.faults = 0, Runs = {i}, G!Refused(c)
               PROVE  OnItsWay(calls[i])' /\ RowsShown' /\ DialogShown'
    BY <1>0, <1>3, <1>4 DEF Alone, GroupsUndisturbed
  <2>1. OnItsWay(c) /\ RowsShown /\ DialogShown
    BY DEF GroupsUndisturbed, c
  <2>2. \A g : Updating(g)' <=> Updating(g)
    BY <1>1, <1>2, <1>4 DEF Updating, Updates, c
  <2>3. RowsShown' /\ DialogShown'
    BY <1>0, <2>1, <2>2 DEF RowsShown, DialogShown
  <2>4. c.pc = "sent" /\ c.step # "refresh" /\ (c.step \in {"add", "remove"} => server[c.group] = None)
    BY DEF G!Refused, c
  <2>5. OnItsWay(calls[i])'
    BY <1>0, <1>1, <1>2, <2>1, <2>4 DEF OnItsWay, UpdateOnItsWay
  <2> QED BY <2>3, <2>5
<1> QED BY <1>4, <1>5, <1>6

LEMMA GroupsElsewhere ==
  ASSUME GroupInv, NEW g \in Group, G!Changed(g)
  PROVE  GroupInv'
<1> USE WebAppAssumption DEF GroupInv
<1>1. server' \in G!Table /\ UNCHANGED <<page, view, calls>>
  BY DEF G!Changed, G!Elsewhere, GroupTypes, G!Table
<1>2. past' \in PastType /\ past'.overlap = past.overlap /\ past'.faults # 0
  BY DEF G!Changed, G!Elsewhere, GroupTypes, PastType
<1>3. Alone'
  BY <1>1, <1>2, AloneStill
<1> QED BY <1>1, <1>2, <1>3 DEF GroupTypes, Proper, GroupsUndisturbed

(* The handler ends, or makes its next call; when it has changed something *)
(* it closes its dialog and refreshes the table.                           *)
LEMMA GroupsContinue ==
  ASSUME GroupInv, NEW i \in Slots, G!Continue(i)
  PROVE  GroupInv'
<1> USE WebAppAssumption DEF GroupInv
<1> DEFINE c == calls[i]
           next == G!Following(c)
           ends == c.pc = "failed" \/ c.step \in {"refresh", "history", "details"}
           removes == c.step = "add" /\ c.remove # {}
<1>0. /\ c \in GroupCall /\ Proper(c) /\ c.pc \in {"answered", "failed"} /\ c.step # "none" /\ i \in Runs
      /\ view \in GroupView /\ SelectedWhenOpen(view)
  BY DEF GroupTypes, G!Continue, G!Proceed, Runs, Proper
<1>1. calls' = [calls EXCEPT ![i] = next] /\ UNCHANGED <<page, server, past>> /\ view' = G!Shown(c)
  BY DEF G!Continue, G!Proceed
<1>2. /\ next \in GroupCall
      /\ IF ends THEN next = G!Free /\ next.pc = "free" /\ next.op = "none" /\ next.step = "none"
         ELSE /\ next.pc = "sent" /\ next.op = c.op /\ next.group = c.group /\ next.ticks = c.ticks
              /\ next.add = c.add /\ next.remove = c.remove
              /\ next.step = IF removes THEN "remove" ELSE "refresh"
  <2>1. /\ G!Free \in GroupCall /\ G!Free.pc = "free" /\ G!Free.op = "none" /\ G!Free.step = "none"
    BY DEF G!Free, GroupCall, GroupOp, GroupStep, Progress, G!Members
  <2>2. CASE ends
    BY <2>1, <2>2 DEF G!Following
  <2>3. CASE ~ ends
    <3>1. next = [c EXCEPT !.pc = "sent", !.step = IF removes THEN "remove" ELSE "refresh"]
      BY <2>3 DEF G!Following
    <3> QED BY <1>0, <2>3, <3>1 DEF GroupCall, GroupStep, Progress
  <2> QED BY <2>2, <2>3
<1>3. calls'[i] = next /\ \A j \in Slots \ {i} : calls'[j] = calls[j]
  BY <1>1 DEF GroupTypes
<1> HIDE DEF next
<1>4. /\ view' \in GroupView /\ view'.selected = view.selected /\ view'.members = view.members
      /\ view'.groups = (IF c.pc = "answered" /\ c.step = "refresh" THEN c.answer ELSE view.groups)
      /\ view'.dialogs = (IF c.pc = "failed" \/ c.step = "refresh" \/ removes THEN view.dialogs
                          ELSE IF c.step \in {"history", "details"} THEN view.dialogs \cup {c.step}
                          ELSE view.dialogs \ {G!DialogOf(c.op)})
      /\ view'.loading = (IF ends THEN FALSE ELSE IF removes THEN view.loading ELSE TRUE)
  <2> HIDE DEF c
  <2> USE DEF GroupView
  <2>1. CASE c.pc = "failed"
    BY <1>0, <1>1, <2>1 DEF G!Shown
  <2>2. CASE c.pc = "answered" /\ c.step = "refresh"
    <3>1. c.answer \in G!Table
      BY <1>0, <2>2 DEF Proper
    <3>2. view' = [view EXCEPT !.groups = c.answer, !.devices = Device, !.loading = FALSE,
                               !.ticks = IF c.op = "load" THEN {} ELSE view.ticks]
      BY <1>1, <2>2 DEF G!Shown
    <3>3. (IF c.op = "load" THEN {} ELSE view.ticks) \in G!Members /\ Device \in G!Members
      BY <1>0 DEF G!Members
    <3> QED BY <1>0, <2>2, <3>1, <3>2, <3>3
  <2>3. CASE c.pc = "answered" /\ c.step = "history"
    BY <1>0, <1>1, <2>3 DEF G!Shown, G!Dialogs
  <2>4. CASE c.pc = "answered" /\ c.step = "details"
    BY <1>0, <1>1, <2>4 DEF G!Shown, G!Dialogs
  <2>5. CASE c.pc = "answered" /\ removes
    BY <1>0, <1>1, <2>5 DEF G!Shown
  <2>6. CASE c.pc = "answered" /\ ~ removes /\ c.step \notin {"refresh", "history", "details"}
    <3>1. view' = [view EXCEPT !.dialogs = @ \ {G!DialogOf(c.op)}, !.loading = TRUE]
      BY <1>1, <2>6 DEF G!Shown
    <3> QED BY <1>0, <2>6, <3>1
  <2> QED BY <1>0, <2>1, <2>2, <2>3, <2>4, <2>5, <2>6
<1> HIDE DEF c
<1>5. /\ Alone' /\ Runs' = (IF ends THEN Runs \ {i} ELSE Runs)
      /\ ~ past.overlap => Runs = {i}
  <2>1. \/ calls'[i].pc = "free" /\ view'.loading = FALSE /\ ends
        \/ calls'[i].pc = "sent" /\ view'.loading \in {TRUE, view.loading} /\ ~ ends
    BY <1>2, <1>3, <1>4
  <2> QED BY <1>0, <1>1, <1>3, <2>1, AloneContinues
<1>6. GroupTypes'
  <2>1. SelectedWhenOpen(view')
    BY <1>0, <1>4 DEF SelectedWhenOpen, Proper
  <2>2. Proper(calls[i])'
    BY <1>0, <1>2, <1>3, <1>4 DEF Proper
  <2>3. \A j \in Slots \ {i} : Proper(calls[j])'
    <3> SUFFICES ASSUME NEW j \in Slots \ {i} PROVE Proper(calls[j])'
      OBVIOUS
    <3>1. calls'[j] = calls[j] /\ Proper(calls[j])
      BY <1>3 DEF GroupTypes
    <3> QED BY <1>4, <3>1 DEF Proper
  <2> QED BY <1>1, <1>2, <1>4, <2>1, <2>2, <2>3 DEF GroupTypes
<1>7. GroupsUndisturbed'
  <2> SUFFICES ASSUME ~ past.overlap, past.faults = 0, Runs = {i}
               PROVE  /\ ends => view'.groups = server
                      /\ ~ ends => OnItsWay(calls[i])'
                      /\ RowsShown' /\ DialogShown'
    BY <1>1, <1>5 DEF GroupsUndisturbed
  <2>1. OnItsWay(c) /\ RowsShown /\ DialogShown
    BY DEF GroupsUndisturbed, c
  <2>2. c.step \in {"refresh", "create", "send", "delete", "history", "details", "add", "remove"}
    BY <1>0 DEF GroupCall, GroupStep
  <2>3. \A g : Updating(g) <=> Updates(c, g)
    BY DEF Updating, c
  <2>4. CASE ends
    <3>1. view'.groups = server
      BY <1>0, <1>4, <2>1, <2>2, <2>4 DEF OnItsWay, UpdateOnItsWay
    <3>2. RowsShown'
      BY <1>1, <3>1 DEF RowsShown
    <3>3. DialogShown'
      <4> SUFFICES ASSUME "manage" \in view.dialogs
                   PROVE  server[view.selected] \in {view.members, None}
        BY <1>1, <1>4, <2>4 DEF DialogShown
      <4>1. server[view.selected] \in {view.members, None} \/ Updates(c, view.selected)
        BY <2>1, <2>3 DEF DialogShown
      <4>2. ASSUME Updates(c, view.selected) PROVE server[view.selected] = None
        <5>1. c.op = "update" /\ c.group = view.selected /\ c.step \in {"add", "remove"}
          BY <1>0, <4>2 DEF Updates, Proper
        <5>2. UpdateOnItsWay(c) /\ c.pc = "failed"
          BY <2>1, <2>4, <5>1 DEF OnItsWay
        <5> QED BY <5>1, <5>2 DEF UpdateOnItsWay
      <4> QED BY <4>1, <4>2
    <3> QED BY <2>4, <3>1, <3>2, <3>3
  <2>5. CASE ~ ends /\ removes
    <3>1. UpdateOnItsWay(c) /\ c.pc = "answered" /\ c.step = "add" /\ c.op = "update"
      BY <1>0, <2>1, <2>5 DEF OnItsWay, Proper
    <3>2. server[c.group] # None /\ server[c.group] \ c.remove = c.ticks
      BY <3>1 DEF UpdateOnItsWay
    <3>3. OnItsWay(calls[i])'
      BY <1>1, <1>2, <1>3, <2>5, <3>2 DEF OnItsWay, UpdateOnItsWay
    <3>4. \A g : Updates(c, g) => Updating(g)'
      BY <1>2, <1>3, <1>5, <2>5 DEF Updating, Updates
    <3>5. RowsShown'
      BY <1>1, <1>4, <2>1, <2>3, <2>5, <3>4 DEF RowsShown
    <3>6. DialogShown'
      <4>1. Updates(c, view.selected) => Updating(view.selected)'
        <5>1. Updates(c, view.selected) => Updates(calls[i], view.selected)'
          BY <1>2, <1>3, <1>4, <2>5 DEF Updates
        <5> QED BY <1>5, <2>5, <5>1 DEF Updating
      <4> QED BY <1>1, <1>4, <2>1, <2>3, <2>5, <4>1 DEF DialogShown
    <3> QED BY <2>5, <3>3, <3>5, <3>6
  <2>6. CASE ~ ends /\ ~ removes
    <3>1. /\ c.pc = "answered" /\ c.step \in {"create", "send", "delete", "add", "remove"}
          /\ view'.groups = view.groups /\ view'.dialogs = view.dialogs \ {G!DialogOf(c.op)}
          /\ calls'[i].pc = "sent" /\ calls'[i].step = "refresh" /\ calls'[i].op = c.op
          /\ calls'[i].group = c.group
      BY <1>0, <1>2, <1>3, <1>4, <2>2, <2>6
    <3>2. OnItsWay(calls[i])'
      BY <3>1 DEF OnItsWay
    <3>3. c.op = "update" => "manage" \notin view'.dialogs
      BY <3>1 DEF G!DialogOf
    <3>4. \A g : Updates(c, g) => Updating(g)'
      BY <1>5, <2>6, <3>1, <3>3 DEF Updating, Updates
    <3>5. RowsShown'
      BY <1>1, <2>1, <2>3, <3>1, <3>4 DEF RowsShown
    <3>6. DialogShown'
      <4> SUFFICES ASSUME "manage" \in view'.dialogs
                   PROVE  server[view.selected] \in {view.members, None}
        BY <1>1, <1>4 DEF DialogShown
      <4>1. ~ Updates(c, view.selected) /\ "manage" \in view.dialogs
        BY <3>1, <3>3 DEF Updates
      <4> QED BY <2>1, <2>3, <4>1 DEF DialogShown
    <3> QED BY <2>6, <3>2, <3>5, <3>6
  <2> QED BY <2>4, <2>5, <2>6
<1> QED BY <1>5, <1>6, <1>7

LEMMA GroupsSteps ==
  ASSUME GroupInv, G!Next
  PROVE  GroupInv'
<1>1. ASSUME NEW i \in Slots, G!Answer(i) PROVE GroupInv'
  BY <1>1, GroupsAnswered, GroupsFail DEF G!Answer
<1> QED BY <1>1, GroupsDialogs, GroupsManage, GroupsHistory, GroupsButtons, GroupsUpdate, GroupsElsewhere,
           GroupsContinue DEF G!Next, G!Slot, Slots

LEMMA AlwaysGroups == Spec => [](G!Here => GroupInv)
<1> DEFINE Inv == G!Here => GroupInv
<1>1. Init => Inv
  BY DEF Init, G!Here
<1>2. Inv /\ [Next]_vars => Inv'
  <2> SUFFICES ASSUME Inv, [Next]_vars, page' = "/device-groups" PROVE GroupInv'
    BY DEF G!Here
  <2>1. CASE Login
    <3>1. Mount("/device-groups", G!ServersAtMount, G!ViewAtMount, G!CallsAtMount, G!PastAtMount)
      BY <2>1 DEF Login, Mount
    <3> QED BY <3>1, InitGroups DEF Mount
  <2>2. CASE UNCHANGED vars
    <3>1. GroupInv
      BY <2>2 DEF vars, G!Here
    <3> QED BY <2>2, <3>1 DEF vars, GroupInv, GroupTypes, Proper, Alone, Runs, GroupsUndisturbed, OnItsWay,
                              UpdateOnItsWay, RowsShown, DialogShown, Updating, Updates
  <2>3. CASE page = "/device-groups" /\ G!Next
    BY <2>3, GroupsSteps DEF G!Here
  <2> QED BY <2>1, <2>2, <2>3, PageSteps
<1> QED BY <1>1, <1>2, PTL DEF Spec

(* Without overlapping handlers isLoading is set exactly while one runs,   *)
(* on each of the three pages, so that a form cannot be sent twice.        *)
THEOREM LoadingAlwaysMeansRunning == Spec => []LoadingMeansRunning
<1>1. ASSUME G!Here => GroupInv, F!Here => FirmwareInv, T!Here => TemplateInv PROVE LoadingMeansRunning
  <2>1. G!Running = Runs /\ F!Running = Runs /\ T!Running = Runs
    BY DEF G!Running, F!Running, T!Running, G!Slot, F!Slot, T!Slot, Runs, Slots
  <2>2. G!Here \/ F!Here \/ T!Here => Alone
    BY <1>1 DEF GroupInv, FirmwareInv, TemplateInv
  <2> QED BY <2>1, <2>2 DEF LoadingMeansRunning, G!LoadingMeansRunning, F!LoadingMeansRunning, T!LoadingMeansRunning,
                            Alone
<1> QED BY <1>1, AlwaysGroups, AlwaysFirmwares, AlwaysTemplates, PTL

(* Only the continuation of a handler makes it await another step.         *)
LEMMA StepsContinue ==
  ASSUME GroupTypes, G!Next, NEW i \in Slots, calls[i].op = "update", calls'[i].step # calls[i].step
  PROVE  G!Continue(i)
<1>1. calls[i] \in GroupCall /\ Proper(calls[i]) /\ calls[i].pc # "free"
  BY DEF GroupTypes, Proper
<1>2. ASSUME NEW j \in Slots, NEW h, NEW v, G!Start(j, h, v) PROVE FALSE
  <2>1. j # i
    BY <1>1, <1>2 DEF G!Start, G!Unused, G!Running, G!Slot, Slots
  <2> QED BY <1>2, <2>1 DEF G!Start, GroupTypes
<1>3. ASSUME NEW j \in Slots, G!Answer(j) PROVE FALSE
  <2>1. \E new : calls' = [calls EXCEPT ![j] = new] /\ new.step = calls[j].step
    BY <1>3 DEF G!Answer, G!Fails, GroupTypes, GroupCall
  <2> QED BY <2>1 DEF GroupTypes
<1>4. ASSUME NEW j \in Slots, G!Continue(j) PROVE j = i
  BY <1>4 DEF G!Continue, G!Proceed, GroupTypes
<1>5. ~ UNCHANGED calls
  OBVIOUS
<1>6. ASSUME NEW j \in Slots,
             G!SubmitGroup(j) \/ G!SendCommand(j) \/ G!UpdateGroupDevices(j) \/ G!ApplyFilters(j) \/ G!Details(j)
      PROVE  FALSE
  BY <1>2, <1>6 DEF G!SubmitGroup, G!SendCommand, G!UpdateGroupDevices, G!ApplyFilters, G!Details
<1>7. ASSUME NEW j \in Slots, NEW g \in Group, G!History(j, g) \/ G!QuickCommand(j, g) \/ G!DeleteGroup(j, g)
      PROVE  FALSE
  BY <1>2, <1>5, <1>7 DEF G!History, G!QuickCommand, G!DeleteGroup, G!Show
<1>8. ASSUME NEW g \in Group, G!OpenCommand(g) \/ G!Manage(g) \/ G!Changed(g) PROVE FALSE
  BY <1>5, <1>8 DEF G!OpenCommand, G!Manage, G!Changed, G!Show, G!Elsewhere
<1>9. ~ G!OpenCreate /\ ~ G!TickAll
  BY <1>5 DEF G!OpenCreate, G!TickAll, G!Show, G!Ticked
<1>10. ASSUME NEW dialog \in G!Dialogs, G!Cancel(dialog) PROVE FALSE
  BY <1>5, <1>10 DEF G!Cancel, G!Show
<1>11. ASSUME NEW d \in Device, G!Tick(d) PROVE FALSE
  BY <1>5, <1>11 DEF G!Tick, G!Ticked
<1> QED BY <1>3, <1>4, <1>6, <1>7, <1>8, <1>9, <1>10, <1>11 DEF G!Next, G!Slot, Slots

(* When the calls of an update have been answered the group has the        *)
(* devices that were ticked, whatever group the dialog was opened for      *)
(* meanwhile, without overlapping handlers, failures and other clients.    *)
THEOREM UpdateAlwaysSavesTicked == Spec => UpdateSavesTicked
<1> DEFINE Saved(i) ==
      /\ calls[i].op = "update" /\ calls[i].step # "refresh" /\ calls'[i].step = "refresh"
      /\ ~ past.overlap /\ past.faults = 0
      => server[calls[i].group] = calls[i].ticks
           Act == G!Here => \A i \in Slots : Saved(i)
<1>1. ASSUME G!Here => GroupInv, [Next]_vars PROVE [Act]_vars
  <2> SUFFICES ASSUME G!Here, NEW i \in Slots, ~ UNCHANGED vars,
                      calls[i].op = "update", calls[i].step # "refresh", calls'[i].step = "refresh",
                      ~ past.overlap, past.faults = 0
               PROVE  server[calls[i].group] = calls[i].ticks
    OBVIOUS
  <2>1. GroupInv /\ G!Next
    BY <1>1, PageSteps DEF G!Here
  <2>2. G!Continue(i)
    BY <2>1, StepsContinue DEF GroupInv
  <2>3. Proper(calls[i]) /\ calls[i] \in GroupCall /\ i \in Runs
    BY <2>1, <2>2 DEF GroupInv, GroupTypes, G!Continue, G!Proceed, Runs
  <2>4. UpdateOnItsWay(calls[i]) /\ calls[i].step \in {"add", "remove"}
    BY <2>1, <2>3 DEF GroupInv, GroupsUndisturbed, OnItsWay, Proper
  <2>5. calls'[i] = G!Following(calls[i])
    BY <2>1, <2>2 DEF G!Continue, G!Proceed, GroupInv, GroupTypes
  <2>6. calls[i].pc = "answered"
    BY <2>2, <2>5 DEF G!Continue, G!Proceed, G!Following, G!Free
  <2>7. calls[i].step = "add" => calls[i].remove = {}
    <3>1. [calls[i] EXCEPT !.pc = "sent", !.step = "remove"].step = "remove"
      BY <2>3 DEF GroupCall
    <3> QED BY <2>4, <2>5, <2>6, <3>1 DEF G!Following
  <2> QED BY <2>4, <2>6, <2>7 DEF UpdateOnItsWay
<1>2. Spec => [][Act]_vars
  <2>1. (G!Here => GroupInv) /\ [Next]_vars => [Act]_vars
    BY <1>1
  <2> HIDE DEF Act
  <2> QED BY <2>1, AlwaysGroups, PTL DEF Spec
<1>3. UpdateSavesTicked <=> [][Act]_vars
  BY DEF UpdateSavesTicked, G!UpdateSavesTicked, G!Slot, Slots, G!vars, vars
<1> QED BY <1>2, <1>3

-----------------------------------------------------------------------------
(* Devices.                                                                *)
DevicePast == [clicks : Nat, faults : Nat, reported : [Device -> D!Status], overwritten : SUBSET Device]
DeviceFilter == D!Status \cup {""}
DeviceDialog == [kind : D!Dialogs, device : Device \cup {None}, row : D!Row \cup {None}]
DeviceView == [devices : D!Table, filter : DeviceFilter, selected : SUBSET Device, dialog : DeviceDialog]
DeviceOp == {"none", "fetch", "add", "mode", "start", "command", "delete", "put", "timeout", "config"}
DeviceCall ==
    [pc : Progress, op : DeviceOp, device : Device \cup {None}, row : D!Row \cup {None}, bulk : BOOLEAN,
     seen : D!Table \cup {None}, filter : DeviceFilter, answer : (D!Table \cup D!Row) \cup {None}]
AboutDevice(v) == v.dialog.kind \in {"edit", "timeout", "config"} => v.dialog.device # None
Complete(c) ==
    /\ c.op \in D!UsesList => c.seen \in D!Table /\ c.device # None
    /\ c.op \in {"put", "timeout"} => c.row # None
    /\ c.pc = "answered" /\ c.op = "fetch" => c.answer \in D!Table
    /\ c.pc = "answered" /\ c.op = "put" => c.answer \in D!Row \cup {None}
DeviceTypes ==
    /\ server \in D!Table
    /\ view \in DeviceView /\ AboutDevice(view)
    /\ calls \in [Slots -> DeviceCall]
    /\ \A i \in Slots : Complete(calls[i])
    /\ past \in DevicePast
Reported == \A d \in Device :
    server[d] # None /\ server[d].status # past.reported[d] => d \in past.overwritten
DeviceInv == DeviceTypes /\ Reported

LEMMA DevicePastSteps ==
  ASSUME NEW p \in DevicePast
  PROVE  /\ LET q == [p EXCEPT !.clicks = @ + 1] IN
            q \in DevicePast /\ q.reported = p.reported /\ q.overwritten = p.overwritten
         /\ LET q == [p EXCEPT !.faults = @ + 1] IN
            q \in DevicePast /\ q.reported = p.reported /\ q.overwritten = p.overwritten
BY DEF DevicePast

LEMMA InitDevices ==
  ASSUME server' = D!ServerAtMount, view' = D!ViewAtMount, calls' = D!CallsAtMount, past' = D!History
  PROVE  DeviceInv'
<1> USE WebAppAssumption DEF D!Slot, Slots
<1>1. server' \in D!Table
  BY DEF D!ServerAtMount, D!Table, D!Row, D!Status, D!Timeout
<1>2. view' \in DeviceView /\ AboutDevice(view')
  BY DEF D!ViewAtMount, DeviceView, D!Empty, D!Table, DeviceFilter, DeviceDialog, D!NoDialog, D!Dialogs, AboutDevice
<1>3. calls' = [i \in Slots |-> IF i = 1 THEN D!Fetch("") ELSE D!Free]
  BY DEF D!CallsAtMount
<1>4. /\ D!Free \in DeviceCall /\ Complete(D!Free)
      /\ D!Fetch("") \in DeviceCall /\ Complete(D!Fetch(""))
  BY DEF D!Free, D!Fetch, DeviceCall, DeviceOp, DeviceFilter, Complete, Progress, D!UsesList
<1>5. past' \in DevicePast
  BY DEF D!History, DevicePast, D!Status
<1>6. Reported'
  BY DEF Reported, D!ServerAtMount, D!History
<1> QED BY <1>1, <1>2, <1>3, <1>4, <1>5, <1>6 DEF DeviceInv, DeviceTypes

(* The documents of the backend stay as they are.                          *)
LEMMA DevicesStill ==
  ASSUME DeviceInv, UNCHANGED <<page, server>>, view' \in DeviceView, AboutDevice(view'),
         past' = past \/ past' = [past EXCEPT !.clicks = @ + 1],
         \/ UNCHANGED calls
         \/ \E i \in Slots, c \in DeviceCall : Complete(c) /\ calls' = [calls EXCEPT ![i] = c]
  PROVE  DeviceInv'
<1> USE DEF DeviceInv
<1>1. past' \in DevicePast /\ past'.reported = past.reported /\ past'.overwritten = past.overwritten
  BY DevicePastSteps DEF DeviceTypes
<1>2. calls' \in [Slots -> DeviceCall] /\ \A i \in Slots : Complete(calls'[i])
  BY DEF DeviceTypes
<1>3. DeviceTypes'
  BY <1>1, <1>2 DEF DeviceTypes
<1>4. Reported'
  BY <1>1 DEF Reported
<1> QED BY <1>3, <1>4

LEMMA DeviceCalls ==
  ASSUME DeviceTypes
  PROVE  /\ D!Free \in DeviceCall /\ Complete(D!Free)
         /\ \A f \in DeviceFilter : D!Fetch(f) \in DeviceCall /\ Complete(D!Fetch(f))
         /\ \A op \in DeviceOp \ {"none", "fetch"}, d \in Device \cup {None}, row \in D!Row \cup {None} :
               (op \in D!UsesList => d # None) /\ (op \in {"put", "timeout"} => row # None) =>
               D!CallOf(op, d, row) \in DeviceCall /\ Complete(D!CallOf(op, d, row))
               /\ D!CallOf(op, d, row).op = op
<1> USE WebAppAssumption DEF DeviceTypes, DeviceView
<1>1. D!Free \in DeviceCall /\ Complete(D!Free)
  BY DEF D!Free, DeviceCall, DeviceOp, DeviceFilter, Complete, Progress, D!UsesList
<1>2. \A f \in DeviceFilter : D!Fetch(f) \in DeviceCall /\ Complete(D!Fetch(f))
  BY DEF D!Free, D!Fetch, DeviceCall, DeviceOp, DeviceFilter, Complete, Progress, D!UsesList
<1>3. ASSUME NEW op \in DeviceOp \ {"none", "fetch"}, NEW d \in Device \cup {None}, NEW row \in D!Row \cup {None},
             (op \in D!UsesList => d # None) /\ (op \in {"put", "timeout"} => row # None)
      PROVE  D!CallOf(op, d, row) \in DeviceCall /\ Complete(D!CallOf(op, d, row)) /\ D!CallOf(op, d, row).op = op
  <2> DEFINE c == D!CallOf(op, d, row)
  <2>1. c \in DeviceCall /\ c.op = op /\ c.pc = "sent" /\ c.device = d /\ c.row = row
        /\ (op \in D!UsesList => c.seen \in D!Table)
    BY DEF D!CallOf, D!Free, DeviceCall, DeviceOp, DeviceFilter, Progress
  <2> HIDE DEF c
  <2>2. Complete(c)
    BY <1>3, <2>1 DEF Complete
  <2> QED BY <2>1, <2>2 DEF c
<1> QED BY <1>1, <1>2, <1>3

LEMMA DevicesDialogs ==
  ASSUME DeviceInv,
         \/ D!OpenForm \/ D!Cancel
         \/ \E d \in Device : D!Toggle(d) \/ D!HandleEditDevice(d) \/ D!OpenTimeoutModal(d) \/ D!OpenConfigModal(d)
  PROVE  DeviceInv'
<1> USE WebAppAssumption
<1>0. view \in DeviceView /\ AboutDevice(view)
  BY DEF DeviceInv, DeviceTypes
<1>1. CASE D!OpenForm
  <2>1. view' \in DeviceView /\ AboutDevice(view')
    BY <1>0, <1>1 DEF D!OpenForm, D!Show, D!NoDialog, DeviceView, DeviceDialog, D!Dialogs, AboutDevice
  <2> QED BY <1>1, <2>1, DevicesStill DEF D!OpenForm, D!Show, D!Counted
<1>2. CASE D!Cancel
  <2>1. view' \in DeviceView /\ AboutDevice(view')
    BY <1>0, <1>2 DEF D!Cancel, D!NoDialog, DeviceView, DeviceDialog, D!Dialogs, AboutDevice
  <2> QED BY <1>2, <2>1, DevicesStill DEF D!Cancel
<1>3. ASSUME NEW d \in Device, D!Toggle(d) PROVE DeviceInv'
  <2>1. view' \in DeviceView /\ AboutDevice(view')
    BY <1>0, <1>3 DEF D!Toggle, D!Show, DeviceView, AboutDevice
  <2> QED BY <1>3, <2>1, DevicesStill DEF D!Toggle, D!Show, D!Counted
<1>4. ASSUME NEW d \in Device, NEW kind \in {"edit", "timeout", "config"}, D!OpenDialog(kind, d) PROVE DeviceInv'
  <2>1. view.devices[d] \in D!Row \cup {None}
    BY <1>0 DEF DeviceView, D!Table
  <2>2. view' \in DeviceView /\ AboutDevice(view')
    BY <1>0, <1>4, <2>1 DEF D!OpenDialog, D!Show, DeviceView, DeviceDialog, D!Dialogs, AboutDevice
  <2> QED BY <1>4, <2>2, DevicesStill DEF D!OpenDialog, D!Show, D!Counted
<1> QED BY <1>1, <1>2, <1>3, <1>4 DEF D!HandleEditDevice, D!OpenTimeoutModal, D!OpenConfigModal

LEMMA DevicesButtons ==
  ASSUME DeviceInv, NEW i \in Slots,
         \/ D!Refresh(i) \/ D!AddDevice(i) \/ D!UpdateDevice(i) \/ D!UpdateTimeout(i) \/ D!UpdateModeConfig(i)
         \/ \E f \in D!Status \cup {""} : D!SetFilter(i, f)
         \/ \E d \in Device : D!DeleteDevice(i, d) \/ D!SendStart(i, d) \/ D!SendCommand(i, d)
  PROVE  DeviceInv'
<1> USE WebAppAssumption
<1>0. view \in DeviceView /\ AboutDevice(view) /\ DeviceTypes /\ view.filter \in DeviceFilter
  BY DEF DeviceInv, DeviceTypes, DeviceView
<1>1. CASE D!Refresh(i)
  BY <1>0, <1>1, DeviceCalls, DevicesStill DEF D!Refresh, D!Send
<1>2. ASSUME NEW f \in D!Status \cup {""}, D!SetFilter(i, f) PROVE DeviceInv'
  <2>1. view' \in DeviceView /\ AboutDevice(view') /\ f \in DeviceFilter
    BY <1>0, <1>2 DEF D!SetFilter, DeviceView, AboutDevice, DeviceFilter
  <2> QED BY <1>0, <1>2, <2>1, DeviceCalls, DevicesStill DEF D!SetFilter, D!Send, D!Counted
<1>3. ASSUME NEW op \in {"delete", "mode", "command"}, NEW d \in Device, D!Press(i, d, op) PROVE DeviceInv'
  <2>1. D!CallOf(op, d, None) \in DeviceCall /\ Complete(D!CallOf(op, d, None))
    BY <1>0, <1>3, DeviceCalls DEF DeviceOp
  <2> QED BY <1>0, <1>3, <2>1, DevicesStill DEF D!Press, D!Send, D!Counted
<1>4. ASSUME NEW op \in {"add", "put", "timeout", "config"}, NEW row \in D!Row \cup {None}, D!Submit(i, op, row),
             op # "add" => view.dialog.device # None, op \in {"put", "timeout"} => row # None
      PROVE  DeviceInv'
  <2>1. view.dialog.device \in Device \cup {None}
    BY <1>0 DEF DeviceView, DeviceDialog
  <2>2. D!CallOf(op, view.dialog.device, row) \in DeviceCall /\ Complete(D!CallOf(op, view.dialog.device, row))
    BY <1>0, <1>4, <2>1, DeviceCalls DEF DeviceOp, D!UsesList
  <2> QED BY <1>0, <1>4, <2>2, DevicesStill DEF D!Submit, D!Send, D!Counted
<1>5. view.dialog.row # None => \A row \in D!Typed : row \in D!Row /\ row # None
  <2>1. view.dialog.row \in D!Row \cup {None}
    BY <1>0 DEF DeviceView, DeviceDialog
  <2>2. None \notin D!Row
    BY DEF D!Row, D!Status, D!Timeout
  <2>3. ASSUME view.dialog.row # None, NEW row \in D!Typed PROVE row \in D!Row
    <3>1. PICK t \in D!Timeout : row = [view.dialog.row EXCEPT !.timeout = t]
      BY <2>3 DEF D!Typed
    <3>2. view.dialog.row \in [status : D!Status, timeout : D!Timeout]
      BY <2>1, <2>3 DEF D!Row
    <3> QED BY <3>1, <3>2 DEF D!Row
  <2> QED BY <2>2, <2>3
<1>6. CASE D!AddDevice(i)
  BY <1>4, <1>6 DEF D!AddDevice, D!AddForm, D!Form
<1>7. CASE D!UpdateDevice(i)
  <2>1. PICK row \in D!EditForm : D!Submit(i, "put", row)
    BY <1>7 DEF D!UpdateDevice
  <2>2. view.dialog.row # None /\ row \in D!Typed /\ view.dialog.kind = "edit"
    BY <2>1 DEF D!EditForm, D!Form
  <2> QED BY <1>0, <1>4, <1>5, <2>1, <2>2 DEF AboutDevice
<1>8. CASE D!UpdateTimeout(i)
  <2>1. PICK row \in D!TimeoutModal : D!Submit(i, "timeout", row)
    BY <1>8 DEF D!UpdateTimeout
  <2>2. view.dialog.row # None /\ row \in D!Typed /\ view.dialog.kind = "timeout"
    BY <2>1 DEF D!TimeoutModal, D!Form
  <2> QED BY <1>0, <1>4, <1>5, <2>1, <2>2 DEF AboutDevice
<1>9. CASE D!UpdateModeConfig(i)
  <2>1. view.dialog.kind = "config" /\ D!Submit(i, "config", None)
    BY <1>9 DEF D!UpdateModeConfig, D!ConfigModal, D!Form
  <2> QED BY <1>0, <1>4, <2>1 DEF AboutDevice
<1> QED BY <1>1, <1>2, <1>3, <1>6, <1>7, <1>8, <1>9 DEF D!DeleteDevice, D!SendStart, D!SendCommand

(* The calls of sendCommandToSelected are made at once.                    *)
LEMMA DevicesSelected ==
  ASSUME DeviceInv, NEW op \in {"mode", "command"}, D!SendToSelected(op)
  PROVE  DeviceInv'
<1> USE WebAppAssumption
<1> DEFINE throws == op = "mode" /\ {d \in view.selected : view.devices[d] = None} # {}
<1>0. DeviceTypes /\ view.selected \subseteq Device
  BY DEF DeviceInv, DeviceTypes, DeviceView
<1>1. PICK reached \in SUBSET view.selected, at \in [view.selected -> D!Slot] :
        /\ IF throws THEN reached \cap {d \in view.selected : view.devices[d] = None} = {} ELSE reached = view.selected
        /\ \A d, e \in reached : at[d] = at[e] => d = e
        /\ \A d \in reached : calls[at[d]].pc = "free"
        /\ calls' = [i \in D!Slot |->
                    IF \E d \in reached : at[d] = i
                      THEN [D!CallOf(op, CHOOSE d \in reached : at[d] = i, None) EXCEPT !.bulk = ~ throws]
                      ELSE calls[i]]
  BY DEF D!SendToSelected
<1>2. UNCHANGED <<page, server, view>> /\ past' = [past EXCEPT !.clicks = @ + 1]
  BY DEF D!SendToSelected, D!Counted
<1>3. ASSUME NEW d \in Device
      PROVE  LET c == [D!CallOf(op, d, None) EXCEPT !.bulk = ~ throws] IN c \in DeviceCall /\ Complete(c)
  <2> DEFINE b == D!CallOf(op, d, None)
  <2>1. b \in DeviceCall /\ Complete(b) /\ b.op = op
    BY <1>0, DeviceCalls DEF DeviceOp, D!UsesList
  <2>2. (~ throws) \in BOOLEAN
    OBVIOUS
  <2> DEFINE c == [b EXCEPT !.bulk = ~ throws]
  <2> HIDE DEF b, throws
  <2>3. c \in DeviceCall /\ Complete(c)
    BY <2>1, <2>2 DEF DeviceCall, Complete
  <2> QED BY <2>3 DEF b
<1> USE DEF D!Slot, Slots
<1>4. ASSUME NEW i \in Slots PROVE calls'[i] \in DeviceCall /\ Complete(calls'[i])
  <2>1. CASE \E d \in reached : at[d] = i
    <3>1. (CHOOSE d \in reached : at[d] = i) \in Device
      BY <1>0, <2>1
    <3> HIDE DEF throws
    <3> QED BY <1>1, <1>3, <2>1, <3>1
  <2>2. CASE ~ \E d \in reached : at[d] = i
    BY <1>0, <1>1, <2>2 DEF DeviceTypes
  <2> QED BY <2>1, <2>2
<1>5. past' \in DevicePast /\ past'.reported = past.reported /\ past'.overwritten = past.overwritten
  BY <1>0, <1>2, DevicePastSteps DEF DeviceTypes
<1>6. calls' \in [Slots -> DeviceCall]
  BY <1>1, <1>4
<1>7. DeviceTypes'
  BY <1>0, <1>2, <1>4, <1>5, <1>6 DEF DeviceTypes
<1> QED BY <1>2, <1>5, <1>7 DEF DeviceInv, Reported

(* A document changes elsewhere: the backend determines another status, or *)
(* the device is deleted.                                                  *)
LEMMA DevicesElsewhere ==
  ASSUME DeviceInv, NEW d \in Device, D!Flip(d) \/ D!Removed(d)
  PROVE  DeviceInv'
<1> USE WebAppAssumption DEF DeviceInv
<1>1. CASE D!Flip(d)
  <2>1. PICK s \in D!Status : /\ server' = [server EXCEPT ![d].status = s]
                              /\ past' = [past EXCEPT !.faults = @ + 1, !.reported[d] = s]
    BY <1>1 DEF D!Flip
  <2>2. server[d] \in D!Row /\ UNCHANGED <<page, view, calls>>
    BY <1>1 DEF D!Flip, DeviceTypes, D!Table
  <2>3. server' \in D!Table
    BY <2>1, <2>2 DEF DeviceTypes, D!Table, D!Row
  <2>4. past' \in DevicePast /\ past'.overwritten = past.overwritten
        /\ past'.reported = [past.reported EXCEPT ![d] = s]
    <3> DEFINE q == [past EXCEPT !.faults = @ + 1]
               reported == [past.reported EXCEPT ![d] = s]
    <3>1. q \in DevicePast /\ q.reported = past.reported /\ q.overwritten = past.overwritten
      BY DevicePastSteps DEF DeviceTypes
    <3>2. past' = [q EXCEPT !.reported = reported] /\ reported \in [Device -> D!Status]
      BY <2>1, <3>1 DEF DevicePast
    <3> HIDE DEF q, reported
    <3>3. past' \in DevicePast /\ past'.overwritten = q.overwritten /\ past'.reported = reported
      BY <3>1, <3>2 DEF DevicePast
    <3> QED BY <3>1, <3>3 DEF reported
  <2>5. server'[d].status = s
    BY <2>1, <2>2 DEF DeviceTypes, D!Table, D!Row
  <2>6. \A e \in Device \ {d} : server'[e] = server[e]
    BY <2>1 DEF DeviceTypes, D!Table
  <2>7. past'.reported[d] = s /\ \A e \in Device \ {d} : past'.reported[e] = past.reported[e]
    BY <2>4 DEF DeviceTypes, DevicePast
  <2>8. Reported'
    BY <2>4, <2>5, <2>6, <2>7 DEF Reported
  <2> QED BY <2>2, <2>3, <2>4, <2>8 DEF DeviceTypes
<1>2. CASE D!Removed(d)
  <2>1. /\ server' = [server EXCEPT ![d] = None] /\ past' = [past EXCEPT !.faults = @ + 1]
        /\ UNCHANGED <<page, view, calls>>
    BY <1>2 DEF D!Removed, D!Elsewhere
  <2>2. server' \in D!Table /\ \A e \in Device : server'[e] \in {server[e], None}
    BY <2>1 DEF DeviceTypes, D!Table
  <2>3. past' \in DevicePast /\ past'.reported = past.reported /\ past'.overwritten = past.overwritten
    BY <2>1, DevicePastSteps DEF DeviceTypes
  <2>4. DeviceTypes'
    BY <2>1, <2>2, <2>3 DEF DeviceTypes
  <2>5. Reported'
    BY <2>2, <2>3 DEF Reported
  <2> QED BY <2>4, <2>5
<1> QED BY <1>1, <1>2

LEMMA DevicesFail ==
  ASSUME DeviceInv, NEW i \in Slots, calls[i].pc = "sent", NEW refused \in BOOLEAN, D!Fails(i, refused),
         UNCHANGED <<page, view>>
  PROVE  DeviceInv'
<1> USE WebAppAssumption DEF DeviceInv
<1> DEFINE new == [calls[i] EXCEPT !.pc = "failed"]
<1>1. new \in DeviceCall /\ Complete(new) /\ calls' = [calls EXCEPT ![i] = new]
  BY DEF DeviceTypes, DeviceCall, Complete, Progress, D!Fails
<1>2. past' \in DevicePast /\ past'.reported = past.reported /\ past'.overwritten = past.overwritten
  BY DevicePastSteps DEF DeviceTypes, D!Fails
<1> HIDE DEF new
<1>3. DeviceTypes'
  BY <1>1, <1>2 DEF DeviceTypes, D!Fails
<1>4. Reported'
  BY <1>2 DEF Reported, D!Fails
<1> QED BY <1>3, <1>4

(* Only the edit form sends a status, which is then that of its row.       *)
LEMMA DevicesAnswered ==
  ASSUME DeviceInv, NEW i \in Slots, calls[i].pc = "sent", ~ D!MustFail(calls[i]), server' = D!Execute(calls[i]),
         calls' = [calls EXCEPT ![i].pc = "answered", ![i].answer =
                     CASE calls[i].op = "fetch" -> D!Listed(server, calls[i].filter)
                       [] calls[i].op = "put" -> server'[calls[i].device]
                       [] OTHER -> None],
         past' = (IF calls[i].op = "put" /\ server[calls[i].device] # None
                     /\ calls[i].row.status # server[calls[i].device].status
                    THEN [past EXCEPT !.overwritten = @ \cup {calls[i].device}] ELSE past),
         UNCHANGED <<page, view>>
  PROVE  DeviceInv'
<1> USE WebAppAssumption DEF DeviceInv
<1> DEFINE c == calls[i]
           d == c.device
           answer == CASE c.op = "fetch" -> D!Listed(server, c.filter)
                       [] c.op = "put" -> server'[d]
                       [] OTHER -> None
           new == [c EXCEPT !.pc = "answered", !.answer = answer]
<1>0. /\ c \in DeviceCall /\ Complete(c) /\ server \in D!Table /\ past \in DevicePast
      /\ c.op \in {"put", "timeout", "delete"} => d \in Device
      /\ c.op \in {"put", "timeout"} => c.row \in D!Row
  BY DEF DeviceTypes, DeviceCall, Complete, D!UsesList
<1>1. calls' = [calls EXCEPT ![i] = new]
  BY DEF DeviceTypes
<1> HIDE DEF c
<1>2. /\ server' \in D!Table
      /\ \A e \in Device : server'[e] \in {server[e], None} \/ (e = d /\ server[e] # None /\
            \/ c.op = "put" /\ server'[e] = c.row
            \/ c.op = "timeout" /\ server'[e].status = server[e].status)
  <2>1. server' = D!Execute(c)
    BY DEF c
  <2>2. CASE c.op = "delete"
    BY <1>0, <2>1, <2>2 DEF D!Execute, D!Table
  <2>3. CASE c.op = "put" /\ server[d] # None
    BY <1>0, <2>1, <2>3 DEF D!Execute, D!Table
  <2>4. CASE c.op = "timeout" /\ server[d] # None /\ c.row.timeout # "negative"
    <3>1. server' = [server EXCEPT ![d] = [server[d] EXCEPT !.timeout = c.row.timeout]]
      BY <2>1, <2>4 DEF D!Execute
    <3>2. server[d] \in D!Row /\ c.row.timeout \in D!Timeout
      BY <1>0, <2>4 DEF D!Table, D!Row
    <3>3. LET row == [server[d] EXCEPT !.timeout = c.row.timeout] IN row \in D!Row /\ row.status = server[d].status
      BY <3>2 DEF D!Row
    <3> QED BY <1>0, <2>4, <3>1, <3>3 DEF D!Table
  <2>5. CASE ~ (c.op = "delete" \/ (c.op = "put" /\ server[d] # None)
                \/ (c.op = "timeout" /\ server[d] # None /\ c.row.timeout # "negative"))
    <3>1. server' = server
      BY <2>1, <2>5 DEF D!Execute
    <3> QED BY <1>0, <3>1
  <2> QED BY <2>2, <2>3, <2>4, <2>5
<1>3. /\ answer \in (D!Table \cup D!Row) \cup {None}
      /\ c.op = "fetch" => answer \in D!Table
      /\ c.op = "put" => answer \in D!Row \cup {None}
  <2>1. D!Listed(server, c.filter) \in D!Table
    BY <1>0 DEF D!Listed, D!Table
  <2>2. c.op = "put" => server'[d] \in D!Row \cup {None}
    BY <1>0, <1>2 DEF D!Table
  <2> QED BY <2>1, <2>2
<1> HIDE DEF answer
<1>4. new \in DeviceCall /\ Complete(new)
  BY <1>0, <1>3 DEF DeviceCall, Complete, Progress
<1> HIDE DEF new
<1>5. /\ past' \in DevicePast /\ past'.reported = past.reported
      /\ past.overwritten \subseteq past'.overwritten
      /\ c.op = "put" /\ server[d] # None /\ c.row.status # server[d].status => d \in past'.overwritten
  BY <1>0 DEF DevicePast, c
<1>6. DeviceTypes'
  <2>1. server' \in D!Table
    BY <1>2
  <2>2. calls' \in [Slots -> DeviceCall] /\ \A j \in Slots : Complete(calls'[j])
    BY <1>1, <1>4 DEF DeviceTypes
  <2> QED BY <1>5, <2>1, <2>2 DEF DeviceTypes
<1>7. Reported'
  <2> SUFFICES ASSUME NEW e \in Device, server'[e] # None, server'[e].status # past.reported[e]
               PROVE  e \in past'.overwritten
    BY <1>5 DEF Reported
  <2>1. CASE server'[e] = server[e]
    BY <1>5, <2>1 DEF Reported
  <2>2. CASE server'[e] # server[e]
    <3>1. e = d /\ server[e] # None
      BY <1>2, <2>2
    <3>2. server'[e].status = server[e].status \/ (c.op = "put" /\ server'[e] = c.row)
      BY <1>2, <2>2
    <3> QED BY <1>5, <3>1, <3>2 DEF Reported
  <2> QED BY <2>1, <2>2
<1> QED BY <1>6, <1>7

LEMMA DevicesContinue ==
  ASSUME DeviceInv, NEW i \in Slots, D!Continue(i)
  PROVE  DeviceInv'
<1> USE WebAppAssumption
<1> DEFINE c == calls[i]
           shown == IF c.pc = "answered" THEN D!Shown(c) ELSE view
<1>0. /\ c \in DeviceCall /\ Complete(c) /\ DeviceTypes /\ view \in DeviceView /\ AboutDevice(view)
  BY DEF DeviceInv, DeviceTypes
<1>1. /\ calls' = [calls EXCEPT ![i] = D!Following(c)] /\ UNCHANGED <<page, server, past>>
      /\ view' = IF D!EndsBulk(i) THEN [shown EXCEPT !.selected = {}] ELSE shown
  BY DEF D!Continue, D!Proceed
<1> HIDE DEF c
<1>2. D!Following(c) \in DeviceCall /\ Complete(D!Following(c))
  <2>1. CASE c.pc = "answered" /\ c.op = "mode"
    <3>1. D!Following(c) = [c EXCEPT !.pc = "sent", !.op = "start"]
      BY <2>1 DEF D!Following
    <3>2. LET n == [c EXCEPT !.pc = "sent", !.op = "start"] IN n \in DeviceCall /\ Complete(n)
      BY <1>0 DEF DeviceCall, DeviceOp, Complete, Progress, D!UsesList
    <3> QED BY <3>1, <3>2
  <2>2. CASE c.pc = "answered" /\ c.op \in {"start", "command", "config"}
    <3>1. D!Following(c) = D!Fetch(c.filter) /\ c.filter \in DeviceFilter
      BY <1>0, <2>2 DEF D!Following, DeviceCall
    <3> QED BY <1>0, <3>1, DeviceCalls
  <2>3. CASE ~ (c.pc = "answered" /\ c.op \in {"mode", "start", "command", "config"})
    <3>1. D!Following(c) = D!Free
      BY <2>3 DEF D!Following
    <3> QED BY <1>0, <3>1, DeviceCalls
  <2> QED BY <2>1, <2>2, <2>3
<1>3. shown \in DeviceView /\ AboutDevice(shown)
  <2>0. ASSUME NEW devices \in D!Table, NEW kind \in D!Dialogs
        PROVE  LET v == [view EXCEPT !.devices = devices, !.dialog = D!Closed(kind)] IN
               v \in DeviceView /\ AboutDevice(v)
    BY <1>0 DEF DeviceView, DeviceDialog, AboutDevice, D!Closed, D!NoDialog, D!Dialogs
  <2>1. ASSUME NEW devices \in D!Table
        PROVE  LET v == [view EXCEPT !.devices = devices] IN v \in DeviceView /\ AboutDevice(v)
    BY <1>0 DEF DeviceView, AboutDevice
  <2>2. CASE c.pc # "answered" \/ c.op \notin {"fetch", "delete", "put", "timeout", "config"}
    BY <1>0, <2>2 DEF D!Shown
  <2>3. CASE c.pc = "answered" /\ c.op = "fetch"
    <3>1. c.answer \in D!Table /\ shown = [view EXCEPT !.devices = c.answer]
      BY <1>0, <2>3 DEF D!Shown, Complete
    <3> QED BY <2>1, <3>1
  <2>4. CASE c.pc = "answered" /\ c.op \in D!UsesList
    <3>1. c.seen \in D!Table /\ c.device \in Device
      BY <1>0, <2>4 DEF Complete, DeviceCall
    <3>2. CASE c.op = "delete"
      <4>1. [c.seen EXCEPT ![c.device] = None] \in D!Table
        BY <3>1 DEF D!Table
      <4>2. shown = [view EXCEPT !.devices = [c.seen EXCEPT ![c.device] = None]]
        BY <2>4, <3>2 DEF D!Shown
      <4> QED BY <2>1, <4>1, <4>2
    <3>3. CASE c.op = "put"
      <4>1. c.answer \in D!Row \cup {None}
        BY <1>0, <2>4, <3>3 DEF Complete
      <4>2. D!Mapped(c.seen, c.device, c.answer) \in D!Table
        BY <3>1, <4>1 DEF D!Mapped, D!Table
      <4>3. shown = [view EXCEPT !.devices = D!Mapped(c.seen, c.device, c.answer), !.dialog = D!Closed("edit")]
        BY <2>4, <3>3 DEF D!Shown
      <4> QED BY <2>0, <4>2, <4>3 DEF D!Dialogs
    <3>4. CASE c.op = "timeout"
      <4> DEFINE devices == IF c.seen[c.device] = None THEN c.seen
                            ELSE [c.seen EXCEPT ![c.device].timeout = c.row.timeout]
      <4>1. c.row \in D!Row
        BY <1>0, <3>4 DEF Complete, DeviceCall
      <4>2. devices \in D!Table
        BY <3>1, <4>1 DEF D!Table, D!Row
      <4>3. shown = [view EXCEPT !.dialog = D!Closed("timeout"), !.devices = devices]
        BY <2>4, <3>4 DEF D!Shown
      <4>4. shown = [view EXCEPT !.devices = devices, !.dialog = D!Closed("timeout")]
        <5> HIDE DEF devices
        <5> QED BY <1>0, <4>3 DEF DeviceView
      <4> HIDE DEF devices
      <4> QED BY <2>0, <4>2, <4>4 DEF D!Dialogs
    <3>5. CASE c.op = "config"
      <4>1. shown = [view EXCEPT !.devices = c.seen, !.dialog = D!Closed("config")]
        BY <2>4, <3>5 DEF D!Shown
      <4> QED BY <2>0, <3>1, <4>1 DEF D!Dialogs
    <3> QED BY <2>4, <3>2, <3>3, <3>4, <3>5 DEF D!UsesList
  <2> QED BY <2>2, <2>3, <2>4 DEF D!UsesList
<1> HIDE DEF shown
<1>4. view' \in DeviceView /\ AboutDevice(view')
  BY <1>1, <1>3 DEF DeviceView, AboutDevice
<1> QED BY <1>1, <1>2, <1>4, DevicesStill

LEMMA DevicesSteps ==
  ASSUME DeviceInv, D!Next
  PROVE  DeviceInv'
<1>1. ASSUME NEW i \in Slots, D!Answer(i) PROVE DeviceInv'
  <2>1. D!MustFail(calls[i]) \in BOOLEAN
    BY DEF D!MustFail
  <2> QED BY <1>1, <2>1, DevicesAnswered, DevicesFail DEF D!Answer
<1> QED BY <1>1, DevicesDialogs, DevicesButtons, DevicesSelected, DevicesElsewhere, DevicesContinue
        DEF D!Next, D!Slot, Slots

LEMMA AlwaysDevices == Spec => [](D!Here => DeviceInv)
<1> DEFINE Inv == D!Here => DeviceInv
<1>1. Init => Inv
  BY DEF Init, D!Here
<1>2. Inv /\ [Next]_vars => Inv'
  <2> SUFFICES ASSUME Inv, [Next]_vars, page' = "/devices" PROVE DeviceInv'
    BY DEF D!Here
  <2>1. CASE Login
    <3>1. Mount("/devices", {D!ServerAtMount}, D!ViewAtMount, D!CallsAtMount, D!History)
      BY <2>1 DEF Login, Mount
    <3> QED BY <3>1, InitDevices DEF Mount
  <2>2. CASE UNCHANGED vars
    <3>1. DeviceInv
      BY <2>2 DEF vars, D!Here
    <3> QED BY <2>2, <3>1 DEF vars, DeviceInv, DeviceTypes, Reported
  <2>3. CASE page = "/devices" /\ D!Next
    BY <2>3, DevicesSteps DEF D!Here
  <2> QED BY <2>1, <2>2, <2>3, PageSteps
<1> QED BY <1>1, <1>2, PTL DEF Spec

(* The stored status of a device is the one that the backend determined    *)
(* last, unless the edit form has saved a row with another one.            *)
THEOREM StatusAlwaysReported == Spec => []StatusIsReported
<1>1. (D!Here => DeviceInv) => StatusIsReported
  BY DEF StatusIsReported, D!StatusIsReported, DeviceInv, Reported
<1> QED BY <1>1, AlwaysDevices, PTL

-----------------------------------------------------------------------------
(* Home and Metrics, each with its own bound of calls.                     *)
StatsSlots == IF page = "/metrics" THEN M!Slot ELSE H!Slot
Statuses == [Device -> {"online", "offline", "unknown"}]
StatsView == [known : Statuses \cup {None}, range : Range, metrics : Range \cup {None}]
StatsCall == [pc : Progress, op : {"none", "devices", "metrics"}, range : Range \cup {None},
              answer : Statuses \cup {None}]
StatsInv ==
    /\ server \in Statuses
    /\ view \in StatsView
    /\ calls \in [StatsSlots -> StatsCall]

LEMMA InitStats ==
  ASSUME \/ \E v \in H!ViewsAtMount : Mount("/", H!ServersAtMount, v, H!CallsAtMount(v.range), H!PastAtMount)
         \/ \E v \in M!ViewsAtMount : Mount("/metrics", M!ServersAtMount, v, M!CallsAtMount(v.range), M!PastAtMount)
  PROVE  StatsInv'
<1>1. server' \in Statuses
  BY DEF Mount, H!ServersAtMount, M!ServersAtMount, H!Status, M!Status, Statuses
<1>2. view' \in StatsView /\ view'.range \in Range
  BY DEF Mount, H!ViewsAtMount, M!ViewsAtMount, StatsView
<1>3. \/ page' = "/" /\ calls' = H!CallsAtMount(view'.range)
      \/ page' = "/metrics" /\ calls' = M!CallsAtMount(view'.range)
  BY DEF Mount
<1>4. calls' \in [StatsSlots' -> StatsCall]
  BY <1>2, <1>3 DEF H!CallsAtMount, M!CallsAtMount, H!Fetch, M!Fetch, H!Free, M!Free, StatsSlots,
                    StatsCall, Progress
<1> QED BY <1>1, <1>2, <1>4 DEF StatsInv

LEMMA StatsSteps ==
  ASSUME StatsInv, (page = "/" /\ H!Next) \/ (page = "/metrics" /\ M!Next)
  PROVE  StatsInv'
<1>. page' = page /\ StatsSlots' = StatsSlots
  BY StatsStay DEF StatsSlots
<1>0. \A op \in {"devices", "metrics"}, r \in Range \cup {None} :
        H!Fetch(op, r) \in StatsCall /\ M!Fetch(op, r) \in StatsCall
  BY DEF H!Fetch, M!Fetch, StatsCall, Progress
<1>1. ASSUME NEW i \in StatsSlots, NEW op \in {"devices", "metrics"}, H!Refresh(i, op) \/ M!Refresh(i, op)
      PROVE  StatsInv'
  <2>1. (IF op = "metrics" THEN view.range ELSE None) \in Range \cup {None}
    BY DEF StatsInv, StatsView
  <2> QED BY <1>0, <1>1, <2>1 DEF H!Refresh, M!Refresh, StatsInv
<1>2. ASSUME NEW i \in StatsSlots, NEW j \in StatsSlots, NEW r \in Range, H!SetTimeRange(i, j, r) \/ M!SetTimeRange(i, j, r)
      PROVE  StatsInv'
  BY <1>0, <1>2 DEF H!SetTimeRange, M!SetTimeRange, StatsInv, StatsView
<1>3. ASSUME NEW d \in Device, H!StatusChanges(d) \/ M!StatusChanges(d) PROVE StatsInv'
  BY <1>3 DEF H!StatusChanges, M!StatusChanges, H!Elsewhere, M!Elsewhere, H!Status, M!Status, StatsInv, Statuses
<1>4. ASSUME NEW i \in StatsSlots, H!Answer(i) \/ M!Answer(i) PROVE StatsInv'
  <2>1. PICK new \in StatsCall : calls' = [calls EXCEPT ![i] = new]
    <3> DEFINE answered == [calls[i] EXCEPT !.pc = "answered", !.answer = IF calls[i].op = "devices" THEN server ELSE None]
               failed == [calls[i] EXCEPT !.pc = "failed"]
    <3>1. answered \in StatsCall /\ failed \in StatsCall
      BY DEF StatsInv, StatsCall, Progress
    <3>2. calls' = [calls EXCEPT ![i] = answered] \/ calls' = [calls EXCEPT ![i] = failed]
      BY <1>4 DEF H!Answer, M!Answer, H!Fails, M!Fails, StatsInv
    <3> HIDE DEF answered, failed
    <3> QED BY <3>1, <3>2
  <2>2. UNCHANGED <<server, view>>
    BY <1>4 DEF H!Answer, M!Answer, H!Fails, M!Fails
  <2> QED BY <2>1, <2>2 DEF StatsInv
<1>5. ASSUME NEW i \in StatsSlots, H!Continue(i) \/ M!Continue(i) PROVE StatsInv'
  <2>1. calls[i] \in StatsCall
    BY DEF StatsInv
  <2>2. H!Shown(calls[i]) \in StatsView /\ M!Shown(calls[i]) \in StatsView
    BY <2>1 DEF H!Shown, M!Shown, StatsInv, StatsView, StatsCall
  <2>3. H!Free \in StatsCall /\ M!Free \in StatsCall
    BY DEF H!Free, M!Free, StatsCall, Progress
  <2> QED BY <1>5, <2>2, <2>3 DEF H!Continue, M!Continue, H!Proceed, M!Proceed, StatsInv
<1> QED BY <1>1, <1>2, <1>3, <1>4, <1>5 DEF H!Next, M!Next, StatsSlots

LEMMA AlwaysStats == Spec => [](H!Here \/ M!Here => StatsInv)
<1> DEFINE Inv == H!Here \/ M!Here => StatsInv
<1>1. Init => Inv
  BY DEF Init, H!Here, M!Here
<1>2. Inv /\ [Next]_vars => Inv'
  <2> SUFFICES ASSUME Inv, [Next]_vars, page' = "/" \/ page' = "/metrics" PROVE StatsInv'
    BY DEF H!Here, M!Here
  <2>1. CASE Login
    BY <2>1, InitStats DEF Login, Mount
  <2>2. CASE UNCHANGED vars
    BY <2>2 DEF vars, H!Here, M!Here, StatsInv, StatsSlots
  <2>3. CASE (page = "/" /\ H!Next) \/ (page = "/metrics" /\ M!Next)
    BY <2>3, StatsSteps DEF H!Here, M!Here
  <2> QED BY <2>1, <2>2, <2>3, PageSteps
<1> QED BY <1>1, <1>2, PTL DEF Spec

-----------------------------------------------------------------------------
LEMMA AlwaysSomePage == Spec => [](page \in Path \cup {"login"} /\ (page = "login" => view = None))
<1> DEFINE Inv == page \in Path \cup {"login"} /\ (page = "login" => view = None)
<1>1. Init => Inv
  BY DEF Init
<1>2. Inv /\ [Next]_vars => Inv'
  BY PageSteps DEF Path, vars
<1> QED BY <1>1, <1>2, PTL DEF Spec

(* The state of whichever page is mounted keeps its types.                 *)
THEOREM TypeCorrect == Spec => []TypeOK
<1> DEFINE Invs == /\ page \in Path \cup {"login"} /\ (page = "login" => view = None)
                   /\ H!Here \/ M!Here => StatsInv
                   /\ D!Here => DeviceInv
                   /\ G!Here => GroupInv
                   /\ F!Here => FirmwareInv
                   /\ T!Here => TemplateInv
                   /\ O!Here => WizardInv /\ StrandedInv
<1>1. Invs => TypeOK
  <2> SUFFICES ASSUME Invs PROVE TypeOK
    OBVIOUS
  <2>1. H!Here => H!TypeOK
    BY DEF StatsInv, StatsView, Statuses, H!TypeOK, H!ServersAtMount, H!Status
  <2>2. M!Here => M!TypeOK
    BY DEF StatsInv, StatsView, Statuses, M!TypeOK, M!ServersAtMount, M!Status
  <2>3. D!Here => D!TypeOK
    BY DEF DeviceInv, DeviceTypes, DeviceView, DeviceDialog, DeviceFilter, DeviceCall, Progress, Complete,
           D!TypeOK, D!Slot, Slots
  <2>4. G!Here => G!TypeOK
    BY DEF GroupInv, GroupTypes, GroupView, SelectedWhenOpen, Proper, G!TypeOK, G!Slot, Slots
  <2>5. F!Here => F!TypeOK
    BY DEF FirmwareInv, FirmwareTypes, FirmwareServer, FirmwareView, FirmwareLists, ChosenWhenOpen, Addressed,
           F!TypeOK, F!Slot, Slots
  <2>6. T!Here => T!TypeOK
    BY DEF TemplateInv, TemplateTypes, TemplateView, TemplateCall, T!TypeOK, T!Slot, Slots
  <2>7. O!Here => O!TypeOK
    BY DEF WizardInv, WizardTypes, WizardServer, OneBusy, Busy, O!TypeOK, O!Slot
  <2> QED BY <2>1, <2>2, <2>3, <2>4, <2>5, <2>6, <2>7
          DEF TypeOK, Path, H!Here, M!Here, D!Here, G!Here, F!Here, T!Here, O!Here
<1> HIDE DEF Invs
<1>2. Spec => []Invs
  BY AlwaysSomePage, AlwaysStats, AlwaysDevices, AlwaysGroups, AlwaysFirmwares, AlwaysTemplates, AlwaysWizard, PTL
     DEF Invs
<1> QED BY <1>1, <1>2, PTL
=============================================================================
