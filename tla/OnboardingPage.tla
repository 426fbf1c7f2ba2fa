----------------------------- MODULE OnboardingPage -----------------------------
(***************************************************************************)
(* The page "/device-onboarding" of the web frontend: a wizard of five     *)
(* steps (claim, template, certificate, completion, done).  Each handler   *)
(* moves to the step after its own when its call has succeeded; "Back"     *)
(* moves one step back, also while a call is outstanding.                  *)
(***************************************************************************)
EXTENDS PageHandlers

CONSTANTS
    Device,       \* devices that have phoned home
    Template      \* ids of templates

(* The provisioning state of a device document; certificate says whether   *)
(* it has a certificateId.                                                 *)
Document == [status : {"unclaimed", "claimed", "provisioned"}, template : Template \cup {None},
             certificate : BOOLEAN]
Documents == [Device -> Document \cup {None}]

Free == [pc |-> "free", op |-> "none", device |-> None, template |-> None]
Call(op, device, template) == [pc |-> "sent", op |-> op, device |-> device, template |-> template]

(* The backend: the devices, the default template if it has one, the       *)
(* devices that certificates were issued for, and whether requests carry   *)
(* the id of a user.  Nothing in the backend gives them one: a claim is    *)
(* then made for a placeholder, which cannot be cast to ownerId.           *)
New == [status |-> "unclaimed", template |-> None, certificate |-> FALSE]
ServersAtMount ==
    {[devices |-> [d \in Device |-> New], default |-> t, issued |-> {}, identified |-> b] :
        t \in Template \cup {None}, b \in BOOLEAN}
(* typed: the serial number and token of a device, as typed in at step 1.  *)
ViewAtMount == [step |-> 1, typed |-> None, templates |-> {}, template |-> None, device |-> None,
                loading |-> FALSE]
CallsAtMount == [[i \in Slot |-> Free] EXCEPT ![1] = Call("fetch", None, None)]
History == [clicks |-> 0, faults |-> 0, overlap |-> FALSE, left |-> {}]

Init ==
    /\ page = Path
    /\ server \in ServersAtMount
    /\ view = ViewAtMount
    /\ calls = CallsAtMount
    /\ past = History

-----------------------------------------------------------------------------
Type(d) == view.step = 1 /\ Show([view EXCEPT !.typed = d])
SelectTemplate(t) ==
    /\ view.step = 2
    /\ t \in view.templates
    /\ Show([view EXCEPT !.template = t])

(* The panels of the steps, when their buttons are enabled.                *)
Panel(step) == view.step = step /\ ~ view.loading
ClaimPanel == Panel(1) /\ view.typed # None
TemplatePanel == Panel(2) /\ view.template # None
CertificatePanel == Panel(3)
CompletionPanel == Panel(4)

ClaimDevice(i) == ClaimPanel /\ Start(i, Call("claim", view.typed, None), view)
ApplyTemplate(i) == TemplatePanel /\ Start(i, Call("apply", view.device, view.template), view)
GenerateCertificate(i) == CertificatePanel /\ Start(i, Call("certificate", view.device, None), view)
CompleteProvisioning(i) == CompletionPanel /\ Start(i, Call("complete", view.device, None), view)

Back ==
    /\ view.step \in {2, 3, 4}
    /\ Show([view EXCEPT !.step = @ - 1])

(* Fault for StrandedHasCause: the button is there at every step.          *)
OnboardAnother_AnyStep == Show([view EXCEPT !.step = 1, !.typed = None, !.device = None])

OnboardAnother ==
    /\ view.step = 5
    /\ Show([view EXCEPT !.step = 1, !.typed = None, !.device = None])

-----------------------------------------------------------------------------
(* The backend.  A certificate is issued for whatever id it is asked for,  *)
(* and its id is not stored in the device, which no completion can do      *)
(* without.                                                                *)
MayClaim(document) == document.status = "unclaimed" /\ server.identified
MayComplete(document) == document.template # None /\ document.certificate

Refused(c) ==
    LET document == server.devices[c.device] IN
    \/ c.op \in {"claim", "apply", "complete"} /\ document = None
    \/ c.op = "claim" /\ document # None /\ ~ MayClaim(document)
    \/ c.op = "complete" /\ document # None /\ ~ MayComplete(document)

Issued(d) == [server EXCEPT !.issued = @ \cup {d}]

(* A claim assigns the default template.                                   *)
Executed(c) ==
    CASE c.op = "claim" -> [server EXCEPT !.devices[c.device].status = "claimed", !.devices[c.device].template = server.default]
      [] c.op = "apply" -> [server EXCEPT !.devices[c.device].template = c.template]
      [] c.op = "certificate" -> Issued(c.device)
      [] c.op = "complete" -> [server EXCEPT !.devices[c.device].status = "provisioned"]
      [] OTHER -> server

Answer(i) ==
    LET c == calls[i] IN
    /\ Here
    /\ c.pc = "sent"
    /\ \/ /\ ~ Refused(c)
          /\ server' = Executed(c)
          /\ calls' = [calls EXCEPT ![i].pc = "answered"]
          /\ UNCHANGED past
       \/ Fails(i, Refused(c))
    /\ UNCHANGED <<page, view>>

(* A call is executed and its answer is lost.                              *)
LostAnswer(i) ==
    LET c == calls[i] IN
    /\ Here
    /\ past.faults < MaxFaults
    /\ c.pc = "sent" /\ ~ Refused(c)
    /\ server' = Executed(c)
    /\ calls' = [calls EXCEPT ![i].pc = "failed"]
    /\ past' = [past EXCEPT !.faults = @ + 1]
    /\ UNCHANGED <<page, view>>

DeletedElsewhere(d) == server.devices[d] # None /\ Elsewhere([server EXCEPT !.devices[d] = None])

(* Another client stores a certificateId in the device.                    *)
StoredElsewhere(d) == server.devices[d] # None /\ Elsewhere([server EXCEPT !.devices[d].certificate = TRUE])

(* Fault for StepIsBacked: the step is advanced outside the try block.     *)
StepAfter_Always(c) ==
    CASE c.op = "claim" -> 2 [] c.op = "apply" -> 3 [] c.op = "certificate" -> 4
      [] c.op = "complete" -> 5 [] OTHER -> view.step

StepAfter(c) ==
    IF c.pc = "failed" THEN view.step
    ELSE CASE c.op = "claim" -> 2 [] c.op = "apply" -> 3 [] c.op = "certificate" -> 4
      [] c.op = "complete" -> 5 [] OTHER -> view.step

(* The continuation; no default template, none selected.                   *)
Shown(c) ==
    IF c.op = "fetch"
    THEN IF c.pc = "failed" THEN view ELSE [view EXCEPT !.templates = Template, !.template = server.default]
    ELSE [view EXCEPT !.step = StepAfter(c), !.loading = FALSE,
                               !.device = IF c.op # "certificate" /\ c.pc = "answered" THEN c.device ELSE @]

(* A claim that leaves the device of the wizard: it gave that one up.      *)
Continue(i) ==
    /\ Here
    /\ calls[i].pc \in {"answered", "failed"}
    /\ view' = Shown(calls[i])
    /\ calls' = [calls EXCEPT ![i] = Free]
    /\ past' = [past EXCEPT !.left = IF view'.device # view.device THEN @ \cup ({view.device} \ {None}) ELSE @]
    /\ UNCHANGED <<page, server>>

Next == Here /\
    \/ Back \/ OnboardAnother
    \/ \E d \in Device : Type(d) \/ DeletedElsewhere(d) \/ StoredElsewhere(d)
    \/ \E t \in Template : SelectTemplate(t)
    \/ \E i \in Slot :
          \/ ClaimDevice(i) \/ ApplyTemplate(i) \/ GenerateCertificate(i) \/ CompleteProvisioning(i)
          \/ Answer(i) \/ LostAnswer(i) \/ Continue(i)

Spec == Init /\ [][Next]_vars

-----------------------------------------------------------------------------
TypeOK ==
    /\ server.devices \in Documents /\ server.default \in Template \cup {None}
    /\ server.issued \subseteq Device /\ server.identified \in BOOLEAN
    /\ view.step \in 1 .. 5
    /\ view.typed \in Device \cup {None} /\ view.device \in Device \cup {None}
    /\ view.templates \subseteq Template /\ view.template \in Template \cup {None}

(* What a step of the wizard takes for done has been done, for the device  *)
(* that the wizard is about: also when the user goes back while a call is  *)
(* outstanding, when calls fail and when answers are lost.  The first step *)
(* is not passed without a user's id.                                      *)
StepIsBacked == Here =>
    /\ view.step > 1 => view.device # None /\ server.identified
    /\ view.step > 3 => view.device \in server.issued
    /\ \A d \in Device \cap {view.device} : server.devices[d] # None =>
        /\ view.step > 1 => server.devices[d].status # "unclaimed"
        /\ view.step > 2 => server.devices[d].template # None
        /\ view.step > 4 => server.devices[d].status = "provisioned"

(* A device that has been claimed and not provisioned stays so unless      *)
(* another client stores a certificateId in it: a device is provisioned    *)
(* only after a fault.  The wizard holds on to it, or is about to, unless  *)
(* the answer to its claim was lost or the user went back and claimed      *)
(* another one: such a device cannot be taken up again, for the wizard     *)
(* starts with a claim and that is refused.                                *)
StrandedHasCause == Here => \A d \in Device : server.devices[d] # None =>
    /\ server.devices[d].status = "claimed" =>
        \/ view.device = d
        \/ \E i \in Slot : calls[i].op = "claim" /\ calls[i].device = d
        \/ past.faults > 0 \/ d \in past.left
    /\ server.devices[d].status = "provisioned" => past.faults > 0 /\ d \in server.issued
=============================================================================
