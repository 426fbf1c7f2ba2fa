----------------------------- MODULE Provisioning -----------------------------
(***************************************************************************)
(* How a device comes to its owner, template and certificate.  Each        *)
(* operation of ProvisioningService loads a document, decides on what it   *)
(* has loaded, waits for another collection and saves: mongoose writes the *)
(* fields that differ from the loaded ones, whatever they hold by then.    *)
(* Operations that are refused (an exception before the first write)       *)
(* change nothing and are left out.                                        *)
(***************************************************************************)
EXTENDS Integers

CONSTANTS
    Device,       \* devices, each known by its deviceSerial
    Template,     \* provisioning templates that ever exist
    FirstTemplate,\* the one ensureDefaultTemplate creates
    Certificate,  \* certificates that are ever issued
    UserId,       \* what the controller passes as the id of the user
    ObjectId,     \* those that mongoose can cast to the type of ownerId
    Page,         \* bound: pages of the front end that show the devices
    Call,         \* bound: operations in progress
    MaxCalls,     \* bound: operations in all
    MaxToken,     \* bound: claim tokens ever generated
    DbFails,      \* whether a database operation may fail
    None          \* undefined

Status == {"unclaimed", "claimed", "provisioned", "revoked"}

ASSUME ProvisioningAssumption ==
    /\ FirstTemplate \in Template
    /\ MaxToken \in Nat
    /\ MaxCalls \in Nat
    /\ DbFails \in BOOLEAN
    /\ None \notin Device \cup Template \cup Certificate \cup UserId \cup Nat \cup Status

VARIABLES
    registered,   \* the devices of the collection
    db,           \* the provisioning fields of the documents
    template,     \* the templates
    certificate,  \* the certificates
    issued,       \* number of claim tokens generated so far
    lapsed,       \* how many of them have expired: the oldest first
    started,      \* number of operations started so far
    call,         \* the operations in progress
    row,          \* the device as each page shows it, and edits it
    handed,       \* history: <<d, t>>: token t was returned to device d
    raced,        \* history: tokens replaced from a stale copy
    hasty,        \* history: templates assigned during or after their deletion
    reattached,   \* history: devices given a certificate in or after revocation
    reopened      \* history: devices that have an owner put back to unclaimed

vars == <<registered, db, template, certificate, issued, lapsed, started, call, row,
          handed, raced, hasty, reattached, reopened>>
history == <<handed, raced, hasty, reattached, reopened>>

Token == 1 .. MaxToken
Field == {"status", "owner", "token", "template", "cert"}
NewDocument == [status |-> "unclaimed", owner |-> None, token |-> None,
                template |-> None, cert |-> None]

(* save writes the assignments that differ from the loaded document.       *)
Modified(doc, new) == [f \in {g \in DOMAIN new : new[g] # doc[g]} |-> new[f]]
Saved(doc, writes) == [f \in Field |-> IF f \in DOMAIN writes THEN writes[f] ELSE doc[f]]

(* claimTokenExpiry is seven days after the token was generated.           *)
Valid(t) == t # None /\ t > lapsed

Nothing == [f \in {} |-> None]
Idle == [op |-> "none", pc |-> "idle", dev |-> None, arg |-> None,
         writes |-> Nothing, stale |-> FALSE]
Busy(d) == {c \in Call : call[c].dev = d}

Init ==
    /\ registered = {}
    /\ db = [d \in Device |-> NewDocument]
    /\ template = [t \in Template |-> IF t = FirstTemplate THEN "default" ELSE "none"]
    /\ certificate = [x \in Certificate |-> "none"]
    /\ issued = 0
    /\ started = 0
    /\ lapsed = 0
    /\ call = [c \in Call |-> Idle]
    /\ row = [p \in Page |-> [d \in Device |-> Nothing]]
    /\ handed = {}
    /\ raced = {}
    /\ hasty = {}
    /\ reattached = {}
    /\ reopened = {}

Start(c, op, pc, d, arg, writes) ==
    /\ call[c] = Idle
    /\ started < MaxCalls
    /\ started' = started + 1
    /\ call' = [call EXCEPT ![c] =
                  [op |-> op, pc |-> pc, dev |-> d, arg |-> arg,
                   writes |-> writes, stale |-> FALSE]]

Goto(c, pc) == call' = [call EXCEPT ![c].pc = pc]
End(c) == call' = [call EXCEPT ![c] = Idle]

(* A document is written; whoever else has loaded it has an old copy.      *)
Write(d, writes) == db' = [db EXCEPT ![d] = Saved(@, writes)]
Outdated(d, others) ==
    [c \in Call |-> IF c \in others /\ call[c].dev = d
                      THEN [call[c] EXCEPT !.stale = TRUE] ELSE call[c]]

-----------------------------------------------------------------------------
(* Elsewhere in the backend: devices and certificates are created, a       *)
(* certificate is revoked or renewed, a client puts certificateId alone in *)
(* the device (no service does), templates are created and changed.        *)
Register(d) ==
    /\ d \notin registered
    /\ registered' = registered \cup {d}
    /\ UNCHANGED <<started, db, template, certificate, issued, lapsed, call, history, row>>

Lapse ==
    /\ lapsed < issued
    /\ lapsed' = lapsed + 1
    /\ UNCHANGED <<started, registered, db, template, certificate, issued, call, history, row>>

Issue(x) ==
    /\ certificate[x] = "none"
    /\ certificate' = [certificate EXCEPT ![x] = "active"]
    /\ UNCHANGED <<started, registered, db, template, issued, lapsed, call, history, row>>

RevokeCertificate(x) ==
    /\ certificate[x] = "active"
    /\ certificate' = [certificate EXCEPT ![x] = "revoked"]
    /\ UNCHANGED <<started, registered, db, template, issued, lapsed, call, history, row>>

InRevocation(d) ==
    db[d].status = "revoked" \/ \E c \in Busy(d) : call[c].op = "revoke"

Attach(d, x) ==
    /\ d \in registered
    /\ certificate[x] # "none"
    /\ Write(d, [cert |-> x])
    /\ call' = Outdated(d, Call)
    /\ reattached' = IF InRevocation(d) THEN reattached \cup {d} ELSE reattached
    /\ UNCHANGED <<started, registered, template, certificate, issued, lapsed, handed, raced, hasty, reopened, row>>

(* createTemplate and updateTemplate.  The unique index on the name makes  *)
(* the check before it redundant.                                          *)
PutTemplate(t) ==
    /\ template[t] # "deleted"
    /\ \E k \in {"plain", "default"} : template' = [template EXCEPT ![t] = k]
    /\ UNCHANGED <<started, registered, db, certificate, issued, lapsed, call, history, row>>

-----------------------------------------------------------------------------
(* handlePhoneHome of a serial that is not found.                          *)
PhoneHomeUnknown(c, d) ==
    /\ d \notin registered
    /\ issued < MaxToken
    /\ issued' = issued + 1
    /\ Start(c, "phoneHome", "creating", d, issued + 1, Nothing)
    /\ UNCHANGED <<registered, db, template, certificate, lapsed, history, row>>

(* The insert fails if the serial has been registered in the meantime.     *)
CreateDevice(c) ==
    LET d == call[c].dev IN
    /\ call[c].pc = "creating"
    /\ End(c)
    /\ \/ /\ d \notin registered
          /\ registered' = registered \cup {d}
          /\ db' = [db EXCEPT ![d].token = call[c].arg]
          /\ handed' = handed \cup {<<d, call[c].arg>>}
       \/ /\ d \in registered \/ DbFails
          /\ UNCHANGED <<registered, db, handed>>
    /\ UNCHANGED <<started, template, certificate, issued, lapsed, raced, hasty, reattached, reopened, row>>

(* handlePhoneHome of a known device: a new token only if there is none or *)
(* it has expired.  Fault for HandedTokenIsStored: a new one every time.   *)
KeepsToken_Never(d) == FALSE
KeepsToken(d) == Valid(db[d].token)

PhoneHome(c, d) ==
    /\ d \in registered
    /\ \/ /\ KeepsToken(d)
          /\ Start(c, "phoneHome", "saving", d, db[d].token, Nothing)
          /\ UNCHANGED issued
       \/ /\ ~ KeepsToken(d)
          /\ issued < MaxToken
          /\ issued' = issued + 1
          /\ Start(c, "phoneHome", "saving", d, issued + 1, [token |-> issued + 1])
    /\ UNCHANGED <<registered, db, template, certificate, lapsed, history, row>>

-----------------------------------------------------------------------------
(* claimDevice with the token the device was given: token, expiry and      *)
(* status are checked on the loaded copy.  Fault for                       *)
(* ClaimOverridesOnlyByRace: no check of the status.                       *)
MayClaim_AnyStatus(d) == <<d, db[d].token>> \in handed /\ Valid(db[d].token)
MayClaim(d) ==
    /\ <<d, db[d].token>> \in handed
    /\ Valid(db[d].token)
    /\ db[d].status = "unclaimed"

Claim(c, d, u) ==
    /\ d \in registered
    /\ MayClaim(d)
    /\ Start(c, "claim", "default", d, db[d].template,
             Modified(db[d], [status |-> "claimed", owner |-> u]))
    /\ UNCHANGED <<registered, db, template, certificate, issued, lapsed, history, row>>

With(c, f, v) ==
    [g \in DOMAIN call[c].writes \cup {f} |-> IF g = f THEN v ELSE call[c].writes[g]]

(* Some default template, if there is one, becomes that of the device.     *)
(* Fault for TypeOK: assigned without a look at what was found.            *)
Defaults == {t \in Template : template[t] = "default"}
DefaultFound_Unchecked == IF Defaults = {} THEN {None} ELSE Defaults
DefaultFound == Defaults

FindDefault(c) ==
    /\ call[c].pc = "default"
    /\ \/ \E t \in DefaultFound \ {call[c].arg} :
            call' = [call EXCEPT ![c].pc = "saving", ![c].writes = With(c, "template", t)]
       \/ /\ DefaultFound = {} \/ call[c].arg \in DefaultFound
          /\ Goto(c, "saving")
    /\ UNCHANGED <<started, registered, db, template, certificate, issued, lapsed, history, row>>

(* applyTemplate.                                                          *)
Apply(c, d, t) ==
    /\ d \in registered
    /\ Start(c, "apply", "template", d, t, Modified(db[d], [template |-> t]))
    /\ UNCHANGED <<registered, db, template, certificate, issued, lapsed, history, row>>

FindTemplate(c) ==
    /\ call[c].pc = "template"
    /\ IF template[call[c].arg] \in {"plain", "default"} THEN Goto(c, "saving") ELSE End(c)
    /\ UNCHANGED <<started, registered, db, template, certificate, issued, lapsed, history, row>>

(* completeProvisioning, of a device in any status.  Fault for             *)
(* ProvisionedIsEquipped: no check of the certificate.                     *)
MayComplete_NoCertificate(d) == db[d].template # None
MayComplete(d) == db[d].template # None /\ db[d].cert # None

Complete(c, d) ==
    /\ d \in registered
    /\ MayComplete(d)
    /\ Start(c, "complete", "saving", d, None, Modified(db[d], [status |-> "provisioned"]))
    /\ UNCHANGED <<registered, db, template, certificate, issued, lapsed, history, row>>

(* revokeDevice: first the certificate, if it has one, then the device.    *)
(* Fault for RevokedHasNoActiveCertificate: the certificate is kept.       *)
NextOfRevoke_Keep(d) == "saving"
NextOfRevoke(d) == IF db[d].cert = None THEN "saving" ELSE "certificate"

Revoke(c, d) ==
    /\ d \in registered
    /\ Start(c, "revoke", NextOfRevoke(d), d, db[d].cert,
             Modified(db[d], [status |-> "revoked"]))
    /\ UNCHANGED <<registered, db, template, certificate, issued, lapsed, history, row>>

RevokeIts(c) ==
    /\ call[c].pc = "certificate"
    /\ \/ /\ certificate' = [certificate EXCEPT ![call[c].arg] = "revoked"]
          /\ Goto(c, "saving")
       \/ /\ DbFails
          /\ End(c)
          /\ UNCHANGED certificate
    /\ UNCHANGED <<started, registered, db, template, issued, lapsed, history, row>>

(* The save that ends each of these operations.  Validation rejects an     *)
(* owner that is no ObjectId.                                              *)
Castable(writes) == "owner" \in DOMAIN writes => writes.owner \in ObjectId

BeingDeleted == {call[c].arg : c \in {e \in Call : call[e].op = "delete"}}
Assigns(c, t) == /\ call[c].pc = "saving"
                 /\ "template" \in DOMAIN call[c].writes
                 /\ call[c].writes["template"] = t

Save(c) ==
    LET d == call[c].dev
        w == call[c].writes
        old == db[d].token IN
    /\ call[c].pc = "saving"
    /\ \/ /\ Castable(w)
          /\ Write(d, w)
          /\ call' = [Outdated(d, Call \ {c}) EXCEPT ![c] = Idle]
          /\ handed' = IF call[c].op = "phoneHome" THEN handed \cup {<<d, call[c].arg>>}
                                                   ELSE handed
          /\ raced' = IF "token" \in DOMAIN w /\ call[c].stale THEN raced \cup ({old} \ {None})
                                                                ELSE raced
          /\ hasty' = hasty \cup {t \in BeingDeleted : Assigns(c, t)}
          /\ reattached' = IF call[c].op = "revoke" /\ ~ call[c].stale THEN reattached \ {d}
                                                                       ELSE reattached
          /\ reopened' = IF call[c].op = "claim" THEN reopened \ {d} ELSE reopened
       \/ /\ ~ Castable(w) \/ DbFails
          /\ End(c)
          /\ UNCHANGED <<db, history>>
    /\ UNCHANGED <<started, registered, template, certificate, issued, lapsed, row>>

-----------------------------------------------------------------------------
(* deleteTemplate: count the devices, look at the template, delete it.     *)
(* Fault for DanglingHasCause: no count.                                   *)
InUse_NotCounted(t) == FALSE
InUse(t) == \E d \in registered : db[d].template = t

Delete(c, t) ==
    /\ template[t] \in {"plain", "default"}
    /\ ~ InUse(t)
    /\ Start(c, "delete", "counted", None, t, Nothing)
    /\ UNCHANGED <<registered, db, template, certificate, issued, lapsed, history, row>>

LookAtDefault(c) ==
    /\ call[c].pc = "counted"
    /\ IF template[call[c].arg] = "default" THEN End(c) ELSE Goto(c, "deleting")
    /\ UNCHANGED <<started, registered, db, template, certificate, issued, lapsed, history, row>>

DeleteOne(c) ==
    LET t == call[c].arg IN
    /\ call[c].pc = "deleting"
    /\ \/ /\ template' = [template EXCEPT ![t] = "deleted"]
          /\ hasty' = IF \E e \in Call : Assigns(e, t) THEN hasty \cup {t} ELSE hasty
       \/ DbFails /\ UNCHANGED <<template, hasty>>
    /\ End(c)
    /\ UNCHANGED <<started, registered, db, certificate, issued, lapsed, handed, raced, reattached, reopened, row>>

-----------------------------------------------------------------------------
(* The device page.  It lists the devices and loads them again now and     *)
(* then; the edit form starts from a copy of the row and puts the whole of *)
(* it, the fields it does not show included.  A field that was undefined   *)
(* is not in the row, so it is not written; the answer becomes the row.    *)
(* Putting a row that is up to date changes nothing and is left out.       *)
Row(doc) == [f \in {g \in Field : doc[g] # None} |-> doc[f]]

LoadRow(p, d) ==
    /\ d \in registered
    /\ row' = [row EXCEPT ![p][d] = Row(db[d])]
    /\ UNCHANGED <<registered, db, template, certificate, issued, lapsed, started, call, history>>

Deleted == {t \in Template : template[t] = "deleted"}
PutRow(p, d) ==
    LET old == db[d]
        new == Saved(old, row[p][d]) IN
    /\ d \in registered
    /\ new # old
    /\ Write(d, row[p][d])
    /\ call' = Outdated(d, Call)
    /\ row' = [row EXCEPT ![p][d] = Row(new)]
    /\ raced' = IF new.token # old.token THEN raced \cup ({old.token} \ {None}) ELSE raced
    /\ hasty' = IF new.template # old.template
                  THEN hasty \cup ({new.template} \cap (BeingDeleted \cup Deleted)) ELSE hasty
    /\ reattached' = IF \/ new.cert # old.cert /\ InRevocation(d)
                        \/ new.status = "revoked" /\ new.status # old.status
                       THEN reattached \cup {d} ELSE reattached
    /\ reopened' = IF new.status = "unclaimed" /\ new.owner # None
                     THEN reopened \cup {d} ELSE reopened
    /\ UNCHANGED <<registered, template, certificate, issued, lapsed, started, handed>>

Elsewhere ==
    \/ \E d \in Device : Register(d) \/ \E x \in Certificate : Attach(d, x)
    \/ Lapse
    \/ \E x \in Certificate : Issue(x) \/ RevokeCertificate(x)
    \/ \E t \in Template : PutTemplate(t)

DeviceCall(c, d) ==
    \/ PhoneHomeUnknown(c, d) \/ PhoneHome(c, d)
    \/ \E u \in UserId : Claim(c, d, u)
    \/ \E t \in Template : Apply(c, d, t)
    \/ Complete(c, d) \/ Revoke(c, d)

Continue(c) ==
    \/ CreateDevice(c) \/ FindDefault(c) \/ FindTemplate(c) \/ RevokeIts(c)
    \/ Save(c) \/ LookAtDefault(c) \/ DeleteOne(c)

Operation(c) ==
    \/ \E d \in Device : DeviceCall(c, d)
    \/ \E t \in Template : Delete(c, t)
    \/ Continue(c)

Next ==
    \/ Elsewhere
    \/ \E p \in Page, d \in Device : LoadRow(p, d) \/ PutRow(p, d)
    \/ \E c \in Call : Operation(c)

Spec == Init /\ [][Next]_vars

-----------------------------------------------------------------------------
Document == [status : Status, owner : UserId \cup {None}, token : Token \cup {None},
             template : Template \cup {None}, cert : Certificate \cup {None}]
Values == [status |-> Status, owner |-> UserId, token |-> Token,
           template |-> Template, cert |-> Certificate]
Arguments == [none |-> {None}, phoneHome |-> Token, claim |-> Template \cup {None},
              apply |-> Template, complete |-> {None},
              revoke |-> Certificate \cup {None}, delete |-> Template]

TypeOK ==
    /\ registered \subseteq Device
    /\ db \in [Device -> Document]
    /\ template \in [Template -> {"none", "plain", "default", "deleted"}]
    /\ certificate \in [Certificate -> {"none", "active", "revoked"}]
    /\ issued \in 0 .. MaxToken
    /\ started \in 0 .. MaxCalls
    /\ lapsed \in 0 .. issued
    /\ \A c \in Call :
         /\ call[c].op \in DOMAIN Arguments
         /\ call[c].dev \in Device \cup {None}
         /\ call[c].arg \in Arguments[call[c].op]
         /\ DOMAIN call[c].writes \subseteq Field
         /\ \A f \in DOMAIN call[c].writes : call[c].writes[f] \in Values[f]
         /\ call[c].stale \in BOOLEAN
    /\ DOMAIN row = Page
    /\ \A p \in Page : DOMAIN row[p] = Device
    /\ \A p \in Page, d \in Device :
         /\ DOMAIN row[p][d] \subseteq Field
         /\ \A f \in DOMAIN row[p][d] : row[p][d][f] \in Values[f]
    /\ handed \subseteq Device \X Token
    /\ raced \subseteq Token
    /\ hasty \subseteq Template
    /\ reattached \subseteq Device
    /\ reopened \subseteq Device

(* A token that a device was given, and that has not expired, is the one   *)
(* that a claim is compared with, unless two calls generated one each from *)
(* the same copy (lines 89-98) or a row with an older one was put back     *)
(* over it (Devices.js:189).                                               *)
HandedTokenIsStored ==
    \A h \in handed : Valid(h[2]) /\ h[2] \notin raced => db[h[1]].token = h[2]

(* An owner is replaced, or a provisioning or revocation taken back for a  *)
(* claim, only by a claim that had loaded the device before that was       *)
(* stored (line 131 is checked on a copy), by an out-of-date row that is   *)
(* put, or after such a row had made the device unclaimed beside its owner.*)
Claimed(d) == \/ db'[d].owner # db[d].owner
              \/ db'[d].status = "claimed" /\ db[d].status # "claimed"
ClaimOverridesOnlyByRace ==
    [][\A d \in Device :
          Claimed(d) /\ (db[d].owner # None \/ db[d].status # "unclaimed") =>
              \/ \E c \in Call : call[c].op = "claim" /\ call[c].dev = d /\ call[c].stale
              \/ \E p \in Page : PutRow(p, d)
              \/ d \in reopened]_vars

(* The template of a device exists, unless it was assigned while it was    *)
(* being deleted (lines 272-289 against 139-145 and 158-166), or then or   *)
(* later came back with a row (Devices.js:189).                            *)
DanglingHasCause ==
    \A d \in registered :
        db[d].template # None /\ template[db[d].template] = "deleted" =>
            db[d].template \in hasty

(* A device is revoked only with its certificate, unless the client gave   *)
(* it another one during or after the revocation, or revoked it by putting *)
(* an old row back: a failure between lines 208 and 211 leaves the         *)
(* certificate revoked, never the device alone.                            *)
RevokedHasNoActiveCertificate ==
    \A d \in registered :
        db[d].status = "revoked" /\ db[d].cert # None =>
            certificate[db[d].cert] = "revoked" \/ d \in reattached

(* However the operations were interleaved, a provisioned device has a     *)
(* template and a certificate (lines 179-186).                             *)
ProvisionedIsEquipped ==
    \A d \in registered :
        db[d].status = "provisioned" => db[d].template # None /\ db[d].cert # None

(* provisioning.controller.ts:58, "Device claimed successfully": a claim   *)
(* that has passed every check is not turned down by the save.             *)
CheckedClaimSucceeds ==
    [][\A c \in Call :
          call[c].op = "claim" /\ call[c].pc = "saving" /\ call'[c] = Idle =>
              db'[call[c].dev].status = "claimed"]_vars
=============================================================================
