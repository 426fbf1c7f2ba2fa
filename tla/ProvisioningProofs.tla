-------------------------- MODULE ProvisioningProofs --------------------------
(* Theorems about Provisioning, for any devices, templates, certificates,  *)
(* users, tokens and number of operations in progress.                     *)
EXTENDS Provisioning, TLAPS

(* What an operation in progress may look like.                            *)
CallField == {"op", "pc", "dev", "arg", "writes", "stale"}

OnlyWrites(w, fields) == DOMAIN w \subseteq fields

NoneOK(r) ==
    /\ r.op = "none" /\ r.pc = "idle" /\ r.dev = None /\ r.arg = None
    /\ DOMAIN r.writes = {} /\ r.stale = FALSE
PhoneHomeOK(r) ==
    /\ r.op = "phoneHome" /\ r.pc \in {"creating", "saving"}
    /\ r.dev \in Device /\ r.arg \in Token /\ OnlyWrites(r.writes, {"token"})
    /\ "token" \in DOMAIN r.writes => r.writes["token"] = r.arg
ClaimOK(r) ==
    /\ r.op = "claim" /\ r.pc \in {"default", "saving"}
    /\ r.dev \in Device /\ r.arg \in Template \cup {None}
    /\ OnlyWrites(r.writes, {"status", "owner", "template"})
    /\ "status" \in DOMAIN r.writes /\ r.writes["status"] = "claimed"
    /\ "owner" \in DOMAIN r.writes => r.writes["owner"] \in UserId
    /\ "template" \in DOMAIN r.writes => r.writes["template"] \in Template /\ r.pc = "saving"
ApplyOK(r) ==
    /\ r.op = "apply" /\ r.pc \in {"template", "saving"}
    /\ r.dev \in Device /\ r.arg \in Template /\ OnlyWrites(r.writes, {"template"})
    /\ "template" \in DOMAIN r.writes => r.writes["template"] = r.arg
CompleteOK(r) ==
    /\ r.op = "complete" /\ r.pc = "saving"
    /\ r.dev \in Device /\ r.arg = None /\ OnlyWrites(r.writes, {"status"})
    /\ "status" \in DOMAIN r.writes => r.writes["status"] = "provisioned"
RevokeOK(r) ==
    /\ r.op = "revoke" /\ r.pc \in {"certificate", "saving"}
    /\ r.dev \in Device /\ r.arg \in Certificate \cup {None}
    /\ r.pc = "certificate" => r.arg # None
    /\ OnlyWrites(r.writes, {"status"})
    /\ "status" \in DOMAIN r.writes => r.writes["status"] = "revoked"
DeleteOK(r) ==
    /\ r.op = "delete" /\ r.pc \in {"counted", "deleting"}
    /\ r.dev = None /\ r.arg \in Template /\ DOMAIN r.writes = {}

CallOK(r) ==
    /\ DOMAIN r = CallField
    /\ r.stale \in BOOLEAN
    /\ \/ NoneOK(r) \/ PhoneHomeOK(r) \/ ClaimOK(r) \/ ApplyOK(r)
       \/ CompleteOK(r) \/ RevokeOK(r) \/ DeleteOK(r)

Calls == DOMAIN call = Call /\ \A c \in Call : CallOK(call[c])

-----------------------------------------------------------------------------
(* The operators on documents.                                             *)
LEMMA ModifiedFacts ==
  ASSUME NEW doc, NEW new
  PROVE  /\ DOMAIN Modified(doc, new) = {g \in DOMAIN new : new[g] # doc[g]}
         /\ \A f \in DOMAIN Modified(doc, new) : Modified(doc, new)[f] = new[f]
  BY DEF Modified

LEMMA ModifiedStatus ==
  ASSUME NEW doc, NEW x
  PROVE  LET w == Modified(doc, [status |-> x]) IN
         /\ OnlyWrites(w, {"status"})
         /\ "status" \in DOMAIN w => w["status"] = x
         /\ doc["status"] # x => "status" \in DOMAIN w
  BY DEF Modified, OnlyWrites

LEMMA ModifiedTemplate ==
  ASSUME NEW doc, NEW x
  PROVE  LET w == Modified(doc, [template |-> x]) IN
         /\ OnlyWrites(w, {"template"})
         /\ "template" \in DOMAIN w => w["template"] = x
  BY DEF Modified, OnlyWrites

LEMMA ModifiedClaim ==
  ASSUME NEW doc, NEW u, doc["status"] = "unclaimed"
  PROVE  LET w == Modified(doc, [status |-> "claimed", owner |-> u]) IN
         /\ OnlyWrites(w, {"status", "owner"})
         /\ "status" \in DOMAIN w /\ w["status"] = "claimed"
         /\ "owner" \in DOMAIN w => w["owner"] = u
  BY DEF Modified, OnlyWrites

LEMMA SavedFields ==
  ASSUME NEW doc, NEW w
  PROVE  /\ DOMAIN Saved(doc, w) = Field
         /\ \A f \in Field : Saved(doc, w)[f] = IF f \in DOMAIN w THEN w[f] ELSE doc[f]
  BY DEF Saved

LEMMA DocumentFields ==
  ASSUME NEW doc
  PROVE  doc \in Document <=>
           /\ doc = [f \in Field |-> doc[f]]
           /\ doc["status"] \in Status
           /\ doc["owner"] \in UserId \cup {None}
           /\ doc["token"] \in Token \cup {None}
           /\ doc["template"] \in Template \cup {None}
           /\ doc["cert"] \in Certificate \cup {None}
  BY DEF Document, Field

LEMMA ValuesFields ==
  /\ Values["status"] = Status /\ Values["owner"] = UserId /\ Values["token"] = Token
  /\ Values["template"] = Template /\ Values["cert"] = Certificate
  BY DEF Values

LEMMA SavedType ==
  ASSUME NEW doc \in Document, NEW w, DOMAIN w \subseteq Field,
         \A f \in DOMAIN w : w[f] \in Values[f]
  PROVE  Saved(doc, w) \in Document
<1> DEFINE new == Saved(doc, w)
<1>1. new = [f \in Field |-> new[f]]
  BY DEF Saved
<1>2. \A f \in Field : new[f] = doc[f] \/ (f \in DOMAIN w /\ new[f] = w[f])
  BY SavedFields
<1>3. /\ new["status"] \in Status
      /\ new["owner"] \in UserId \cup {None}
      /\ new["token"] \in Token \cup {None}
      /\ new["template"] \in Template \cup {None}
      /\ new["cert"] \in Certificate \cup {None}
  BY <1>2, DocumentFields, ValuesFields DEF Field
<1>4. new \in Document
  <2> HIDE DEF new
  <2> QED BY <1>1, <1>3, DocumentFields
<1> QED BY <1>4

-----------------------------------------------------------------------------
(* What the operators that step an operation make of it.                   *)
Record(r, op, pc, d, arg, w) ==
    /\ DOMAIN r = CallField
    /\ r.op = op /\ r.pc = pc /\ r.dev = d /\ r.arg = arg /\ r.writes = w /\ r.stale = FALSE

(* Only operation c is changed.                                            *)
Only(c) == DOMAIN call' = Call /\ \A e \in Call \ {c} : call'[e] = call[e]

LEMMA OnlyCalls ==
  ASSUME Calls, NEW c \in Call, Only(c), CallOK(call'[c])
  PROVE  Calls'
  BY DEF Calls, Only

LEMMA StartEffect ==
  ASSUME Calls, NEW c \in Call, NEW op, NEW pc, NEW d, NEW arg, NEW w,
         Start(c, op, pc, d, arg, w)
  PROVE  call[c] = Idle /\ Record(call'[c], op, pc, d, arg, w) /\ Only(c)
<1>1. call'[c] = [op |-> op, pc |-> pc, dev |-> d, arg |-> arg, writes |-> w, stale |-> FALSE]
  BY DEF Start, Calls
<1> QED BY <1>1 DEF Start, Calls, CallField, Record, Only

LEMMA GotoEffect ==
  ASSUME Calls, NEW c \in Call, NEW pc, Goto(c, pc)
  PROVE  /\ Only(c) /\ DOMAIN call'[c] = CallField
         /\ call'[c].pc = pc
         /\ call'[c].op = call[c].op /\ call'[c].dev = call[c].dev
         /\ call'[c].arg = call[c].arg /\ call'[c].writes = call[c].writes
         /\ call'[c].stale = call[c].stale
<1>1. DOMAIN call[c] = CallField
  BY DEF Calls, CallOK
<1> QED BY <1>1 DEF Goto, Calls, CallField, Only

LEMMA IdleOK == CallOK(Idle) /\ NoneOK(Idle)
  BY DEF Idle, CallOK, NoneOK, CallField, Nothing

LEMMA EndEffect ==
  ASSUME Calls, NEW c \in Call, End(c)
  PROVE  call'[c] = Idle /\ Only(c) /\ Calls'
<1>1. call'[c] = Idle /\ Only(c)
  BY DEF End, Calls, Only
<1> QED BY <1>1, IdleOK, OnlyCalls

(* Copies of a document that becomes outdated are only marked.             *)
Marked(r, s) ==
    /\ DOMAIN s = DOMAIN r
    /\ s.op = r.op /\ s.pc = r.pc /\ s.dev = r.dev /\ s.arg = r.arg /\ s.writes = r.writes
    /\ s.stale \in BOOLEAN /\ (r.stale = TRUE => s.stale = TRUE)

LEMMA OutdatedEffect ==
  ASSUME Calls, NEW d, NEW C \in SUBSET Call
  PROVE  /\ DOMAIN Outdated(d, C) = Call
         /\ \A e \in Call : Marked(call[e], Outdated(d, C)[e])
         /\ \A e \in C : call[e].dev = d => Outdated(d, C)[e].stale = TRUE
         /\ \A e \in Call : call[e].dev # d => Outdated(d, C)[e] = call[e]
<1> SUFFICES ASSUME NEW e \in Call
             PROVE  /\ Marked(call[e], Outdated(d, C)[e])
                    /\ e \in C /\ call[e].dev = d => Outdated(d, C)[e].stale = TRUE
                    /\ call[e].dev # d => Outdated(d, C)[e] = call[e]
  BY DEF Outdated
<1>1. DOMAIN call[e] = CallField /\ call[e].stale \in BOOLEAN
  BY DEF Calls, CallOK
<1>2. Outdated(d, C)[e] = IF e \in C /\ call[e].dev = d
                            THEN [call[e] EXCEPT !.stale = TRUE] ELSE call[e]
  BY DEF Outdated
<1> QED BY <1>1, <1>2 DEF Marked, CallField

LEMMA MarkedOK ==
  ASSUME NEW r, NEW s, CallOK(r), r.op # "none", Marked(r, s)
  PROVE  CallOK(s)
<1> USE DEF Marked, CallOK
<1>1. PhoneHomeOK(r) => PhoneHomeOK(s)
  BY DEF PhoneHomeOK
<1>2. ClaimOK(r) => ClaimOK(s)
  BY DEF ClaimOK
<1>3. ApplyOK(r) => ApplyOK(s)
  BY DEF ApplyOK
<1>4. CompleteOK(r) => CompleteOK(s)
  BY DEF CompleteOK
<1>5. RevokeOK(r) => RevokeOK(s)
  BY DEF RevokeOK
<1>6. DeleteOK(r) => DeleteOK(s)
  BY DEF DeleteOK
<1> QED BY <1>1, <1>2, <1>3, <1>4, <1>5, <1>6 DEF NoneOK

LEMMA OutdatedCalls ==
  ASSUME Calls, NEW d \in Device, NEW C \in SUBSET Call
  PROVE  /\ DOMAIN Outdated(d, C) = Call
         /\ \A e \in Call : CallOK(Outdated(d, C)[e])
<1> SUFFICES ASSUME NEW e \in Call PROVE CallOK(Outdated(d, C)[e])
  BY OutdatedEffect
<1>1. CallOK(call[e])
  BY DEF Calls
<1>2. CASE call[e].op = "none"
  <2>1. call[e].dev = None
    BY <1>1, <1>2 DEF CallOK, NoneOK, PhoneHomeOK, ClaimOK, ApplyOK, CompleteOK, RevokeOK, DeleteOK
  <2>2. call[e].dev # d
    BY <2>1, ProvisioningAssumption
  <2> QED BY <1>1, <2>2, OutdatedEffect
<1>3. CASE call[e].op # "none"
  BY <1>1, <1>3, OutdatedEffect, MarkedOK
<1> QED BY <1>2, <1>3

(* A save marks the other copies of the document and ends its operation.   *)
LEMMA SaveEffect ==
  ASSUME Calls, NEW c \in Call, NEW d \in Device,
         call' = [Outdated(d, Call \ {c}) EXCEPT ![c] = Idle]
  PROVE  /\ Calls'
         /\ call'[c] = Idle
         /\ \A e \in Call \ {c} : /\ Marked(call[e], call'[e])
                                  /\ call[e].dev = d => call'[e].stale = TRUE
                                  /\ call[e].dev # d => call'[e] = call[e]
<1>1. DOMAIN Outdated(d, Call \ {c}) = Call
  BY OutdatedEffect
<1>2. DOMAIN call' = Call /\ call'[c] = Idle
  BY <1>1
<1>3. \A e \in Call \ {c} : call'[e] = Outdated(d, Call \ {c})[e]
  BY <1>1
<1>4. Calls'
  BY <1>2, <1>3, IdleOK, OutdatedCalls DEF Calls
<1>5. ASSUME NEW e \in Call \ {c}
      PROVE  /\ Marked(call[e], call'[e])
             /\ call[e].dev = d => call'[e].stale = TRUE
             /\ call[e].dev # d => call'[e] = call[e]
  <2> DEFINE C == Call \ {c}
  <2>1. /\ \A r \in Call : Marked(call[r], Outdated(d, C)[r])
        /\ \A r \in C : call[r].dev = d => Outdated(d, C)[r].stale = TRUE
        /\ \A r \in Call : call[r].dev # d => Outdated(d, C)[r] = call[r]
    <3>1. C \in SUBSET Call
      OBVIOUS
    <3> HIDE DEF C
    <3> QED BY <3>1, OutdatedEffect
  <2> QED BY <1>3, <2>1
<1> QED BY <1>2, <1>4, <1>5

-----------------------------------------------------------------------------
(* Types.  The calls' part of TypeOK follows from Calls.                   *)
Data ==
    /\ registered \subseteq Device
    /\ db \in [Device -> Document]
    /\ template \in [Template -> {"none", "plain", "default", "deleted"}]
    /\ certificate \in [Certificate -> {"none", "active", "revoked"}]
    /\ issued \in 0 .. MaxToken
    /\ started \in 0 .. MaxCalls
    /\ lapsed \in 0 .. issued
    /\ handed \subseteq Device \X Token
    /\ raced \subseteq Token
    /\ hasty \subseteq Template
    /\ reattached \subseteq Device
    /\ reopened \subseteq Device

(* A row shows values of the fields, those that are not undefined.         *)
RowOK(w) == DOMAIN w \subseteq Field /\ \A f \in DOMAIN w : w[f] \in Values[f]
Rows ==
    /\ DOMAIN row = Page
    /\ \A p \in Page : DOMAIN row[p] = Device
    /\ \A p \in Page, d \in Device : RowOK(row[p][d])

Base == Data /\ Calls /\ Rows

LEMMA NoneApart ==
  /\ None \notin Device /\ None \notin Template /\ None \notin Certificate
  /\ None \notin UserId /\ None \notin Token /\ None \notin Status
<1>1. Token \subseteq Nat
  BY DEF Token
<1> QED BY <1>1, ProvisioningAssumption

(* The writes of every operation that saves are values of fields.          *)
LEMMA WritesType ==
  ASSUME NEW r, CallOK(r)
  PROVE  DOMAIN r.writes \subseteq Field /\ \A f \in DOMAIN r.writes : r.writes[f] \in Values[f]
<1> USE ValuesFields DEF OnlyWrites, Field
<1>1. CASE NoneOK(r)
  BY <1>1 DEF NoneOK
<1>2. CASE PhoneHomeOK(r)
  BY <1>2 DEF PhoneHomeOK
<1>3. CASE ClaimOK(r)
  BY <1>3 DEF ClaimOK, Status
<1>4. CASE ApplyOK(r)
  BY <1>4 DEF ApplyOK
<1>5. CASE CompleteOK(r)
  BY <1>5 DEF CompleteOK, Status
<1>6. CASE RevokeOK(r)
  BY <1>6 DEF RevokeOK, Status
<1>7. CASE DeleteOK(r)
  BY <1>7 DEF DeleteOK
<1> QED BY <1>1, <1>2, <1>3, <1>4, <1>5, <1>6, <1>7 DEF CallOK

LEMMA BaseIsTyped == Base => TypeOK
<1> SUFFICES ASSUME Base PROVE TypeOK
  OBVIOUS
<1>1. ASSUME NEW c \in Call
      PROVE  /\ call[c].op \in DOMAIN Arguments
             /\ call[c].dev \in Device \cup {None}
             /\ call[c].arg \in Arguments[call[c].op]
             /\ DOMAIN call[c].writes \subseteq Field
             /\ \A f \in DOMAIN call[c].writes : call[c].writes[f] \in Values[f]
             /\ call[c].stale \in BOOLEAN
  <2>1. CallOK(call[c])
    BY DEF Base, Calls
  <2>2. /\ call[c].op \in DOMAIN Arguments
        /\ call[c].dev \in Device \cup {None}
        /\ call[c].arg \in Arguments[call[c].op]
    BY <2>1 DEF CallOK, NoneOK, PhoneHomeOK, ClaimOK, ApplyOK, CompleteOK, RevokeOK, DeleteOK,
                Arguments
  <2> QED BY <2>1, <2>2, WritesType DEF CallOK
<1> QED BY <1>1 DEF Base, Data, Rows, RowOK, TypeOK

LEMMA InitBase == Init => Base
<1> SUFFICES ASSUME Init PROVE Base
  OBVIOUS
<1>1. NewDocument \in Document
  BY DEF NewDocument, Document, Status
<1>2. Data
  BY <1>1, ProvisioningAssumption DEF Init, Data
<1>3. Calls
  BY IdleOK DEF Init, Calls
<1>4. Rows
  <2>1. RowOK(Nothing)
    BY DEF RowOK, Nothing
  <2> QED BY <2>1 DEF Init, Rows
<1> QED BY <1>2, <1>3, <1>4 DEF Base

(* The steps that start an operation.                                      *)
LEMMA NextToken == ASSUME Data, issued < MaxToken PROVE issued + 1 \in Token
  BY ProvisioningAssumption DEF Data, Token

Started(c) == Only(c) /\ call[c] = Idle /\ call'[c].stale = FALSE /\ CallOK(call'[c])

LEMMA PhoneHomeStarts ==
  ASSUME Base, NEW c \in Call, NEW d \in Device, PhoneHomeUnknown(c, d) \/ PhoneHome(c, d)
  PROVE  Started(c)
<1>1. PICK pc \in {"creating", "saving"}, n \in Token, w \in {Nothing} \cup {[token |-> t] : t \in Token} :
        /\ Start(c, "phoneHome", pc, d, n, w)
        /\ w = Nothing \/ w = [token |-> n]
  <2>1. CASE PhoneHomeUnknown(c, d)
    BY <2>1, NextToken DEF PhoneHomeUnknown, Base
  <2>2. CASE KeepsToken(d) /\ Start(c, "phoneHome", "saving", d, db[d].token, Nothing)
    <3>1. db[d].token \in Token
      BY <2>2, DocumentFields DEF KeepsToken, Valid, Data, Base
    <3> QED BY <2>2, <3>1
  <2>3. CASE /\ issued < MaxToken
             /\ Start(c, "phoneHome", "saving", d, issued + 1, [token |-> issued + 1])
    BY <2>3, NextToken DEF Base
  <2> QED BY <2>1, <2>2, <2>3 DEF PhoneHome
<1>2. call[c] = Idle /\ Record(call'[c], "phoneHome", pc, d, n, w) /\ Only(c)
  BY <1>1, StartEffect DEF Base
<1>3. OnlyWrites(w, {"token"}) /\ ("token" \in DOMAIN w => w["token"] = n)
  BY <1>1 DEF OnlyWrites, Nothing
<1> QED BY <1>2, <1>3 DEF Record, CallOK, PhoneHomeOK, Started

LEMMA ClaimStarts ==
  ASSUME Base, NEW c \in Call, NEW d \in Device, NEW u \in UserId, Claim(c, d, u)
  PROVE  Started(c)
<1> DEFINE w == Modified(db[d], [status |-> "claimed", owner |-> u])
<1>1. call[c] = Idle /\ Record(call'[c], "claim", "default", d, db[d].template, w) /\ Only(c)
  BY StartEffect DEF Base, Claim
<1>2. /\ OnlyWrites(w, {"status", "owner"})
      /\ "status" \in DOMAIN w /\ w["status"] = "claimed"
      /\ "owner" \in DOMAIN w => w["owner"] = u
  BY ModifiedClaim DEF Claim, MayClaim
<1>3. db[d].template \in Template \cup {None}
  BY DocumentFields DEF Base, Data
<1> HIDE DEF w
<1> QED BY <1>1, <1>2, <1>3 DEF Record, CallOK, ClaimOK, Started, OnlyWrites

LEMMA ApplyStarts ==
  ASSUME Base, NEW c \in Call, NEW d \in Device, NEW t \in Template, Apply(c, d, t)
  PROVE  Started(c)
<1> DEFINE w == Modified(db[d], [template |-> t])
<1>1. call[c] = Idle /\ Record(call'[c], "apply", "template", d, t, w) /\ Only(c)
  BY StartEffect DEF Base, Apply
<1>2. OnlyWrites(w, {"template"}) /\ ("template" \in DOMAIN w => w["template"] = t)
  BY ModifiedTemplate
<1> HIDE DEF w
<1> QED BY <1>1, <1>2 DEF Record, CallOK, ApplyOK, Started

LEMMA CompleteStarts ==
  ASSUME Base, NEW c \in Call, NEW d \in Device, Complete(c, d)
  PROVE  Started(c)
<1> DEFINE w == Modified(db[d], [status |-> "provisioned"])
<1>1. call[c] = Idle /\ Record(call'[c], "complete", "saving", d, None, w) /\ Only(c)
  BY StartEffect DEF Base, Complete
<1>2. OnlyWrites(w, {"status"}) /\ ("status" \in DOMAIN w => w["status"] = "provisioned")
  BY ModifiedStatus
<1> HIDE DEF w
<1> QED BY <1>1, <1>2 DEF Record, CallOK, CompleteOK, Started

LEMMA RevokeStarts ==
  ASSUME Base, NEW c \in Call, NEW d \in Device, Revoke(c, d)
  PROVE  Started(c)
<1> DEFINE w == Modified(db[d], [status |-> "revoked"])
<1>1. call[c] = Idle /\ Record(call'[c], "revoke", NextOfRevoke(d), d, db[d].cert, w) /\ Only(c)
  BY StartEffect DEF Base, Revoke
<1>2. OnlyWrites(w, {"status"}) /\ ("status" \in DOMAIN w => w["status"] = "revoked")
  BY ModifiedStatus
<1>3. db[d].cert \in Certificate \cup {None}
  BY DocumentFields DEF Base, Data
<1> HIDE DEF w
<1> QED BY <1>1, <1>2, <1>3 DEF Record, CallOK, RevokeOK, NextOfRevoke, Started

(* Which operation each of these steps starts.                             *)
LEMMA StartedOps ==
  ASSUME Base, NEW c \in Call
  PROVE  /\ \A d \in Device :
              /\ PhoneHomeUnknown(c, d) => call'[c].op = "phoneHome" /\ call'[c].pc = "creating"
              /\ PhoneHome(c, d) => call'[c].op = "phoneHome"
              /\ \A u \in UserId : Claim(c, d, u) => call'[c].op = "claim" /\ call'[c].pc = "default"
              /\ \A t \in Template : Apply(c, d, t) => call'[c].op = "apply" /\ call'[c].pc = "template"
              /\ Complete(c, d) => call'[c].op = "complete"
              /\ Revoke(c, d) => call'[c].op = "revoke"
         /\ \A t \in Template : Delete(c, t) => call'[c].op = "delete" /\ call'[c].pc = "counted"
<1>0. ASSUME NEW op, NEW pc, NEW d, NEW arg, NEW w, Start(c, op, pc, d, arg, w)
      PROVE  call'[c].op = op /\ call'[c].pc = pc
  BY <1>0, StartEffect DEF Record, Base
<1>1. ASSUME NEW d \in Device, PhoneHomeUnknown(c, d)
      PROVE  call'[c].op = "phoneHome" /\ call'[c].pc = "creating"
  BY <1>0, <1>1 DEF PhoneHomeUnknown
<1>2. ASSUME NEW d \in Device, PhoneHome(c, d) PROVE call'[c].op = "phoneHome"
  BY <1>0, <1>2 DEF PhoneHome
<1>3. ASSUME NEW d \in Device, NEW u \in UserId, Claim(c, d, u)
      PROVE  call'[c].op = "claim" /\ call'[c].pc = "default"
  BY <1>0, <1>3 DEF Claim
<1>4. ASSUME NEW d \in Device, NEW t \in Template, Apply(c, d, t)
      PROVE  call'[c].op = "apply" /\ call'[c].pc = "template"
  BY <1>0, <1>4 DEF Apply
<1>5. ASSUME NEW d \in Device, Complete(c, d) PROVE call'[c].op = "complete"
  BY <1>0, <1>5 DEF Complete
<1>6. ASSUME NEW d \in Device, Revoke(c, d) PROVE call'[c].op = "revoke"
  BY <1>0, <1>6 DEF Revoke
<1>7. ASSUME NEW t \in Template, Delete(c, t)
      PROVE  call'[c].op = "delete" /\ call'[c].pc = "counted"
  BY <1>0, <1>7 DEF Delete
<1> QED BY <1>1, <1>2, <1>3, <1>4, <1>5, <1>6, <1>7

LEMMA DeleteStarts ==
  ASSUME Base, NEW c \in Call, NEW t \in Template, Delete(c, t)
  PROVE  Started(c)
<1>1. call[c] = Idle /\ Record(call'[c], "delete", "counted", None, t, Nothing) /\ Only(c)
  BY StartEffect DEF Base, Delete
<1> QED BY <1>1 DEF Record, CallOK, DeleteOK, Nothing, Started

-----------------------------------------------------------------------------
(* The steps that continue one.  Where it stands tells what it is.         *)
LEMMA PcOf ==
  ASSUME NEW r, CallOK(r)
  PROVE  /\ r.pc = "creating" => PhoneHomeOK(r)
         /\ r.pc = "default" => ClaimOK(r)
         /\ r.pc = "template" => ApplyOK(r)
         /\ r.pc = "certificate" => RevokeOK(r)
         /\ r.pc \in {"counted", "deleting"} => DeleteOK(r)
         /\ r.pc = "saving" => PhoneHomeOK(r) \/ ClaimOK(r) \/ ApplyOK(r) \/ CompleteOK(r) \/ RevokeOK(r)
  BY DEF CallOK, NoneOK, PhoneHomeOK, ClaimOK, ApplyOK, CompleteOK, RevokeOK, DeleteOK

LEMMA OpOf ==
  ASSUME NEW r, CallOK(r)
  PROVE  /\ r.op = "none" => NoneOK(r)
         /\ r.op = "phoneHome" => PhoneHomeOK(r)
         /\ r.op = "claim" => ClaimOK(r)
         /\ r.op = "apply" => ApplyOK(r)
         /\ r.op = "complete" => CompleteOK(r)
         /\ r.op = "revoke" => RevokeOK(r)
         /\ r.op = "delete" => DeleteOK(r)
  BY DEF CallOK, NoneOK, PhoneHomeOK, ClaimOK, ApplyOK, CompleteOK, RevokeOK, DeleteOK

(* It goes on, or it ends.                                                 *)
Same(r, s) ==
    /\ DOMAIN s = CallField
    /\ s.op = r.op /\ s.dev = r.dev /\ s.arg = r.arg /\ s.writes = r.writes /\ s.stale = r.stale
Proceeds(c, pc) == Only(c) /\ Same(call[c], call'[c]) /\ call'[c].pc = pc
Ends(c) == Only(c) /\ call'[c] = Idle

LEMMA GotoProceeds ==
  ASSUME Calls, NEW c \in Call, NEW pc, Goto(c, pc)
  PROVE  Proceeds(c, pc)
  BY GotoEffect DEF Proceeds, Same

LEMMA EndEnds ==
  ASSUME Calls, NEW c \in Call, End(c)
  PROVE  Ends(c)
  BY EndEffect DEF Ends

LEMMA EndsCalls == ASSUME Calls, NEW c \in Call, Ends(c) PROVE Calls'
  BY IdleOK, OnlyCalls DEF Ends

LEMMA FindDefaultEffect ==
  ASSUME Base, NEW c \in Call, FindDefault(c)
  PROVE  /\ Calls' /\ Only(c) /\ ClaimOK(call[c]) /\ ClaimOK(call'[c])
         /\ call'[c].dev = call[c].dev /\ call'[c].stale = call[c].stale
         /\ "template" \in DOMAIN call'[c].writes => template[call'[c].writes["template"]] = "default"
<1>0. CallOK(call[c]) /\ ClaimOK(call[c]) /\ call[c].pc = "default"
  BY PcOf DEF Base, Calls, FindDefault
<1>1. CASE Goto(c, "saving")
  <2>1. Proceeds(c, "saving")
    BY <1>1, GotoProceeds DEF Base
  <2>2. ClaimOK(call'[c]) /\ CallOK(call'[c])
    BY <1>0, <2>1 DEF Proceeds, Same, ClaimOK, CallOK
  <2>3. "template" \notin DOMAIN call'[c].writes
    BY <1>0, <2>1 DEF Proceeds, Same, ClaimOK
  <2> QED BY <1>0, <2>1, <2>2, <2>3, OnlyCalls DEF Base, Proceeds, Same
<1>2. ASSUME NEW t \in DefaultFound,
             call' = [call EXCEPT ![c].pc = "saving", ![c].writes = With(c, "template", t)]
      PROVE  /\ Calls' /\ Only(c) /\ ClaimOK(call'[c])
             /\ call'[c].dev = call[c].dev /\ call'[c].stale = call[c].stale
             /\ "template" \in DOMAIN call'[c].writes =>
                   template[call'[c].writes["template"]] = "default"
  <2> DEFINE w == With(c, "template", t)
  <2>0. t \in Template /\ template[t] = "default"
    BY DEF DefaultFound, Defaults
  <2>1. /\ DOMAIN w = DOMAIN call[c].writes \cup {"template"}
        /\ w["template"] = t
        /\ \A g \in DOMAIN call[c].writes \ {"template"} : w[g] = call[c].writes[g]
    BY DEF With
  <2> HIDE DEF w
  <2>2. /\ Only(c) /\ DOMAIN call'[c] = CallField
        /\ call'[c].op = call[c].op /\ call'[c].dev = call[c].dev /\ call'[c].arg = call[c].arg
        /\ call'[c].stale = call[c].stale /\ call'[c].pc = "saving" /\ call'[c].writes = w
    <3>1. DOMAIN call[c] = CallField /\ DOMAIN call = Call
      BY <1>0 DEF CallOK, Base, Calls
    <3>2. call' = [call EXCEPT ![c].pc = "saving", ![c].writes = w]
      BY <1>2 DEF w
    <3> QED BY <3>1, <3>2 DEF CallField, Only
  <2>3. ClaimOK(call'[c]) /\ CallOK(call'[c])
    BY <1>0, <2>0, <2>1, <2>2 DEF ClaimOK, CallOK, OnlyWrites
  <2> QED BY <2>0, <2>1, <2>2, <2>3, OnlyCalls DEF Base
<1> QED BY <1>0, <1>1, <1>2 DEF FindDefault

LEMMA FindTemplateEffect ==
  ASSUME Base, NEW c \in Call, FindTemplate(c)
  PROVE  /\ Calls' /\ ApplyOK(call[c])
         /\ \/ Ends(c)
            \/ Proceeds(c, "saving") /\ template[call[c].arg] # "deleted" /\ ApplyOK(call'[c])
<1>0. CallOK(call[c]) /\ ApplyOK(call[c])
  BY PcOf DEF Base, Calls, FindTemplate
<1>1. CASE Goto(c, "saving") /\ template[call[c].arg] # "deleted"
  <2>1. Proceeds(c, "saving")
    BY <1>1, GotoProceeds DEF Base
  <2>2. ApplyOK(call'[c]) /\ CallOK(call'[c])
    BY <1>0, <2>1 DEF Proceeds, Same, ApplyOK, CallOK
  <2> QED BY <1>0, <1>1, <2>1, <2>2, OnlyCalls DEF Base, Proceeds
<1>2. CASE End(c)
  BY <1>0, <1>2, EndEnds, EndsCalls DEF Base
<1> QED BY <1>1, <1>2 DEF FindTemplate

LEMMA RevokeItsEffect ==
  ASSUME Base, NEW c \in Call, RevokeIts(c)
  PROVE  /\ Calls' /\ RevokeOK(call[c]) /\ call[c].pc = "certificate"
         /\ \/ Ends(c) /\ certificate' = certificate
            \/ /\ Proceeds(c, "saving") /\ RevokeOK(call'[c])
               /\ certificate' = [certificate EXCEPT ![call[c].arg] = "revoked"]
<1>0. CallOK(call[c]) /\ RevokeOK(call[c]) /\ call[c].pc = "certificate"
  BY PcOf DEF Base, Calls, RevokeIts
<1>1. CASE Goto(c, "saving") /\ certificate' = [certificate EXCEPT ![call[c].arg] = "revoked"]
  <2>1. Proceeds(c, "saving")
    BY <1>1, GotoProceeds DEF Base
  <2>2. RevokeOK(call'[c]) /\ CallOK(call'[c])
    BY <1>0, <2>1 DEF Proceeds, Same, RevokeOK, CallOK
  <2> QED BY <1>0, <1>1, <2>1, <2>2, OnlyCalls DEF Base, Proceeds
<1>2. CASE End(c) /\ certificate' = certificate
  BY <1>0, <1>2, EndEnds, EndsCalls DEF Base
<1> QED BY <1>1, <1>2 DEF RevokeIts

LEMMA LookAtDefaultEffect ==
  ASSUME Base, NEW c \in Call, LookAtDefault(c)
  PROVE  /\ Calls' /\ DeleteOK(call[c])
         /\ Ends(c) \/ (Proceeds(c, "deleting") /\ DeleteOK(call'[c]))
<1>0. CallOK(call[c]) /\ DeleteOK(call[c])
  BY PcOf DEF Base, Calls, LookAtDefault
<1>1. CASE Goto(c, "deleting")
  <2>1. Proceeds(c, "deleting")
    BY <1>1, GotoProceeds DEF Base
  <2>2. DeleteOK(call'[c]) /\ CallOK(call'[c])
    BY <1>0, <2>1 DEF Proceeds, Same, DeleteOK, CallOK
  <2> QED BY <1>0, <1>1, <2>1, <2>2, OnlyCalls DEF Base, Proceeds
<1>2. CASE End(c)
  BY <1>0, <1>2, EndEnds, EndsCalls DEF Base
<1> QED BY <1>1, <1>2 DEF LookAtDefault

(* A save either is made, or fails and only ends its operation.            *)
Made(c) ==
    LET d == call[c].dev
        w == call[c].writes
        old == db[d].token IN
    /\ Write(d, w)
    /\ handed' = IF call[c].op = "phoneHome" THEN handed \cup {<<d, call[c].arg>>} ELSE handed
    /\ raced' = IF "token" \in DOMAIN w /\ call[c].stale THEN raced \cup ({old} \ {None}) ELSE raced
    /\ hasty' = hasty \cup {t \in BeingDeleted : Assigns(c, t)}
    /\ reattached' = IF call[c].op = "revoke" /\ ~ call[c].stale THEN reattached \ {d} ELSE reattached
    /\ reopened' = IF call[c].op = "claim" THEN reopened \ {d} ELSE reopened
Overtakes(c) ==
    /\ call'[c] = Idle
    /\ \A e \in Call \ {c} : /\ Marked(call[e], call'[e])
                             /\ call[e].dev = call[c].dev => call'[e].stale = TRUE
                             /\ call[e].dev # call[c].dev => call'[e] = call[e]

LEMMA SavingDevice ==
  ASSUME Base, NEW c \in Call, call[c].pc = "saving"
  PROVE  call[c].dev \in Device /\ CallOK(call[c])
  BY PcOf DEF Base, Calls, PhoneHomeOK, ClaimOK, ApplyOK, CompleteOK, RevokeOK

LEMMA SaveCases ==
  ASSUME Base, NEW c \in Call, Save(c)
  PROVE  /\ Calls' /\ call[c].pc = "saving"
         /\ call[c].dev \in Device /\ CallOK(call[c])
         /\ UNCHANGED <<registered, template, certificate, issued, lapsed, started, row>>
         /\ \/ Made(c) /\ Overtakes(c)
            \/ Ends(c) /\ UNCHANGED <<db, handed, raced, hasty, reattached, reopened>>
<1>0. call[c].pc = "saving" /\ call[c].dev \in Device /\ CallOK(call[c])
  BY SavingDevice DEF Save
<1>1. CASE End(c) /\ UNCHANGED <<db, history>>
  BY <1>0, <1>1, EndEnds, EndsCalls DEF Base, history, Save
<1>2. CASE Made(c) /\ call' = [Outdated(call[c].dev, Call \ {c}) EXCEPT ![c] = Idle]
  <2>1. Calls' /\ Overtakes(c)
    BY <1>0, <1>2, SaveEffect DEF Base, Overtakes
  <2> QED BY <1>0, <1>2, <2>1 DEF Save
<1> QED BY <1>1, <1>2 DEF Save, Made

-----------------------------------------------------------------------------
(* Every step keeps the types.                                             *)
LEMMA WriteType ==
  ASSUME Data, NEW d \in Device, NEW w, DOMAIN w \subseteq Field,
         \A f \in DOMAIN w : w[f] \in Values[f], Write(d, w)
  PROVE  db' \in [Device -> Document]
<1>1. Saved(db[d], w) \in Document
  BY SavedType DEF Data
<1> QED BY <1>1 DEF Write, Data

LEMMA WriteOne ==
  ASSUME Data, NEW d \in Device, NEW w, Write(d, w)
  PROVE  db'[d] = Saved(db[d], w) /\ \A e \in Device \ {d} : db'[e] = db[e]
  BY DEF Data, Write

Outdates(d) == \A e \in Call :
    /\ Marked(call[e], call'[e])
    /\ call[e].dev = d => call'[e].stale = TRUE
    /\ call[e].dev # d => call'[e] = call[e]

LEMMA AttachEffect ==
  ASSUME Base, NEW d \in Device, NEW x \in Certificate, Attach(d, x)
  PROVE  Calls' /\ db' \in [Device -> Document] /\ Outdates(d)
<1>1. call' = Outdated(d, Call)
  BY DEF Attach
<1>2. Calls'
  BY <1>1, OutdatedCalls DEF Base, Calls
<1>3. db' \in [Device -> Document]
  <2>1. /\ DOMAIN [cert |-> x] \subseteq Field
        /\ \A f \in DOMAIN [cert |-> x] : [cert |-> x][f] \in Values[f]
    BY ValuesFields DEF Field
  <2> QED BY <2>1, WriteType DEF Base, Attach
<1>4. Outdates(d)
  <2>1. /\ \A r \in Call : Marked(call[r], Outdated(d, Call)[r])
        /\ \A r \in Call : call[r].dev = d => Outdated(d, Call)[r].stale = TRUE
        /\ \A r \in Call : call[r].dev # d => Outdated(d, Call)[r] = call[r]
    <3>1. Call \in SUBSET Call
      OBVIOUS
    <3> QED BY <3>1, OutdatedEffect DEF Base
  <2> QED BY <1>1, <2>1 DEF Outdates
<1> QED BY <1>2, <1>3, <1>4

LEMMA CreateDeviceEffect ==
  ASSUME Base, NEW c \in Call, CreateDevice(c)
  PROVE  /\ Calls' /\ Ends(c) /\ PhoneHomeOK(call[c])
         /\ \/ /\ call[c].dev \notin registered
               /\ registered' = registered \cup {call[c].dev}
               /\ db' = [db EXCEPT ![call[c].dev].token = call[c].arg]
               /\ handed' = handed \cup {<<call[c].dev, call[c].arg>>}
            \/ UNCHANGED <<registered, db, handed>>
<1>1. CallOK(call[c]) /\ PhoneHomeOK(call[c])
  BY PcOf DEF Base, Calls, CreateDevice
<1>2. Ends(c)
  BY EndEnds DEF Base, CreateDevice
<1> QED BY <1>1, <1>2, EndsCalls DEF Base, CreateDevice

LEMMA TokenWritten ==
  ASSUME NEW doc \in Document, NEW n \in Token
  PROVE  /\ [doc EXCEPT !.token = n] \in Document
         /\ [doc EXCEPT !.token = n].token = n
         /\ [doc EXCEPT !.token = n].status = doc.status
         /\ [doc EXCEPT !.token = n].owner = doc.owner
         /\ [doc EXCEPT !.token = n].template = doc.template
         /\ [doc EXCEPT !.token = n].cert = doc.cert
  BY DEF Document

LEMMA ElsewhereBase == ASSUME Base, Elsewhere PROVE Data' /\ Calls'
<1>1. ASSUME NEW d \in Device, Register(d) PROVE Data' /\ Calls'
  BY <1>1 DEF Register, history, Base, Data, Calls
<1>2. ASSUME NEW d \in Device, NEW x \in Certificate, Attach(d, x) PROVE Data' /\ Calls'
  <2>1. Data'
    BY <1>2, AttachEffect DEF Attach, Base, Data
  <2> QED BY <1>2, <2>1, AttachEffect DEF Base
<1>3. ASSUME Lapse PROVE Data' /\ Calls'
  <2>1. lapsed' \in 0 .. issued'
    BY <1>3, ProvisioningAssumption DEF Lapse, Base, Data
  <2> QED BY <1>3, <2>1 DEF Lapse, history, Base, Data, Calls
<1>4. ASSUME NEW x \in Certificate, Issue(x) \/ RevokeCertificate(x) PROVE Data' /\ Calls'
  BY <1>4 DEF Issue, RevokeCertificate, history, Base, Data, Calls
<1>5. ASSUME NEW t \in Template, PutTemplate(t) PROVE Data' /\ Calls'
  BY <1>5 DEF PutTemplate, history, Base, Data, Calls
<1> QED BY <1>1, <1>2, <1>3, <1>4, <1>5 DEF Elsewhere

(* What a started operation leaves alone.                                  *)
LEMMA DeviceCallStarts ==
  ASSUME Base, NEW c \in Call, NEW d \in Device, DeviceCall(c, d)
  PROVE  /\ Started(c) /\ UNCHANGED <<registered, db, template, certificate, lapsed, history>>
         /\ call'[c].dev = d /\ started' \in 0 .. MaxCalls
         /\ issued' = issued \/ (issued < MaxToken /\ issued' = issued + 1)
<1>1. Started(c)
  BY PhoneHomeStarts, ClaimStarts, ApplyStarts, CompleteStarts, RevokeStarts DEF DeviceCall
<1>2. PICK op, pc, arg, w : Start(c, op, pc, d, arg, w)
  BY DEF DeviceCall, PhoneHomeUnknown, PhoneHome, Claim, Apply, Complete, Revoke
<1>3. call'[c].dev = d
  BY <1>2, StartEffect DEF Base, Record
<1>4. started' \in 0 .. MaxCalls
  BY <1>2, ProvisioningAssumption DEF Start, Base, Data
<1> QED BY <1>1, <1>3, <1>4 DEF DeviceCall, PhoneHomeUnknown, PhoneHome, Claim, Apply, Complete, Revoke

LEMMA StartBase ==
  ASSUME Base, NEW c \in Call,
         \/ \E d \in Device : DeviceCall(c, d)
         \/ \E t \in Template : Delete(c, t)
  PROVE  Data' /\ Calls'
<1>1. ASSUME NEW d \in Device, DeviceCall(c, d) PROVE Data' /\ Calls'
  <2>1. Calls'
    BY <1>1, DeviceCallStarts, OnlyCalls DEF Started, Base
  <2>2. issued' \in 0 .. MaxToken /\ lapsed' \in 0 .. issued'
    BY <1>1, DeviceCallStarts, ProvisioningAssumption DEF Base, Data
  <2>3. Data'
    BY <1>1, <2>2, DeviceCallStarts DEF Base, Data, history
  <2> QED BY <2>1, <2>3 DEF Base
<1>2. ASSUME NEW t \in Template, Delete(c, t) PROVE Data' /\ Calls'
  <2>1. Calls'
    BY <1>2, DeleteStarts, OnlyCalls DEF Started, Base
  <2>2. started' \in 0 .. MaxCalls
    BY <1>2, ProvisioningAssumption DEF Delete, Start, Base, Data
  <2> QED BY <1>2, <2>1, <2>2 DEF Delete, history, Base, Data
<1> QED BY <1>1, <1>2

LEMMA ContinueBase == ASSUME Base, NEW c \in Call, Continue(c) PROVE Data' /\ Calls'
<1>1. CASE CreateDevice(c)
  <2> DEFINE d == call[c].dev
  <2>1. d \in Device /\ call[c].arg \in Token
    BY <1>1, CreateDeviceEffect DEF PhoneHomeOK
  <2>2. db' \in [Device -> Document]
    <3> DEFINE doc == [db[d] EXCEPT !.token = call[c].arg]
    <3>1. doc \in Document
      BY <2>1, TokenWritten DEF Base, Data
    <3>2. db' = db \/ db' = [db EXCEPT ![d] = doc]
      BY <1>1, CreateDeviceEffect
    <3> HIDE DEF doc
    <3> QED BY <2>1, <3>1, <3>2 DEF Base, Data
  <2>3. registered' \subseteq Device /\ handed' \subseteq Device \X Token
    <3>1. \/ registered' = registered \cup {d} /\ handed' = handed \cup {<<d, call[c].arg>>}
          \/ registered' = registered /\ handed' = handed
      BY <1>1, CreateDeviceEffect
    <3>2. registered \subseteq Device /\ handed \subseteq Device \X Token
      BY DEF Base, Data
    <3> HIDE DEF d
    <3> QED BY <2>1, <3>1, <3>2
  <2> QED BY <1>1, <2>2, <2>3, CreateDeviceEffect DEF Base, Data, CreateDevice
<1>2. CASE FindDefault(c)
  BY <1>2, FindDefaultEffect DEF FindDefault, history, Base, Data
<1>3. CASE FindTemplate(c)
  BY <1>3, FindTemplateEffect DEF FindTemplate, history, Base, Data
<1>4. CASE RevokeIts(c)
  BY <1>4, RevokeItsEffect DEF RevokeIts, history, Base, Data
<1>5. CASE Save(c)
  <2>1. /\ Calls' /\ call[c].dev \in Device /\ CallOK(call[c])
        /\ UNCHANGED <<registered, template, certificate, issued, lapsed, started, row>>
        /\ Made(c) \/ UNCHANGED <<db, handed, raced, hasty, reattached, reopened>>
    BY <1>5, SaveCases
  <2>2. CASE UNCHANGED <<db, handed, raced, hasty, reattached, reopened>>
    BY <2>1, <2>2 DEF Base, Data
  <2>3. CASE Made(c)
    <3>1. db' \in [Device -> Document]
      BY <2>1, <2>3, WritesType, WriteType DEF Made, Base
    <3>2. handed' \subseteq Device \X Token
      <4>1. call[c].op = "phoneHome" => call[c].arg \in Token
        BY <2>1, OpOf DEF PhoneHomeOK
      <4> QED BY <2>1, <2>3, <4>1 DEF Made, Base, Data
    <3>3. raced' \subseteq Token
      <4>1. db[call[c].dev].token \in Token \cup {None}
        BY <2>1, DocumentFields DEF Base, Data
      <4> QED BY <2>3, <4>1 DEF Made, Base, Data
    <3>4. hasty' \subseteq Template
      <4>1. BeingDeleted \subseteq Template
        BY OpOf DEF BeingDeleted, Base, Calls, DeleteOK
      <4> QED BY <2>3, <4>1 DEF Made, Base, Data
    <3>5. reattached' \subseteq Device /\ reopened' \subseteq Device
      BY <2>3 DEF Made, Base, Data
    <3> QED BY <2>1, <3>1, <3>2, <3>3, <3>4, <3>5 DEF Base, Data
  <2> QED BY <2>1, <2>2, <2>3
<1>6. CASE LookAtDefault(c)
  BY <1>6, LookAtDefaultEffect DEF LookAtDefault, history, Base, Data
<1>7. CASE DeleteOne(c)
  <2>1. CallOK(call[c]) /\ call[c].arg \in Template
    BY <1>7, PcOf DEF DeleteOne, Base, Calls, DeleteOK
  <2>2. Calls'
    BY <1>7, EndEffect DEF DeleteOne, Base
  <2> QED BY <1>7, <2>1, <2>2 DEF DeleteOne, Base, Data
<1> QED BY <1>1, <1>2, <1>3, <1>4, <1>5, <1>6, <1>7 DEF Continue

LEMMA RowOf ==
  ASSUME NEW doc \in Document
  PROVE  /\ RowOK(Row(doc))
         /\ \A f \in Field : doc[f] # None <=> f \in DOMAIN Row(doc)
         /\ \A f \in DOMAIN Row(doc) : Row(doc)[f] = doc[f]
<1>1. DOMAIN Row(doc) = {g \in Field : doc[g] # None}
  BY DEF Row
<1>2. \A f \in DOMAIN Row(doc) : Row(doc)[f] = doc[f]
  BY DEF Row
<1>3. \A f \in Field : doc[f] # None => doc[f] \in Values[f]
  BY DocumentFields, ValuesFields DEF Field
<1> HIDE DEF Row
<1> QED BY <1>1, <1>2, <1>3 DEF RowOK

RowsDomain == DOMAIN row = Page /\ \A p \in Page : DOMAIN row[p] = Device

LEMMA RowWritten ==
  ASSUME Base, NEW p \in Page, NEW d \in Device, NEW w, row' = [row EXCEPT ![p][d] = w]
  PROVE  /\ row'[p][d] = w
         /\ RowsDomain'
         /\ \A q \in Page, e \in Device : row'[q][e] = row[q][e] \/ (q = p /\ e = d)
  BY DEF Base, Rows, RowsDomain

(* A row that is put is written like any other change of the document.     *)
LEMMA PutRowEffect ==
  ASSUME Base, NEW p \in Page, NEW d \in Device, PutRow(p, d)
  PROVE  /\ Data' /\ Calls' /\ Outdates(d)
         /\ db'[d] = Saved(db[d], row[p][d]) /\ db'[d] # db[d]
         /\ \A e \in Device \ {d} : db'[e] = db[e]
         /\ row' = [row EXCEPT ![p][d] = Row(db'[d])]
         /\ UNCHANGED <<registered, template, certificate, issued, lapsed, handed>>
<1> DEFINE old == db[d]
           new == Saved(old, row[p][d])
<1>0. RowOK(row[p][d]) /\ old \in Document
  BY DEF Base, Data, Rows
<1>1. db' \in [Device -> Document] /\ new \in Document
  BY <1>0, SavedType, WriteType DEF Base, RowOK, PutRow
<1>2. db'[d] = new /\ \A e \in Device \ {d} : db'[e] = db[e]
  BY WriteOne DEF Base, PutRow
<1>3. call' = Outdated(d, Call) /\ new # old
  BY DEF PutRow
<1>4. Calls'
  BY <1>3, OutdatedCalls DEF Base, Calls
<1>5. Outdates(d)
  <2>1. Call \in SUBSET Call
    OBVIOUS
  <2>2. /\ \A r \in Call : Marked(call[r], Outdated(d, Call)[r])
        /\ \A r \in Call : call[r].dev = d => Outdated(d, Call)[r].stale = TRUE
        /\ \A r \in Call : call[r].dev # d => Outdated(d, Call)[r] = call[r]
    BY <2>1, OutdatedEffect DEF Base
  <2> QED BY <1>3, <2>2 DEF Outdates
<1>6. raced' \subseteq Token /\ hasty' \subseteq Template
  <2>1. old.token \in Token \cup {None}
    BY <1>0, DocumentFields
  <2>2. BeingDeleted \subseteq Template
    BY OpOf DEF BeingDeleted, Base, Calls, DeleteOK
  <2>3. raced' = raced \/ raced' = raced \cup ({old.token} \ {None})
    BY DEF PutRow
  <2>4. hasty' = hasty \/ hasty' = hasty \cup ({new.template} \cap (BeingDeleted \cup Deleted))
    BY DEF PutRow
  <2> HIDE DEF old, new
  <2> QED BY <2>1, <2>2, <2>3, <2>4 DEF Base, Data, Deleted
<1>7. reattached' \subseteq Device /\ reopened' \subseteq Device
  BY DEF PutRow, Base, Data
<1>8. /\ UNCHANGED <<registered, template, certificate, issued, lapsed, started, handed>>
      /\ row' = [row EXCEPT ![p][d] = Row(new)]
  BY DEF PutRow
<1>9. Data'
  BY <1>1, <1>6, <1>7, <1>8 DEF Base, Data
<1> QED BY <1>2, <1>3, <1>4, <1>5, <1>8, <1>9

(* The row a step writes is that of the document, as it is after the step. *)
RowStep(p, d) ==
    \/ row'[p][d] = row[p][d]
    \/ row'[p][d] = Row(db'[d])

LEMMA RowSteps ==
  ASSUME Base, [Next]_vars
  PROVE  /\ RowsDomain'
         /\ \A p \in Page, d \in Device : RowStep(p, d)
<1>1. ASSUME row' = row PROVE RowsDomain' /\ \A p \in Page, d \in Device : RowStep(p, d)
  BY <1>1 DEF Base, Rows, RowsDomain, RowStep
<1>2. ASSUME NEW p \in Page, NEW d \in Device, LoadRow(p, d) \/ PutRow(p, d)
      PROVE  RowsDomain' /\ \A q \in Page, e \in Device : RowStep(q, e)
  <2>1. row' = [row EXCEPT ![p][d] = Row(db'[d])]
    BY <1>2, PutRowEffect DEF LoadRow
  <2>2. PICK w : w = Row(db'[d])
    OBVIOUS
  <2>3. /\ row'[p][d] = w /\ RowsDomain'
        /\ \A q \in Page, e \in Device : row'[q][e] = row[q][e] \/ (q = p /\ e = d)
    BY <2>1, <2>2, RowWritten
  <2> QED BY <2>2, <2>3 DEF RowStep
<1>3. ASSUME Elsewhere PROVE row' = row
  BY <1>3 DEF Elsewhere, Register, Attach, Lapse, Issue, RevokeCertificate, PutTemplate
<1>4. ASSUME NEW c \in Call, Operation(c) PROVE row' = row
  <2>1. ASSUME NEW d \in Device, DeviceCall(c, d) PROVE row' = row
    BY <2>1 DEF DeviceCall, PhoneHomeUnknown, PhoneHome, Claim, Apply, Complete, Revoke
  <2>2. ASSUME Continue(c) PROVE row' = row
    BY <2>2 DEF Continue, CreateDevice, FindDefault, FindTemplate, RevokeIts, Save, LookAtDefault, DeleteOne
  <2> QED BY <1>4, <2>1, <2>2 DEF Operation, Delete
<1>5. CASE UNCHANGED vars
  BY <1>1, <1>5 DEF vars
<1> QED BY <1>1, <1>2, <1>3, <1>4, <1>5 DEF Next

LEMMA NextBase == Base /\ [Next]_vars => Base'
<1> SUFFICES ASSUME Base, [Next]_vars PROVE Base'
  OBVIOUS
<1>1. Data' /\ Calls'
  <2>1. CASE UNCHANGED vars
    BY <2>1 DEF vars, Base, Data, Calls
  <2>2. ASSUME NEW p \in Page, NEW d \in Device, LoadRow(p, d) PROVE Data' /\ Calls'
    BY <2>2 DEF LoadRow, history, Base, Data, Calls
  <2> QED BY <2>1, <2>2, ElsewhereBase, StartBase, ContinueBase, PutRowEffect DEF Next, Operation
<1>2. Rows'
  <2>1. ASSUME NEW p \in Page, NEW d \in Device PROVE RowOK(row'[p][d])
    <3>1. RowOK(row[p][d]) /\ RowOK(Row(db'[d]))
      BY <1>1, RowOf DEF Base, Data, Rows
    <3> QED BY <3>1, RowSteps DEF RowStep
  <2> QED BY <2>1, RowSteps DEF Rows, RowsDomain
<1> QED BY <1>1, <1>2 DEF Base

(* The variables keep their types; in particular each operation writes     *)
(* only fields of its own, with values of these fields.                    *)
THEOREM TypeCorrect == Spec => [](Base /\ TypeOK)
<1>1. Spec => []Base
  BY InitBase, NextBase, PTL DEF Spec
<1> QED BY <1>1, BaseIsTyped, PTL

-----------------------------------------------------------------------------
(* What a step can do to a document: a client attaches a certificate or    *)
(* puts a row, a first phoneHome creates it, or a save is made.            *)
Attached(d) == \E x \in Certificate : Attach(d, x) /\ db'[d] = Saved(db[d], [cert |-> x])
Put(d) == \E p \in Page : PutRow(p, d) /\ db'[d] = Saved(db[d], row[p][d])
Created(c, d) ==
    /\ CreateDevice(c) /\ call[c].dev = d /\ d \notin registered /\ call[c].arg \in Token
    /\ db'[d] = [db[d] EXCEPT !.token = call[c].arg]
    /\ handed' = handed \cup {<<d, call[c].arg>>}
SavedBy(c, d) ==
    /\ Save(c) /\ Made(c) /\ Overtakes(c) /\ call[c].dev = d /\ call[c].pc = "saving"
    /\ db'[d] = Saved(db[d], call[c].writes)
DocStep(d) ==
    \/ db'[d] = db[d]
    \/ Attached(d)
    \/ Put(d)
    \/ \E c \in Call : Created(c, d) \/ SavedBy(c, d)

LEMMA DocSteps ==
  ASSUME Base, [Next]_vars, NEW d \in Device
  PROVE  DocStep(d)
<1> USE DEF Base
<1>1. CASE Elsewhere
  <2>1. ASSUME NEW e \in Device, NEW x \in Certificate, Attach(e, x) PROVE DocStep(d)
    <3>1. Write(e, [cert |-> x])
      BY <2>1 DEF Attach
    <3>2. db'[e] = Saved(db[e], [cert |-> x]) /\ (d # e => db'[d] = db[d])
      BY <3>1, WriteOne
    <3> QED BY <2>1, <3>2 DEF DocStep, Attached
  <2>2. CASE UNCHANGED db
    BY <2>2 DEF DocStep
  <2> QED BY <1>1, <2>1, <2>2 DEF Elsewhere, Register, Lapse, Issue, RevokeCertificate, PutTemplate
<1>2. ASSUME NEW c \in Call, NEW e \in Device, DeviceCall(c, e) PROVE DocStep(d)
  BY <1>2, DeviceCallStarts DEF DocStep
<1>3. ASSUME NEW c \in Call, NEW t \in Template, Delete(c, t) PROVE DocStep(d)
  BY <1>3 DEF Delete, DocStep
<1>4. ASSUME NEW c \in Call, CreateDevice(c) PROVE DocStep(d)
  <2> DEFINE e == call[c].dev
             doc == [db[e] EXCEPT !.token = call[c].arg]
  <2>1. CASE db' = db
    BY <2>1 DEF DocStep
  <2>2. CASE /\ e \notin registered /\ db' = [db EXCEPT ![e] = doc]
             /\ handed' = handed \cup {<<e, call[c].arg>>}
    <3>1. e \in Device /\ call[c].arg \in Token
      BY <1>4, CreateDeviceEffect DEF PhoneHomeOK
    <3>2. db'[e] = doc /\ (d # e => db'[d] = db[d])
      BY <2>2, <3>1 DEF Data
    <3> QED BY <1>4, <2>2, <3>1, <3>2 DEF DocStep, Created
  <2>3. (db' = db) \/ (/\ e \notin registered /\ db' = [db EXCEPT ![e] = doc]
                     /\ handed' = handed \cup {<<e, call[c].arg>>})
    BY <1>4, CreateDeviceEffect
  <2> QED BY <2>1, <2>2, <2>3
<1>5. ASSUME NEW c \in Call, Save(c) PROVE DocStep(d)
  <2>1. CASE UNCHANGED db
    BY <2>1 DEF DocStep
  <2>2. CASE Made(c) /\ Overtakes(c)
    <3>1. call[c].dev \in Device /\ call[c].pc = "saving" /\ Write(call[c].dev, call[c].writes)
      BY <1>5, <2>2, SaveCases DEF Made
    <3>2. /\ db'[call[c].dev] = Saved(db[call[c].dev], call[c].writes)
          /\ d # call[c].dev => db'[d] = db[d]
      BY <3>1, WriteOne
    <3> QED BY <1>5, <2>2, <3>1, <3>2 DEF DocStep, SavedBy
  <2> QED BY <1>5, <2>1, <2>2, SaveCases
<1>6. ASSUME NEW c \in Call,
             FindDefault(c) \/ FindTemplate(c) \/ RevokeIts(c) \/ LookAtDefault(c) \/ DeleteOne(c)
      PROVE  DocStep(d)
  BY <1>6 DEF FindDefault, FindTemplate, RevokeIts, LookAtDefault, DeleteOne, DocStep
<1>7. CASE UNCHANGED vars
  BY <1>7 DEF vars, DocStep
<1>8. ASSUME NEW p \in Page, NEW e \in Device, LoadRow(p, e) \/ PutRow(p, e) PROVE DocStep(d)
  <2>1. CASE LoadRow(p, e)
    BY <2>1 DEF LoadRow, DocStep
  <2>2. CASE PutRow(p, e)
    <3>1. db'[e] = Saved(db[e], row[p][e]) /\ (d # e => db'[d] = db[d])
      BY <2>2, PutRowEffect
    <3> QED BY <2>2, <3>1 DEF DocStep, Put
  <2> QED BY <1>8, <2>1, <2>2
<1> QED BY <1>1, <1>2, <1>3, <1>4, <1>5, <1>6, <1>7, <1>8 DEF Next, Operation, Continue

(* What a step can do to an operation.                                     *)
CallStep(e) ==
    \/ call'[e] = Idle
    \/ Marked(call[e], call'[e])
    \/ \E d \in Device : DeviceCall(e, d) /\ Started(e) /\ db' = db /\ call'[e].dev = d
    \/ \E t \in Template : Delete(e, t) /\ Started(e)
    \/ FindDefault(e)
    \/ FindTemplate(e) /\ Proceeds(e, "saving")
    \/ RevokeIts(e) /\ Proceeds(e, "saving")
    \/ LookAtDefault(e) /\ Proceeds(e, "deleting")

LEMMA SameIsMarked == ASSUME Calls, NEW e \in Call, call'[e] = call[e] PROVE Marked(call[e], call'[e])
  BY DEF Calls, CallOK, Marked

LEMMA CallSteps ==
  ASSUME Base, [Next]_vars, NEW e \in Call
  PROVE  CallStep(e)
<1> USE DEF Base
<1>0. ASSUME call'[e] = call[e] PROVE CallStep(e)
  BY <1>0, SameIsMarked DEF CallStep
<1>1. CASE Elsewhere
  <2>1. ASSUME NEW d \in Device, NEW x \in Certificate, Attach(d, x) PROVE CallStep(e)
    BY <2>1, AttachEffect DEF Outdates, CallStep
  <2>2. CASE UNCHANGED call
    BY <1>0, <2>2
  <2> QED BY <1>1, <2>1, <2>2 DEF Elsewhere, Register, Lapse, Issue, RevokeCertificate, PutTemplate
<1>2. ASSUME NEW c \in Call, NEW d \in Device, DeviceCall(c, d) PROVE CallStep(e)
  BY <1>0, <1>2, DeviceCallStarts DEF Started, Only, CallStep
<1>3. ASSUME NEW c \in Call, NEW t \in Template, Delete(c, t) PROVE CallStep(e)
  BY <1>0, <1>3, DeleteStarts DEF Started, Only, CallStep
<1>4. ASSUME NEW c \in Call, CreateDevice(c) PROVE CallStep(e)
  BY <1>0, <1>4, CreateDeviceEffect DEF Ends, Only, CallStep
<1>5. ASSUME NEW c \in Call, Save(c) PROVE CallStep(e)
  <2>1. Overtakes(c) \/ Ends(c)
    BY <1>5, SaveCases
  <2>2. ASSUME Overtakes(c) PROVE call'[e] = Idle \/ Marked(call[e], call'[e])
    BY <2>2 DEF Overtakes
  <2>3. ASSUME Ends(c) PROVE call'[e] = Idle \/ call'[e] = call[e]
    BY <2>3 DEF Ends, Only
  <2> QED BY <1>0, <2>1, <2>2, <2>3 DEF CallStep
<1>6. ASSUME NEW c \in Call, FindDefault(c) PROVE CallStep(e)
  BY <1>0, <1>6, FindDefaultEffect DEF Only, CallStep
<1>7. ASSUME NEW c \in Call, FindTemplate(c) PROVE CallStep(e)
  BY <1>0, <1>7, FindTemplateEffect DEF Ends, Proceeds, Only, CallStep
<1>8. ASSUME NEW c \in Call, RevokeIts(c) PROVE CallStep(e)
  BY <1>0, <1>8, RevokeItsEffect DEF Ends, Proceeds, Only, CallStep
<1>9. ASSUME NEW c \in Call, LookAtDefault(c) PROVE CallStep(e)
  BY <1>0, <1>9, LookAtDefaultEffect DEF Ends, Proceeds, Only, CallStep
<1>10. ASSUME NEW c \in Call, DeleteOne(c) PROVE CallStep(e)
  BY <1>0, <1>10, EndEnds DEF DeleteOne, Ends, Only, CallStep
<1>11. CASE UNCHANGED vars
  BY <1>0, <1>11 DEF vars
<1>12. ASSUME NEW p \in Page, NEW d \in Device, LoadRow(p, d) \/ PutRow(p, d) PROVE CallStep(e)
  <2>1. CASE LoadRow(p, d)
    BY <1>0, <2>1 DEF LoadRow
  <2>2. CASE PutRow(p, d)
    BY <2>2, PutRowEffect DEF Outdates, CallStep
  <2> QED BY <1>12, <2>1, <2>2
<1> QED BY <1>1, <1>2, <1>3, <1>4, <1>5, <1>6, <1>7, <1>8, <1>9, <1>10, <1>11, <1>12
        DEF Next, Operation, Continue

(* Operations on a document that exists: a copy not marked is up to date.  *)
Loaded(r) == r.op \in {"claim", "apply", "complete", "revoke"} \/ r.pc = "saving"
Known == \A c \in Call : Loaded(call[c]) => call[c].dev \in registered

LEMMA RegisteredGrows ==
  ASSUME Base, [Next]_vars
  PROVE  registered \subseteq registered'
<1>1. ASSUME NEW c \in Call, Continue(c) PROVE registered \subseteq registered'
  BY <1>1, CreateDeviceEffect, SaveCases
     DEF Continue, FindDefault, FindTemplate, RevokeIts, LookAtDefault, DeleteOne
<1>2. ASSUME NEW c \in Call, NEW d \in Device, DeviceCall(c, d) PROVE registered \subseteq registered'
  BY <1>2, DeviceCallStarts
<1>3. ASSUME NEW c \in Call, NEW t \in Template, Delete(c, t) PROVE registered \subseteq registered'
  BY <1>3 DEF Delete
<1>4. CASE Elsewhere
  BY <1>4 DEF Elsewhere, Register, Attach, Lapse, Issue, RevokeCertificate, PutTemplate
<1>5. CASE UNCHANGED vars
  BY <1>5 DEF vars
<1>6. ASSUME NEW p \in Page, NEW e \in Device, LoadRow(p, e) \/ PutRow(p, e)
      PROVE  registered \subseteq registered'
  BY <1>6 DEF LoadRow, PutRow
<1> QED BY <1>1, <1>2, <1>3, <1>4, <1>5, <1>6 DEF Next, Operation

LEMMA NextKnown ==
  ASSUME Base, Base', Known, [Next]_vars
  PROVE  Known'
<1> SUFFICES ASSUME NEW e \in Call, Loaded(call'[e]) PROVE call'[e].dev \in registered
  BY RegisteredGrows DEF Known
<1>1. CASE call'[e] = Idle
  BY <1>1 DEF Loaded, Idle
<1>2. CASE Marked(call[e], call'[e])
  BY <1>2 DEF Marked, Loaded, Known
<1>3. ASSUME NEW d \in Device, DeviceCall(e, d), Started(e) PROVE call'[e].dev \in registered
  <2>1. CASE PhoneHomeUnknown(e, d)
    <3>1. call'[e].op = "phoneHome" /\ call'[e].pc = "creating"
      BY <2>1, StartEffect DEF PhoneHomeUnknown, Record, Base
    <3> QED BY <3>1 DEF Loaded
  <2>2. CASE d \in registered
    BY <1>3, <2>2, DeviceCallStarts
  <2> QED BY <1>3, <2>1, <2>2 DEF DeviceCall, PhoneHome, Claim, Apply, Complete, Revoke
<1>4. ASSUME NEW t \in Template, Delete(e, t) PROVE FALSE
  <2>1. call'[e].op = "delete" /\ call'[e].pc = "counted"
    BY <1>4, StartEffect DEF Delete, Record, Base
  <2> QED BY <2>1 DEF Loaded
<1>5. CASE FindDefault(e)
  BY <1>5, FindDefaultEffect DEF ClaimOK, Loaded, Known
<1>6. CASE FindTemplate(e) /\ Proceeds(e, "saving")
  BY <1>6, FindTemplateEffect DEF ApplyOK, Loaded, Known, Proceeds, Same
<1>7. CASE RevokeIts(e) /\ Proceeds(e, "saving")
  BY <1>7, RevokeItsEffect DEF RevokeOK, Loaded, Known, Proceeds, Same
<1>8. CASE LookAtDefault(e) /\ Proceeds(e, "deleting")
  BY <1>8, LookAtDefaultEffect DEF DeleteOK, Loaded, Proceeds, Same
<1> QED BY <1>1, <1>2, <1>3, <1>4, <1>5, <1>6, <1>7, <1>8, CallSteps DEF CallStep

LEMMA FreshCopies ==
  ASSUME Base, Known, [Next]_vars, NEW e \in Call,
         Loaded(call'[e]), call'[e].stale = FALSE, call'[e].dev \in Device
  PROVE  db'[call'[e].dev] = db[call'[e].dev]
<1> DEFINE d == call'[e].dev
<1> SUFFICES ASSUME db'[d] # db[d] PROVE FALSE
  OBVIOUS
<1>1. CASE Attached(d)
  <2>1. Outdates(d)
    BY <1>1, AttachEffect DEF Attached
  <2> QED BY <2>1 DEF Outdates, Marked
<1>2. ASSUME NEW c \in Call, Created(c, d) PROVE FALSE
  <2>1. Ends(c)
    BY <1>2, CreateDeviceEffect DEF Created
  <2>2. e # c
    BY <2>1 DEF Ends, Idle, Loaded
  <2>3. call'[e] = call[e]
    BY <2>1, <2>2 DEF Ends, Only
  <2> QED BY <1>2, <2>3 DEF Known, Created
<1>3. ASSUME NEW c \in Call, SavedBy(c, d) PROVE FALSE
  <2>1. e # c
    BY <1>3 DEF SavedBy, Overtakes, Idle, Loaded
  <2>2. Overtakes(c) /\ call[c].dev = d
    BY <1>3 DEF SavedBy
  <2>3. /\ Marked(call[e], call'[e])
        /\ call[e].dev = call[c].dev => call'[e].stale = TRUE
    BY <2>1, <2>2 DEF Overtakes
  <2>4. call[e].dev = call'[e].dev
    BY <2>3 DEF Marked
  <2> QED BY <2>2, <2>3, <2>4
<1>4. CASE Put(d)
  <2>1. Outdates(d)
    BY <1>4, PutRowEffect DEF Put
  <2> QED BY <2>1 DEF Outdates, Marked
<1> QED BY <1>1, <1>2, <1>3, <1>4, DocSteps DEF DocStep

LEMMA SavedField ==
  ASSUME NEW c \in Call, NEW d \in Device, SavedBy(c, d), NEW f \in Field
  PROVE  db'[d][f] = IF f \in DOMAIN call[c].writes THEN call[c].writes[f] ELSE db[d][f]
  BY SavedFields DEF SavedBy

LEMMA AttachedField ==
  ASSUME NEW d \in Device, NEW x, db'[d] = Saved(db[d], [cert |-> x])
  PROVE  /\ db'[d]["cert"] = x
         /\ \A f \in Field \ {"cert"} : db'[d][f] = db[d][f]
<1>1. \A f \in Field : db'[d][f] = IF f \in {"cert"} THEN [cert |-> x][f] ELSE db[d][f]
  BY SavedFields
<1> QED BY <1>1 DEF Field

LEMMA PutField ==
  ASSUME Base, NEW p \in Page, NEW d \in Device, db'[d] = Saved(db[d], row[p][d]), NEW f \in Field
  PROVE  \/ db'[d][f] = db[d][f] /\ f \notin DOMAIN row[p][d]
         \/ db'[d][f] = row[p][d][f] /\ db'[d][f] \in Values[f] /\ f \in DOMAIN row[p][d]
<1>1. RowOK(row[p][d])
  BY DEF Base, Rows
<1>2. db'[d][f] = IF f \in DOMAIN row[p][d] THEN row[p][d][f] ELSE db[d][f]
  BY SavedFields
<1> QED BY <1>1, <1>2 DEF RowOK

LEMMA CreatedField ==
  ASSUME Base, NEW c \in Call, NEW d \in Device, Created(c, d)
  PROVE  /\ db'[d]["token"] = call[c].arg
         /\ \A f \in Field \ {"token"} : db'[d][f] = db[d][f]
<1>1. db[d] = [f \in Field |-> db[d][f]]
  BY DocumentFields DEF Base, Data
<1> QED BY <1>1 DEF Created, Field

(* What the save of each operation writes.                                 *)
LEMMA SavedWrites ==
  ASSUME Base, NEW c \in Call, NEW d \in Device, SavedBy(c, d)
  PROVE  LET w == call[c].writes  op == call[c].op IN
         /\ CallOK(call[c]) /\ op \in {"phoneHome", "claim", "apply", "complete", "revoke"}
         /\ "cert" \notin DOMAIN w
         /\ "token" \in DOMAIN w => op = "phoneHome" /\ w["token"] = call[c].arg
         /\ "owner" \in DOMAIN w => op = "claim" /\ w["owner"] \in UserId
         /\ "template" \in DOMAIN w => op \in {"claim", "apply"} /\ w["template"] \in Template
         /\ op = "claim" => "status" \in DOMAIN w
         /\ "status" \in DOMAIN w =>
               \/ op = "claim" /\ w["status"] = "claimed"
               \/ op = "complete" /\ w["status"] = "provisioned"
               \/ op = "revoke" /\ w["status"] = "revoked"
<1>1. CallOK(call[c]) /\ call[c].pc = "saving"
  BY DEF SavedBy, Base, Calls
<1> QED BY <1>1, PcOf DEF PhoneHomeOK, ClaimOK, ApplyOK, CompleteOK, RevokeOK, OnlyWrites

-----------------------------------------------------------------------------
(* A provisioned device is equipped: no operation takes a template or a    *)
(* certificate away, so what completeProvisioning saw is still there.      *)
Equipped(d) == db[d].template # None /\ db[d].cert # None
RowEquipped(w) ==
    "status" \in DOMAIN w /\ w["status"] = "provisioned" =>
        "template" \in DOMAIN w /\ "cert" \in DOMAIN w
EquippedInv ==
    /\ \A d \in Device : db[d].status = "provisioned" => Equipped(d)
    /\ \A c \in Call : call[c].op = "complete" => Equipped(call[c].dev)
    /\ \A p \in Page, d \in Device : RowEquipped(row[p][d])

LEMMA EquippedStays ==
  ASSUME Base, [Next]_vars, NEW d \in Device, Equipped(d)
  PROVE  Equipped(d)'
<1>1. CASE Attached(d)
  BY <1>1, AttachedField, NoneApart DEF Attached, Equipped, Field
<1>2. ASSUME NEW c \in Call, Created(c, d) PROVE Equipped(d)'
  BY <1>2, CreatedField DEF Equipped, Field
<1>3. ASSUME NEW c \in Call, SavedBy(c, d) PROVE Equipped(d)'
  <2>1. "cert" \in Field /\ "template" \in Field
    BY DEF Field
  <2>2. db'[d]["cert"] = db[d]["cert"]
    BY <1>3, <2>1, SavedField, SavedWrites
  <2>3. db'[d]["template"] = db[d]["template"] \/ db'[d]["template"] \in Template
    BY <1>3, <2>1, SavedField, SavedWrites
  <2> QED BY <2>2, <2>3, NoneApart DEF Equipped
<1>4. CASE Put(d)
  <2>1. "cert" \in Field /\ "template" \in Field
    BY DEF Field
  <2>2. PICK p \in Page : db'[d] = Saved(db[d], row[p][d])
    BY <1>4 DEF Put
  <2>3. db'[d]["cert"] = db[d]["cert"] \/ db'[d]["cert"] \in Certificate
    BY <2>1, <2>2, PutField, ValuesFields
  <2>4. db'[d]["template"] = db[d]["template"] \/ db'[d]["template"] \in Template
    BY <2>1, <2>2, PutField, ValuesFields
  <2> QED BY <2>3, <2>4, NoneApart DEF Equipped
<1> QED BY <1>1, <1>2, <1>3, <1>4, DocSteps DEF DocStep, Equipped

LEMMA NextEquipped ==
  ASSUME Base, Base', EquippedInv, [Next]_vars
  PROVE  EquippedInv'
<1>1. ASSUME NEW d \in Device, db'[d].status = "provisioned" PROVE Equipped(d)'
  <2>1. CASE db[d].status = "provisioned"
    BY <2>1, EquippedStays DEF EquippedInv
  <2>2. ASSUME NEW c \in Call, SavedBy(c, d), db[d].status # "provisioned" PROVE Equipped(d)'
    <3>1. db'[d]["status"] = IF "status" \in DOMAIN call[c].writes
                               THEN call[c].writes["status"] ELSE db[d]["status"]
      BY <2>2, SavedField DEF Field
    <3>2. call[c].op = "complete" /\ call[c].dev = d
      BY <1>1, <2>2, <3>1, SavedWrites DEF SavedBy
    <3> QED BY <3>2, EquippedStays DEF EquippedInv
  <2>3. CASE Attached(d)
    <3>1. db'[d]["status"] = db[d]["status"]
      BY <2>3, AttachedField DEF Attached, Field
    <3> QED BY <1>1, <2>1, <3>1
  <2>4. ASSUME NEW c \in Call, Created(c, d) PROVE Equipped(d)'
    <3>1. db'[d]["status"] = db[d]["status"]
      BY <2>4, CreatedField DEF Field
    <3> QED BY <1>1, <2>1, <3>1
  <2>5. CASE db'[d] = db[d]
    BY <1>1, <2>1, <2>5
  <2>6. CASE Put(d)
    <3>0. "status" \in Field /\ "cert" \in Field /\ "template" \in Field
      BY DEF Field
    <3>1. PICK p \in Page : db'[d] = Saved(db[d], row[p][d])
      BY <2>6 DEF Put
    <3>2. CASE "status" \in DOMAIN row[p][d] /\ row[p][d]["status"] = "provisioned"
      <4>1. "template" \in DOMAIN row[p][d] /\ "cert" \in DOMAIN row[p][d]
        BY <3>2 DEF EquippedInv, RowEquipped
      <4>2. db'[d]["template"] \in Template /\ db'[d]["cert"] \in Certificate
        BY <3>0, <3>1, <4>1, PutField, ValuesFields
      <4> QED BY <4>2, NoneApart DEF Equipped
    <3>3. CASE db'[d]["status"] = db[d]["status"]
      BY <1>1, <2>1, <3>3
    <3> QED BY <1>1, <3>0, <3>1, <3>2, <3>3, PutField
  <2> QED BY <2>1, <2>2, <2>3, <2>4, <2>5, <2>6, DocSteps DEF DocStep
<1>2. ASSUME NEW e \in Call, call'[e].op = "complete" PROVE Equipped(call[e].dev)'
  <2>0. call'[e].dev \in Device
    BY <1>2, OpOf DEF Base, Calls, CompleteOK
  <2>1. CASE call[e].op = "complete" /\ call[e].dev = call'[e].dev
    BY <2>0, <2>1, EquippedStays DEF EquippedInv
  <2>2. ASSUME NEW d \in Device, DeviceCall(e, d) PROVE Equipped(call[e].dev)'
    <3>1. CASE Complete(e, d)
      <4>1. Equipped(d) /\ call'[e].dev = d
        BY <2>2, <3>1, DeviceCallStarts DEF Complete, MayComplete, Equipped
      <4> QED BY <4>1, EquippedStays
    <3>2. CASE PhoneHomeUnknown(e, d) \/ PhoneHome(e, d) \/ Revoke(e, d)
      BY <1>2, <3>2, StartedOps
    <3>3. ASSUME NEW u \in UserId, Claim(e, d, u) PROVE FALSE
      BY <1>2, <3>3, StartedOps
    <3>4. ASSUME NEW t \in Template, Apply(e, d, t) PROVE FALSE
      BY <1>2, <3>4, StartedOps
    <3> QED BY <2>2, <3>1, <3>2, <3>3, <3>4 DEF DeviceCall
  <2>3. ASSUME NEW t \in Template, Delete(e, t) PROVE FALSE
    BY <1>2, <2>3, StartedOps
  <2>4. CASE call'[e] = Idle
    BY <1>2, <2>4 DEF Idle
  <2>5. CASE Marked(call[e], call'[e])
    BY <1>2, <2>1, <2>5 DEF Marked
  <2>6. CASE FindDefault(e)
    BY <1>2, <2>6, FindDefaultEffect DEF ClaimOK
  <2>7. CASE (FindTemplate(e) /\ Proceeds(e, "saving")) \/ (RevokeIts(e) /\ Proceeds(e, "saving"))
             \/ (LookAtDefault(e) /\ Proceeds(e, "deleting"))
    BY <1>2, <2>1, <2>7 DEF Proceeds, Same
  <2> QED BY <2>2, <2>3, <2>4, <2>5, <2>6, <2>7, CallSteps DEF CallStep
<1>3. ASSUME NEW p \in Page, NEW d \in Device PROVE RowEquipped(row'[p][d])
  <2>1. CASE row'[p][d] = row[p][d]
    BY <2>1 DEF EquippedInv
  <2>2. CASE row'[p][d] = Row(db'[d])
    <3>0. "status" \in Field /\ "cert" \in Field /\ "template" \in Field
      BY DEF Field
    <3>1. db'[d] \in Document
      BY DEF Base, Data
    <3>2. /\ \A f \in Field : db'[d][f] # None <=> f \in DOMAIN Row(db'[d])
          /\ \A f \in DOMAIN Row(db'[d]) : Row(db'[d])[f] = db'[d][f]
      BY <3>1, RowOf
    <3> QED BY <1>1, <2>2, <3>0, <3>2 DEF RowEquipped, Equipped
  <2> QED BY <2>1, <2>2, RowSteps DEF RowStep
<1> QED BY <1>1, <1>2, <1>3 DEF EquippedInv

LEMMA InitInvs == Init => EquippedInv /\ Known
  BY DEF Init, EquippedInv, Known, Loaded, Idle, NewDocument, RowEquipped, Nothing

(* A provisioned device has a template and a certificate, however many     *)
(* operations from old copies it went through.                             *)
THEOREM ProvisionedAlwaysEquipped == Spec => []ProvisionedIsEquipped
<1>1. EquippedInv /\ Base /\ Base' /\ [Next]_vars => EquippedInv'
  BY NextEquipped
<1>2. Base /\ EquippedInv => ProvisionedIsEquipped
  BY DEF Base, Data, EquippedInv, Equipped, ProvisionedIsEquipped
<1> QED BY <1>1, <1>2, InitInvs, TypeCorrect, PTL DEF Spec

-----------------------------------------------------------------------------
(* Claims.  A device is unclaimed only while it has no owner, unless a row *)
(* made it so, and a claim whose copy is up to date is about an unclaimed  *)
(* device.                                                                 *)
ClaimInv ==
    /\ \A d \in Device : db[d].status = "unclaimed" => db[d].owner = None \/ d \in reopened
    /\ \A c \in Call : call[c].op = "claim" /\ call[c].stale = FALSE =>
                          db[call[c].dev].status = "unclaimed"

(* Status and owner are changed by saves and rows alone.                   *)
LEMMA FieldsKept ==
  ASSUME Base, [Next]_vars, NEW d \in Device, NEW f \in {"status", "owner"}
  PROVE  \/ db'[d][f] = db[d][f]
         \/ Put(d)
         \/ \E c \in Call : SavedBy(c, d)
<1>1. f \in Field \ {"cert"} /\ f \in Field \ {"token"}
  BY DEF Field
<1>2. ASSUME Attached(d) PROVE db'[d][f] = db[d][f]
  BY <1>1, <1>2, AttachedField DEF Attached
<1>3. ASSUME NEW c \in Call, Created(c, d) PROVE db'[d][f] = db[d][f]
  BY <1>1, <1>3, CreatedField
<1> QED BY <1>2, <1>3, DocSteps DEF DocStep

(* Only the save of a claim forgets that a device was reopened, and makes  *)
(* it claimed.                                                             *)
LEMMA ReopenedKept ==
  ASSUME Base, [Next]_vars, NEW d \in Device, d \in reopened, d \notin reopened'
  PROVE  db'[d]["status"] = "claimed"
<1>1. ASSUME NEW c \in Call, Save(c) PROVE db'[d]["status"] = "claimed"
  <2>1. Made(c) /\ Overtakes(c) /\ call[c].pc = "saving"
    BY <1>1, SaveCases
  <2>2. call[c].op = "claim" /\ call[c].dev = d
    BY <2>1 DEF Made
  <2>3. db'[d] = Saved(db[d], call[c].writes)
    BY <2>1, <2>2, WriteOne DEF Made, Base
  <2>4. SavedBy(c, d)
    BY <1>1, <2>1, <2>2, <2>3 DEF SavedBy
  <2>5. "status" \in DOMAIN call[c].writes /\ call[c].writes["status"] = "claimed"
    BY <2>2, <2>4, SavedWrites
  <2> QED BY <2>4, <2>5, SavedField DEF Field
<1>2. ASSUME NEW c \in Call, Continue(c), ~ Save(c) PROVE FALSE
  BY <1>2 DEF Continue, CreateDevice, FindDefault, FindTemplate, RevokeIts, LookAtDefault, DeleteOne, history
<1>3. ASSUME NEW c \in Call, NEW e \in Device, DeviceCall(c, e) PROVE FALSE
  BY <1>3, DeviceCallStarts DEF history
<1>4. ASSUME NEW c \in Call, NEW t \in Template, Delete(c, t) PROVE FALSE
  BY <1>4 DEF Delete, history
<1>5. ASSUME Elsewhere PROVE FALSE
  BY <1>5 DEF Elsewhere, Register, Attach, Lapse, Issue, RevokeCertificate, PutTemplate, history
<1>6. ASSUME NEW p \in Page, NEW e \in Device, LoadRow(p, e) \/ PutRow(p, e) PROVE FALSE
  BY <1>6 DEF LoadRow, PutRow, history
<1>7. CASE UNCHANGED vars
  BY <1>7 DEF vars
<1> QED BY <1>1, <1>2, <1>3, <1>4, <1>5, <1>6, <1>7 DEF Next, Operation

LEMMA NextClaimInv ==
  ASSUME Base, Base', Known, ClaimInv, [Next]_vars
  PROVE  ClaimInv'
<1>1. ASSUME NEW d \in Device, db'[d].status = "unclaimed"
      PROVE  db'[d].owner = None \/ d \in reopened'
  <2>1. CASE db'[d]["status"] = db[d]["status"] /\ db'[d]["owner"] = db[d]["owner"]
    BY <1>1, <2>1, ReopenedKept DEF ClaimInv
  <2>2. ASSUME NEW c \in Call, SavedBy(c, d) PROVE db'[d].owner = None \/ d \in reopened'
    <3> DEFINE w == call[c].writes
    <3>1. /\ db'[d]["status"] = IF "status" \in DOMAIN w THEN w["status"] ELSE db[d]["status"]
          /\ db'[d]["owner"] = IF "owner" \in DOMAIN w THEN w["owner"] ELSE db[d]["owner"]
      BY <2>2, SavedField DEF Field
    <3>2. /\ "status" \in DOMAIN w => w["status"] # "unclaimed"
          /\ "owner" \in DOMAIN w => "status" \in DOMAIN w
      BY <2>2, SavedWrites
    <3>3. db'[d]["status"] = db[d]["status"] /\ db'[d]["owner"] = db[d]["owner"]
      BY <1>1, <3>1, <3>2
    <3> QED BY <2>1, <3>3
  <2>3. CASE Put(d)
    <3>1. PICK p \in Page : PutRow(p, d) /\ db'[d] = Saved(db[d], row[p][d])
      BY <2>3 DEF Put
    <3>2. reopened' = IF db'[d].status = "unclaimed" /\ db'[d].owner # None
                        THEN reopened \cup {d} ELSE reopened
      BY <3>1 DEF PutRow
    <3> QED BY <1>1, <3>2
  <2> QED BY <2>1, <2>2, <2>3, FieldsKept
<1>2. ASSUME NEW e \in Call, call'[e].op = "claim", call'[e].stale = FALSE
      PROVE  db'[call'[e].dev].status = "unclaimed"
  <2>0. call'[e].dev \in Device /\ Loaded(call'[e])
    BY <1>2, OpOf DEF Base, Calls, ClaimOK, Loaded
  <2>1. db'[call'[e].dev] = db[call'[e].dev]
    BY <1>2, <2>0, FreshCopies
  <2>2. CASE /\ call[e].op = "claim" /\ call[e].stale = FALSE /\ call[e].dev = call'[e].dev
    BY <2>1, <2>2 DEF ClaimInv
  <2>3. ASSUME NEW d \in Device, DeviceCall(e, d) PROVE db'[call'[e].dev].status = "unclaimed"
    <3>1. PICK u \in UserId : Claim(e, d, u)
      BY <1>2, <2>3, StartedOps DEF DeviceCall
    <3>2. db[d].status = "unclaimed" /\ call'[e].dev = d
      BY <2>3, <3>1, DeviceCallStarts DEF Claim, MayClaim
    <3> QED BY <2>1, <3>2
  <2>4. ASSUME NEW t \in Template, Delete(e, t) PROVE FALSE
    BY <1>2, <2>4, StartedOps
  <2>5. CASE call'[e] = Idle
    BY <1>2, <2>5 DEF Idle
  <2>6. CASE Marked(call[e], call'[e])
    <3>1. call[e].stale \in BOOLEAN
      BY DEF Base, Calls, CallOK
    <3> QED BY <1>2, <2>2, <2>6, <3>1 DEF Marked
  <2>7. CASE FindDefault(e)
    BY <1>2, <2>2, <2>7, FindDefaultEffect DEF ClaimOK
  <2>8. CASE (FindTemplate(e) /\ Proceeds(e, "saving")) \/ (RevokeIts(e) /\ Proceeds(e, "saving"))
             \/ (LookAtDefault(e) /\ Proceeds(e, "deleting"))
    BY <1>2, <2>2, <2>8 DEF Proceeds, Same
  <2> QED BY <2>3, <2>4, <2>5, <2>6, <2>7, <2>8, CallSteps DEF CallStep
<1> QED BY <1>1, <1>2 DEF ClaimInv

LEMMA InitClaimInv == Init => ClaimInv
  BY DEF Init, ClaimInv, Idle, NewDocument

(* An owner is replaced, or a provisioning or revocation undone for a      *)
(* claim, only from a copy or a row that was out of date, or after one.    *)
THEOREM ClaimAlwaysOverridesByRace == Spec => ClaimOverridesOnlyByRace
<1> DEFINE Raced(d) == \/ \E c \in Call : call[c].op = "claim" /\ call[c].dev = d /\ call[c].stale
                       \/ \E p \in Page : PutRow(p, d)
                       \/ d \in reopened
           Act == \A d \in Device :
                    Claimed(d) /\ (db[d].owner # None \/ db[d].status # "unclaimed") => Raced(d)
<1>1. Base /\ ClaimInv /\ [Next]_vars => Act
  <2> SUFFICES ASSUME Base, ClaimInv, [Next]_vars, NEW d \in Device, Claimed(d),
                      db[d].owner # None \/ db[d].status # "unclaimed"
               PROVE  Raced(d)
    OBVIOUS
  <2>0. CASE Put(d) \/ d \in reopened
    BY <2>0 DEF Put
  <2> SUFFICES ASSUME ~ Put(d), d \notin reopened PROVE Raced(d)
    BY <2>0
  <2>1. db[d].status # "unclaimed"
    BY DEF ClaimInv
  <2>2. PICK c \in Call : SavedBy(c, d)
    BY FieldsKept DEF Claimed
  <2> DEFINE w == call[c].writes
  <2>3. /\ db'[d]["status"] = IF "status" \in DOMAIN w THEN w["status"] ELSE db[d]["status"]
        /\ db'[d]["owner"] = IF "owner" \in DOMAIN w THEN w["owner"] ELSE db[d]["owner"]
    BY <2>2, SavedField DEF Field
  <2>4. call[c].op = "claim"
    BY <2>2, <2>3, SavedWrites DEF Claimed
  <2>5. call[c].stale \in BOOLEAN /\ call[c].dev = d
    BY <2>2 DEF SavedBy, Base, Calls, CallOK
  <2>6. call[c].stale # FALSE
    BY <2>1, <2>4, <2>5 DEF ClaimInv
  <2> QED BY <2>4, <2>5, <2>6
<1>2. Known /\ Base /\ Base' /\ [Next]_vars => Known'
  BY NextKnown
<1>3. Known /\ Base /\ Base' /\ ClaimInv /\ [Next]_vars => ClaimInv'
  BY NextClaimInv
<1> HIDE DEF Act
<1>4. Spec => [][Act]_vars
  BY <1>1, <1>2, <1>3, InitInvs, InitClaimInv, TypeCorrect, PTL DEF Spec
<1> QED BY <1>4 DEF ClaimOverridesOnlyByRace, Act

-----------------------------------------------------------------------------
(* Revocation.  Safe(d): were d revoked now, its certificate would be too, *)
(* or a client has interfered.  An operation that revokes d reaches Safe   *)
(* by revoking the certificate it loaded; only an up-to-date one lifts the *)
(* excuse, and it knows then which certificate d has.                      *)
Safe(d) == d \in reattached \/ db[d].cert = None \/ certificate[db[d].cert] = "revoked"
RevokeInv(c) ==
    LET d == call[c].dev  x == call[c].arg IN
    /\ call[c].pc = "saving" => Safe(d)
    /\ call[c].pc = "certificate" => Safe(d) \/ x = db[d].cert
    /\ call[c].stale = FALSE => x = db[d].cert
    /\ call[c].stale = FALSE /\ call[c].pc = "saving" => x = None \/ certificate[x] = "revoked"
RevokedInv ==
    /\ \A d \in Device : db[d].status = "revoked" => Safe(d)
    /\ \A c \in Call : call[c].op = "revoke" => RevokeInv(c)

LEMMA RevokedStays ==
  ASSUME Base, [Next]_vars, NEW x \in Certificate, certificate[x] = "revoked"
  PROVE  certificate'[x] = "revoked"
<1>1. CASE Elsewhere
  BY <1>1 DEF Elsewhere, Register, Attach, Lapse, Issue, RevokeCertificate, PutTemplate, Base, Data
<1>2. ASSUME NEW c \in Call, Continue(c) PROVE certificate'[x] = "revoked"
  <2>1. CASE RevokeIts(c)
    BY <2>1 DEF RevokeIts, Base, Data
  <2>2. CASE certificate' = certificate
    BY <2>2
  <2> QED BY <1>2, <2>1, <2>2
          DEF Continue, CreateDevice, FindDefault, FindTemplate, Save, LookAtDefault, DeleteOne
<1>3. ASSUME NEW c \in Call, NEW d \in Device, DeviceCall(c, d) PROVE certificate'[x] = "revoked"
  BY <1>3, DeviceCallStarts
<1>4. ASSUME NEW c \in Call, NEW t \in Template, Delete(c, t) PROVE certificate'[x] = "revoked"
  BY <1>4 DEF Delete
<1>5. CASE UNCHANGED vars
  BY <1>5 DEF vars
<1>6. ASSUME NEW p \in Page, NEW e \in Device, LoadRow(p, e) \/ PutRow(p, e)
      PROVE  certificate'[x] = "revoked"
  BY <1>6 DEF LoadRow, PutRow
<1> QED BY <1>1, <1>2, <1>3, <1>4, <1>5, <1>6 DEF Next, Operation

(* The certificate of a device is changed by a client alone: it attaches   *)
(* another one, or puts a row.                                             *)
LEMMA CertKept ==
  ASSUME Base, [Next]_vars, NEW d \in Device
  PROVE  db'[d]["cert"] = db[d]["cert"] \/ Attached(d) \/ Put(d)
<1>1. "cert" \in Field /\ "cert" \in Field \ {"token"}
  BY DEF Field
<1>2. ASSUME NEW c \in Call, Created(c, d) PROVE db'[d]["cert"] = db[d]["cert"]
  BY <1>1, <1>2, CreatedField
<1>3. ASSUME NEW c \in Call, SavedBy(c, d) PROVE db'[d]["cert"] = db[d]["cert"]
  BY <1>1, <1>3, SavedField, SavedWrites
<1> QED BY <1>2, <1>3, DocSteps DEF DocStep

(* Only the save of an up-to-date revocation lifts the excuse.             *)
LEMMA ExcuseKept ==
  ASSUME Base, [Next]_vars, NEW d \in Device, d \in reattached
  PROVE  \/ d \in reattached'
         \/ \E c \in Call : /\ call[c].op = "revoke" /\ call[c].stale = FALSE /\ call[c].dev = d
                            /\ call[c].pc = "saving"
                            /\ db'[d]["cert"] = db[d]["cert"] /\ certificate' = certificate
<1>1. CASE Elsewhere
  BY <1>1 DEF Elsewhere, Register, Attach, Lapse, Issue, RevokeCertificate, PutTemplate, history
<1>2. ASSUME NEW c \in Call, Save(c), d \notin reattached'
      PROVE  /\ call[c].op = "revoke" /\ call[c].stale = FALSE /\ call[c].dev = d
             /\ call[c].pc = "saving"
             /\ db'[d]["cert"] = db[d]["cert"] /\ certificate' = certificate
  <2>1. Made(c) /\ CallOK(call[c]) /\ certificate' = certificate /\ call[c].pc = "saving"
    BY <1>2, SaveCases
  <2>2. call[c].op = "revoke" /\ call[c].stale = FALSE /\ call[c].dev = d
    BY <1>2, <2>1 DEF Made, CallOK
  <2>3. ~ Attached(d) /\ ~ Put(d)
    BY <1>2 DEF Attached, Attach, Put, PutRow
  <2> QED BY <2>1, <2>2, <2>3, CertKept
<1>3. ASSUME NEW c \in Call, Continue(c), ~ Save(c) PROVE d \in reattached'
  BY <1>3 DEF Continue, CreateDevice, FindDefault, FindTemplate, RevokeIts, LookAtDefault, DeleteOne, history
<1>4. ASSUME NEW c \in Call, NEW e \in Device, DeviceCall(c, e) PROVE d \in reattached'
  BY <1>4, DeviceCallStarts DEF history
<1>5. ASSUME NEW c \in Call, NEW t \in Template, Delete(c, t) PROVE d \in reattached'
  BY <1>5 DEF Delete, history
<1>6. CASE UNCHANGED vars
  BY <1>6 DEF vars
<1>7. ASSUME NEW p \in Page, NEW e \in Device, LoadRow(p, e) \/ PutRow(p, e)
      PROVE  d \in reattached'
  BY <1>7 DEF LoadRow, PutRow, history
<1> QED BY <1>1, <1>2, <1>3, <1>4, <1>5, <1>6, <1>7 DEF Next, Operation

(* A client that changes the certificate in or after the revocation, or    *)
(* makes the device revoked, is an excuse.                                 *)
LEMMA ClientExcuses ==
  ASSUME Base, NEW d \in Device, Attached(d) \/ Put(d)
  PROVE  /\ db'[d]["cert"] # db[d]["cert"] /\ InRevocation(d) => d \in reattached'
         /\ db'[d]["status"] = "revoked" /\ db[d]["status"] # "revoked" => d \in reattached'
<1>1. CASE Put(d)
  <2>1. PICK p \in Page : PutRow(p, d) /\ db'[d] = Saved(db[d], row[p][d])
    BY <1>1 DEF Put
  <2>2. PICK new : new = db'[d]
    OBVIOUS
  <2>3. reattached' = IF \/ new.cert # db[d].cert /\ InRevocation(d)
                         \/ new.status = "revoked" /\ new.status # db[d].status
                        THEN reattached \cup {d} ELSE reattached
    BY <2>1, <2>2 DEF PutRow
  <2> QED BY <2>2, <2>3
<1>2. CASE Attached(d)
  <2>1. db'[d]["status"] = db[d]["status"]
    BY <1>2, AttachedField DEF Attached, Field
  <2> QED BY <1>2, <2>1 DEF Attached, Attach
<1> QED BY <1>1, <1>2

LEMMA SafeStays ==
  ASSUME Base, RevokedInv, [Next]_vars, NEW d \in Device, Safe(d),
         \/ db[d].status = "revoked"
         \/ \E c \in Call : call[c].op = "revoke" /\ call[c].dev = d
  PROVE  Safe(d)'
<1>1. CASE db'[d]["cert"] # db[d]["cert"]
  <2>1. InRevocation(d)
    BY DEF InRevocation, Busy
  <2>2. d \in reattached'
    BY <1>1, <2>1, CertKept, ClientExcuses
  <2> QED BY <2>2 DEF Safe
<1>2. CASE db'[d]["cert"] = db[d]["cert"]
  <2>0. db[d].cert \in Certificate \cup {None}
    BY DocumentFields DEF Base, Data
  <2>1. CASE db[d].cert = None
    BY <1>2, <2>1 DEF Safe
  <2>2. CASE db[d].cert \in Certificate /\ certificate[db[d].cert] = "revoked"
    BY <1>2, <2>2, RevokedStays DEF Safe
  <2>3. CASE d \in reattached /\ d \notin reattached'
    <3>1. PICK c \in Call : /\ call[c].op = "revoke" /\ call[c].stale = FALSE /\ call[c].dev = d
                           /\ call[c].pc = "saving"
      BY <2>3, ExcuseKept
    <3>2. db[d].cert = None \/ certificate[db[d].cert] = "revoked"
      BY <3>1 DEF RevokedInv, RevokeInv
    <3> QED BY <2>0, <2>1, <2>2, <3>2
  <2> QED BY <2>0, <2>1, <2>2, <2>3 DEF Safe
<1> QED BY <1>1, <1>2

LEMMA RevokeInvStays ==
  ASSUME Base, Base', Known, RevokedInv, [Next]_vars, NEW e \in Call,
         call[e].op = "revoke", Marked(call[e], call'[e])
  PROVE  RevokeInv(e)'
<1>0. /\ RevokeInv(e)
      /\ call'[e].dev = call[e].dev /\ call'[e].arg = call[e].arg /\ call'[e].pc = call[e].pc
      /\ call'[e].stale = FALSE => call[e].stale = FALSE
      /\ call'[e].op = "revoke"
      /\ call[e].dev \in Device /\ call[e].arg \in Certificate \cup {None}
  BY OpOf DEF Base, Calls, CallOK, RevokeOK, RevokedInv, Marked
<1>1. ASSUME NEW d \in Device, d = call[e].dev, Safe(d) PROVE Safe(d)'
  BY <1>0, <1>1, SafeStays
<1>2. ASSUME NEW d \in Device, d = call[e].dev, call[e].pc = "certificate", call[e].arg = db[d].cert
      PROVE  Safe(d)' \/ call[e].arg = db'[d].cert
  <2>1. CASE db'[d]["cert"] # db[d]["cert"]
    <3>1. InRevocation(d)
      BY <1>0, <1>2 DEF InRevocation, Busy
    <3>2. d \in reattached'
      BY <2>1, <3>1, CertKept, ClientExcuses
    <3> QED BY <3>2 DEF Safe
  <2>2. CASE db'[d]["cert"] = db[d]["cert"]
    BY <1>2, <2>2
  <2> QED BY <2>1, <2>2
<1>3. ASSUME NEW d \in Device, d = call[e].dev, call'[e].stale = FALSE PROVE call[e].arg = db'[d].cert
  <2>1. call'[e].dev \in Device /\ Loaded(call'[e])
    BY <1>0 DEF Loaded
  <2>2. db'[d] = db[d]
    BY <1>0, <1>3, <2>1, FreshCopies
  <2> QED BY <1>0, <1>3, <2>2 DEF RevokeInv
<1>4. ASSUME call'[e].stale = FALSE, call[e].pc = "saving"
      PROVE  call[e].arg = None \/ certificate'[call[e].arg] = "revoked"
  <2>1. call[e].arg = None \/ certificate[call[e].arg] = "revoked"
    BY <1>0, <1>4 DEF RevokeInv
  <2> QED BY <1>0, <2>1, RevokedStays
<1>5. PICK d \in Device : d = call[e].dev
  BY <1>0
<1> QED BY <1>0, <1>1, <1>2, <1>3, <1>4, <1>5 DEF RevokeInv, Safe

LEMMA RevokeInvReached ==
  ASSUME Base, RevokedInv, [Next]_vars, NEW e \in Call, RevokeIts(e), Proceeds(e, "saving")
  PROVE  RevokeInv(e)'
<1> DEFINE d == call[e].dev
           x == call[e].arg
<1>0. /\ d \in Device /\ x \in Certificate /\ RevokeInv(e) /\ call[e].pc = "certificate"
      /\ call[e].op = "revoke"
      /\ call'[e].dev = d /\ call'[e].arg = x /\ call'[e].pc = "saving"
      /\ call'[e].stale = call[e].stale
  <2>1. RevokeOK(call[e]) /\ call[e].pc = "certificate"
    BY RevokeItsEffect
  <2> QED BY <2>1 DEF RevokeOK, RevokedInv, Proceeds, Same
<1>1. certificate'[x] = "revoked" /\ db' = db /\ reattached' = reattached
  <2>1. call'[e] # Idle
    BY <1>0 DEF Idle
  <2>2. certificate' = [certificate EXCEPT ![x] = "revoked"]
    BY <2>1, RevokeItsEffect DEF Ends
  <2> QED BY <1>0, <2>2 DEF RevokeIts, history, Base, Data
<1>2. PICK dd \in Device : dd = d
  BY <1>0
<1>3. Safe(dd)'
  <2>1. CASE Safe(dd)
    BY <1>0, <1>2, <2>1, SafeStays
  <2>2. CASE x = db[dd].cert
    BY <1>1, <2>2 DEF Safe
  <2> QED BY <1>0, <1>2, <2>1, <2>2 DEF RevokeInv
<1> QED BY <1>0, <1>1, <1>2, <1>3 DEF RevokeInv, Safe

LEMMA RevokeInvStarts ==
  ASSUME Base, NEW e \in Call, NEW d \in Device, Revoke(e, d)
  PROVE  RevokeInv(e)'
<1> DEFINE w == Modified(db[d], [status |-> "revoked"])
<1>1. Record(call'[e], "revoke", NextOfRevoke(d), d, db[d].cert, w)
  BY StartEffect DEF Base, Revoke
<1>2. db' = db
  BY DEF Revoke
<1> HIDE DEF w
<1> QED BY <1>1, <1>2 DEF Record, RevokeInv, NextOfRevoke, Safe

LEMMA NextRevokedInv ==
  ASSUME Base, Base', Known, RevokedInv, [Next]_vars
  PROVE  RevokedInv'
<1>1. ASSUME NEW d \in Device, db'[d].status = "revoked" PROVE Safe(d)'
  <2>1. CASE db[d].status = "revoked"
    BY <2>1, SafeStays DEF RevokedInv
  <2>2. ASSUME NEW c \in Call, SavedBy(c, d), db[d].status # "revoked" PROVE Safe(d)'
    <3>1. db'[d]["status"] = IF "status" \in DOMAIN call[c].writes
                               THEN call[c].writes["status"] ELSE db[d]["status"]
      BY <2>2, SavedField DEF Field
    <3>2. call[c].op = "revoke" /\ call[c].dev = d /\ call[c].pc = "saving"
      BY <1>1, <2>2, <3>1, SavedWrites DEF SavedBy
    <3>3. Safe(d)
      BY <3>2 DEF RevokedInv, RevokeInv
    <3> QED BY <3>2, <3>3, SafeStays
  <2>3. CASE Put(d) /\ db[d].status # "revoked"
    BY <1>1, <2>3, ClientExcuses DEF Safe
  <2> QED BY <1>1, <2>1, <2>2, <2>3, FieldsKept
<1>2. ASSUME NEW e \in Call, call'[e].op = "revoke" PROVE RevokeInv(e)'
  <2>1. ASSUME NEW d \in Device, DeviceCall(e, d) PROVE RevokeInv(e)'
    <3>1. Revoke(e, d)
      BY <1>2, <2>1, StartedOps DEF DeviceCall
    <3> QED BY <3>1, RevokeInvStarts
  <2>2. ASSUME NEW t \in Template, Delete(e, t) PROVE FALSE
    BY <1>2, <2>2, StartedOps
  <2>3. CASE call'[e] = Idle
    BY <1>2, <2>3 DEF Idle
  <2>4. CASE Marked(call[e], call'[e])
    BY <1>2, <2>4, RevokeInvStays DEF Marked
  <2>5. CASE FindDefault(e)
    BY <1>2, <2>5, FindDefaultEffect DEF ClaimOK
  <2>6. CASE RevokeIts(e) /\ Proceeds(e, "saving")
    BY <2>6, RevokeInvReached
  <2>7. CASE FindTemplate(e) /\ Proceeds(e, "saving")
    BY <1>2, <2>7, FindTemplateEffect DEF Proceeds, Same, ApplyOK
  <2>8. CASE LookAtDefault(e) /\ Proceeds(e, "deleting")
    BY <1>2, <2>8, LookAtDefaultEffect DEF Proceeds, Same, DeleteOK
  <2> QED BY <2>1, <2>2, <2>3, <2>4, <2>5, <2>6, <2>7, <2>8, CallSteps DEF CallStep
<1> QED BY <1>1, <1>2 DEF RevokedInv

(* A revoked device has no active certificate, unless a client gave it one *)
(* during or after the revocation, or revoked it by putting a row.         *)
THEOREM RevokedNeverActive == Spec => []RevokedHasNoActiveCertificate
<1>1. Init => RevokedInv
  BY DEF Init, RevokedInv, NewDocument, Idle
<1>2. Known /\ Base /\ Base' /\ [Next]_vars => Known'
  BY NextKnown
<1>3. Known /\ Base /\ Base' /\ RevokedInv /\ [Next]_vars => RevokedInv'
  BY NextRevokedInv
<1>4. Base /\ RevokedInv => RevokedHasNoActiveCertificate
  BY DEF Base, Data, RevokedInv, Safe, RevokedHasNoActiveCertificate
<1> QED BY <1>1, <1>2, <1>3, <1>4, InitInvs, TypeCorrect, PTL DEF Spec

-----------------------------------------------------------------------------
(* Templates.  While a template is being deleted, and afterwards, every    *)
(* device that has it got it meanwhile, and so did every operation that is *)
(* about to assign it.                                                     *)
TemplateInv ==
    /\ \A d \in Device \ registered : db[d].template = None
    /\ \A d \in Device : db[d].template # None /\ template[db[d].template] = "deleted" =>
                           db[d].template \in hasty
    /\ \A c \in Call, d \in Device :
          call[c].op = "delete" /\ db[d].template = call[c].arg => call[c].arg \in hasty
    /\ \A c \in Call, t \in Template : Assigns(c, t) /\ template[t] = "deleted" => t \in hasty

LEMMA HastyGrows ==
  ASSUME Base, [Next]_vars
  PROVE  hasty \subseteq hasty'
<1>1. ASSUME NEW c \in Call, Continue(c) PROVE hasty \subseteq hasty'
  <2>1. CASE Save(c)
    BY <2>1, SaveCases DEF Made
  <2>2. CASE DeleteOne(c)
    BY <2>2 DEF DeleteOne
  <2> QED BY <1>1, <2>1, <2>2
          DEF Continue, CreateDevice, FindDefault, FindTemplate, RevokeIts, LookAtDefault, history
<1>2. ASSUME NEW c \in Call, NEW d \in Device, DeviceCall(c, d) PROVE hasty \subseteq hasty'
  BY <1>2, DeviceCallStarts DEF history
<1>3. ASSUME NEW c \in Call, NEW t \in Template, Delete(c, t) PROVE hasty \subseteq hasty'
  BY <1>3 DEF Delete, history
<1>4. CASE Elsewhere
  BY <1>4 DEF Elsewhere, Register, Attach, Lapse, Issue, RevokeCertificate, PutTemplate, history
<1>5. CASE UNCHANGED vars
  BY <1>5 DEF vars
<1>6. ASSUME NEW p \in Page, NEW e \in Device, LoadRow(p, e) \/ PutRow(p, e)
      PROVE  hasty \subseteq hasty'
  BY <1>6 DEF LoadRow, PutRow, history
<1> QED BY <1>1, <1>2, <1>3, <1>4, <1>5, <1>6 DEF Next, Operation

(* A template disappears only by the last step of its deletion.            *)
LEMMA DeletedBy ==
  ASSUME Base, [Next]_vars, NEW t \in Template, template'[t] = "deleted", template[t] # "deleted"
  PROVE  \E c \in Call : /\ DeleteOne(c) /\ call[c].op = "delete" /\ call[c].arg = t
                        /\ hasty' = IF \E e \in Call : Assigns(e, t) THEN hasty \cup {t} ELSE hasty
<1>1. CASE Elsewhere
  BY <1>1 DEF Elsewhere, Register, Attach, Lapse, Issue, RevokeCertificate, PutTemplate, Base, Data
<1>2. ASSUME NEW c \in Call, DeleteOne(c)
      PROVE  /\ call[c].op = "delete" /\ call[c].arg = t
             /\ hasty' = IF \E e \in Call : Assigns(e, t) THEN hasty \cup {t} ELSE hasty
  <2>1. call[c].op = "delete" /\ call[c].arg \in Template
    BY <1>2, PcOf DEF DeleteOne, Base, Calls, DeleteOK
  <2>2. template' = [template EXCEPT ![call[c].arg] = "deleted"]
    BY <1>2 DEF DeleteOne
  <2>3. call[c].arg = t
    BY <2>1, <2>2 DEF Base, Data
  <2> QED BY <1>2, <2>1, <2>2, <2>3 DEF DeleteOne
<1>3. ASSUME NEW c \in Call, Continue(c), ~ DeleteOne(c) PROVE template' = template
  BY <1>3 DEF Continue, CreateDevice, FindDefault, FindTemplate, RevokeIts, Save, LookAtDefault
<1>4. ASSUME NEW c \in Call, NEW d \in Device, DeviceCall(c, d) PROVE template' = template
  BY <1>4, DeviceCallStarts
<1>5. ASSUME NEW c \in Call, NEW s \in Template, Delete(c, s) PROVE template' = template
  BY <1>5 DEF Delete
<1>6. CASE UNCHANGED vars
  BY <1>6 DEF vars
<1>7. ASSUME NEW p \in Page, NEW e \in Device, LoadRow(p, e) \/ PutRow(p, e)
      PROVE  template' = template
  BY <1>7 DEF LoadRow, PutRow
<1> QED BY <1>1, <1>2, <1>3, <1>4, <1>5, <1>6, <1>7 DEF Next, Operation

(* A device gets a template only by a save that assigns it, or by a row    *)
(* that is put.                                                            *)
PutTo(d, t) ==
    /\ d \in registered /\ t \in Template
    /\ hasty' = hasty \cup ({t} \cap (BeingDeleted \cup Deleted))

LEMMA TemplateKept ==
  ASSUME Base, [Next]_vars, NEW d \in Device
  PROVE  \/ db'[d]["template"] = db[d]["template"]
         \/ \E c \in Call : /\ SavedBy(c, d) /\ Assigns(c, db'[d]["template"])
                           /\ db'[d]["template"] \in Template
         \/ PutTo(d, db'[d]["template"])
<1>1. "template" \in Field /\ "template" \in Field \ {"cert"} /\ "template" \in Field \ {"token"}
  BY DEF Field
<1>2. ASSUME Attached(d) PROVE db'[d]["template"] = db[d]["template"]
  BY <1>1, <1>2, AttachedField DEF Attached
<1>3. ASSUME NEW c \in Call, Created(c, d) PROVE db'[d]["template"] = db[d]["template"]
  BY <1>1, <1>3, CreatedField
<1>4. ASSUME NEW c \in Call, SavedBy(c, d), db'[d]["template"] # db[d]["template"]
      PROVE  Assigns(c, db'[d]["template"]) /\ db'[d]["template"] \in Template
  <2>1. db'[d]["template"] = IF "template" \in DOMAIN call[c].writes
                               THEN call[c].writes["template"] ELSE db[d]["template"]
    BY <1>1, <1>4, SavedField
  <2> QED BY <1>4, <2>1, SavedWrites DEF SavedBy, Assigns
<1>5. ASSUME Put(d), db'[d]["template"] # db[d]["template"] PROVE PutTo(d, db'[d]["template"])
  <2>1. PICK p \in Page : PutRow(p, d) /\ db'[d] = Saved(db[d], row[p][d])
    BY <1>5 DEF Put
  <2>2. db'[d]["template"] \in Template
    BY <1>1, <1>5, <2>1, PutField, ValuesFields
  <2>3. hasty' = IF db'[d].template # db[d].template
                   THEN hasty \cup ({db'[d].template} \cap (BeingDeleted \cup Deleted)) ELSE hasty
    BY <2>1 DEF PutRow
  <2> QED BY <1>5, <2>1, <2>2, <2>3 DEF PutTo, PutRow
<1> QED BY <1>2, <1>3, <1>4, <1>5, DocSteps DEF DocStep

(* Whoever is about to assign a template was before, or has just found it. *)
LEMMA AssignsKept ==
  ASSUME Base, Base', [Next]_vars, NEW e \in Call, NEW t \in Template,
         Assigns(e, t)', template[t] = "deleted"
  PROVE  Assigns(e, t)
<1>0. /\ call'[e].pc = "saving" /\ "template" \in DOMAIN call'[e].writes
      /\ call'[e].writes["template"] = t
      /\ CallOK(call'[e])
  BY DEF Assigns, Base, Calls
<1>1. call'[e].op \in {"claim", "apply"}
  BY <1>0, PcOf DEF PhoneHomeOK, ClaimOK, ApplyOK, CompleteOK, RevokeOK, OnlyWrites
<1>2. ASSUME NEW d \in Device, DeviceCall(e, d) PROVE FALSE
  <2>1. CASE PhoneHomeUnknown(e, d) \/ PhoneHome(e, d) \/ Complete(e, d) \/ Revoke(e, d)
    BY <1>1, <2>1, StartedOps
  <2>2. ASSUME NEW u \in UserId, Claim(e, d, u) PROVE FALSE
    BY <1>0, <2>2, StartedOps
  <2>3. ASSUME NEW s \in Template, Apply(e, d, s) PROVE FALSE
    BY <1>0, <2>3, StartedOps
  <2> QED BY <1>2, <2>1, <2>2, <2>3 DEF DeviceCall
<1>3. ASSUME NEW s \in Template, Delete(e, s) PROVE FALSE
  BY <1>1, <1>3, StartedOps
<1>4. CASE call'[e] = Idle
  BY <1>0, <1>4 DEF Idle
<1>5. CASE Marked(call[e], call'[e])
  BY <1>0, <1>5 DEF Marked, Assigns
<1>6. CASE FindDefault(e)
  BY <1>0, <1>6, FindDefaultEffect
<1>7. CASE FindTemplate(e) /\ Proceeds(e, "saving")
  <2>1. template[call[e].arg] # "deleted" /\ ApplyOK(call'[e])
    BY <1>7, <1>0, FindTemplateEffect DEF Ends, Idle
  <2> QED BY <1>0, <1>7, <2>1 DEF Proceeds, Same, ApplyOK
<1>8. CASE RevokeIts(e) /\ Proceeds(e, "saving")
  BY <1>1, <1>8, RevokeItsEffect DEF Proceeds, Same, RevokeOK
<1>9. CASE LookAtDefault(e) /\ Proceeds(e, "deleting")
  BY <1>0, <1>9 DEF Proceeds
<1> QED BY <1>2, <1>3, <1>4, <1>5, <1>6, <1>7, <1>8, <1>9, CallSteps DEF CallStep

LEMMA NextTemplateInv ==
  ASSUME Base, Base', Known, TemplateInv, [Next]_vars
  PROVE  TemplateInv'
<1>0. hasty \subseteq hasty' /\ registered \subseteq registered'
  BY HastyGrows, RegisteredGrows
<1>1. ASSUME NEW d \in Device \ registered' PROVE db'[d]["template"] = None
  <2>1. d \notin registered /\ d \in Device /\ db[d]["template"] = None
    BY <1>0, <1>1 DEF TemplateInv
  <2>2. ASSUME NEW c \in Call, SavedBy(c, d) PROVE FALSE
    BY <2>1, <2>2 DEF SavedBy, Known, Loaded
  <2> QED BY <2>1, <2>2, TemplateKept DEF PutTo
<1>2. ASSUME NEW d \in Device, NEW t \in Template, db'[d]["template"] = t, template'[t] = "deleted"
      PROVE  t \in hasty'
  <2>1. CASE template[t] # "deleted"
    <3>1. PICK c \in Call : DeleteOne(c) /\ call[c].op = "delete" /\ call[c].arg = t
      BY <1>2, <2>1, DeletedBy
    <3>2. db' = db
      BY <3>1 DEF DeleteOne
    <3>3. t \in hasty
      BY <1>2, <3>1, <3>2 DEF TemplateInv
    <3> QED BY <1>0, <3>3
  <2>2. ASSUME template[t] = "deleted", db[d]["template"] = t PROVE t \in hasty'
    <3>1. db[d].template # None
      BY <2>2, NoneApart
    <3>2. t \in hasty
      BY <2>2, <3>1 DEF TemplateInv
    <3> QED BY <1>0, <3>2
  <2>3. ASSUME template[t] = "deleted", NEW c \in Call, Assigns(c, t) PROVE t \in hasty'
    <3>1. t \in hasty
      BY <2>3 DEF TemplateInv
    <3> QED BY <1>0, <3>1
  <2>4. ASSUME template[t] = "deleted", PutTo(d, t) PROVE t \in hasty'
    BY <2>4 DEF PutTo, Deleted
  <2> QED BY <1>2, <2>1, <2>2, <2>3, <2>4, TemplateKept
<1>3. ASSUME NEW e \in Call, NEW d \in Device, call'[e].op = "delete",
             db'[d]["template"] = call'[e].arg
      PROVE  call'[e].arg \in hasty'
  <2>0. call'[e].arg \in Template
    BY <1>3, OpOf DEF Base, Calls, DeleteOK
  <2>1. CASE call[e].op = "delete" /\ call[e].arg = call'[e].arg
    <3>1. CASE db[d]["template"] = call[e].arg
      <4>1. call[e].arg \in hasty
        BY <2>1, <3>1 DEF TemplateInv
      <4> QED BY <1>0, <2>1, <4>1
    <3>2. ASSUME NEW c \in Call, SavedBy(c, d), Assigns(c, call'[e].arg)
          PROVE  call'[e].arg \in hasty'
      <4>1. call[e].arg \in BeingDeleted
        BY <2>1 DEF BeingDeleted
      <4>2. Assigns(c, call[e].arg)
        BY <2>1, <3>2
      <4>3. hasty' = hasty \cup {t \in BeingDeleted : Assigns(c, t)}
        BY <3>2 DEF SavedBy, Made
      <4> QED BY <2>1, <4>1, <4>2, <4>3
    <3>3. ASSUME PutTo(d, call'[e].arg) PROVE call'[e].arg \in hasty'
      <4>1. call[e].arg \in BeingDeleted
        BY <2>1 DEF BeingDeleted
      <4> QED BY <2>1, <3>3, <4>1 DEF PutTo
    <3> QED BY <1>3, <2>1, <3>1, <3>2, <3>3, TemplateKept
  <2>2. ASSUME NEW t \in Template, Delete(e, t) PROVE FALSE
    <3>1. /\ Record(call'[e], "delete", "counted", None, t, Nothing)
          /\ ~ InUse(t) /\ db' = db
      BY <2>2, StartEffect DEF Base, Delete
    <3>2. db[d].template = t /\ d \notin registered
      BY <1>3, <3>1 DEF Record, InUse
    <3> QED BY <3>2, NoneApart DEF TemplateInv
  <2>3. ASSUME NEW c \in Device, DeviceCall(e, c) PROVE FALSE
    BY <1>3, <2>3, StartedOps DEF DeviceCall
  <2>4. CASE call'[e] = Idle
    BY <1>3, <2>4 DEF Idle
  <2>5. CASE Marked(call[e], call'[e])
    BY <1>3, <2>1, <2>5 DEF Marked
  <2>6. CASE FindDefault(e)
    BY <1>3, <2>6, FindDefaultEffect DEF ClaimOK
  <2>7. CASE (FindTemplate(e) /\ Proceeds(e, "saving")) \/ (RevokeIts(e) /\ Proceeds(e, "saving"))
             \/ (LookAtDefault(e) /\ Proceeds(e, "deleting"))
    BY <1>3, <2>1, <2>7 DEF Proceeds, Same
  <2> QED BY <2>2, <2>3, <2>4, <2>5, <2>6, <2>7, CallSteps DEF CallStep
<1>4. ASSUME NEW e \in Call, NEW t \in Template, Assigns(e, t)', template'[t] = "deleted"
      PROVE  t \in hasty'
  <2>1. CASE template[t] = "deleted"
    <3>1. t \in hasty
      BY <1>4, <2>1, AssignsKept DEF TemplateInv
    <3> QED BY <1>0, <3>1
  <2>2. CASE template[t] # "deleted"
    <3>1. PICK c \in Call :
             /\ DeleteOne(c)
             /\ hasty' = IF \E f \in Call : Assigns(f, t) THEN hasty \cup {t} ELSE hasty
      BY <1>4, <2>2, DeletedBy
    <3>2. Ends(c)
      BY <3>1, EndEnds DEF DeleteOne, Base
    <3>3. e # c
      BY <1>4, <3>2 DEF Ends, Assigns, Idle
    <3>4. Assigns(e, t)
      BY <1>4, <3>2, <3>3 DEF Ends, Only, Assigns
    <3> QED BY <3>1, <3>4
  <2> QED BY <2>1, <2>2
<1>5. \A d \in Device : db'[d]["template"] \in Template \cup {None}
  BY DocumentFields DEF Base, Data
<1> QED BY <1>1, <1>2, <1>3, <1>4, <1>5 DEF TemplateInv

(* The template of a device exists, unless it was assigned while it was    *)
(* being deleted, or came back with a row then or later.                   *)
THEOREM DanglingAlwaysHasCause == Spec => []DanglingHasCause
<1>1. Init => TemplateInv
  BY DEF Init, TemplateInv, NewDocument, Idle, Assigns
<1>2. Known /\ Base /\ Base' /\ [Next]_vars => Known'
  BY NextKnown
<1>3. Known /\ Base /\ Base' /\ TemplateInv /\ [Next]_vars => TemplateInv'
  BY NextTemplateInv
<1>4. Base /\ TemplateInv => DanglingHasCause
  BY DEF Base, Data, TemplateInv, DanglingHasCause
<1> QED BY <1>1, <1>2, <1>3, <1>4, InitInvs, TypeCorrect, PTL DEF Spec

-----------------------------------------------------------------------------
(* Claim tokens.  A phone home that is about to store a new token is out   *)
(* of date, or the stored one has expired; one that is about to return the *)
(* stored token returns the one that is there, unless it was raced.        *)
PhoneHomeInv(c) ==
    IF "token" \in DOMAIN call[c].writes
      THEN call[c].stale = FALSE => ~ Valid(db[call[c].dev].token)
      ELSE Valid(call[c].arg) /\ call[c].arg \notin raced => db[call[c].dev].token = call[c].arg
HandedInv ==
    /\ \A d \in Device, t \in Token : <<d, t>> \in handed => d \in registered
    /\ \A d \in Device, t \in Token :
          <<d, t>> \in handed /\ Valid(t) /\ t \notin raced => db[d].token = t
    /\ \A c \in Call : call[c].op = "phoneHome" /\ call[c].pc = "saving" => PhoneHomeInv(c)

(* Neither is forgotten that a token was raced, nor that it has expired.   *)
LEMMA RacedGrows ==
  ASSUME Base, [Next]_vars
  PROVE  raced \subseteq raced' /\ lapsed \in Nat /\ lapsed' \in Nat /\ lapsed <= lapsed'
<1>0. lapsed \in Nat
  BY ProvisioningAssumption DEF Base, Data
<1>1. ASSUME NEW c \in Call, Continue(c) PROVE raced \subseteq raced' /\ lapsed' = lapsed
  <2>1. CASE Save(c)
    BY <2>1, SaveCases DEF Made
  <2> QED BY <1>1, <2>1
          DEF Continue, CreateDevice, FindDefault, FindTemplate, RevokeIts, LookAtDefault, DeleteOne, history
<1>2. ASSUME NEW c \in Call, NEW d \in Device, DeviceCall(c, d)
      PROVE  raced \subseteq raced' /\ lapsed' = lapsed
  BY <1>2 DEF DeviceCall, PhoneHomeUnknown, PhoneHome, Claim, Apply, Complete, Revoke, history
<1>3. ASSUME NEW c \in Call, NEW t \in Template, Delete(c, t)
      PROVE  raced \subseteq raced' /\ lapsed' = lapsed
  BY <1>3 DEF Delete, history
<1>4. ASSUME Elsewhere PROVE raced \subseteq raced' /\ (lapsed' = lapsed \/ lapsed' = lapsed + 1)
  BY <1>4 DEF Elsewhere, Register, Attach, Lapse, Issue, RevokeCertificate, PutTemplate, history
<1>5. CASE UNCHANGED vars
  BY <1>0, <1>5 DEF vars
<1>6. ASSUME NEW p \in Page, NEW e \in Device, LoadRow(p, e) \/ PutRow(p, e)
      PROVE  raced \subseteq raced' /\ lapsed' = lapsed
  BY <1>6 DEF LoadRow, PutRow, history
<1> QED BY <1>0, <1>1, <1>2, <1>3, <1>4, <1>5, <1>6 DEF Next, Operation

LEMMA StaysLapsed ==
  ASSUME Base, [Next]_vars, NEW t \in Token, Valid(t)'
  PROVE  Valid(t)
<1>1. t \in Nat
  BY ProvisioningAssumption DEF Token
<1> QED BY <1>1, RacedGrows DEF Valid

(* Only a phone home hands a token to a device.                            *)
HandedBy(c, d, t) ==
    /\ call[c].arg = t
    /\ Created(c, d) \/ (SavedBy(c, d) /\ call[c].op = "phoneHome")

LEMMA HandedSteps ==
  ASSUME Base, [Next]_vars, NEW d \in Device, NEW t \in Token, <<d, t>> \in handed'
  PROVE  <<d, t>> \in handed \/ \E c \in Call : HandedBy(c, d, t)
<1> USE DEF Base
<1>1. ASSUME NEW c \in Call, CreateDevice(c), <<d, t>> \notin handed PROVE HandedBy(c, d, t)
  <2> DEFINE e == call[c].dev
             doc == [db[e] EXCEPT !.token = call[c].arg]
  <2>1. /\ e \notin registered /\ db' = [db EXCEPT ![e] = doc]
        /\ handed' = handed \cup {<<e, call[c].arg>>}
    BY <1>1, CreateDeviceEffect
  <2>2. e \in Device /\ call[c].arg \in Token
    BY <1>1, CreateDeviceEffect DEF PhoneHomeOK
  <2>3. db'[e] = doc
    BY <2>1, <2>2 DEF Data
  <2>4. e = d /\ call[c].arg = t
    BY <1>1, <2>1
  <2> QED BY <1>1, <2>1, <2>2, <2>3, <2>4 DEF HandedBy, Created
<1>2. ASSUME NEW c \in Call, Save(c), <<d, t>> \notin handed PROVE HandedBy(c, d, t)
  <2>1. Made(c) /\ Overtakes(c) /\ call[c].pc = "saving" /\ call[c].dev \in Device
    BY <1>2, SaveCases
  <2>2. call[c].op = "phoneHome" /\ call[c].dev = d /\ call[c].arg = t
    BY <1>2, <2>1 DEF Made
  <2>3. db'[d] = Saved(db[d], call[c].writes)
    BY <2>1, <2>2, WriteOne DEF Made
  <2> QED BY <1>2, <2>1, <2>2, <2>3 DEF HandedBy, SavedBy
<1>3. ASSUME NEW c \in Call,
             FindDefault(c) \/ FindTemplate(c) \/ RevokeIts(c) \/ LookAtDefault(c) \/ DeleteOne(c)
      PROVE  handed' = handed
  BY <1>3 DEF FindDefault, FindTemplate, RevokeIts, LookAtDefault, DeleteOne, history
<1>4. ASSUME NEW c \in Call, NEW e \in Device, DeviceCall(c, e) PROVE handed' = handed
  BY <1>4 DEF DeviceCall, PhoneHomeUnknown, PhoneHome, Claim, Apply, Complete, Revoke, history
<1>5. ASSUME NEW c \in Call, NEW s \in Template, Delete(c, s) PROVE handed' = handed
  BY <1>5 DEF Delete, history
<1>6. ASSUME Elsewhere PROVE handed' = handed
  BY <1>6 DEF Elsewhere, Register, Attach, Lapse, Issue, RevokeCertificate, PutTemplate, history
<1>7. CASE UNCHANGED vars
  BY <1>7 DEF vars
<1>8. ASSUME NEW p \in Page, NEW e \in Device, LoadRow(p, e) \/ PutRow(p, e) PROVE handed' = handed
  BY <1>8 DEF LoadRow, PutRow, history
<1> QED BY <1>1, <1>2, <1>3, <1>4, <1>5, <1>6, <1>7, <1>8 DEF Next, Operation, Continue

(* The token that a save stores is the one its phone home returns.         *)
LEMMA TokenSaved ==
  ASSUME Base, NEW c \in Call, NEW d \in Device, SavedBy(c, d)
  PROVE  /\ "token" \in DOMAIN call[c].writes =>
               call[c].op = "phoneHome" /\ db'[d]["token"] = call[c].arg
         /\ "token" \notin DOMAIN call[c].writes => db'[d]["token"] = db[d]["token"]
<1>1. db'[d]["token"] = IF "token" \in DOMAIN call[c].writes
                          THEN call[c].writes["token"] ELSE db[d]["token"]
  BY SavedField DEF Field
<1> QED BY <1>1, SavedWrites

(* A valid token is replaced only by a save or a row that marks it raced.  *)
LEMMA TokenStays ==
  ASSUME Base, HandedInv, [Next]_vars, NEW d \in registered, NEW t \in Token,
         db[d]["token"] = t, Valid(t), t \notin raced'
  PROVE  db'[d]["token"] = t
<1>0. d \in Device
  BY DEF Base, Data
<1>1. ASSUME Attached(d) PROVE db'[d]["token"] = db[d]["token"]
  BY <1>0, <1>1, AttachedField DEF Attached, Field
<1>2. ASSUME NEW c \in Call, Created(c, d) PROVE FALSE
  BY <1>2 DEF Created
<1>3. ASSUME NEW c \in Call, SavedBy(c, d), "token" \in DOMAIN call[c].writes PROVE FALSE
  <2>1. /\ call[c].op = "phoneHome" /\ call[c].pc = "saving" /\ call[c].dev = d
        /\ call[c].stale \in BOOLEAN
    BY <1>0, <1>3, TokenSaved DEF SavedBy, Base, Calls, CallOK
  <2>2. CASE call[c].stale = TRUE
    <3>1. raced' = raced \cup ({db[d].token} \ {None})
      BY <1>3, <2>1, <2>2 DEF SavedBy, Made
    <3> QED BY <3>1 DEF Valid
  <2>3. CASE call[c].stale = FALSE
    BY <1>3, <2>1, <2>3 DEF HandedInv, PhoneHomeInv
  <2> QED BY <2>1, <2>2, <2>3
<1>4. ASSUME Put(d), db'[d]["token"] # db[d]["token"] PROVE FALSE
  <2>1. PICK p \in Page : PutRow(p, d) /\ db'[d] = Saved(db[d], row[p][d])
    BY <1>4 DEF Put
  <2>2. raced' = IF db'[d].token # db[d].token THEN raced \cup ({db[d].token} \ {None}) ELSE raced
    BY <2>1 DEF PutRow
  <2> QED BY <1>4, <2>2 DEF Valid
<1> QED BY <1>0, <1>1, <1>2, <1>3, <1>4, TokenSaved, DocSteps DEF DocStep

LEMMA PhoneHomeInvStarts ==
  ASSUME Base, NEW e \in Call, NEW d \in Device, PhoneHome(e, d)
  PROVE  PhoneHomeInv(e)'
<1>1. /\ UNCHANGED <<db, lapsed, raced>>
  BY DEF PhoneHome, history
<1>2. CASE KeepsToken(d) /\ Start(e, "phoneHome", "saving", d, db[d].token, Nothing)
  <2>1. Record(call'[e], "phoneHome", "saving", d, db[d].token, Nothing)
    BY <1>2, StartEffect DEF Base
  <2> QED BY <1>1, <2>1 DEF Record, Nothing, PhoneHomeInv
<1>3. CASE ~ KeepsToken(d) /\ Start(e, "phoneHome", "saving", d, issued + 1, [token |-> issued + 1])
  <2>1. Record(call'[e], "phoneHome", "saving", d, issued + 1, [token |-> issued + 1])
    BY <1>3, StartEffect DEF Base
  <2> QED BY <1>1, <1>3, <2>1 DEF Record, PhoneHomeInv, KeepsToken, Valid
<1> QED BY <1>2, <1>3 DEF PhoneHome

LEMMA PhoneHomeInvStays ==
  ASSUME Base, Base', Known, HandedInv, [Next]_vars, NEW e \in Call,
         call[e].op = "phoneHome", call[e].pc = "saving", Marked(call[e], call'[e])
  PROVE  PhoneHomeInv(e)'
<1>0. /\ call'[e].dev = call[e].dev /\ call'[e].arg = call[e].arg
      /\ call'[e].writes = call[e].writes /\ call'[e].op = "phoneHome" /\ call'[e].pc = "saving"
      /\ call'[e].stale = FALSE => call[e].stale = FALSE
      /\ call[e].dev \in Device /\ call[e].arg \in Token /\ PhoneHomeInv(e)
      /\ call[e].dev \in registered
  BY OpOf DEF Base, Calls, CallOK, PhoneHomeOK, Marked, HandedInv, Known, Loaded
<1>1. PICK d \in registered : d = call[e].dev
  BY <1>0
<1>2. PICK t \in Token : t = call[e].arg
  BY <1>0
<1>3. ASSUME "token" \in DOMAIN call[e].writes, call'[e].stale = FALSE
      PROVE  ~ Valid(db[d].token)'
  <2>1. call'[e].dev \in Device /\ Loaded(call'[e])
    BY <1>0 DEF Loaded
  <2>2. db'[d] = db[d]
    BY <1>0, <1>1, <1>3, <2>1, FreshCopies
  <2>3. ~ Valid(db[d].token)
    BY <1>0, <1>1, <1>3 DEF PhoneHomeInv
  <2>4. db[d].token \in Token \cup {None}
    BY <1>0, <1>1, DocumentFields DEF Base, Data
  <2>5. PICK s \in Token \cup {None} : s = db[d].token
    BY <2>4
  <2>6. ~ Valid(s)'
    <3>1. CASE s = None
      BY <3>1 DEF Valid
    <3>2. CASE s \in Token
      BY <2>3, <2>5, <3>2, StaysLapsed
    <3> QED BY <2>5, <3>1, <3>2
  <2> QED BY <2>2, <2>5, <2>6 DEF Valid
<1>4. ASSUME "token" \notin DOMAIN call[e].writes, Valid(t)', t \notin raced'
      PROVE  db'[d].token = t
  <2>1. Valid(t) /\ t \notin raced
    BY <1>4, StaysLapsed, RacedGrows
  <2>2. db[d]["token"] = t
    BY <1>0, <1>1, <1>2, <1>4, <2>1 DEF PhoneHomeInv
  <2> QED BY <1>4, <2>1, <2>2, TokenStays
<1> QED BY <1>0, <1>1, <1>2, <1>3, <1>4 DEF PhoneHomeInv, Valid

LEMMA NextHandedInv ==
  ASSUME Base, Base', Known, HandedInv, [Next]_vars
  PROVE  HandedInv'
<1>0. registered \subseteq registered' /\ raced \subseteq raced'
  BY RegisteredGrows, RacedGrows
<1>1. ASSUME NEW d \in Device, NEW t \in Token, <<d, t>> \in handed' PROVE d \in registered'
  <2>1. CASE <<d, t>> \in handed
    BY <1>0, <2>1 DEF HandedInv
  <2>2. ASSUME NEW c \in Call, Created(c, d) PROVE d \in registered'
    <3>1. call[c].dev = d /\ d \notin registered /\ call[c].arg \in Token
          /\ db'[d] = [db[d] EXCEPT !.token = call[c].arg] /\ CreateDevice(c)
          /\ handed' = handed \cup {<<d, call[c].arg>>}
      BY <2>2 DEF Created
    <3>2. <<d, call[c].arg>> \notin handed
      BY <3>1 DEF HandedInv
    <3> QED BY <3>1, <3>2, CreateDeviceEffect
  <2>3. ASSUME NEW c \in Call, SavedBy(c, d) PROVE d \in registered'
    BY <1>0, <2>3 DEF SavedBy, Known, Loaded
  <2> QED BY <1>1, <2>1, <2>2, <2>3, HandedSteps DEF HandedBy
<1>2. ASSUME NEW d \in Device, NEW t \in Token, <<d, t>> \in handed', Valid(t)', t \notin raced'
      PROVE  db'[d].token = t
  <2>0. Valid(t) /\ t \notin raced
    BY <1>0, <1>2, StaysLapsed
  <2>1. CASE <<d, t>> \in handed
    <3>1. d \in registered /\ db[d]["token"] = t
      BY <2>0, <2>1 DEF HandedInv
    <3> QED BY <1>2, <2>0, <3>1, TokenStays
  <2>2. ASSUME NEW c \in Call, Created(c, d), call[c].arg = t PROVE db'[d].token = t
    BY <2>2, CreatedField
  <2>3. ASSUME NEW c \in Call, SavedBy(c, d), call[c].op = "phoneHome", call[c].arg = t
        PROVE  db'[d].token = t
    <3>1. CASE "token" \in DOMAIN call[c].writes
      BY <2>3, <3>1, TokenSaved
    <3>2. CASE "token" \notin DOMAIN call[c].writes
      <4>1. PhoneHomeInv(c) /\ call[c].dev = d
        BY <2>3 DEF SavedBy, HandedInv
      <4>2. db[d]["token"] = t
        BY <2>0, <2>3, <3>2, <4>1 DEF PhoneHomeInv
      <4> QED BY <2>3, <3>2, <4>2, TokenSaved
    <3> QED BY <3>1, <3>2
  <2> QED BY <1>2, <2>1, <2>2, <2>3, HandedSteps DEF HandedBy
<1>3. ASSUME NEW e \in Call, call'[e].op = "phoneHome", call'[e].pc = "saving" PROVE PhoneHomeInv(e)'
  <2>1. ASSUME NEW d \in Device, DeviceCall(e, d) PROVE PhoneHomeInv(e)'
    <3>1. PhoneHome(e, d)
      BY <1>3, <2>1, StartedOps DEF DeviceCall
    <3> QED BY <3>1, PhoneHomeInvStarts
  <2>2. ASSUME NEW t \in Template, Delete(e, t) PROVE FALSE
    BY <1>3, <2>2, StartedOps
  <2>3. CASE call'[e] = Idle
    BY <1>3, <2>3 DEF Idle
  <2>4. CASE Marked(call[e], call'[e])
    BY <1>3, <2>4, PhoneHomeInvStays DEF Marked
  <2>5. CASE FindDefault(e)
    BY <1>3, <2>5, FindDefaultEffect DEF ClaimOK
  <2>6. CASE FindTemplate(e) /\ Proceeds(e, "saving")
    BY <1>3, <2>6, FindTemplateEffect DEF Proceeds, Same, ApplyOK
  <2>7. CASE RevokeIts(e) /\ Proceeds(e, "saving")
    BY <1>3, <2>7, RevokeItsEffect DEF Proceeds, Same, RevokeOK
  <2>8. CASE LookAtDefault(e) /\ Proceeds(e, "deleting")
    BY <1>3, <2>8 DEF Proceeds
  <2> QED BY <2>1, <2>2, <2>3, <2>4, <2>5, <2>6, <2>7, <2>8, CallSteps DEF CallStep
<1> QED BY <1>1, <1>2, <1>3 DEF HandedInv

(* A token that a device was given, and that has not expired, is the one   *)
(* that a claim is compared with, unless two calls generated one each or a *)
(* row with an older one was put.                                          *)
THEOREM HandedTokenAlwaysStored == Spec => []HandedTokenIsStored
<1>1. Init => HandedInv
  BY DEF Init, HandedInv, Idle
<1>2. Known /\ Base /\ Base' /\ [Next]_vars => Known'
  BY NextKnown
<1>3. Known /\ Base /\ Base' /\ HandedInv /\ [Next]_vars => HandedInv'
  BY NextHandedInv
<1>4. Base /\ HandedInv => HandedTokenIsStored
  <2> SUFFICES ASSUME Base, HandedInv, NEW h \in handed, Valid(h[2]), h[2] \notin raced
               PROVE  db[h[1]].token = h[2]
    BY DEF HandedTokenIsStored
  <2>1. h[1] \in Device /\ h[2] \in Token /\ h = <<h[1], h[2]>>
    BY DEF Base, Data
  <2> QED BY <2>1 DEF HandedInv
<1> QED BY <1>1, <1>2, <1>3, <1>4, InitInvs, TypeCorrect, PTL DEF Spec
=============================================================================
