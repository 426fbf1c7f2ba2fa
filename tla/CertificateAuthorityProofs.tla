---------------------- MODULE CertificateAuthorityProofs ----------------------
(***************************************************************************)
(* Theorems about the certificates of Services, for any serials, requests, *)
(* failures and restarts.                                                  *)
(***************************************************************************)
EXTENDS Services, TLAPS

Stage == {"find", "revoke", "ensureCA", "done", "save"} \cup C!CaStage \cup C!FileStage
KeyOrNone == Request \cup {None}
CertificateOrNone == C!Certificate \cup {None}
Operation == C!Issuing \cup {"ca", "revoke"}
Record == [serial : Serial, key : KeyOrNone, crt : C!Certificate, active : BOOLEAN]
IssuingState == [op : Operation \cup {None}, serial : Serial \cup {None}, at : Stage,
                 input : KeyOrNone \cup C!Certificate, key : KeyOrNone, crt : CertificateOrNone, target : KeyOrNone]

CertificateTypes ==
    /\ ca \in [key : KeyOrNone, crt : KeyOrNone]
    /\ files \in [Serial -> [key : KeyOrNone, csr : KeyOrNone, crt : CertificateOrNone]]
    /\ record \in [Request -> Record \cup {None}]
    /\ request \in [Request -> IssuingState]
    /\ past \in [raced : SUBSET (Serial \cup {None}), caRaced : BOOLEAN, revoked : SUBSET (Serial \cup {None}),
                 broken : SUBSET (Serial \cup {None}), faults : Nat]

-----------------------------------------------------------------------------
(* What is there for the stage that a request is at, and what it has read. *)
Supplied(q) ==
    /\ q.at \in C!CaStage \cup {"ensureCA"} => q.op \in C!Issuing \cup {"ca"}
    /\ q.at \in C!FileStage \cup {"save"} => q.op \in C!Issuing /\ ca.crt # None
    /\ q.op # "ca" /\ q.at # "done" => q.op # None /\ q.serial \in Serial
    /\ (q.at = "find" => q.op = "renew") /\ (q.at = "writeCsr" => q.op = "sign")
    /\ q.at = "revoke" => /\ q.op \in {"renew", "revoke"}
                          /\ q.target # None /\ record[q.target] # None /\ record[q.target].serial = q.serial
    /\ q.op = "sign" => q.key = None /\ q.at \notin {"genKey", "genCsr", "readKey"}
    /\ q.at = "certCa" => ca.key # None
    /\ q.at = "genCsr" => files[q.serial].key # None
    /\ q.at = "sign" => files[q.serial].csr # None
    /\ q.at \in {"readKey", "readCrt"} => files[q.serial].crt # None
    /\ q.at = "save" => q.crt # None
    /\ q.input # None => \/ q.at \in {"certCa", "genCsr"} /\ q.input \in Request
                         \/ q.at = "sign" /\ q.input \in C!Certificate
Supplies ==
    /\ \A r \in Request : Supplied(request[r])
    /\ \A r \in Request : record[r] # None => request[r].at = "done" /\ request[r].op # None

-----------------------------------------------------------------------------
(* One request creates the CA, and every certificate is issued by it.      *)
OneCA == ~ past.caRaced =>
    /\ \A r, o \in Request : C!At(r, C!CaStage) /\ C!At(o, C!CaStage) => r = o
    /\ \A r \in Request : C!At(r, C!CaStage) => ca.crt = None
    /\ \A r \in Request : C!At(r, {"certCa"}) => request[r].input \in {None, ca.key}
    /\ ca.crt \in {None, ca.key}
    /\ \A s \in Serial : files[s].crt # None => files[s].crt.by = ca.crt
    /\ \A r \in Request : C!At(r, {"sign"}) /\ request[r].input # None => request[r].input.by = ca.crt
    /\ \A r \in Request : request[r].crt # None => request[r].crt.by = ca.crt
    /\ \A r \in Request : record[r] # None => record[r].crt.by = ca.crt

(* What a request finds in the files of its serial is its own.             *)
Uses(r, s) == request[r].serial = s /\ C!At(r, C!CaStage \cup C!FileStage)
Owns(r) ==
    LET q == request[r]  f == files[q.serial] IN
    /\ q.at = "genCsr" => f.key = r /\ q.input \in {None, r}
    /\ q.at = "sign" => f.csr = r /\ (q.op # "sign" => f.key = r) /\ (q.input # None => q.input.of = r)
    /\ q.at = "readKey" => f.crt.of = r /\ f.key = r
    /\ q.at = "readCrt" => f.crt.of = r /\ q.key \in {None, r}
    /\ q.at = "save" => q.crt.of = r /\ q.key \in {None, r}
OwnFiles == \A s \in Serial \ past.raced :
    /\ \A r, o \in Request : Uses(r, s) /\ Uses(o, s) => r = o
    /\ \A r \in Request : request[r].serial = s => Owns(r)
    /\ \A r \in Request : record[r] # None /\ record[r].serial = s => record[r].key \in {None, record[r].crt.of}

CertificateInv == CertificateTypes /\ Supplies /\ OneCA /\ OwnFiles /\ C!ActiveLossHasCause

-----------------------------------------------------------------------------
LEMMA GoesTo ==
  ASSUME CertificateTypes, NEW r \in Request, NEW q \in IssuingState, NEW stage \in Stage, C!Goes(r, q, stage)
  PROVE  /\ request' \in [Request -> IssuingState]
         /\ \A o \in Request \ {r} : request'[o] = request[o]
         /\ request'[r].at = stage /\ request'[r].op = q.op /\ request'[r].serial = q.serial
         /\ request'[r].input = q.input /\ request'[r].key = q.key /\ request'[r].crt = q.crt
         /\ request'[r].target = q.target
<1>1. [q EXCEPT !.at = stage] \in IssuingState
  BY DEF IssuingState
<1> QED BY <1>1 DEF CertificateTypes, C!Goes, IssuingState

(* The stages that follow.                                                 *)
LEMMA Following ==
  ASSUME NEW op, NEW stage \in Stage \ {"ensureCA", "done"}
  PROVE  /\ C!After(op, stage) \in Stage /\ C!First(op) \in Stage /\ C!WithCA(op) \in Stage
         /\ stage = "find" => C!After(op, stage) = "revoke"
         /\ stage = "revoke" => C!After(op, stage) = IF op = "renew" THEN "ensureCA" ELSE "done"
         /\ stage = "genCa" => C!After(op, stage) = "certCa"
         /\ stage = "certCa" => C!After(op, stage) = C!WithCA(op)
         /\ stage = "genKey" => C!After(op, stage) = "genCsr"
         /\ stage \in {"genCsr", "writeCsr"} => C!After(op, stage) = "sign"
         /\ stage = "sign" => C!After(op, stage) = IF op = "sign" THEN "readCrt" ELSE "readKey"
         /\ stage = "readKey" => C!After(op, stage) = "readCrt"
         /\ stage = "readCrt" => C!After(op, stage) = "save"
         /\ stage = "save" => C!After(op, stage) = "done"
  BY DEF C!After, C!First, C!WithCA, C!AfterCsr, Stage, C!CaStage, C!FileStage

LEMMA InitCertificates == Init /\ focus = "certificates" => CertificateInv
<1> SUFFICES ASSUME C!Init PROVE CertificateInv
  BY DEF Init
<1> USE ServicesAssumption DEF C!Init, C!Idle, C!Certificate, C!Key
<1>1. CertificateTypes
  <2>1. ca \in [key : KeyOrNone, crt : KeyOrNone]
    BY DEF KeyOrNone
  <2>2. files \in [Serial -> [key : KeyOrNone, csr : KeyOrNone, crt : CertificateOrNone]]
    BY DEF KeyOrNone, CertificateOrNone
  <2>3. record \in [Request -> Record \cup {None}]
    <3>1. CASE record = [r \in Request |-> None]
      BY ONLY <3>1
    <3>2. CASE record # [r \in Request |-> None]
      <4>1. PICK s \in Serial : record = [r \in Request |-> IF r = Earlier
                  THEN [serial |-> s, key |-> Earlier, crt |-> [of |-> Earlier, by |-> Earlier], active |-> TRUE] ELSE None]
        BY <3>2
      <4>2. [serial |-> s, key |-> Earlier, crt |-> [of |-> Earlier, by |-> Earlier], active |-> TRUE] \in Record
        BY DEF Record, KeyOrNone
      <4> QED BY <4>1, <4>2
    <3> QED BY <3>1, <3>2
  <2>4. request \in [Request -> IssuingState]
    BY DEF KeyOrNone, CertificateOrNone, IssuingState, Operation, Stage, C!Issuing
  <2>5. past \in [raced : SUBSET (Serial \cup {None}), caRaced : BOOLEAN, revoked : SUBSET (Serial \cup {None}),
                  broken : SUBSET (Serial \cup {None}), faults : Nat]
    OBVIOUS
  <2> QED BY <2>1, <2>2, <2>3, <2>4, <2>5 DEF CertificateTypes
<1>2. Supplies
  BY DEF Supplies, Supplied, C!CaStage, C!FileStage, C!Issuing
<1>3. OneCA
  BY DEF OneCA, C!At, C!CaStage
<1>4. OwnFiles
  BY DEF OwnFiles, Uses, Owns, C!At, C!CaStage, C!FileStage
<1>5. C!ActiveLossHasCause
  BY DEF C!ActiveLossHasCause, C!Active
<1> QED BY <1>1, <1>2, <1>3, <1>4, <1>5 DEF CertificateInv

LEMMA BeginSteps ==
  ASSUME CertificateInv, NEW r \in Request, NEW op \in Operation, NEW s \in Serial, C!Begin(r, op, s)
  PROVE  CertificateInv'
<1> USE DEF CertificateInv
<1>1. PICK q \in IssuingState : /\ C!Goes(r, q, C!First(op))
                                /\ q.op = op /\ q.serial \in {None, s} /\ (op # "ca" => q.serial = s)
                                /\ q.input = None /\ q.key = None /\ q.crt = None
                                /\ op = "revoke" => q.target \in C!Active(s)
  <2>1. CASE op # "revoke"
    <3>1. [C!Idle EXCEPT !.op = op, !.serial = IF op = "ca" THEN None ELSE s] \in IssuingState
      BY DEF C!Idle, IssuingState, Stage, KeyOrNone, CertificateOrNone
    <3> QED BY <2>1, <3>1 DEF C!Begin, C!Idle
  <2>2. CASE op = "revoke"
    <3>1. PICK t \in C!Active(s) : C!Goes(r, [C!Idle EXCEPT !.op = op, !.serial = s, !.target = t], C!First(op))
      BY <2>2 DEF C!Begin
    <3>2. [C!Idle EXCEPT !.op = op, !.serial = s, !.target = t] \in IssuingState
      BY DEF C!Idle, C!Active, IssuingState, Stage, KeyOrNone, CertificateOrNone
    <3> QED BY <2>2, <3>1, <3>2 DEF C!Idle
  <2> QED BY <2>1, <2>2
<1>2. C!First(op) \in {"find", "revoke", "ensureCA"} \cap Stage
      /\ (C!First(op) = "find" => op = "renew") /\ (C!First(op) = "revoke" => op = "revoke")
  BY DEF C!First, Stage
<1>3. /\ request' \in [Request -> IssuingState]
      /\ \A o \in Request \ {r} : request'[o] = request[o]
      /\ request'[r].at = C!First(op) /\ request'[r].op = op /\ request'[r].serial = q.serial
      /\ request'[r].input = None /\ request'[r].key = None /\ request'[r].crt = None
      /\ request'[r].target = q.target
  BY <1>1, <1>2, GoesTo
<1>4. UNCHANGED <<ca, files, record, past>> /\ request[r].op = None
  BY DEF C!Begin
<1>5. CertificateTypes'
  BY <1>3, <1>4 DEF CertificateTypes
<1>6. Supplies'
  <2>1. ASSUME NEW o \in Request PROVE Supplied(request[o])'
    <3>1. CASE o = r
      <4>1. op = "revoke" => /\ q.target # None /\ record[q.target] # None
                             /\ record[q.target].serial = s /\ q.serial = s
        BY <1>1, ServicesAssumption DEF C!Active
      <4>2. op # "ca" => op # None /\ q.serial = s
        BY <1>1, ServicesAssumption DEF Operation, C!Issuing
      <4>3. op \in C!Issuing \cup {"ca"} \/ C!First(op) # "ensureCA"
        BY DEF Operation, C!First
      <4> QED BY <1>2, <1>3, <1>4, <3>1, <4>1, <4>2, <4>3 DEF Supplied, C!CaStage, C!FileStage
    <3>2. CASE o # r
      BY <1>3, <1>4, <3>2 DEF Supplies, Supplied
    <3> QED BY <3>1, <3>2
  <2> QED BY <1>3, <1>4, <2>1 DEF Supplies
<1>7. OneCA'
  BY <1>2, <1>3, <1>4 DEF OneCA, C!At, C!CaStage
<1>8. OwnFiles'
  BY <1>2, <1>3, <1>4 DEF OwnFiles, Uses, Owns, C!At, C!CaStage, C!FileStage
<1>9. C!ActiveLossHasCause'
  BY <1>3, <1>4, ServicesAssumption DEF C!ActiveLossHasCause, C!Active, C!Renewing, C!At, Supplies
<1> QED BY <1>5, <1>6, <1>7, <1>8, <1>9

LEMMA EnsureCASteps ==
  ASSUME CertificateInv, NEW r \in Request, C!EnsureCA(r)
  PROVE  CertificateInv'
<1> USE DEF CertificateInv
<1> DEFINE q == request[r]
           stage == IF C!HasCA THEN C!WithCA(q.op) ELSE "genCa"
<1>1. q \in IssuingState /\ q.at = "ensureCA" /\ UNCHANGED <<ca, files, record>>
  BY DEF CertificateTypes, C!EnsureCA, C!At
<1>2. q.op \in C!Issuing \cup {"ca"} /\ q.op # None /\ q.input = None
  BY <1>1, ServicesAssumption DEF Supplies, Supplied, C!Issuing
<1>3. /\ stage \in Stage
      /\ C!HasCA => stage = IF q.op = "ca" THEN "done" ELSE IF q.op = "sign" THEN "writeCsr" ELSE "genKey"
      /\ ~ C!HasCA => stage = "genCa"
  BY <1>2 DEF C!WithCA, Stage, C!CaStage, C!FileStage
<1> HIDE DEF stage
<1>4. /\ request' \in [Request -> IssuingState]
      /\ \A o \in Request \ {r} : request'[o] = request[o]
      /\ request'[r].at = stage /\ request'[r].op = q.op /\ request'[r].serial = q.serial
      /\ request'[r].input = q.input /\ request'[r].key = q.key /\ request'[r].crt = q.crt
      /\ request'[r].target = q.target
  <2>1. C!Goes(r, q, stage)
    BY DEF C!EnsureCA, stage
  <2> QED BY <1>1, <1>3, <2>1, GoesTo
<1>5. /\ past' \in [raced : SUBSET (Serial \cup {None}), caRaced : BOOLEAN, revoked : SUBSET (Serial \cup {None}),
                    broken : SUBSET (Serial \cup {None}), faults : Nat]
      /\ past'.revoked = past.revoked /\ past'.broken = past.broken /\ past.raced \subseteq past'.raced
      /\ (\E o \in Request \ {r} : request[o].serial = q.serial /\ C!At(o, C!CaStage \cup C!FileStage))
            => q.serial \in past'.raced
  BY <1>1 DEF C!EnsureCA, CertificateTypes, IssuingState
<1>6. ~ past'.caRaced => /\ ~ past.caRaced
                         /\ C!HasCA \/ ~ \E o \in Request \ {r} : C!At(o, C!CaStage)
  BY <1>1 DEF C!EnsureCA, CertificateTypes
<1>7. CertificateTypes'
  BY <1>1, <1>4, <1>5 DEF CertificateTypes
<1>8. Supplies'
  <2>1. ASSUME NEW o \in Request PROVE Supplied(request[o])'
    <3>1. CASE o = r
      BY <1>1, <1>2, <1>3, <1>4, <3>1 DEF Supplies, Supplied, C!CaStage, C!FileStage, C!Issuing, C!HasCA
    <3>2. CASE o # r
      BY <1>1, <1>4, <3>2 DEF Supplies, Supplied
    <3> QED BY <3>1, <3>2
  <2> QED BY <1>1, <1>4, <2>1 DEF Supplies
<1>9. OneCA'
  BY <1>1, <1>2, <1>3, <1>4, <1>6 DEF OneCA, C!At, C!CaStage, C!HasCA
<1>10. OwnFiles'
  BY <1>1, <1>2, <1>3, <1>4, <1>5 DEF OwnFiles, Uses, Owns, C!At, C!CaStage, C!FileStage
<1>11. C!ActiveLossHasCause'
  BY <1>1, <1>2, <1>3, <1>4, <1>5 DEF C!ActiveLossHasCause, C!Active, C!Renewing, C!At, C!Issuing
<1> QED BY <1>7, <1>8, <1>9, <1>10, <1>11

LEMMA GenerateSteps ==
  ASSUME CertificateInv, NEW r \in Request, C!Generate(r)
  PROVE  CertificateInv'
<1> USE DEF CertificateInv
<1> DEFINE q == request[r]
           stage == C!After(q.op, q.at)
<1>1. q \in IssuingState /\ q.at \in {"genCa", "genKey", "writeCsr"} /\ UNCHANGED <<record, past>> /\ r # None
  BY ServicesAssumption DEF CertificateTypes, C!Generate, C!At
<1>2. /\ stage \in Stage /\ (q.at = "genCa" => stage = "certCa")
      /\ (q.at = "genKey" => stage = "genCsr") /\ (q.at = "writeCsr" => stage = "sign")
  BY <1>1, Following DEF Stage, C!CaStage, C!FileStage
<1>3. Supplied(q)
  BY DEF Supplies
<1>4. q.input = None
  BY <1>1, <1>3 DEF Supplied
<1> HIDE DEF stage
<1>5. /\ request' \in [Request -> IssuingState]
      /\ \A o \in Request \ {r} : request'[o] = request[o]
      /\ request'[r].at = stage /\ request'[r].op = q.op /\ request'[r].serial = q.serial
      /\ request'[r].input = q.input /\ request'[r].key = q.key /\ request'[r].crt = q.crt
      /\ request'[r].target = q.target
  <2>1. C!Goes(r, q, stage)
    BY DEF C!Generate, C!Onward, stage
  <2> QED BY <1>1, <1>2, <2>1, GoesTo
<1>6. q.at # "genCa" => q.serial \in Serial /\ q.op \in C!Issuing /\ ca.crt # None
  BY <1>1, <1>3 DEF Supplied, C!FileStage, C!Issuing
<1>7. /\ ca' \in [key : KeyOrNone, crt : KeyOrNone] /\ ca'.crt = ca.crt
      /\ ca'.key = IF q.at = "genCa" THEN r ELSE ca.key
  BY <1>1 DEF C!Generate, C!At, CertificateTypes, KeyOrNone
<1>8. /\ files' \in [Serial -> [key : KeyOrNone, csr : KeyOrNone, crt : CertificateOrNone]]
      /\ \A s \in Serial : /\ files'[s].crt = files[s].crt
                           /\ files'[s].key = IF s = q.serial /\ q.at = "genKey" THEN r ELSE files[s].key
                           /\ files'[s].csr = IF s = q.serial /\ q.at = "writeCsr" THEN r ELSE files[s].csr
  BY <1>1, <1>6 DEF C!Generate, C!At, CertificateTypes, KeyOrNone
<1>9. CertificateTypes'
  BY <1>1, <1>5, <1>7, <1>8 DEF CertificateTypes
<1>10. Supplies'
  <2>1. ASSUME NEW o \in Request PROVE Supplied(request[o])'
    <3>1. CASE o = r
      BY <1>1, <1>2, <1>3, <1>4, <1>5, <1>6, <1>7, <1>8, <3>1 DEF Supplied, C!CaStage, C!FileStage
    <3>2. CASE o # r
      <4>1. Supplied(request[o]) /\ request'[o] = request[o] /\ request[o] \in IssuingState
        BY <1>5, <3>2 DEF Supplies, CertificateTypes
      <4> QED BY <1>1, <1>7, <1>8, <4>1 DEF Supplied, C!FileStage, C!CaStage, C!Issuing
    <3> QED BY <3>1, <3>2
  <2> QED BY <1>1, <1>2, <1>5, <2>1 DEF Supplies
<1>11. OneCA'
  BY <1>1, <1>2, <1>4, <1>5, <1>7, <1>8 DEF OneCA, C!At, C!CaStage
<1>12. OwnFiles'
  <2> SUFFICES ASSUME NEW s \in Serial \ past.raced
               PROVE /\ \A o, p \in Request : Uses(o, s)' /\ Uses(p, s)' => o = p
                     /\ \A o \in Request : request'[o].serial = s => Owns(o)'
    BY <1>1, <1>5 DEF OwnFiles
  <2>1. \A o \in Request : Uses(o, s)' => Uses(o, s)
    BY <1>1, <1>2, <1>5 DEF Uses, C!At, C!CaStage, C!FileStage
  <2>2. \A o, p \in Request : Uses(o, s)' /\ Uses(p, s)' => o = p
    BY <2>1 DEF OwnFiles
  <2>3. ASSUME NEW o \in Request, request'[o].serial = s PROVE Owns(o)'
    <3>1. CASE o = r
      BY <1>1, <1>2, <1>3, <1>4, <1>5, <1>6, <1>8, <2>3, <3>1 DEF Owns, Supplied
    <3>2. CASE o # r
      <4>1. request'[o] = request[o] /\ Owns(o)
        BY <1>5, <2>3, <3>2 DEF OwnFiles
      <4>2. q.serial = s => request[o].at \notin C!FileStage
        BY <1>1, <1>5, <2>3, <3>2, <4>1 DEF OwnFiles, Uses, C!At, C!CaStage, C!FileStage
      <4> QED BY <1>8, <2>3, <4>1, <4>2 DEF Owns, C!FileStage
    <3> QED BY <3>1, <3>2
  <2> QED BY <2>2, <2>3
<1>13. C!ActiveLossHasCause'
  BY <1>1, <1>2, <1>5 DEF C!ActiveLossHasCause, C!Active, C!Renewing, C!At
<1> QED BY <1>9, <1>10, <1>11, <1>12, <1>13

LEMMA StartSteps ==
  ASSUME CertificateInv, NEW r \in Request, C!StartCommand(r)
  PROVE  CertificateInv'
<1> USE DEF CertificateInv
<1> DEFINE q == request[r]
<1>1. q \in IssuingState /\ q.input = None /\ UNCHANGED <<ca, files, record>> /\ Supplied(q)
  BY DEF CertificateTypes, Supplies, C!StartCommand
<1>2. q.at \in {"certCa", "genCsr", "sign"} /\ q.op # "revoke"
  BY <1>1 DEF C!StartCommand, C!At, Supplied, C!CaStage, C!FileStage, C!Issuing
<1>3. PICK input \in KeyOrNone \cup C!Certificate, stage \in {q.at, "done"} :
         /\ C!Goes(r, [q EXCEPT !.input = input], stage)
         /\ input \in IF q.at = "sign" THEN {None} \cup C!Certificate ELSE KeyOrNone
         /\ stage = "done" => q.at = "sign" /\ input = None
         /\ stage # "done" /\ q.at = "certCa" => input = ca.key
         /\ stage # "done" /\ q.at = "genCsr" => input = files[q.serial].key
         /\ stage # "done" /\ q.at = "sign" => input = [of |-> files[q.serial].csr, by |-> ca.crt]
         /\ stage = "done" /\ q.op = "renew" => q.serial \in past'.broken
  <2>1. CASE C!At(r, {"certCa"})
    <3>1. C!Goes(r, [q EXCEPT !.input = ca.key], q.at) /\ q.at = "certCa" /\ ca.key \in KeyOrNone
      BY <2>1 DEF C!StartCommand, C!At, CertificateTypes
    <3> QED BY <3>1
  <2>2. CASE C!At(r, {"genCsr"})
    <3>1. q.serial \in Serial
      BY <1>1, <2>2 DEF Supplied, C!At, C!FileStage, C!Issuing
    <3>2. C!Goes(r, [q EXCEPT !.input = files[q.serial].key], q.at) /\ q.at = "genCsr" /\ files[q.serial].key \in KeyOrNone
      BY <2>2, <3>1 DEF C!StartCommand, C!At, CertificateTypes
    <3> QED BY <3>2
  <2>3. CASE C!At(r, {"sign"}) /\ ca.key = ca.crt
    <3>1. q.serial \in Serial /\ files[q.serial].csr # None /\ ca.crt # None /\ q.at = "sign"
      BY <1>1, <2>3 DEF Supplied, C!At, C!FileStage, C!Issuing
    <3>2. [of |-> files[q.serial].csr, by |-> ca.crt] \in C!Certificate
      BY <3>1 DEF CertificateTypes, KeyOrNone, C!Certificate, C!Key
    <3>3. C!Goes(r, [q EXCEPT !.input = [of |-> files[q.serial].csr, by |-> ca.crt]], q.at)
      BY <2>3 DEF C!StartCommand, C!At
    <3> QED BY <3>1, <3>2, <3>3
  <2>4. CASE C!At(r, {"sign"}) /\ ca.key # ca.crt
    <3>1. C!Goes(r, [q EXCEPT !.input = None], "done") /\ q.at = "sign"
      BY <2>4 DEF C!StartCommand, C!At, C!Breaks
    <3>2. q.op = "renew" => q.serial \in past'.broken
      BY <2>4 DEF C!StartCommand, CertificateTypes
    <3> QED BY <3>1, <3>2 DEF KeyOrNone
  <2> QED BY <2>1, <2>2, <2>3, <2>4 DEF C!StartCommand
<1>4. /\ request' \in [Request -> IssuingState]
      /\ \A o \in Request \ {r} : request'[o] = request[o]
      /\ request'[r].at = stage /\ request'[r].op = q.op /\ request'[r].serial = q.serial
      /\ request'[r].input = input /\ request'[r].key = q.key /\ request'[r].crt = q.crt
      /\ request'[r].target = q.target
  <2>1. [q EXCEPT !.input = input] \in IssuingState /\ stage \in Stage
    BY <1>1, <1>3 DEF IssuingState, Stage
  <2>2. /\ [q EXCEPT !.input = input].op = q.op /\ [q EXCEPT !.input = input].serial = q.serial
        /\ [q EXCEPT !.input = input].key = q.key /\ [q EXCEPT !.input = input].crt = q.crt
        /\ [q EXCEPT !.input = input].target = q.target /\ [q EXCEPT !.input = input].input = input
    BY <1>1 DEF IssuingState
  <2> QED BY <1>3, <2>1, <2>2, GoesTo
<1>5. /\ past' \in [raced : SUBSET (Serial \cup {None}), caRaced : BOOLEAN, revoked : SUBSET (Serial \cup {None}),
                    broken : SUBSET (Serial \cup {None}), faults : Nat]
      /\ past'.revoked = past.revoked /\ past.broken \subseteq past'.broken
      /\ past.raced = past'.raced /\ past.caRaced = past'.caRaced
  BY <1>1 DEF C!StartCommand, CertificateTypes, IssuingState
<1>6. CertificateTypes'
  BY <1>1, <1>4, <1>5 DEF CertificateTypes
<1>7. Supplies'
  <2>1. ASSUME NEW o \in Request PROVE Supplied(request[o])'
    <3>1. CASE o = r
      <4>1. CASE stage = "done"
        BY <1>1, <1>2, <1>3, <1>4, <3>1, <4>1 DEF Supplied, C!CaStage, C!FileStage
      <4>2. CASE stage # "done"
        <5>1. input # None => \/ q.at \in {"certCa", "genCsr"} /\ input \in Request
                              \/ q.at = "sign" /\ input \in C!Certificate
          BY <1>2, <1>3 DEF KeyOrNone
        <5> QED BY <1>1, <1>3, <1>4, <3>1, <4>2, <5>1 DEF Supplied
      <4> QED BY <4>1, <4>2
    <3>2. CASE o # r
      BY <1>1, <1>4, <3>2 DEF Supplies, Supplied
    <3> QED BY <3>1, <3>2
  <2> QED BY <1>1, <1>2, <1>4, <2>1 DEF Supplies
<1>8. OneCA'
  BY <1>1, <1>2, <1>3, <1>4, <1>5 DEF OneCA, C!At, C!CaStage
<1>9. OwnFiles'
  <2> SUFFICES ASSUME NEW s \in Serial \ past.raced
               PROVE /\ \A o, p \in Request : Uses(o, s)' /\ Uses(p, s)' => o = p
                     /\ \A o \in Request : request'[o].serial = s => Owns(o)'
    BY <1>1, <1>4, <1>5 DEF OwnFiles
  <2>1. \A o, p \in Request : Uses(o, s)' /\ Uses(p, s)' => o = p
    BY <1>2, <1>3, <1>4 DEF OwnFiles, Uses, C!At, C!CaStage, C!FileStage
  <2>2. ASSUME NEW o \in Request, request'[o].serial = s PROVE Owns(o)'
    BY <1>1, <1>2, <1>3, <1>4, <2>2 DEF OwnFiles, Owns
  <2> QED BY <2>1, <2>2
<1>10. C!ActiveLossHasCause'
  BY <1>1, <1>2, <1>3, <1>4, <1>5 DEF C!ActiveLossHasCause, C!Active, C!Renewing, C!At
<1> QED BY <1>6, <1>7, <1>8, <1>9, <1>10

LEMMA EndSteps ==
  ASSUME CertificateInv, NEW r \in Request, C!EndCommand(r)
  PROVE  CertificateInv'
<1> USE DEF CertificateInv
<1> DEFINE q == request[r]
           stage == C!After(q.op, q.at)
<1>1. q \in IssuingState /\ q.input # None /\ UNCHANGED <<record, past>> /\ Supplied(q)
  BY DEF CertificateTypes, Supplies, C!EndCommand
<1>2. /\ \/ q.at = "certCa" /\ q.input \in Request
         \/ q.at = "genCsr" /\ q.input \in Request
         \/ q.at = "sign" /\ q.input \in C!Certificate
      /\ q.op # "revoke" /\ q.op # None
      /\ q.at # "certCa" => q.serial \in Serial /\ q.op \in C!Issuing
      /\ q.at = "certCa" => q.op \in C!Issuing \cup {"ca"}
  BY <1>1, ServicesAssumption DEF Supplied, C!CaStage, C!FileStage, C!Issuing
<1>3. /\ stage \in Stage
      /\ q.at = "certCa" => stage = IF q.op = "ca" THEN "done" ELSE IF q.op = "sign" THEN "writeCsr" ELSE "genKey"
      /\ q.at = "genCsr" => stage = "sign"
      /\ q.at = "sign" => stage = IF q.op = "sign" THEN "readCrt" ELSE "readKey"
  <2>1. q.at \in Stage \ {"ensureCA", "done"}
    BY <1>2 DEF Stage, C!CaStage, C!FileStage
  <2> QED BY <1>2, <2>1, Following DEF C!WithCA, C!Issuing
<1> HIDE DEF stage
<1>4. /\ request' \in [Request -> IssuingState]
      /\ \A o \in Request \ {r} : request'[o] = request[o]
      /\ request'[r].at = stage /\ request'[r].op = q.op /\ request'[r].serial = q.serial
      /\ request'[r].input = None /\ request'[r].key = q.key /\ request'[r].crt = q.crt
      /\ request'[r].target = q.target
  <2> DEFINE p == [q EXCEPT !.input = None]
  <2>1. /\ p \in IssuingState /\ p.op = q.op /\ p.at = q.at /\ p.serial = q.serial /\ p.input = None
        /\ p.key = q.key /\ p.crt = q.crt /\ p.target = q.target
    BY <1>1 DEF IssuingState, KeyOrNone
  <2>2. C!Goes(r, p, stage)
    BY <2>1 DEF C!EndCommand, C!Onward, stage
  <2> QED BY <1>3, <2>1, <2>2, GoesTo
<1>5. /\ ca' \in [key : KeyOrNone, crt : KeyOrNone] /\ ca'.key = ca.key
      /\ ca'.crt = IF q.at = "certCa" THEN q.input ELSE ca.crt
  BY <1>1, <1>2 DEF C!EndCommand, C!At, CertificateTypes, KeyOrNone
<1>6. /\ files' \in [Serial -> [key : KeyOrNone, csr : KeyOrNone, crt : CertificateOrNone]]
      /\ \A s \in Serial : /\ files'[s].key = files[s].key
                           /\ files'[s].csr = IF s = q.serial /\ q.at = "genCsr" THEN q.input ELSE files[s].csr
                           /\ files'[s].crt = IF s = q.serial /\ q.at = "sign" THEN q.input ELSE files[s].crt
  <2>1. CASE q.at = "certCa"
    BY <2>1 DEF C!EndCommand, C!At, CertificateTypes
  <2>2. CASE q.at = "genCsr"
    BY <1>2, <2>2 DEF C!EndCommand, C!At, CertificateTypes, KeyOrNone
  <2>3. CASE q.at = "sign"
    BY <1>2, <2>3 DEF C!EndCommand, C!At, CertificateTypes, CertificateOrNone
  <2> QED BY <1>2, <2>1, <2>2, <2>3
<1>7. CertificateTypes'
  BY <1>1, <1>4, <1>5, <1>6 DEF CertificateTypes
<1>8. Supplies'
  <2>1. ASSUME NEW o \in Request PROVE Supplied(request[o])'
    <3>1. CASE o = r
      BY <1>1, <1>2, <1>3, <1>4, <1>5, <1>6, <3>1 DEF Supplied, C!CaStage, C!FileStage, C!Issuing
    <3>2. CASE o # r
      <4>1. Supplied(request[o]) /\ request'[o] = request[o] /\ request[o] \in IssuingState
        BY <1>4, <3>2 DEF Supplies, CertificateTypes
      <4>2. /\ ca.crt # None => ca'.crt # None
            /\ \A s \in Serial : /\ files[s].csr # None => files'[s].csr # None
                                 /\ files[s].crt # None => files'[s].crt # None
        BY <1>1, <1>5, <1>6
      <4> QED BY <1>1, <1>5, <1>6, <4>1, <4>2 DEF Supplied, C!FileStage, C!CaStage, C!Issuing
    <3> QED BY <3>1, <3>2
  <2> QED BY <1>1, <1>2, <1>4, <2>1 DEF Supplies
<1>9. OneCA'
  <2> SUFFICES ASSUME ~ past.caRaced
               PROVE  /\ \A o, p \in Request : C!At(o, C!CaStage)' /\ C!At(p, C!CaStage)' => o = p
                      /\ \A o \in Request : C!At(o, C!CaStage)' => ca'.crt = None
                      /\ \A o \in Request : C!At(o, {"certCa"})' => request'[o].input \in {None, ca'.key}
                      /\ ca'.crt \in {None, ca'.key}
                      /\ \A s \in Serial : files'[s].crt # None => files'[s].crt.by = ca'.crt
                      /\ \A o \in Request : C!At(o, {"sign"})' /\ request'[o].input # None => request'[o].input.by = ca'.crt
                      /\ \A o \in Request : request'[o].crt # None => request'[o].crt.by = ca'.crt
                      /\ \A o \in Request : record[o] # None => record[o].crt.by = ca'.crt
    BY <1>1 DEF OneCA
  <2>1. CASE q.at = "certCa"
    <3>1. /\ ca.crt = None /\ ca'.crt = ca.key
          /\ \A o \in Request : C!At(o, C!CaStage) => o = r
      BY <1>1, <1>5, <2>1 DEF OneCA, C!At, C!CaStage
    <3>2. \A o \in Request : ~ C!At(o, C!CaStage)'
      BY <1>3, <1>4, <2>1, <3>1 DEF C!At, C!CaStage
    <3>3. \A c \in C!Certificate : c.by # ca.crt
      BY <3>1, ServicesAssumption DEF C!Certificate, C!Key
    <3>4. /\ \A s \in Serial : files[s].crt = None
          /\ \A o \in Request : request[o].crt = None /\ record[o] = None
      BY <3>3 DEF OneCA, CertificateTypes, CertificateOrNone, IssuingState, Record
    <3>5. \A o \in Request : C!At(o, {"sign"})' => request'[o].input = None
      <4> SUFFICES ASSUME NEW o \in Request, request'[o].at = "sign", request'[o].input # None PROVE FALSE
        BY DEF C!At
      <4>1. o # r /\ request'[o] = request[o]
        BY <1>4
      <4>2. request[o].input \in C!Certificate /\ request[o].input.by = ca.crt
        BY <4>1 DEF Supplies, Supplied, OneCA, C!At
      <4> QED BY <3>3, <4>2
    <3> QED BY <1>4, <1>5, <1>6, <2>1, <3>1, <3>2, <3>4, <3>5 DEF C!At, C!CaStage
  <2>2. CASE q.at # "certCa"
    <3>1. UNCHANGED ca
      BY <2>2 DEF C!EndCommand, C!At
    <3> QED BY <1>1, <1>2, <1>3, <1>4, <1>6, <2>2, <3>1 DEF OneCA, C!At, C!CaStage
  <2> QED BY <2>1, <2>2
<1>10. OwnFiles'
  <2> SUFFICES ASSUME NEW s \in Serial \ past.raced
               PROVE /\ \A o, p \in Request : Uses(o, s)' /\ Uses(p, s)' => o = p
                     /\ \A o \in Request : request'[o].serial = s => Owns(o)'
    BY <1>1, <1>4 DEF OwnFiles
  <2>1. \A o \in Request : Uses(o, s)' => Uses(o, s)
    BY <1>2, <1>3, <1>4 DEF Uses, C!At, C!CaStage, C!FileStage
  <2>2. \A o, p \in Request : Uses(o, s)' /\ Uses(p, s)' => o = p
    BY <2>1 DEF OwnFiles
  <2>3. ASSUME NEW o \in Request, request'[o].serial = s PROVE Owns(o)'
    <3>1. CASE o = r
      <4>1. q.serial = s /\ Owns(r)
        BY <1>4, <2>3, <3>1 DEF OwnFiles
      <4>2. q.op = "sign" => q.key = None
        BY <1>1 DEF Supplied
      <4> QED BY <1>1, <1>2, <1>3, <1>4, <1>6, <3>1, <4>1, <4>2 DEF Owns
    <3>2. CASE o # r
      <4>1. request'[o] = request[o] /\ Owns(o)
        BY <1>4, <2>3, <3>2 DEF OwnFiles
      <4>2. q.serial = s => request[o].at \notin C!FileStage
        BY <1>2, <1>4, <2>3, <3>2, <4>1 DEF OwnFiles, Uses, C!At, C!CaStage, C!FileStage
      <4> QED BY <1>6, <2>3, <4>1, <4>2 DEF Owns, C!FileStage
    <3> QED BY <3>1, <3>2
  <2> QED BY <2>2, <2>3
<1>11. C!ActiveLossHasCause'
  BY <1>1, <1>2, <1>3, <1>4 DEF C!ActiveLossHasCause, C!Active, C!Renewing, C!At, C!Issuing
<1> QED BY <1>7, <1>8, <1>9, <1>10, <1>11

LEMMA ReadSteps ==
  ASSUME CertificateInv, NEW r \in Request, C!Read(r)
  PROVE  CertificateInv'
<1> USE DEF CertificateInv
<1> DEFINE q == request[r]
           f == files[q.serial]
           stage == C!After(q.op, q.at)
<1>1. q \in IssuingState /\ q.at \in {"readKey", "readCrt"} /\ UNCHANGED <<ca, files, record, past>> /\ Supplied(q)
  BY DEF CertificateTypes, Supplies, C!Read, C!At
<1>2. /\ q.serial \in Serial /\ q.op \in C!Issuing /\ q.op # None /\ ca.crt # None /\ f.crt # None /\ q.input = None
      /\ q.at = "readKey" => q.op # "sign"
  BY <1>1 DEF Supplied, C!FileStage, C!Issuing
<1>3. /\ stage \in Stage
      /\ q.at = "readKey" => stage = "readCrt"
      /\ q.at = "readCrt" => stage = "save"
  BY <1>1, Following DEF Stage, C!FileStage
<1> HIDE DEF stage
<1>4. PICK key \in KeyOrNone, crt \in CertificateOrNone :
         /\ C!Goes(r, [q EXCEPT !.key = key, !.crt = crt], stage)
         /\ q.at = "readKey" => key = f.key /\ crt = q.crt
         /\ q.at = "readCrt" => key = q.key /\ crt = f.crt
  <2>1. CASE q.at = "readKey"
    <3> DEFINE p == [q EXCEPT !.key = f.key]
    <3>1. f.key \in KeyOrNone /\ q.crt \in CertificateOrNone /\ p = [q EXCEPT !.key = f.key, !.crt = q.crt]
      BY <1>1, <1>2 DEF CertificateTypes, IssuingState
    <3>2. p.op = q.op /\ p.at = q.at
      BY <1>1 DEF IssuingState
    <3>3. C!Goes(r, p, stage)
      BY <2>1, <3>2 DEF C!Read, C!At, C!Onward, stage
    <3> QED BY <2>1, <3>1, <3>3
  <2>2. CASE q.at = "readCrt"
    <3> DEFINE p == [q EXCEPT !.crt = f.crt]
    <3>1. f.crt \in CertificateOrNone /\ q.key \in KeyOrNone /\ p = [q EXCEPT !.key = q.key, !.crt = f.crt]
      BY <1>1, <1>2 DEF CertificateTypes, IssuingState
    <3>2. p.op = q.op /\ p.at = q.at
      BY <1>1 DEF IssuingState
    <3>3. C!Goes(r, p, stage)
      BY <2>2, <3>2 DEF C!Read, C!At, C!Onward, stage
    <3> QED BY <2>2, <3>1, <3>3
  <2> QED BY <1>1, <2>1, <2>2
<1>5. /\ request' \in [Request -> IssuingState]
      /\ \A o \in Request \ {r} : request'[o] = request[o]
      /\ request'[r].at = stage /\ request'[r].op = q.op /\ request'[r].serial = q.serial
      /\ request'[r].input = None /\ request'[r].key = key /\ request'[r].crt = crt
      /\ request'[r].target = q.target
  <2> DEFINE p == [q EXCEPT !.key = key, !.crt = crt]
  <2>1. /\ p \in IssuingState /\ p.op = q.op /\ p.serial = q.serial /\ p.input = q.input
        /\ p.key = key /\ p.crt = crt /\ p.target = q.target
    BY <1>1 DEF IssuingState
  <2> QED BY <1>2, <1>3, <1>4, <2>1, GoesTo
<1>6. CertificateTypes'
  BY <1>1, <1>5 DEF CertificateTypes
<1>7. Supplies'
  <2>1. ASSUME NEW o \in Request PROVE Supplied(request[o])'
    <3>1. CASE o = r
      BY <1>1, <1>2, <1>3, <1>4, <1>5, <3>1 DEF Supplied, C!CaStage, C!FileStage, C!Issuing
    <3>2. CASE o # r
      BY <1>1, <1>5, <3>2 DEF Supplies, Supplied
    <3> QED BY <3>1, <3>2
  <2> QED BY <1>1, <1>2, <1>5, <2>1 DEF Supplies
<1>8. OneCA'
  BY <1>1, <1>2, <1>3, <1>4, <1>5 DEF OneCA, C!At, C!CaStage
<1>9. OwnFiles'
  <2> SUFFICES ASSUME NEW s \in Serial \ past.raced
               PROVE /\ \A o, p \in Request : Uses(o, s)' /\ Uses(p, s)' => o = p
                     /\ \A o \in Request : request'[o].serial = s => Owns(o)'
    BY <1>1, <1>5 DEF OwnFiles
  <2>1. \A o, p \in Request : Uses(o, s)' /\ Uses(p, s)' => o = p
    BY <1>1, <1>3, <1>5 DEF OwnFiles, Uses, C!At, C!CaStage, C!FileStage
  <2>2. ASSUME NEW o \in Request, request'[o].serial = s PROVE Owns(o)'
    BY <1>1, <1>2, <1>3, <1>4, <1>5, <2>2 DEF OwnFiles, Owns
  <2> QED BY <2>1, <2>2
<1>10. C!ActiveLossHasCause'
  BY <1>1, <1>3, <1>5 DEF C!ActiveLossHasCause, C!Active, C!Renewing, C!At
<1> QED BY <1>6, <1>7, <1>8, <1>9, <1>10

LEMMA SaveSteps ==
  ASSUME CertificateInv, NEW r \in Request, C!Save(r)
  PROVE  CertificateInv'
<1> USE DEF CertificateInv
<1> DEFINE q == request[r]
           new == [serial |-> q.serial, key |-> q.key, crt |-> q.crt, active |-> TRUE]
<1>1. q \in IssuingState /\ q.at = "save" /\ UNCHANGED <<ca, files, past>> /\ Supplied(q)
  BY DEF CertificateTypes, Supplies, C!Save, C!At
<1>2. /\ q.serial \in Serial /\ q.op \in C!Issuing /\ q.op # None /\ q.input = None
      /\ q.key \in KeyOrNone /\ q.crt \in C!Certificate /\ q.crt # None /\ record[r] = None
  BY <1>1 DEF Supplies, Supplied, C!FileStage, C!Issuing, IssuingState, CertificateOrNone
<1>3. /\ request' \in [Request -> IssuingState]
      /\ \A o \in Request \ {r} : request'[o] = request[o]
      /\ request'[r].at = "done" /\ request'[r].op = q.op /\ request'[r].serial = q.serial
      /\ request'[r].input = q.input /\ request'[r].key = q.key /\ request'[r].crt = q.crt
      /\ request'[r].target = q.target
  <2>1. C!Goes(r, q, "done")
    BY <1>1, Following DEF C!Save, C!Onward, Stage
  <2> QED BY <1>1, <2>1, GoesTo DEF Stage
<1>4. new \in Record
  BY <1>2 DEF Record
<1>5. record' \in [Request -> Record \cup {None}] /\ record'[r] = new /\ \A o \in Request \ {r} : record'[o] = record[o]
  BY <1>4 DEF C!Save, CertificateTypes
<1>6. new # None
  BY <1>4, ServicesAssumption DEF Record, KeyOrNone, C!Certificate, C!Key
<1>7. CertificateTypes'
  BY <1>1, <1>3, <1>5 DEF CertificateTypes
<1>8. Supplies'
  <2>1. ASSUME NEW o \in Request PROVE Supplied(request[o])'
    <3>1. CASE o = r
      BY <1>1, <1>2, <1>3, <3>1 DEF Supplied, C!CaStage, C!FileStage, C!Issuing
    <3>2. CASE o # r
      BY <1>1, <1>2, <1>3, <1>5, <3>2, ServicesAssumption DEF Supplies, Supplied, CertificateTypes, IssuingState, KeyOrNone
    <3> QED BY <3>1, <3>2
  <2> QED BY <1>2, <1>3, <1>5, <2>1 DEF Supplies
<1>9. OneCA'
  BY <1>1, <1>2, <1>3, <1>5 DEF OneCA, C!At, C!CaStage
<1>10. OwnFiles'
  BY <1>1, <1>2, <1>3, <1>5 DEF OwnFiles, Owns, Uses, C!At, C!CaStage, C!FileStage
<1>11. C!ActiveLossHasCause'
  <2>1. \A s \in Serial : /\ s # q.serial => C!Active(s)' = C!Active(s) /\ (s \in C!Renewing(Request)' <=> s \in C!Renewing(Request))
                          /\ s = q.serial => r \in C!Active(s)'
    BY <1>1, <1>2, <1>3, <1>5, <1>6 DEF C!Active, C!Renewing, C!At
  <2> QED BY <1>1, <1>2, <1>5, <2>1 DEF C!ActiveLossHasCause
<1> QED BY <1>7, <1>8, <1>9, <1>10, <1>11

LEMMA FindSteps ==
  ASSUME CertificateInv, NEW r \in Request, C!Find(r)
  PROVE  CertificateInv'
<1> USE DEF CertificateInv
<1> DEFINE q == request[r]
<1>1. /\ q \in IssuingState /\ q.at = "find" /\ q.op = "renew" /\ q.serial \in Serial /\ q.input = None
      /\ UNCHANGED <<ca, files, record, past>>
  BY DEF CertificateTypes, Supplies, Supplied, C!Find, C!At
<1>2. PICK target \in KeyOrNone, stage \in {"revoke", "ensureCA"} :
         /\ C!Goes(r, [q EXCEPT !.target = target], stage)
         /\ stage = "revoke" => target \in C!Active(q.serial)
  <2>1. CASE C!Active(q.serial) = {}
    <3>1. q.target \in KeyOrNone /\ [q EXCEPT !.target = q.target] = q
      BY <1>1 DEF IssuingState
    <3>2. C!Goes(r, q, "ensureCA")
      BY <2>1 DEF C!Find
    <3> QED BY <3>1, <3>2
  <2>2. CASE C!Active(q.serial) # {}
    <3>1. PICK t \in C!Active(q.serial) : C!Onward(r, [q EXCEPT !.target = t])
      BY <2>2 DEF C!Find
    <3>2. [q EXCEPT !.target = t].at = "find"
      BY <1>1 DEF IssuingState
    <3> QED BY <3>1, <3>2 DEF C!Onward, C!After, C!Active, KeyOrNone
  <2> QED BY <2>1, <2>2
<1>3. /\ request' \in [Request -> IssuingState]
      /\ \A o \in Request \ {r} : request'[o] = request[o]
      /\ request'[r].at = stage /\ request'[r].op = q.op /\ request'[r].serial = q.serial
      /\ request'[r].input = None /\ request'[r].key = q.key /\ request'[r].crt = q.crt
      /\ request'[r].target = target
  <2> DEFINE p == [q EXCEPT !.target = target]
  <2>1. /\ p \in IssuingState /\ p.op = q.op /\ p.serial = q.serial /\ p.input = q.input
        /\ p.key = q.key /\ p.crt = q.crt /\ p.target = target
    BY <1>1 DEF IssuingState
  <2>2. stage \in Stage
    BY <1>2 DEF Stage
  <2> QED BY <1>1, <1>2, <2>1, <2>2, GoesTo
<1>4. CertificateTypes'
  BY <1>1, <1>3 DEF CertificateTypes
<1>5. Supplies'
  <2>1. stage = "revoke" => target # None /\ record[target] # None /\ record[target].serial = q.serial
    BY <1>2, ServicesAssumption DEF C!Active
  <2>2. ASSUME NEW o \in Request PROVE Supplied(request[o])'
    <3>1. CASE o = r
      BY <1>1, <1>2, <1>3, <2>1, <3>1, ServicesAssumption DEF Supplied, C!CaStage, C!FileStage, C!Issuing
    <3>2. CASE o # r
      BY <1>1, <1>3, <3>2 DEF Supplies, Supplied
    <3> QED BY <3>1, <3>2
  <2> QED BY <1>1, <1>3, <2>2 DEF Supplies
<1>6. OneCA'
  BY <1>1, <1>2, <1>3 DEF OneCA, C!At, C!CaStage
<1>7. OwnFiles'
  BY <1>1, <1>2, <1>3 DEF OwnFiles, Owns, Uses, C!At, C!CaStage, C!FileStage
<1>8. C!ActiveLossHasCause'
  BY <1>1, <1>2, <1>3 DEF C!ActiveLossHasCause, C!Active, C!Renewing, C!At
<1> QED BY <1>4, <1>5, <1>6, <1>7, <1>8

LEMMA RevokeSteps ==
  ASSUME CertificateInv, NEW r \in Request, C!Revoke(r)
  PROVE  CertificateInv'
<1> USE DEF CertificateInv
<1> DEFINE q == request[r]
           t == q.target
           stage == IF q.op = "renew" THEN "ensureCA" ELSE "done"
<1>1. /\ q \in IssuingState /\ q.at = "revoke" /\ q.op \in {"renew", "revoke"} /\ q.serial \in Serial
      /\ q.op # None /\ q.input = None
      /\ t \in Request /\ record[t] # None /\ record[t].serial = q.serial
      /\ UNCHANGED <<ca, files>>
  BY DEF CertificateTypes, IssuingState, KeyOrNone, Supplies, Supplied, C!Revoke, C!At
<1>2. /\ past' \in [raced : SUBSET (Serial \cup {None}), caRaced : BOOLEAN, revoked : SUBSET (Serial \cup {None}),
                    broken : SUBSET (Serial \cup {None}), faults : Nat]
      /\ past'.broken = past.broken /\ past'.raced = past.raced /\ past'.caRaced = past.caRaced
      /\ past.revoked \subseteq past'.revoked /\ (q.op = "revoke" => q.serial \in past'.revoked)
  BY <1>1 DEF C!Revoke, CertificateTypes
<1>3. /\ request' \in [Request -> IssuingState]
      /\ \A o \in Request \ {r} : request'[o] = request[o]
      /\ request'[r].at = stage /\ request'[r].op = q.op /\ request'[r].serial = q.serial
      /\ request'[r].input = q.input /\ request'[r].key = q.key /\ request'[r].crt = q.crt
      /\ request'[r].target = q.target
  <2>1. C!Goes(r, q, stage)
    BY DEF C!Revoke, C!AfterRevoke, C!After
  <2> QED BY <1>1, <2>1, GoesTo DEF Stage
<1>4. [record[t] EXCEPT !.active = FALSE] \in Record
  <2>1. record[t] \in Record
    BY <1>1 DEF CertificateTypes
  <2> QED BY <2>1 DEF Record
<1>5. /\ record' = [record EXCEPT ![t] = [record[t] EXCEPT !.active = FALSE]]
      /\ record' \in [Request -> Record \cup {None}]
  BY <1>1, <1>4 DEF C!Revoke, CertificateTypes
<1>6. \A o \in Request : /\ record'[o] = None <=> record[o] = None
                         /\ record'[o] # None => /\ record'[o].serial = record[o].serial /\ record'[o].key = record[o].key
                                                 /\ record'[o].crt = record[o].crt
                         /\ record'[o] # record[o] => record[o] # None /\ record[o].serial = q.serial
  <2>1. /\ [record[t] EXCEPT !.active = FALSE] # None
        /\ [record[t] EXCEPT !.active = FALSE].serial = record[t].serial
        /\ [record[t] EXCEPT !.active = FALSE].key = record[t].key
        /\ [record[t] EXCEPT !.active = FALSE].crt = record[t].crt
    BY <1>1, <1>4, ServicesAssumption DEF CertificateTypes, Record, KeyOrNone, C!Certificate, C!Key
  <2> QED BY <1>1, <1>5, <2>1 DEF CertificateTypes
<1>7. CertificateTypes'
  BY <1>1, <1>2, <1>3, <1>5 DEF CertificateTypes
<1>8. Supplies'
  <2>1. ASSUME NEW o \in Request PROVE Supplied(request[o])'
    <3>1. CASE o = r
      BY <1>1, <1>3, <3>1 DEF Supplies, Supplied, C!CaStage, C!FileStage, C!Issuing
    <3>2. CASE o # r
      <4>1. Supplied(request[o]) /\ request'[o] = request[o] /\ request[o].target \in KeyOrNone
        BY <1>3, <3>2 DEF Supplies, CertificateTypes, IssuingState
      <4> QED BY <1>1, <1>6, <4>1 DEF Supplied, KeyOrNone
    <3> QED BY <3>1, <3>2
  <2> QED BY <1>1, <1>3, <1>6, <2>1 DEF Supplies
<1>9. OneCA'
  BY <1>1, <1>2, <1>3, <1>6 DEF OneCA, C!At, C!CaStage
<1>10. OwnFiles'
  BY <1>1, <1>2, <1>3, <1>6 DEF OwnFiles, Owns, Uses, C!At, C!CaStage, C!FileStage
<1>11. C!ActiveLossHasCause'
  <2>1. \A s \in Serial : /\ s # q.serial => C!Active(s)' = C!Active(s)
                          /\ s \in C!Renewing(Request) => s \in C!Renewing(Request)'
                          /\ q.op = "renew" => q.serial \in C!Renewing(Request)'
    BY <1>1, <1>3, <1>6 DEF C!Active, C!Renewing, C!At
  <2> QED BY <1>1, <1>2, <1>6, <2>1 DEF C!ActiveLossHasCause
<1> QED BY <1>7, <1>8, <1>9, <1>10, <1>11

LEMMA FaultPast ==
  ASSUME CertificateTypes, NEW rs, C!Fault(rs), NEW X \in SUBSET (Serial \cup {None}), C!Renewing(rs) = X
  PROVE  /\ past' \in [raced : SUBSET (Serial \cup {None}), caRaced : BOOLEAN, revoked : SUBSET (Serial \cup {None}),
                     broken : SUBSET (Serial \cup {None}), faults : Nat]
         /\ past'.broken = past.broken \cup X
         /\ past'.raced = past.raced /\ past'.caRaced = past.caRaced /\ past'.revoked = past.revoked
<1>1. PICK n \in Nat, B \in SUBSET (Serial \cup {None}) :
         B = past.broken \cup X /\ past' = [past EXCEPT !.faults = n, !.broken = B]
  <2>1. past.faults + 1 \in Nat
    BY DEF CertificateTypes
  <2>2. past.broken \cup X \in SUBSET (Serial \cup {None})
    BY DEF CertificateTypes
  <2>3. past' = [past EXCEPT !.faults = past.faults + 1, !.broken = past.broken \cup X]
    BY DEF C!Fault, CertificateTypes
  <2> QED BY <2>1, <2>2, <2>3
<1> QED BY <1>1 DEF CertificateTypes

LEMMA BreakSteps ==
  ASSUME CertificateInv, NEW r \in Request, C!Fail(r)
  PROVE  CertificateInv'
<1> USE DEF CertificateInv
<1> DEFINE q == request[r]
           skips == q.op = "renew" /\ q.at \in {"find", "revoke"}
           stage == IF skips THEN "ensureCA" ELSE "done"
<1>1. q \in IssuingState /\ q.at # "done" /\ UNCHANGED <<ca, files, record>> /\ Supplied(q)
  BY DEF CertificateTypes, Supplies, C!Fail, C!Fault
<1>2. /\ past' \in [raced : SUBSET (Serial \cup {None}), caRaced : BOOLEAN, revoked : SUBSET (Serial \cup {None}),
                    broken : SUBSET (Serial \cup {None}), faults : Nat]
      /\ past.broken \subseteq past'.broken /\ past'.raced = past.raced /\ past'.caRaced = past.caRaced
      /\ past'.revoked = past.revoked /\ (q.op = "renew" /\ ~ skips => q.serial \in past'.broken)
  <2>1. C!Renewing({r}) = IF q.op = "renew" /\ ~ skips THEN {q.serial} ELSE {}
    BY <1>1 DEF C!Renewing, C!At
  <2>2. q.serial \in Serial \cup {None}
    BY <1>1 DEF IssuingState
  <2>3. C!Renewing({r}) \in SUBSET (Serial \cup {None}) /\ C!Fault({r})
    BY <2>1, <2>2 DEF C!Fail
  <2> QED BY <2>1, <2>3, FaultPast
<1>3. /\ request' \in [Request -> IssuingState]
      /\ \A o \in Request \ {r} : request'[o] = request[o]
      /\ request'[r].at = stage /\ request'[r].op = q.op /\ request'[r].serial = q.serial
      /\ request'[r].input = None /\ request'[r].key = q.key /\ request'[r].crt = q.crt
      /\ request'[r].target = q.target
  <2>1. CASE skips
    <3>1. C!Goes(r, q, "ensureCA") /\ q.input = None
      BY <1>1, <2>1 DEF C!Fail, C!At, Supplied
    <3> QED BY <1>1, <2>1, <3>1, GoesTo DEF Stage
  <2>2. CASE ~ skips
    <3> DEFINE p == [q EXCEPT !.input = None]
    <3>1. /\ p \in IssuingState /\ p.op = q.op /\ p.serial = q.serial /\ p.input = None
          /\ p.key = q.key /\ p.crt = q.crt /\ p.target = q.target
      BY <1>1 DEF IssuingState, KeyOrNone
    <3>2. C!Goes(r, p, "done")
      BY <1>1, <2>2 DEF C!Fail, C!Breaks, C!At
    <3>3. "done" \in Stage
      BY DEF Stage
    <3> QED BY <2>2, <3>1, <3>2, <3>3, GoesTo
  <2> QED BY <2>1, <2>2
<1>4. CertificateTypes'
  BY <1>1, <1>2, <1>3 DEF CertificateTypes
<1>5. Supplies'
  <2>1. ASSUME NEW o \in Request PROVE Supplied(request[o])'
    <3>1. CASE o = r
      BY <1>1, <1>3, <3>1 DEF Supplied, C!CaStage, C!FileStage, C!Issuing
    <3>2. CASE o # r
      BY <1>1, <1>3, <3>2 DEF Supplies, Supplied
    <3> QED BY <3>1, <3>2
  <2> QED BY <1>1, <1>3, <2>1 DEF Supplies
<1>6. OneCA'
  BY <1>1, <1>2, <1>3 DEF OneCA, C!At, C!CaStage
<1>7. OwnFiles'
  BY <1>1, <1>2, <1>3 DEF OwnFiles, Owns, Uses, C!At, C!CaStage, C!FileStage
<1>8. C!ActiveLossHasCause'
  <2>1. \A s \in Serial : s \in C!Renewing(Request) => s \in C!Renewing(Request)' \/ s \in past'.broken
    BY <1>1, <1>2, <1>3 DEF C!Renewing, C!At
  <2> QED BY <1>1, <1>2, <2>1 DEF C!ActiveLossHasCause, C!Active
<1> QED BY <1>4, <1>5, <1>6, <1>7, <1>8

LEMMA KilledSteps ==
  ASSUME CertificateInv, C!Crash
  PROVE  CertificateInv'
<1> USE DEF CertificateInv
<1>1. UNCHANGED <<ca, files, record>>
  BY DEF C!Crash, C!Fault
<1>2. /\ request' \in [Request -> IssuingState]
      /\ \A o \in Request : /\ request'[o].at = "done" /\ request'[o].input = None /\ request'[o].op = request[o].op
                            /\ request'[o].key = request[o].key /\ request'[o].crt = request[o].crt
  <2>1. \A o \in Request : request[o] \in IssuingState
    BY DEF CertificateTypes
  <2>2. \A p \in IssuingState : [p EXCEPT !.at = "done", !.input = None] \in IssuingState
    BY DEF IssuingState, Stage, KeyOrNone
  <2> QED BY <2>1, <2>2 DEF C!Crash, IssuingState
<1>3. /\ past' \in [raced : SUBSET (Serial \cup {None}), caRaced : BOOLEAN, revoked : SUBSET (Serial \cup {None}),
                    broken : SUBSET (Serial \cup {None}), faults : Nat]
      /\ past'.broken = past.broken \cup C!Renewing(Request)
      /\ past'.raced = past.raced /\ past'.caRaced = past.caRaced /\ past'.revoked = past.revoked
  <2>1. C!Renewing(Request) \subseteq Serial \cup {None}
    BY DEF C!Renewing, CertificateTypes, IssuingState
  <2> QED BY <2>1, FaultPast DEF C!Crash
<1>4. CertificateTypes'
  BY <1>1, <1>2, <1>3 DEF CertificateTypes
<1>5. Supplies'
  BY <1>1, <1>2 DEF Supplies, Supplied, C!CaStage, C!FileStage
<1>6. OneCA'
  BY <1>1, <1>2, <1>3 DEF OneCA, C!At, C!CaStage
<1>7. OwnFiles'
  BY <1>1, <1>2, <1>3 DEF OwnFiles, Owns, Uses, C!At, C!CaStage, C!FileStage
<1>8. C!ActiveLossHasCause'
  BY <1>1, <1>3 DEF C!ActiveLossHasCause, C!Active
<1> QED BY <1>4, <1>5, <1>6, <1>7, <1>8

LEMMA NextCertificates ==
  ASSUME focus = "certificates", CertificateInv, [Next]_vars
  PROVE  CertificateInv'
<1>1. CASE UNCHANGED vars
  BY <1>1 DEF vars, certificates, CertificateInv, CertificateTypes, Supplies, Supplied, OneCA, OwnFiles, Uses, Owns,
              C!At, C!ActiveLossHasCause, C!Active, C!Renewing
<1>2. CASE C!Next
  BY <1>2, BeginSteps, EnsureCASteps, GenerateSteps, StartSteps, EndSteps, ReadSteps, SaveSteps,
     FindSteps, RevokeSteps, BreakSteps, KilledSteps DEF C!Next, Operation
<1> QED BY <1>1, <1>2 DEF Next

LEMMA CertificatesAlways == Spec => [](focus = "certificates" => CertificateInv)
<1>1. (focus = "certificates" => CertificateInv) /\ [Next]_vars => (focus = "certificates" => CertificateInv)'
  BY NextCertificates DEF Next, vars
<1> QED BY <1>1, InitCertificates, PTL DEF Spec

(* Key, certificate and CA of a record fit together, unless two requests   *)
(* used the files of its serial, or created the CA, at a time.             *)
THEOREM CertificatesAlwaysMatch == Spec => []CertificateMatchesKey
<1>1. CertificateInv => C!CertificateMatchesKey
  BY ServicesAssumption DEF CertificateInv, CertificateTypes, OneCA, OwnFiles, C!CertificateMatchesKey, Record
<1> QED BY <1>1, CertificatesAlways, PTL DEF CertificateMatchesKey

(* A device is left without an active certificate only by a revocation, or *)
(* by a renewal that has revoked and has not, or not yet, saved another.   *)
THEOREM EveryActiveLossHasCause == Spec => []ActiveLossHasCause
  BY CertificatesAlways, PTL DEF CertificateInv, ActiveLossHasCause
=============================================================================
