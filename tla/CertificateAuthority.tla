------------------------- MODULE CertificateAuthority -------------------------
(***************************************************************************)
(* CertificatesService: openssl commands over files that all requests for  *)
(* a serial share, and over the key and certificate of the CA, which all   *)
(* requests share.  A command reads its inputs when it starts and writes   *)
(* its output when it ends.  A key is named by the request that it is      *)
(* generated for.                                                          *)
(***************************************************************************)
EXTENDS Naturals

CONSTANTS
    Serial,       \* serials of devices
    Request,      \* requests that are made in a behaviour
    Earlier,      \* the one that an earlier process handled
    MaxFaults,    \* bound: failing commands and database calls, restarts
    None          \* no file, no record, nothing read

VARIABLES
    ca,           \* ca.key, and the key that ca.crt certifies
    files,        \* key, CSR and certificate on disk, by serial
    record,       \* the certificate record that a request saved
    request,      \* what each request has still to do, and what it has read
    past          \* history, see the invariants

caVars == <<ca, files, record, request, past>>

Key == Request
Certificate == [of : Key, by : Key]
Issuing == {"generate", "sign", "renew"}
Idle == [op |-> None, serial |-> None, at |-> "done", input |-> None, key |-> None, crt |-> None, target |-> None]

(* Fault for TypeOK: the signing is not awaited.                           *)
AfterCsr_Unsigned(op) == IF op = "sign" THEN "readCrt" ELSE "readKey"

AfterCsr(op) == "sign"

(* What a request awaits first, and what after each stage.                 *)
First(op) == CASE op = "renew" -> "find" [] op = "revoke" -> "revoke" [] OTHER -> "ensureCA"

WithCA(op) == CASE op = "ca" -> "done" [] op = "sign" -> "writeCsr" [] OTHER -> "genKey"

After(op, stage) ==
    CASE stage = "find" -> "revoke"
      [] stage = "revoke" -> IF op = "renew" THEN "ensureCA" ELSE "done"
      [] stage = "genCa" -> "certCa"
      [] stage = "certCa" -> WithCA(op)
      [] stage = "genKey" -> "genCsr"
      [] stage \in {"genCsr", "writeCsr"} -> AfterCsr(op)
      [] stage = "sign" -> IF op = "sign" THEN "readCrt" ELSE "readKey"
      [] stage = "readKey" -> "readCrt"
      [] stage = "readCrt" -> "save"
      [] stage = "save" -> "done"

At(r, stages) == request[r].at \in stages
CaStage == {"genCa", "certCa"}
FileStage == {"genKey", "genCsr", "writeCsr", "sign", "readKey", "readCrt"}
Active(s) == {r \in Request : record[r] # None /\ record[r].serial = s /\ record[r].active}

(* Nothing is there, or what a generation of an earlier process has left.  *)
Init ==
    /\ request = [r \in Request |-> IF r = Earlier THEN [Idle EXCEPT !.op = "generate"] ELSE Idle]
    /\ \/ /\ ca = [key |-> None, crt |-> None]
          /\ files = [s \in Serial |-> [key |-> None, csr |-> None, crt |-> None]]
          /\ record = [r \in Request |-> None]
       \/ LET crt == [of |-> Earlier, by |-> Earlier] IN
          /\ ca = [key |-> Earlier, crt |-> Earlier]
          /\ \E s \in Serial :
                /\ files = [t \in Serial |-> IF t = s THEN [key |-> Earlier, csr |-> Earlier, crt |-> crt]
                                                    ELSE [key |-> None, csr |-> None, crt |-> None]]
                /\ record = [r \in Request |-> IF r = Earlier
                                 THEN [serial |-> s, key |-> Earlier, crt |-> crt, active |-> TRUE] ELSE None]
    /\ past = [raced |-> {}, caRaced |-> FALSE, revoked |-> {}, broken |-> {}, faults |-> 0]

-----------------------------------------------------------------------------
(* The request, having read what q says, goes on at a stage.               *)
Goes(r, q, stage) == request' = [request EXCEPT ![r] = [q EXCEPT !.at = stage]]
Onward(r, q) == Goes(r, q, After(q.op, q.at))
Breaks(r) == Goes(r, [request[r] EXCEPT !.input = None], "done")

Begin(r, op, s) ==
    /\ request[r].op = None
    /\ \/ op # "revoke" /\ Goes(r, [Idle EXCEPT !.op = op, !.serial = IF op = "ca" THEN None ELSE s], First(op))
       \/ op = "revoke" /\ \E t \in Active(s) :
             Goes(r, [Idle EXCEPT !.op = op, !.serial = s, !.target = t], First(op))
    /\ UNCHANGED <<ca, files, record, past>>

(* Fault for CertificateMatchesKey: the files are looked for elsewhere.    *)
HasCA_Never == FALSE

HasCA == ca.key # None /\ ca.crt # None

(* History: two requests create the CA, or both use the files of a serial. *)
EnsureCA(r) ==
    LET q == request[r] IN
    /\ At(r, {"ensureCA"})
    /\ Goes(r, q, IF HasCA THEN WithCA(q.op) ELSE "genCa")
    /\ past' = [past EXCEPT !.caRaced = @ \/ (~ HasCA /\ \E o \in Request \ {r} : At(o, CaStage)),
                            !.raced = IF \E o \in Request \ {r} : request[o].serial = q.serial /\ At(o, CaStage \cup FileStage)
                                        THEN @ \cup {q.serial} ELSE @]
    /\ UNCHANGED <<ca, files, record>>

(* openssl genrsa, and the CSR that a device sends with its own key.       *)
Generate(r) ==
    LET s == request[r].serial IN
    /\ At(r, {"genCa", "genKey", "writeCsr"})
    /\ ca' = IF At(r, {"genCa"}) THEN [ca EXCEPT !.key = r] ELSE ca
    /\ files' = IF At(r, {"genKey"}) THEN [files EXCEPT ![s].key = r]
                ELSE IF At(r, {"writeCsr"}) THEN [files EXCEPT ![s].csr = r] ELSE files
    /\ Onward(r, request[r])
    /\ UNCHANGED <<record, past>>

(* openssl req and x509 read keys and CSR; x509 refuses a key that is not  *)
(* that of the CA's certificate.                                           *)
StartCommand(r) ==
    LET q == request[r]
        reads(what) == Goes(r, [q EXCEPT !.input = what], q.at) IN
    /\ q.input = None
    /\ \/ At(r, {"certCa"}) /\ reads(ca.key)
       \/ At(r, {"genCsr"}) /\ reads(files[q.serial].key)
       \/ At(r, {"sign"}) /\ ca.key = ca.crt /\ reads([of |-> files[q.serial].csr, by |-> ca.crt])
       \/ At(r, {"sign"}) /\ ca.key # ca.crt /\ Breaks(r)
    /\ past' = IF At(r, {"sign"}) /\ ca.key # ca.crt /\ q.op = "renew"
                 THEN [past EXCEPT !.broken = @ \cup {q.serial}] ELSE past
    /\ UNCHANGED <<ca, files, record>>

EndCommand(r) ==
    LET q == request[r] IN
    /\ q.input # None
    /\ ca' = IF At(r, {"certCa"}) THEN [ca EXCEPT !.crt = q.input] ELSE ca
    /\ files' = IF At(r, {"genCsr"}) THEN [files EXCEPT ![q.serial].csr = q.input]
                ELSE IF At(r, {"sign"}) THEN [files EXCEPT ![q.serial].crt = q.input] ELSE files
    /\ Onward(r, [q EXCEPT !.input = None])
    /\ UNCHANGED <<record, past>>

Read(r) ==
    LET q == request[r] IN
    /\ \/ At(r, {"readKey"}) /\ Onward(r, [q EXCEPT !.key = files[q.serial].key])
       \/ At(r, {"readCrt"}) /\ Onward(r, [q EXCEPT !.crt = files[q.serial].crt])
    /\ UNCHANGED <<ca, files, record, past>>

(* Without a private key for a device that sent a CSR.                     *)
Save(r) ==
    LET q == request[r] IN
    /\ At(r, {"save"})
    /\ record' = [record EXCEPT ![r] = [serial |-> q.serial, key |-> q.key, crt |-> q.crt, active |-> TRUE]]
    /\ Onward(r, request[r])
    /\ UNCHANGED <<ca, files, past>>

(* Renewal: findOne takes any active certificate; without one it goes on.  *)
Find(r) ==
    LET q == request[r] IN
    /\ At(r, {"find"})
    /\ \/ \E t \in Active(q.serial) : Onward(r, [q EXCEPT !.target = t])
       \/ Active(q.serial) = {} /\ Goes(r, q, "ensureCA")
    /\ UNCHANGED <<ca, files, record, past>>

(* Fault for ActiveLossHasCause: the renewal returns what it has revoked.  *)
AfterRevoke_Returns(q) == "done"

AfterRevoke(q) == After(q.op, "revoke")

Revoke(r) ==
    LET q == request[r] IN
    /\ At(r, {"revoke"})
    /\ record' = [record EXCEPT ![q.target].active = FALSE]
    /\ past' = IF q.op = "revoke" THEN [past EXCEPT !.revoked = @ \cup {q.serial}] ELSE past
    /\ Goes(r, q, AfterRevoke(q))
    /\ UNCHANGED <<ca, files>>

(* A failing command or database call ends the request; a renewal takes a  *)
(* failing revocation for the lack of a certificate and goes on.           *)
Renewing(rs) == {request[r].serial : r \in {r \in rs : request[r].op = "renew" /\ request[r].at # "done"
                                                          /\ ~ At(r, {"find", "revoke"})}}
Fault(rs) ==
    /\ past.faults < MaxFaults
    /\ past' = [past EXCEPT !.faults = @ + 1, !.broken = @ \cup Renewing(rs)]
    /\ UNCHANGED <<ca, files, record>>
Fail(r) ==
    LET q == request[r] IN
    /\ q.at # "done"
    /\ Fault({r})
    /\ IF q.op = "renew" /\ At(r, {"find", "revoke"}) THEN Goes(r, q, "ensureCA") ELSE Breaks(r)

(* A restart; openssl commands that run are killed with it.                *)
Crash ==
    /\ Fault(Request)
    /\ request' = [r \in Request |-> [request[r] EXCEPT !.at = "done", !.input = None]]

Next ==
    \/ \E r \in Request :
          \/ \E op \in Issuing \cup {"ca", "revoke"}, s \in Serial : Begin(r, op, s)
          \/ EnsureCA(r) \/ Generate(r) \/ StartCommand(r) \/ EndCommand(r) \/ Read(r) \/ Save(r)
          \/ Find(r) \/ Revoke(r) \/ Fail(r)
    \/ Crash

Spec == Init /\ [][Next]_caVars

-----------------------------------------------------------------------------
TypeOK ==
    /\ ca \in [key : Key \cup {None}, crt : Key \cup {None}]
    /\ \A r \in Request : record[r] = None \/ record[r].crt \in Certificate

(* The private key of a record is that of its certificate, unless two      *)
(* requests for the serial used its files at a time (lines 85-102); and    *)
(* the certificate was issued by the CA that the service hands out, whose  *)
(* key is that of its certificate, unless two requests created the CA at a *)
(* time (lines 52-65).                                                     *)
CertificateMatchesKey ==
    /\ \A r \in Request : record[r] # None =>
          /\ record[r].key \in {None, record[r].crt.of} \/ record[r].serial \in past.raced
          /\ record[r].crt.by = ca.crt \/ past.caRaced
    /\ ca.crt \in {None, ca.key} \/ past.caRaced

(* A serial for which a certificate was saved has an active one, unless it *)
(* was revoked on its own, or a renewal has revoked it and broke off or    *)
(* has yet to save the next one (lines 240-252).                           *)
ActiveLossHasCause == \A s \in Serial :
    (\E r \in Request : record[r] # None /\ record[r].serial = s) =>
        \/ Active(s) # {}
        \/ s \in past.revoked \cup past.broken
        \/ s \in Renewing(Request)
=============================================================================
