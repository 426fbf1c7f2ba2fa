------------------------------ MODULE Registries ------------------------------
(***************************************************************************)
(* Two small stores: claim tokens, verified and saved in separate steps,   *)
(* and reference lists, upserted by messages that overtake one another on  *)
(* their way to the database.  One token and one list id are followed.     *)
(* Either save can fail, and a restart breaks off all that is under way.   *)
(***************************************************************************)
EXTENDS Naturals, FiniteSets

CONSTANTS
    Request,      \* claims and messages of a behaviour
    MaxFaults,    \* bound: no more faults once so many requests have failed
    None          \* no token, no list

VARIABLES
    token,        \* what the token document says: None, "pending", or the claim that saved it
    lapsed,       \* whether expiresAt has passed
    list,         \* the message whose list is stored
    request,      \* where each request is
    past          \* history: successful claims, the last message, overlaps, failures

registryVars == <<token, lapsed, list, request, past>>

At(r, pc) == request[r] = pc
Goto(r, pc) == request' = [request EXCEPT ![r] = pc]
Others(r, pc) == {o \in Request \ {r} : At(o, pc)}

Init ==
    /\ token = None /\ lapsed = FALSE /\ list = None
    /\ request = [r \in Request |-> "idle"]
    /\ past = [claims |-> {}, latest |-> None, raced |-> {}, failed |-> {}]

MayFail == Cardinality(past.failed) < MaxFaults

GenerateToken ==
    /\ token = None /\ ~ lapsed
    /\ token' = "pending"
    /\ UNCHANGED <<lapsed, list, request, past>>

(* The expiry is for the TTL index alone, which removes the token later,   *)
(* whatever its status.                                                    *)
Lapse == token # None /\ lapsed' = TRUE /\ UNCHANGED <<token, list, request, past>>
Remove ==
    /\ lapsed
    /\ token' = None
    /\ UNCHANGED <<lapsed, list, request, past>>

(* Fault for OverwriteHasCause: the status is not looked at.               *)
Claimable_Any == token # None

Claimable == token = "pending"

(* verifyClaimToken; 404 or 400 otherwise.                                 *)
Verify(r) ==
    /\ At(r, "idle")
    /\ \/ /\ Claimable
          /\ Goto(r, "verified")
          /\ past' = [past EXCEPT !.raced = IF Others(r, "verified") = {} THEN @
                                             ELSE @ \cup {r} \cup Others(r, "verified")]
       \/ ~ Claimable /\ Goto(r, "done") /\ UNCHANGED past
    /\ UNCHANGED <<token, lapsed, list>>

(* save updates the document by its _id, and throws when it is gone.       *)
Claim(r) ==
    /\ At(r, "verified")
    /\ \/ token # None /\ token' = r /\ past' = [past EXCEPT !.claims = @ \cup {r}]
       \/ token = None /\ UNCHANGED <<token, past>>
       \/ MayFail /\ past' = [past EXCEPT !.failed = @ \cup {r}] /\ UNCHANGED token
    /\ Goto(r, "done")
    /\ UNCHANGED <<lapsed, list>>

(* A message or a POST with the list: the upsert is on its way.            *)
Receive(r) ==
    /\ At(r, "idle")
    /\ Goto(r, "upserting")
    /\ past' = [past EXCEPT !.latest = r,
                            !.raced = IF Others(r, "upserting") = {} THEN @ ELSE @ \cup {r} \cup Others(r, "upserting")]
    /\ UNCHANGED <<token, lapsed, list>>

(* findOneAndUpdate; of two first upserts the unique index may refuse one. *)
(* The callback of a message logs a failure and drops the list.            *)
Upsert(r) ==
    /\ At(r, "upserting")
    /\ \/ list' = r /\ UNCHANGED past
       \/ Others(r, "upserting") # {} /\ list = None /\ UNCHANGED <<list, past>>
       \/ MayFail /\ past' = [past EXCEPT !.failed = @ \cup {r}] /\ UNCHANGED list
    /\ Goto(r, "done")
    /\ UNCHANGED <<token, lapsed>>

(* A restart: what was under way is over, and no message comes again.      *)
Crash ==
    LET broken == {r \in Request : request[r] \in {"verified", "upserting"}} IN
    /\ MayFail /\ broken # {}
    /\ request' = [r \in Request |-> IF r \in broken THEN "done" ELSE request[r]]
    /\ past' = [past EXCEPT !.failed = @ \cup broken]
    /\ UNCHANGED <<token, lapsed, list>>

Next ==
    \/ GenerateToken \/ Lapse \/ Remove \/ Crash
    \/ \E r \in Request : Verify(r) \/ Claim(r) \/ Receive(r) \/ Upsert(r)

Spec == Init /\ [][Next]_registryVars

-----------------------------------------------------------------------------
TypeOK == token \in {None, "pending"} \cup past.claims /\ list \in Request \cup {None}

(* Two claims of the token both succeed only when both had verified it     *)
(* before either saved; and, when no upsert is on its way, the stored list *)
(* is the one received last, unless that one was under way together with   *)
(* another, or its upsert failed or was broken off.                        *)
OverwriteHasCause ==
    /\ \A r, o \in past.claims : r # o => {r, o} \subseteq past.raced
    /\ \/ \E r \in Request : At(r, "upserting")
       \/ list = past.latest
       \/ past.latest \in past.raced \cup past.failed
=============================================================================
