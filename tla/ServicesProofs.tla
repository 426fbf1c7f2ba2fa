---------------------------- MODULE ServicesProofs ----------------------------
(***************************************************************************)
(* Theorems about Services, for any requests, devices, files and bounds.   *)
(* A behaviour follows the service that was in focus at first.             *)
(***************************************************************************)
EXTENDS Services, FirmwareStoreProofs, CertificateAuthorityProofs, FiniteSetTheorems, TLAPS

-----------------------------------------------------------------------------
(* Registries.  A claim that is under way or over shares its raced mark    *)
(* with every other one; a message that is not raced is alone on its way,  *)
(* and has stored its list when it has ended without failing.              *)
Upserting == {r \in Request : request[r] = "upserting"}
Claiming(r) == request[r] = "verified" \/ r \in past.claims

RegistryTypes ==
    /\ past \in [claims : SUBSET Request, latest : Request \cup {None},
                 raced : SUBSET Request, failed : SUBSET Request]
    /\ request \in [Request -> {"idle", "verified", "upserting", "done"}]
    /\ \A r \in past.claims : request[r] = "done"
    /\ token \in {None, "pending"} \cup past.claims
    /\ list \in Request \cup {None}
TokenInv ==
    /\ past.claims # {} => token # "pending" /\ (token # None \/ lapsed)
    /\ \A r, o \in Request : Claiming(r) /\ Claiming(o) /\ r # o => {r, o} \subseteq past.raced
ListInv ==
    past.latest \notin past.raced =>
        IF Upserting = {} THEN list = past.latest \/ past.latest \in past.failed
                          ELSE Upserting = {past.latest}
RegistryInv == focus = "registries" => RegistryTypes /\ TokenInv /\ ListInv

LEMMA InitRegistry == Init => RegistryInv
  BY ServicesAssumption DEF Init, R!Init, RegistryInv, RegistryTypes, TokenInv, ListInv, Upserting, Claiming

LEMMA TokenSteps ==
  ASSUME RegistryTypes, TokenInv, ListInv,
         R!GenerateToken \/ R!Lapse \/ R!Remove
  PROVE  RegistryTypes' /\ TokenInv' /\ ListInv'
  BY ServicesAssumption DEF R!GenerateToken, R!Lapse, R!Remove, RegistryTypes, TokenInv, ListInv, Upserting, Claiming

LEMMA VerifySteps ==
  ASSUME RegistryTypes, TokenInv, ListInv, NEW r \in Request, R!Verify(r)
  PROVE  RegistryTypes' /\ TokenInv' /\ ListInv'
<1> USE ServicesAssumption DEF R!Claimable, R!Others, R!At, RegistryTypes
<1>0. request[r] = "idle" /\ UNCHANGED <<token, lapsed, list>>
  BY DEF R!Verify
<1>1. CASE UNCHANGED past /\ request' = [request EXCEPT ![r] = "done"]
  BY <1>0, <1>1 DEF TokenInv, ListInv, Upserting, Claiming
<1>2. ASSUME R!Claimable, request' = [request EXCEPT ![r] = "verified"],
             NEW X \in SUBSET Request, past' = [past EXCEPT !.raced = X],
             past.raced \cup R!Others(r, "verified") \subseteq X,
             R!Others(r, "verified") # {} => r \in X
      PROVE  RegistryTypes' /\ TokenInv' /\ ListInv'
  <2>1. RegistryTypes'
    BY <1>0, <1>2
  <2>2. TokenInv'
    BY <1>0, <1>2 DEF TokenInv, Claiming
  <2>3. ListInv'
    BY <1>0, <1>2 DEF ListInv, Upserting
  <2> QED BY <2>1, <2>2, <2>3
<1> DEFINE rivals == R!Others(r, "verified")
           X == IF rivals = {} THEN past.raced ELSE past.raced \cup {r} \cup rivals
<1>3. X \in SUBSET Request /\ past.raced \cup rivals \subseteq X /\ (rivals # {} => r \in X)
  OBVIOUS
<1>4. CASE R!Claimable
  <2>1. past' = [past EXCEPT !.raced = X] /\ request' = [request EXCEPT ![r] = "verified"]
    BY <1>4 DEF R!Verify, R!Goto
  <2> HIDE DEF X, rivals
  <2> QED BY <1>2, <1>3, <1>4, <2>1 DEF rivals
<1> QED BY <1>1, <1>4 DEF R!Verify, R!Goto

LEMMA ClaimSteps ==
  ASSUME RegistryTypes, TokenInv, ListInv, NEW r \in Request, R!Claim(r)
  PROVE  RegistryTypes' /\ TokenInv' /\ ListInv'
<1> USE ServicesAssumption DEF R!Claim, R!At, R!Goto, RegistryTypes
<1>1. RegistryTypes'
  OBVIOUS
<1>2. TokenInv'
  BY DEF TokenInv, Claiming
<1>3. ListInv'
  BY DEF ListInv, Upserting
<1> QED BY <1>1, <1>2, <1>3

LEMMA ReceiveSteps ==
  ASSUME RegistryTypes, TokenInv, ListInv, NEW r \in Request, R!Receive(r)
  PROVE  RegistryTypes' /\ TokenInv' /\ ListInv'
<1> DEFINE rivals == R!Others(r, "upserting")
           X == IF rivals = {} THEN past.raced ELSE past.raced \cup {r} \cup rivals
<1>1. past' = [past EXCEPT !.latest = r, !.raced = X] /\ request' = [request EXCEPT ![r] = "upserting"]
      /\ request[r] = "idle" /\ UNCHANGED <<token, lapsed, list>>
  BY DEF R!Receive, R!Goto, R!At, RegistryTypes
<1>2. X \in SUBSET Request /\ past.raced \subseteq X /\ (rivals # {} => r \in X)
  BY DEF R!Others, RegistryTypes
<1>3. rivals = {} => Upserting \subseteq {r}
  BY <1>1 DEF R!Others, R!At, Upserting
<1> HIDE DEF X, rivals
<1>4. RegistryTypes'
  BY <1>1, <1>2 DEF RegistryTypes
<1>5. TokenInv'
  BY <1>1, <1>2 DEF RegistryTypes, TokenInv, Claiming
<1>6. ListInv'
  BY <1>1, <1>2, <1>3 DEF RegistryTypes, ListInv, Upserting
<1> QED BY <1>4, <1>5, <1>6

LEMMA UpsertSteps ==
  ASSUME RegistryTypes, TokenInv, ListInv, NEW r \in Request, R!Upsert(r)
  PROVE  RegistryTypes' /\ TokenInv' /\ ListInv'
<1> USE ServicesAssumption DEF R!Upsert, R!At, R!Goto, R!Others, RegistryTypes
<1>1. RegistryTypes'
  OBVIOUS
<1>2. TokenInv'
  BY DEF TokenInv, Claiming
<1>3. ListInv'
  BY DEF ListInv, Upserting
<1> QED BY <1>1, <1>2, <1>3

LEMMA RestartSteps ==
  ASSUME RegistryTypes, TokenInv, ListInv, R!Crash
  PROVE  RegistryTypes' /\ TokenInv' /\ ListInv'
<1> USE DEF R!Crash, RegistryTypes
<1>1. RegistryTypes'
  OBVIOUS
<1>2. TokenInv'
  BY DEF TokenInv, Claiming
<1>3. ListInv'
  BY DEF ListInv, Upserting
<1> QED BY <1>1, <1>2, <1>3

LEMMA NextRegistry == RegistryInv /\ [Next]_vars => RegistryInv'
<1> SUFFICES ASSUME RegistryInv, [Next]_vars, focus = "registries", focus' = focus
             PROVE  RegistryTypes' /\ TokenInv' /\ ListInv'
  BY DEF RegistryInv, Next, vars
<1>1. CASE R!Next
  BY <1>1, TokenSteps, VerifySteps, ClaimSteps, ReceiveSteps, UpsertSteps, RestartSteps DEF R!Next, RegistryInv
<1>2. CASE UNCHANGED vars
  BY <1>2 DEF vars, registries, RegistryInv, RegistryTypes, TokenInv, ListInv, Upserting, Claiming
<1> QED BY <1>1, <1>2 DEF Next

(* Two claims of a token succeed only by overlap of verify and save in     *)
(* claimDevice; an older list prevails only when upserts overlapped, or    *)
(* the upsert of the last one failed or was broken off.                    *)
THEOREM EveryOverwriteHasCause == Spec => []OverwriteHasCause
<1>1. RegistryInv => OverwriteHasCause
  BY DEF RegistryInv, RegistryTypes, TokenInv, ListInv, Upserting, Claiming,
         OverwriteHasCause, R!OverwriteHasCause, R!At
<1> QED BY <1>1, InitRegistry, NextRegistry, PTL DEF Spec

-----------------------------------------------------------------------------
(* DeviceGroups: the records of a group command.  What a request publishes *)
(* is what it is about to record, or nothing for an invalid type.          *)
GroupRequest == Request \ {Earlier}
GroupShapes ==
    /\ crashes \in Nat
    /\ DOMAIN past = {"wanted", "stale", "raced", "failed"}
    /\ DOMAIN request = GroupRequest /\ DOMAIN published = GroupRequest /\ DOMAIN recorded = GroupRequest
    /\ \A r \in GroupRequest : DOMAIN request[r] = {"pc", "todo", "seen"}
SendInv(r) ==
    LET pc == request[r].pc IN
    /\ pc \notin {"inserting", "done"} => published[r] = {} /\ recorded[r] = {}
    /\ pc = "inserting" => published[r] \in {{}, G!In(request[r].seen)} /\ recorded[r] = {}
    /\ pc = "done" => \/ recorded[r] = published[r]
                      \/ published[r] = {}
                      \/ recorded[r] \subseteq published[r] /\ (r \in past.failed \/ crashes > 0)
SendsInv == \A r \in GroupRequest : SendInv(r)

LEMMA InitSends == Init /\ focus = "groups" => GroupShapes /\ SendsInv
  BY DEF Init, G!Init, G!Idle, GroupShapes, SendsInv, SendInv, GroupRequest

(* Steps that publish and record nothing.                                  *)
LEMMA QuietSends ==
  ASSUME GroupShapes, SendsInv, NEW r \in GroupRequest,
         UNCHANGED <<published, recorded, crashes>>,
         DOMAIN request' = GroupRequest /\ DOMAIN request'[r] = {"pc", "todo", "seen"},
         \A q \in GroupRequest \ {r} : request'[q] = request[q],
         DOMAIN past' = DOMAIN past /\ past'.failed = past.failed,
         request[r].pc # "inserting" /\ request'[r].pc # "inserting",
         request[r].pc # "done"
  PROVE  GroupShapes' /\ SendsInv'
<1>1. GroupShapes'
  BY DEF GroupShapes
<1>2. ASSUME NEW q \in GroupRequest PROVE SendInv(q)'
  BY <1>2 DEF GroupShapes, SendsInv, SendInv, G!In
<1> QED BY <1>1, <1>2 DEF SendsInv

LEMMA LoadSends ==
  ASSUME GroupShapes, SendsInv, NEW r \in GroupRequest, NEW todo, G!Load(r, todo)
  PROVE  GroupShapes' /\ SendsInv'
<1>1. /\ DOMAIN request' = GroupRequest /\ DOMAIN request'[r] = {"pc", "todo", "seen"}
      /\ \A q \in GroupRequest \ {r} : request'[q] = request[q]
      /\ request[r].pc = "idle" /\ request'[r].pc \in {"loaded", "done"}
  BY DEF G!Load, G!Ends, G!Done, G!Idle, GroupShapes
<1>2. DOMAIN past' = DOMAIN past /\ past'.failed = past.failed
  BY DEF G!Load, GroupShapes
<1> QED BY <1>1, <1>2, QuietSends DEF G!Load

LEMMA WriteSends ==
  ASSUME GroupShapes, SendsInv, NEW r \in GroupRequest,
         G!Check(r) \/ G!Create(r) \/ G!AddDevices(r) \/ G!RemoveDevices(r) \/ G!Update(r)
  PROVE  GroupShapes' /\ SendsInv'
<1>1. /\ DOMAIN request' = GroupRequest /\ DOMAIN request'[r] = {"pc", "todo", "seen"}
      /\ \A q \in GroupRequest \ {r} : request'[q] = request[q]
      /\ request[r].pc \in {"loaded", "checked"} /\ request'[r].pc \in {"checked", "done"}
      /\ UNCHANGED <<published, recorded, crashes>>
  BY DEF G!Check, G!Create, G!AddDevices, G!RemoveDevices, G!Update, G!Ends, G!Done, G!Idle, GroupShapes
<1>2. DOMAIN past' = DOMAIN past /\ past'.failed = past.failed
  BY DEF G!Check, G!Create, G!AddDevices, G!RemoveDevices, G!Update, G!Wrote, GroupShapes
<1> QED BY <1>1, <1>2, QuietSends

LEMMA InListOf == ASSUME NEW ids \in SUBSET Device PROVE G!In(G!ListOf(ids)) = ids
<1>1. ASSUME NEW d \in Device PROVE G!ListOf(ids)[d] > 0 <=> d \in ids
  BY <1>1 DEF G!ListOf
<1> QED BY <1>1 DEF G!In

LEMMA PublishSends ==
  ASSUME GroupShapes, SendsInv, NEW r \in GroupRequest, G!Publish(r)
  PROVE  GroupShapes' /\ SendsInv'
<1> DEFINE devices == G!In(request[r].seen) \cap registered
<1>1. /\ \A q \in GroupRequest \ {r} : request'[q] = request[q] /\ published'[q] = published[q]
      /\ UNCHANGED <<recorded, crashes, past>>
  BY DEF G!Publish, G!Ends, GroupShapes
<1>2. GroupShapes'
  BY DEF G!Publish, G!Ends, G!Done, G!Idle, GroupShapes
<1>3. ASSUME NEW q \in GroupRequest \ {r} PROVE SendInv(q)'
  BY <1>1, <1>3 DEF SendsInv, SendInv, G!In
<1>4. CASE devices = {}
  <2>1. request'[r].pc = "done" /\ UNCHANGED published /\ request[r].pc = "loaded"
    BY <1>4 DEF G!Publish, G!Ends, G!Done, G!Idle, GroupShapes
  <2>2. SendInv(r)'
    BY <1>1, <2>1 DEF SendsInv, SendInv
  <2> QED BY <1>2, <1>3, <2>2 DEF SendsInv
<1>5. CASE devices # {}
  <2>1. /\ request'[r].pc = "inserting" /\ request'[r].seen = G!ListOf(devices)
        /\ published'[r] \in {{}, devices} /\ request[r].pc = "loaded"
    BY <1>5 DEF G!Publish, GroupShapes
  <2>2. G!In(G!ListOf(devices)) = devices
    <3>1. devices \in SUBSET Device
      BY DEF G!In
    <3> HIDE DEF devices
    <3> QED BY <3>1, InListOf
  <2>3. recorded'[r] = {} /\ published'[r] \in {{}, G!In(request'[r].seen)}
    <3>1. SendInv(r)
      BY DEF SendsInv
    <3> QED BY <1>1, <2>1, <2>2, <3>1 DEF SendInv
  <2>4. SendInv(r)'
    <3>1. G!In(request[r].seen)' = G!In(request'[r].seen)
      BY DEF G!In
    <3> QED BY <2>1, <2>3, <3>1 DEF SendInv
  <2> QED BY <1>2, <1>3, <2>4 DEF SendsInv
<1> QED BY <1>4, <1>5

LEMMA InsertSends ==
  ASSUME GroupShapes, SendsInv, NEW r \in GroupRequest, G!Insert(r)
  PROVE  GroupShapes' /\ SendsInv'
<1>1. /\ \A q \in GroupRequest \ {r} : request'[q] = request[q] /\ recorded'[q] = recorded[q]
      /\ request'[r].pc = "done" /\ request[r].pc = "inserting"
      /\ UNCHANGED <<published, crashes>>
  BY DEF G!Insert, G!Ends, G!Done, G!Idle, GroupShapes
<1>2. GroupShapes'
  BY DEF G!Insert, G!Ends, G!Done, G!Idle, GroupShapes
<1>3. past.failed \subseteq past'.failed
  BY DEF G!Insert, GroupShapes
<1>4. ASSUME NEW q \in GroupRequest \ {r} PROVE SendInv(q)'
  BY <1>1, <1>3, <1>4 DEF SendsInv, SendInv, G!In
<1>5. \/ recorded'[r] = G!In(request[r].seen)
      \/ recorded'[r] \subseteq G!In(request[r].seen) /\ r \in past'.failed
  BY DEF G!Insert, GroupShapes
<1>6. published[r] \in {{}, G!In(request[r].seen)}
  BY <1>1 DEF SendsInv, SendInv
<1>7. SendInv(r)'
  BY <1>1, <1>5, <1>6 DEF SendInv
<1> QED BY <1>2, <1>4, <1>7 DEF SendsInv

LEMMA CrashSends ==
  ASSUME GroupShapes, SendsInv, G!Crash
  PROVE  GroupShapes' /\ SendsInv'
<1>1. crashes' \in Nat /\ crashes' > 0 /\ UNCHANGED <<published, recorded, past>>
  BY DEF G!Crash, GroupShapes
<1>2. \A r \in GroupRequest : /\ request'[r].pc \in {"idle", "done"}
                              /\ request'[r].pc = "idle" => request[r].pc = "idle"
  BY DEF G!Crash, G!Done, G!Idle, GroupRequest
<1>3. GroupShapes'
  BY <1>1 DEF G!Crash, G!Done, G!Idle, GroupShapes, GroupRequest
<1>4. ASSUME NEW q \in GroupRequest PROVE SendInv(q)'
  <2>1. SendInv(q)
    BY DEF SendsInv
  <2> QED BY <1>1, <1>2, <2>1 DEF SendInv
<1> QED BY <1>3, <1>4 DEF SendsInv

LEMMA NextSends ==
  ASSUME focus = "groups", focus = "groups" => GroupShapes /\ SendsInv, [Next]_vars
  PROVE  GroupShapes' /\ SendsInv'
<1>1. CASE UNCHANGED vars
  BY <1>1 DEF vars, groups, GroupShapes, SendsInv, SendInv, G!In
<1>2. CASE G!Delete \/ \E d \in Device : G!DeleteDevice(d)
  BY <1>2 DEF G!Delete, G!DeleteDevice, GroupShapes, SendsInv, SendInv, G!In
<1>3. CASE \E r \in GroupRequest, todo \in G!Operation : G!Load(r, todo)
  BY <1>3, LoadSends
<1>4. CASE \E r \in GroupRequest : G!Check(r) \/ G!Create(r) \/ G!AddDevices(r) \/ G!RemoveDevices(r)
                                     \/ G!Update(r) \/ G!Publish(r) \/ G!Insert(r)
  BY <1>4, WriteSends, PublishSends, InsertSends
<1>5. CASE G!Crash
  BY <1>5, CrashSends
<1> QED BY <1>1, <1>2, <1>3, <1>4, <1>5 DEF Next, G!Next, GroupRequest

(* The commands that sendCommandToGroup publishes are those it records,    *)
(* unless insertMany failed or the process was restarted before it.        *)
THEOREM EverySendRecorded == Spec => []SendRecords
<1> DEFINE Inv == focus = "groups" => GroupShapes /\ SendsInv
<1>1. Init => Inv
  BY InitSends
<1>2. Inv /\ [Next]_vars => Inv'
  BY NextSends DEF Next, vars
<1>3. Inv => SendRecords
  BY DEF SendRecords, G!SendRecords, SendsInv, SendInv, GroupRequest
<1> QED BY <1>1, <1>2, <1>3, PTL DEF Spec

-----------------------------------------------------------------------------
(* DeviceGroups: the list of members.  What a request has loaded agrees    *)
(* with the list but for stale devices; two requests that may add the same *)
(* device while both are under way have marked it as raced.                *)
MemberTypes ==
    /\ GroupShapes
    /\ members \in [Device -> Nat]
    /\ past.wanted \in SUBSET Device /\ past.stale \in SUBSET Device /\ past.raced \in SUBSET Device
    /\ \A r \in GroupRequest : G!Loaded(r) => request[r].todo \in G!Operation /\ request[r].seen \in [Device -> Nat]
Adding(r) == G!Loaded(r) /\ request[r].todo.op \in {"add", "update"}
WantedInv == stored = "yes" => \A d \in Device : (members[d] > 0 <=> d \in past.wanted) \/ d \in past.stale
LoadedInv(r) == G!Loaded(r) =>
    /\ stored = "no" => request[r].todo.op = "create"
    /\ request[r].todo.op # "create" =>
          \A d \in Device : (request[r].seen[d] > 0 <=> members[d] > 0) \/ d \in past.stale
    /\ \A d \in Device : request[r].seen[d] < 2 \/ d \in past.raced
    /\ request[r].todo.op = "add" =>
          \A d \in request[r].todo.ids : request[r].seen[d] > 0 \/ members[d] = 0 \/ d \in past.raced
OnceInv ==
    /\ \A d \in Device : members[d] < 2 \/ d \in past.raced
    /\ \A r, q \in GroupRequest : Adding(r) /\ Adding(q) /\ r # q =>
          G!Named(request[r].todo) \cap G!Named(request[q].todo) \subseteq past.raced
MemberInv == MemberTypes /\ WantedInv /\ OnceInv /\ \A r \in GroupRequest : LoadedInv(r)

LEMMA InitMembers == Init /\ focus = "groups" => MemberInv
<1> SUFFICES ASSUME G!Init PROVE MemberInv
  BY DEF Init
<1>1. \A r \in GroupRequest : ~ G!Loaded(r)
  BY DEF G!Init, G!Idle, G!Loaded, GroupRequest
<1>2. PICK ids \in SUBSET Device : members = G!ListOf(ids)
  BY DEF G!Init
<1>3. /\ past.wanted = ids /\ past.stale = {} /\ past.raced = {} /\ members \in [Device -> Nat]
      /\ \A d \in Device : members[d] = IF d \in ids THEN 1 ELSE 0
  <2>1. members \in [Device -> Nat] /\ \A d \in Device : members[d] = IF d \in ids THEN 1 ELSE 0
    BY <1>2 DEF G!ListOf
  <2>2. G!In(members) = ids
    BY <2>1 DEF G!In
  <2> QED BY <2>1, <2>2 DEF G!Init
<1>4. GroupShapes
  BY DEF G!Init, G!Idle, GroupShapes, GroupRequest
<1> QED BY <1>1, <1>3, <1>4 DEF MemberInv, MemberTypes, WantedInv, OnceInv, LoadedInv, Adding

(* Steps that leave the list alone and load nothing.                       *)
LEMMA QuietMembers ==
  ASSUME MemberInv, GroupShapes', UNCHANGED members,
         past'.wanted = past.wanted, past'.stale = past.stale, past'.raced = past.raced,
         stored' = stored \/ (stored = "yes" /\ stored' = "deleted"),
         \A r \in GroupRequest : G!Loaded(r)' => /\ G!Loaded(r) /\ request'[r].todo = request[r].todo
                                                 /\ request'[r].seen = request[r].seen
  PROVE  MemberInv'
<1>1. MemberTypes'
  BY DEF MemberInv, MemberTypes
<1>2. WantedInv'
  BY DEF MemberInv, WantedInv
<1>3. OnceInv'
  <2>1. \A r \in GroupRequest : Adding(r)' => Adding(r) /\ request'[r].todo = request[r].todo
    BY DEF Adding
  <2> QED BY <2>1 DEF MemberInv, OnceInv, G!Named
<1>4. \A r \in GroupRequest : LoadedInv(r)'
  BY DEF MemberInv, LoadedInv
<1> QED BY <1>1, <1>2, <1>3, <1>4 DEF MemberInv

LEMMA WriteMembers ==
  ASSUME MemberInv, NEW r \in GroupRequest, NEW ids \in SUBSET Device, NEW wanted \in SUBSET Device,
         G!Loaded(r), request[r].todo.op # "create", GroupShapes', UNCHANGED stored,
         \A q \in GroupRequest : G!Loaded(q)' => q # r /\ G!Loaded(q) /\ request'[q] = request[q],
         past'.wanted = wanted, past'.raced = past.raced,
         past'.stale = IF G!Others(r) = {} THEN past.stale ELSE past.stale \cup ids,
         members' \in [Device -> Nat],
         \A d \in Device : members'[d] # members[d] => d \in ids,
         stored = "yes" => \A d \in Device : (members'[d] > 0 <=> d \in wanted) \/ d \in past.stale,
         \A d \in Device : members'[d] < 2 \/ d \in past.raced,
         \A d \in Device : members[d] = 0 /\ members'[d] > 0 => Adding(r) /\ d \in G!Named(request[r].todo)
  PROVE  MemberInv'
<1>1. past.stale \subseteq past'.stale /\ past'.stale \in SUBSET Device
  BY DEF MemberInv, MemberTypes
<1>2. MemberTypes'
  BY <1>1 DEF MemberInv, MemberTypes
<1>3. WantedInv'
  BY <1>1 DEF WantedInv
<1>4. OnceInv'
  <2>1. \A q \in GroupRequest : Adding(q)' => Adding(q) /\ request'[q] = request[q]
    BY DEF Adding
  <2> QED BY <2>1 DEF MemberInv, OnceInv, G!Named
<1>5. ASSUME NEW q \in GroupRequest PROVE LoadedInv(q)'
  <2> SUFFICES ASSUME G!Loaded(q)' PROVE LoadedInv(q)'
    BY DEF LoadedInv
  <2>1. q # r /\ G!Loaded(q) /\ request'[q] = request[q] /\ LoadedInv(q)
    BY DEF MemberInv
  <2>2. q \in G!Others(r)
    BY <2>1 DEF G!Others, GroupRequest
  <2>3. past'.stale = past.stale \cup ids
    BY <2>2
  <2>4. \A d \in Device : members'[d] = members[d] \/ d \in past'.stale
    BY <2>3
  <2>5. request[q].todo.op = "add" =>
           \A d \in request[q].todo.ids : request[q].seen[d] > 0 \/ members'[d] = 0 \/ d \in past.raced
    <3> SUFFICES ASSUME request[q].todo.op = "add", NEW d \in request[q].todo.ids
                 PROVE request[q].seen[d] > 0 \/ members'[d] = 0 \/ d \in past.raced
      OBVIOUS
    <3>1. d \in Device /\ d \in G!Named(request[q].todo) /\ members[d] \in Nat /\ members'[d] \in Nat
      BY <2>1 DEF MemberInv, MemberTypes, G!Operation, G!Named
    <3>2. CASE members[d] = 0 /\ members'[d] > 0
      BY <2>1, <3>1, <3>2 DEF MemberInv, OnceInv, Adding
    <3>3. request[q].seen[d] > 0 \/ members[d] = 0 \/ d \in past.raced
      BY <2>1 DEF LoadedInv
    <3> QED BY <3>1, <3>2, <3>3
  <2> QED BY <1>1, <2>1, <2>4, <2>5 DEF LoadedInv
<1> QED BY <1>2, <1>3, <1>4, <1>5 DEF MemberInv

LEMMA AddMembers ==
  ASSUME MemberInv, NEW r \in GroupRequest, G!AddDevices(r)
  PROVE  MemberInv'
<1> DEFINE q == request[r]
           ids == q.todo.ids
           new == ids \ G!In(q.seen)
<1>1. /\ G!Loaded(r) /\ q.todo.op = "add" /\ Adding(r) /\ ids \in SUBSET Device /\ q.seen \in [Device -> Nat]
      /\ LoadedInv(r) /\ UNCHANGED stored
      /\ ids = G!Named(q.todo)
  <2>1. G!Loaded(r) /\ q.todo.op = "add" /\ UNCHANGED stored
    BY DEF G!AddDevices, G!Loaded
  <2>2. q.todo \in G!Operation /\ q.seen \in [Device -> Nat] /\ LoadedInv(r)
    BY <2>1 DEF MemberInv, MemberTypes
  <2>3. ids \in SUBSET Device /\ ids # None
    BY <2>1, <2>2 DEF G!Operation
  <2> QED BY <2>1, <2>2, <2>3 DEF Adding, G!Named
<1>2. /\ members' \in [Device -> Nat]
      /\ \A d \in Device : members'[d] = members[d] + IF d \in new /\ stored = "yes" THEN 1 ELSE 0
  BY DEF G!AddDevices, G!Write, MemberInv, MemberTypes
<1>3. \A d \in Device : d \in new <=> d \in ids /\ q.seen[d] = 0
  BY <1>1 DEF G!In
<1>4. GroupShapes' /\ \A o \in GroupRequest : G!Loaded(o)' => o # r /\ G!Loaded(o) /\ request'[o] = request[o]
  BY DEF G!AddDevices, G!Ends, G!Done, G!Idle, G!Wrote, G!Loaded, MemberInv, MemberTypes, GroupShapes
<1>5. /\ past'.wanted = past.wanted \cup ids /\ past'.raced = past.raced
      /\ past'.stale = IF G!Others(r) = {} THEN past.stale ELSE past.stale \cup ids
  BY DEF G!AddDevices, G!Wrote, MemberInv, MemberTypes, GroupShapes
<1> HIDE DEF new, ids
<1>6. \A d \in Device : members[d] \in Nat
  BY DEF MemberInv, MemberTypes
<1>7. past.wanted \cup ids \in SUBSET Device
  BY <1>1 DEF MemberInv, MemberTypes
<1>8. \A d \in Device : members'[d] # members[d] => d \in ids
  BY <1>2, <1>3, <1>6
<1>9. ASSUME stored = "yes", NEW d \in Device
      PROVE  (members'[d] > 0 <=> d \in past.wanted \cup ids) \/ d \in past.stale
  <2>1. (members[d] > 0 <=> d \in past.wanted) \/ d \in past.stale
    BY <1>9 DEF MemberInv, WantedInv
  <2>2. (q.seen[d] > 0 <=> members[d] > 0) \/ d \in past.stale
    BY <1>1, <1>9 DEF LoadedInv
  <2>3. q.seen[d] \in Nat
    BY <1>1
  <2> QED BY <1>2, <1>3, <1>6, <1>9, <2>1, <2>2, <2>3
<1>10. ASSUME NEW d \in Device PROVE members'[d] < 2 \/ d \in past.raced
  <2>1. members[d] < 2 \/ d \in past.raced
    BY DEF MemberInv, OnceInv
  <2>2. d \in ids => q.seen[d] > 0 \/ members[d] = 0 \/ d \in past.raced
    BY <1>1 DEF LoadedInv, ids
  <2> QED BY <1>2, <1>3, <1>6, <2>1, <2>2
<1>11. \A d \in Device : members[d] = 0 /\ members'[d] > 0 => Adding(r) /\ d \in G!Named(request[r].todo)
  BY <1>1, <1>2, <1>3
<1> QED BY <1>1, <1>2, <1>4, <1>5, <1>7, <1>8, <1>9, <1>10, <1>11, WriteMembers

LEMMA RemoveMembers ==
  ASSUME MemberInv, NEW r \in GroupRequest, G!RemoveDevices(r)
  PROVE  MemberInv'
<1> DEFINE q == request[r]
           ids == q.todo.ids
<1>1. /\ G!Loaded(r) /\ q.todo.op = "remove" /\ ids \in SUBSET Device /\ UNCHANGED stored
  <2>1. G!Loaded(r) /\ q.todo.op = "remove" /\ UNCHANGED stored
    BY DEF G!RemoveDevices, G!Loaded
  <2>2. q.todo \in G!Operation
    BY <2>1 DEF MemberInv, MemberTypes
  <2> QED BY <2>1, <2>2 DEF G!Operation
<1>2. /\ members' \in [Device -> Nat]
      /\ \A d \in Device : members'[d] = IF d \in ids /\ stored = "yes" THEN 0 ELSE members[d]
  BY DEF G!RemoveDevices, G!Write, MemberInv, MemberTypes
<1>3. GroupShapes' /\ \A o \in GroupRequest : G!Loaded(o)' => o # r /\ G!Loaded(o) /\ request'[o] = request[o]
  BY DEF G!RemoveDevices, G!Ends, G!Done, G!Idle, G!Wrote, G!Loaded, MemberInv, MemberTypes, GroupShapes
<1>4. /\ past'.wanted = past.wanted \ ids /\ past'.raced = past.raced
      /\ past'.stale = IF G!Others(r) = {} THEN past.stale ELSE past.stale \cup ids
  BY DEF G!RemoveDevices, G!Wrote, MemberInv, MemberTypes, GroupShapes
<1> HIDE DEF ids
<1>5. past.wanted \ ids \in SUBSET Device /\ \A d \in Device : members[d] \in Nat
  BY DEF MemberInv, MemberTypes
<1>6. stored = "yes" => \A d \in Device : (members'[d] > 0 <=> d \in past.wanted \ ids) \/ d \in past.stale
  BY <1>2, <1>5 DEF MemberInv, WantedInv
<1>7. \A d \in Device : members'[d] < 2 \/ d \in past.raced
  BY <1>2 DEF MemberInv, OnceInv
<1>8. /\ \A d \in Device : members'[d] # members[d] => d \in ids
      /\ \A d \in Device : members[d] = 0 => members'[d] = 0
      /\ request[r].todo.op # "create"
  BY <1>1, <1>2
<1>9. ASSUME NEW d \in Device, members[d] = 0, members'[d] > 0 PROVE Adding(r) /\ d \in G!Named(request[r].todo)
  BY <1>2, <1>8, <1>9
<1> QED BY <1>1, <1>2, <1>3, <1>4, <1>5, <1>6, <1>7, <1>8, <1>9, WriteMembers

LEMMA UpdateMembers ==
  ASSUME MemberInv, NEW r \in GroupRequest, G!Update(r)
  PROVE  MemberInv'
<1> DEFINE q == request[r]
           written == G!NewList(q.todo, q.seen)
           wanted == IF q.todo.ids = None THEN past.wanted ELSE q.todo.ids
<1>1. /\ G!Loaded(r) /\ q.todo.op = "update" /\ Adding(r) /\ UNCHANGED stored
      /\ q.todo \in G!Operation /\ q.seen \in [Device -> Nat] /\ LoadedInv(r)
  BY DEF G!Update, G!Loaded, Adding, MemberInv, MemberTypes
<1>2. q.todo.ids = None \/ q.todo.ids \in SUBSET Device
  BY <1>1 DEF G!Operation
<1>3. /\ written \in [Device -> Nat] /\ wanted \in SUBSET Device
      /\ q.todo.ids = None => written = q.seen
      /\ q.todo.ids # None => \A d \in Device : written[d] = IF d \in q.todo.ids THEN 1 ELSE 0
  BY <1>1, <1>2 DEF G!NewList, G!ListOf, MemberInv, MemberTypes
<1>4. members' = (IF stored = "yes" THEN written ELSE members)
  BY DEF G!Update, G!Write
<1>5. GroupShapes' /\ \A o \in GroupRequest : G!Loaded(o)' => o # r /\ G!Loaded(o) /\ request'[o] = request[o]
  BY DEF G!Update, G!Ends, G!Done, G!Idle, G!Wrote, G!Loaded, MemberInv, MemberTypes, GroupShapes
<1>6. /\ past'.wanted = wanted /\ past'.raced = past.raced
      /\ past'.stale = IF G!Others(r) = {} THEN past.stale ELSE past.stale \cup Device
  BY DEF G!Update, G!Wrote, MemberInv, MemberTypes, GroupShapes
<1> HIDE DEF written
<1>7. members' \in [Device -> Nat] /\ \A d \in Device : members[d] \in Nat
  BY <1>3, <1>4 DEF MemberInv, MemberTypes
<1>8. ASSUME stored = "yes", NEW d \in Device PROVE (members'[d] > 0 <=> d \in wanted) \/ d \in past.stale
  <2>1. (members[d] > 0 <=> d \in past.wanted) \/ d \in past.stale
    BY <1>8 DEF MemberInv, WantedInv
  <2>2. (q.seen[d] > 0 <=> members[d] > 0) \/ d \in past.stale
    BY <1>1, <1>8 DEF LoadedInv
  <2> QED BY <1>3, <1>4, <1>8, <2>1, <2>2
<1>9. \A d \in Device : members'[d] < 2 \/ d \in past.raced
  BY <1>1, <1>3, <1>4 DEF MemberInv, OnceInv, LoadedInv
<1>10. ASSUME NEW d \in Device, members[d] = 0, members'[d] > 0 PROVE d \in G!Named(q.todo)
  BY <1>2, <1>3, <1>4, <1>10 DEF G!Named
<1> QED BY <1>1, <1>3, <1>5, <1>6, <1>7, <1>8, <1>9, <1>10, WriteMembers

LEMMA CreateMembers ==
  ASSUME MemberInv, NEW r \in GroupRequest, G!Create(r)
  PROVE  MemberInv'
<1> DEFINE ids == request[r].todo.ids
<1>1. ids \in SUBSET Device
  <2>1. request[r].todo \in G!Operation /\ request[r].todo.op = "create"
    BY DEF G!Create, G!Loaded, MemberInv, MemberTypes
  <2> QED BY <2>1 DEF G!Operation
<1>2. GroupShapes' /\ \A o \in GroupRequest : G!Loaded(o)' => o # r /\ G!Loaded(o) /\ request'[o] = request[o]
  BY DEF G!Create, G!Ends, G!Done, G!Idle, G!Loaded, MemberInv, MemberTypes, GroupShapes
<1>3. CASE stored = "no"
  <2>1. members' = G!ListOf(ids) /\ stored' = "yes"
    BY <1>3 DEF G!Create
  <2>2. members' \in [Device -> Nat] /\ \A d \in Device : members'[d] = IF d \in ids THEN 1 ELSE 0
    BY <2>1 DEF G!ListOf
  <2>3. past'.wanted = ids /\ past'.stale = past.stale /\ past'.raced = past.raced
    BY <1>3 DEF G!Create, MemberInv, MemberTypes, GroupShapes
  <2>4. \A o \in GroupRequest : G!Loaded(o) => request[o].todo.op = "create"
    BY <1>3 DEF MemberInv, LoadedInv
  <2>5. MemberTypes'
    BY <1>1, <1>2, <2>2, <2>3 DEF MemberInv, MemberTypes
  <2>6. WantedInv'
    BY <2>2, <2>3 DEF WantedInv
  <2>7. OnceInv'
    BY <1>2, <2>2, <2>3, <2>4 DEF OnceInv, Adding
  <2>8. \A o \in GroupRequest : LoadedInv(o)'
    BY <1>2, <2>1, <2>3, <2>4 DEF MemberInv, LoadedInv
  <2> QED BY <2>5, <2>6, <2>7, <2>8 DEF MemberInv
<1>4. CASE stored # "no"
  BY <1>2, <1>4, QuietMembers DEF G!Create
<1> QED BY <1>3, <1>4

LEMMA LoadMembers ==
  ASSUME MemberInv, NEW r \in GroupRequest, NEW todo \in G!Operation, G!Load(r, todo)
  PROVE  MemberInv'
<1> DEFINE goesOn == (stored = "yes") # (todo.op = "create")
           adding == {q \in G!Others(r) : request[q].todo.op \in {"add", "update"}}
           more == UNION {G!Named(todo) \cap G!Named(request[q].todo) : q \in adding}
<1>1. UNCHANGED <<stored, members>> /\ request[r] = G!Idle /\ ~ G!Loaded(r)
  BY DEF G!Load, G!Idle, G!Loaded
<1>2. CASE ~ goesOn
  <2>1. UNCHANGED past /\ GroupShapes'
        /\ \A o \in GroupRequest : G!Loaded(o)' => G!Loaded(o) /\ request'[o] = request[o]
    BY <1>2 DEF G!Load, G!Ends, G!Done, G!Idle, G!Loaded, MemberInv, MemberTypes, GroupShapes
  <2> QED BY <1>1, <2>1, QuietMembers
<1>3. CASE goesOn
  <2>1. request' = [request EXCEPT ![r] = [pc |-> "loaded", todo |-> todo, seen |-> members]]
    BY <1>3 DEF G!Load
  <2>2. /\ request'[r] = [pc |-> "loaded", todo |-> todo, seen |-> members] /\ G!Loaded(r)'
        /\ \A o \in GroupRequest \ {r} : request'[o] = request[o]
    BY <2>1 DEF MemberInv, MemberTypes, GroupShapes, G!Loaded
  <2>3. \A o \in GroupRequest \ {r} : G!Loaded(o)' <=> G!Loaded(o)
    BY <2>2 DEF G!Loaded
  <2>4. /\ past'.wanted = past.wanted /\ past'.stale = past.stale
        /\ past'.raced = IF todo.op \in {"add", "update"} THEN past.raced \cup more ELSE past.raced
        /\ DOMAIN past' = DOMAIN past
    BY <1>3 DEF G!Load, MemberInv, MemberTypes, GroupShapes
  <2>5. GroupShapes'
    BY <1>1, <2>1, <2>4 DEF G!Load, MemberInv, MemberTypes, GroupShapes
  <2>6. more \subseteq Device
    BY DEF G!Named, G!Operation
  <2>7. MemberTypes'
    BY <1>1, <2>2, <2>3, <2>4, <2>5, <2>6 DEF MemberInv, MemberTypes
  <2>8. WantedInv'
    BY <1>1, <2>4 DEF MemberInv, WantedInv
  <2>9. past.raced \subseteq past'.raced
    BY <2>4
  <2>10. ASSUME NEW o \in GroupRequest \ {r}, Adding(o), todo.op \in {"add", "update"}
         PROVE  G!Named(todo) \cap G!Named(request[o].todo) \subseteq past'.raced
    <3>1. o \in adding
      BY <2>10 DEF Adding, G!Others, GroupRequest
    <3> QED BY <2>4, <2>10, <3>1
  <2>11. OnceInv'
    <3>1. \A o \in GroupRequest \ {r} : Adding(o)' <=> Adding(o)
      BY <2>2, <2>3 DEF Adding
    <3>2. Adding(r)' => todo.op \in {"add", "update"} /\ request'[r].todo = todo
      BY <2>2 DEF Adding
    <3>3. \A d \in Device : members'[d] < 2 \/ d \in past'.raced
      BY <1>1, <2>9 DEF MemberInv, OnceInv
    <3>4. ASSUME NEW o \in GroupRequest, NEW p \in GroupRequest, Adding(o)', Adding(p)', o # p
          PROVE  G!Named(request'[o].todo) \cap G!Named(request'[p].todo) \subseteq past'.raced
      <4>1. CASE o = r
        BY <2>2, <2>10, <3>1, <3>2, <3>4, <4>1
      <4>2. CASE p = r
        BY <2>2, <2>10, <3>1, <3>2, <3>4, <4>2
      <4>3. CASE o # r /\ p # r
        BY <2>2, <2>9, <3>1, <3>4, <4>3 DEF MemberInv, OnceInv
      <4> QED BY <4>1, <4>2, <4>3
    <3> QED BY <3>3, <3>4 DEF OnceInv, G!Named
  <2>12. ASSUME NEW o \in GroupRequest PROVE LoadedInv(o)'
    <3>1. CASE o = r
      <4>1. \A d \in Device : members[d] \in Nat /\ (members[d] < 2 \/ d \in past.raced)
        BY DEF MemberInv, MemberTypes, OnceInv
      <4>2. stored = "no" => todo.op = "create"
        BY <1>3
      <4>3. todo.op = "add" => todo.ids \in SUBSET Device
        BY DEF G!Operation
      <4> QED BY <1>1, <2>2, <2>9, <3>1, <4>1, <4>2, <4>3 DEF LoadedInv
    <3>2. CASE o # r
      BY <1>1, <2>2, <2>3, <2>4, <2>9, <3>2 DEF MemberInv, LoadedInv
    <3> QED BY <3>1, <3>2
  <2> QED BY <2>7, <2>8, <2>11, <2>12 DEF MemberInv
<1> QED BY <1>2, <1>3

LEMMA NextMembers ==
  ASSUME focus = "groups", MemberInv, [Next]_vars
  PROVE  MemberInv'
<1>1. CASE UNCHANGED vars
  <2>1. GroupShapes'
    BY <1>1 DEF vars, groups, MemberInv, MemberTypes, GroupShapes
  <2> QED BY <1>1, <2>1, QuietMembers DEF vars, groups, G!Loaded
<1>2. CASE G!Delete \/ \E d \in Device : G!DeleteDevice(d)
  <2>1. GroupShapes'
    BY <1>2 DEF G!Delete, G!DeleteDevice, MemberInv, MemberTypes, GroupShapes
  <2> QED BY <1>2, <2>1, QuietMembers DEF G!Delete, G!DeleteDevice, G!Loaded
<1>3. CASE \E r \in GroupRequest, todo \in G!Operation : G!Load(r, todo)
  BY <1>3, LoadMembers
<1>4. ASSUME NEW r \in GroupRequest, G!Check(r) PROVE MemberInv'
  <2>1. GroupShapes' /\ \A o \in GroupRequest : G!Loaded(o)' => G!Loaded(o) /\ request'[o].todo = request[o].todo
                                                                /\ request'[o].seen = request[o].seen
    BY <1>4 DEF G!Check, G!Ends, G!Done, G!Idle, G!Loaded, MemberInv, MemberTypes, GroupShapes
  <2> QED BY <1>4, <2>1, QuietMembers DEF G!Check
<1>5. ASSUME NEW r \in GroupRequest, G!Publish(r) PROVE MemberInv'
  <2>1. GroupShapes' /\ \A o \in GroupRequest : G!Loaded(o)' => G!Loaded(o) /\ request'[o].todo = request[o].todo
                                                                /\ request'[o].seen = request[o].seen
    BY <1>5 DEF G!Publish, G!Ends, G!Done, G!Idle, G!Loaded, MemberInv, MemberTypes, GroupShapes
  <2> QED BY <1>5, <2>1, QuietMembers DEF G!Publish
<1>6. ASSUME NEW r \in GroupRequest, G!Insert(r) PROVE MemberInv'
  <2>1. GroupShapes' /\ \A o \in GroupRequest : G!Loaded(o)' => G!Loaded(o) /\ request'[o] = request[o]
    BY <1>6 DEF G!Insert, G!Ends, G!Done, G!Idle, G!Loaded, MemberInv, MemberTypes, GroupShapes
  <2>2. past'.wanted = past.wanted /\ past'.stale = past.stale /\ past'.raced = past.raced
    BY <1>6 DEF G!Insert, MemberInv, MemberTypes, GroupShapes
  <2> QED BY <1>6, <2>1, <2>2, QuietMembers DEF G!Insert
<1>7. CASE G!Crash
  <2>1. GroupShapes' /\ \A o \in GroupRequest : ~ G!Loaded(o)'
    BY <1>7 DEF G!Crash, G!Done, G!Idle, G!Loaded, MemberInv, MemberTypes, GroupShapes, GroupRequest
  <2> QED BY <1>7, <2>1, QuietMembers DEF G!Crash
<1> QED BY <1>1, <1>2, <1>3, <1>4, <1>5, <1>6, <1>7, CreateMembers, AddMembers, RemoveMembers, UpdateMembers
        DEF Next, G!Next, GroupRequest

(* The list has what the completed requests ask for, each device once,     *)
(* but for devices that overlapping requests wrote or added.               *)
THEOREM EveryMembershipDriftHasCause == Spec => []MembershipDriftHasCause
<1> DEFINE Inv == focus = "groups" => MemberInv
<1>1. Init => Inv
  BY InitMembers
<1>2. Inv /\ [Next]_vars => Inv'
  BY NextMembers DEF Next, vars
<1>3. Inv => MembershipDriftHasCause
  BY DEF MembershipDriftHasCause, G!MembershipDriftHasCause, MemberInv, WantedInv, OnceInv
<1> QED BY <1>1, <1>2, <1>3, PTL DEF Spec

-----------------------------------------------------------------------------
(* Lemmas about quotients: the intervals of p into which numbers fall.     *)
LEMMA Quotient ==
  ASSUME NEW p \in Nat \ {0}, NEW n \in Int
  PROVE  /\ n \div p \in Int /\ n % p \in 0 .. p - 1
         /\ n = p * (n \div p) + (n % p)
  OBVIOUS
LEMMA Scale ==
  ASSUME NEW p \in Nat \ {0}, NEW a \in Int, NEW b \in Int
  PROVE  a < b => p * a + p <= p * b
<1> SUFFICES ASSUME a < b PROVE p * a + p <= p * b
  OBVIOUS
<1>1. p * (b - a) >= p
  OBVIOUS
<1>2. p * (b - a) = p * b - p * a
  OBVIOUS
<1>3. p * a \in Int /\ p * b \in Int
  OBVIOUS
<1> QED BY <1>1, <1>2, <1>3
LEMMA Unique ==
  ASSUME NEW p \in Nat \ {0}, NEW a \in Int, NEW n \in Int, p * a <= n, n < p * a + p
  PROVE  n \div p = a
<1> DEFINE q == n \div p
<1>1. q \in Int /\ n % p \in 0 .. p - 1 /\ n = p * q + (n % p) /\ p * q \in Int /\ p * a \in Int
  BY Quotient
<1> HIDE DEF q
<1>2. p * q <= n /\ n < p * q + p
  BY <1>1
<1>3. ~ (q < a)
  BY <1>1, <1>2, Scale
<1>4. ~ (a < q)
  BY <1>1, <1>2, Scale
<1>5. q = a
  BY <1>1, <1>3, <1>4
<1> QED BY <1>5 DEF q

LEMMA Monotone ==
  ASSUME NEW p \in Nat \ {0}, NEW m \in Int, NEW n \in Int
  PROVE  (m <= n => m \div p <= n \div p) /\ (m + p <= n => m \div p < n \div p)
<1>1. PICK a \in Int, b \in Int : a = m \div p /\ b = n \div p
  BY Quotient
<1>2. p * a <= m /\ n < p * b + p /\ p * a \in Int /\ p * b \in Int
  BY <1>1, Quotient
<1>3. m <= n => ~ (b < a)
  BY <1>2, Scale
<1>4. m + p <= n => ~ (b <= a)
  BY <1>2, Scale
<1> QED BY <1>1, <1>3, <1>4

LEMMA SamePeriod ==
  ASSUME NEW p \in Nat \ {0}, NEW n \in Nat, (n + 1) % p # 0
  PROVE  (n + 1) \div p = n \div p
<1>1. PICK a \in Int, b \in Int : a = (n + 1) \div p /\ b = (n + 1) % p
  BY Quotient
<1>2. b \in 1 .. p - 1 /\ n + 1 = p * a + b
  BY <1>1, Quotient
<1>3. p * a \in Int
  OBVIOUS
<1>4. p * a <= n /\ n < p * a + p
  BY <1>2, <1>3
<1>5. n \div p = a
  BY <1>4, Unique
<1> QED BY <1>1, <1>5

LEMMA EarlierPeriod ==
  ASSUME NEW p \in Nat \ {0}, NEW c \in Nat, NEW t \in Nat, c % p = 0, t < c
  PROVE  t \div p # c \div p
<1>1. PICK a \in Int, b \in Int : a = c \div p /\ b = t \div p
  BY Quotient
<1>2. c = p * a /\ p * b <= t /\ p * b \in Int
  BY <1>1, Quotient
<1> QED BY <1>1, <1>2

(* A set with one number in each interval, or with multiples of p only,    *)
(* has as many as the quotient of its length, plus one or two.             *)
LEMMA CountOnce ==
  ASSUME NEW p \in Nat \ {0}, NEW from \in Nat, NEW to \in Nat, from <= to, NEW S \in SUBSET (from .. to),
         \A t, u \in S : t \div p = u \div p => t = u
  PROVE  IsFiniteSet(S) /\ Cardinality(S) <= (to - from) \div p + 2
<1> DEFINE length == to - from
<1>0. length \in Int /\ from \in Int /\ to \in Int
  OBVIOUS
<1>1. PICK a \in Int, b \in Int, c \in Int : a = from \div p /\ b = to \div p /\ c = length \div p
  <2>1. from \div p \in Int /\ to \div p \in Int /\ length \div p \in Int
    BY <1>0, Quotient
  <2> QED BY <2>1
<1>2. a <= b
  BY <1>1, Monotone
<1>3. \A t \in S : t \div p \in a .. b
  <2> SUFFICES ASSUME NEW t \in S PROVE t \div p \in a .. b
    OBVIOUS
  <2>1. t \in Int /\ from <= t /\ t <= to /\ t \div p \in Int
    BY Quotient
  <2> QED BY <1>1, <2>1, Monotone
<1>4. [t \in S |-> t \div p] \in Injection(S, a .. b)
  BY <1>3 DEF Injection, IsInjective
<1>5. IsFiniteSet(S) /\ Cardinality(S) <= b - a + 1
  BY <1>2, <1>4, FS_Injection, FS_Interval
<1>6. b - a <= c + 1
  <2>1. /\ p * b <= to /\ from < p * a + p /\ to - from < p * c + p
        /\ p * a \in Int /\ p * b \in Int /\ p * c \in Int
    BY <1>1, Quotient
  <2>2. p * (a + c + 2) = p * a + p * c + p + p
    OBVIOUS
  <2>3. ~ (a + c + 2 <= b)
    BY <2>1, <2>2, Scale
  <2> QED BY <2>3
<1> QED BY <1>1, <1>5, <1>6, FS_CardinalityType

LEMMA CountOnTime ==
  ASSUME NEW p \in Nat \ {0}, NEW from \in Nat, NEW to \in Nat, from <= to, NEW S \in SUBSET (from .. to),
         \A t \in S : t % p = 0
  PROVE  Cardinality(S) <= (to - from) \div p + 1
<1>1. PICK c \in Int : c = (to - from) \div p
  BY Quotient
<1>2. \A t \in S : (t - from) \div p \in 0 .. c
  <2> SUFFICES ASSUME NEW t \in S PROVE (t - from) \div p \in 0 .. c
    OBVIOUS
  <2>1. t \in Int /\ from <= t /\ t <= to /\ (t - from) \div p \in Int
    BY Quotient
  <2>2. 0 \div p = 0
    BY Unique
  <2> QED BY <1>1, <2>1, <2>2, Monotone
<1>3. \A t, u \in S : t < u => (t - from) \div p # (u - from) \div p
  <2> SUFFICES ASSUME NEW t \in S, NEW u \in S, t < u PROVE (t - from) \div p # (u - from) \div p
    OBVIOUS
  <2>1. PICK a \in Int, b \in Int : t = p * a /\ u = p * b
    <3>1. t \div p \in Int /\ t = p * (t \div p) /\ u \div p \in Int /\ u = p * (u \div p)
      BY Quotient
    <3> QED BY <3>1
  <2>2. t + p <= u
    BY <2>1, Scale
  <2>3. (t - from) + p <= u - from
    BY <2>2
  <2> QED BY <2>3, <1>2, Monotone
<1>4. [t \in S |-> (t - from) \div p] \in Injection(S, 0 .. c)
  BY <1>2, <1>3 DEF Injection, IsInjective
<1>5. 0 <= c
  BY <1>1, Monotone, Unique
<1>6. IsFiniteSet(0 .. c) /\ Cardinality(0 .. c) = c + 1
  BY <1>5, FS_Interval
<1> QED BY <1>1, <1>4, <1>6, FS_Injection

-----------------------------------------------------------------------------
(* Monitoring.  A check runs within one interval, which has no records     *)
(* yet; the records of a device are of different intervals.                *)
MonitoringTypes ==
    /\ now \in M!Time /\ check \in {None} \cup M!Time
    /\ heard \in [Device -> {None} \cup M!Time]
    /\ history \in [Device -> SUBSET M!Time]
CheckInv == check # None =>
    /\ check % Period = 0 /\ check <= now /\ now \div Period = check \div Period
    /\ \A d \in Device : \A t \in history[d] : t < check
StampInv == \A d \in Device : \A t \in history[d] :
    /\ t <= now
    /\ late \/ t % Period = 0
    /\ \A u \in history[d] : t \div Period = u \div Period => t = u
MonitoringInv == MonitoringTypes /\ CheckInv /\ StampInv

LEMMA Bounds == Period \in Nat \ {0} /\ MaxTime \in Nat /\ None \notin Nat
  BY ServicesAssumption, CountAssumption

LEMMA InitMonitoring == Init /\ focus = "monitoring" => MonitoringInv
<1> SUFFICES ASSUME M!Init PROVE MonitoringInv
  BY DEF Init
<1>1. MonitoringTypes
  BY Bounds DEF M!Init, M!Time, MonitoringTypes
<1>2. CheckInv /\ StampInv
  BY DEF M!Init, CheckInv, StampInv
<1> QED BY <1>1, <1>2 DEF MonitoringInv

LEMMA NextMonitoring ==
  ASSUME focus = "monitoring", MonitoringInv, [Next]_vars
  PROVE  MonitoringInv'
<1> USE Bounds DEF M!Time, MonitoringInv, MonitoringTypes
<1>1. CASE UNCHANGED vars
  BY <1>1 DEF vars, monitoring, CheckInv, StampInv
<1>2. CASE M!Tick
  <2>1. check # None => (now + 1) \div Period = now \div Period
    <3>1. check # None => now \in Nat /\ (now + 1) % Period # 0
      BY <1>2 DEF M!Tick
    <3> QED BY <3>1, SamePeriod
  <2>2. MonitoringTypes'
    BY <1>2 DEF M!Tick
  <2>3. CheckInv'
    BY <1>2, <2>1 DEF M!Tick, CheckInv
  <2>4. StampInv'
    <3>1. now' = now + 1 /\ history' = history /\ late' = late
      BY <1>2 DEF M!Tick
    <3>2. \A d \in Device : \A t \in history[d] : t <= now + 1
      BY DEF StampInv
    <3> QED BY <3>1, <3>2 DEF StampInv
  <2> QED BY <2>2, <2>3, <2>4
<1>3. CASE \E d \in Device : M!StatusEvent(d)
  BY <1>3 DEF M!StatusEvent, CheckInv, StampInv
<1>4. CASE M!StartCheck
  BY <1>4 DEF M!StartCheck, CheckInv, StampInv
<1>5. CASE M!FailCheck
  BY <1>5 DEF M!FailCheck, CheckInv, StampInv
<1>6. CASE M!EndCheck
  <2>1. check # None /\ check \in Nat /\ check' = None /\ now' = now /\ heard' = heard
    BY <1>6 DEF M!EndCheck
  <2>2. (late => late') /\ (now # check => late')
    BY <1>6, Zenon DEF M!EndCheck
  <2>3. /\ history' \in [Device -> SUBSET M!Time]
        /\ \A d \in Device : \A t \in history'[d] : t \in history[d] \/ t = now
    BY <1>6 DEF M!EndCheck
  <2>4. late' \/ now % Period = 0
    BY <2>1, <2>2 DEF CheckInv
  <2>5. \A d \in Device : \A t \in history[d] : t \div Period # now \div Period
    <3>1. check % Period = 0 /\ now \div Period = check \div Period
          /\ \A d \in Device : \A t \in history[d] : t \in Nat /\ t < check
      BY <2>1 DEF CheckInv
    <3> QED BY <2>1, <3>1, EarlierPeriod
  <2>6. ASSUME NEW d \in Device, NEW t \in history'[d]
        PROVE  /\ t <= now /\ (late' \/ t % Period = 0)
               /\ \A u \in history'[d] : t \div Period = u \div Period => t = u
    <3>1. t <= now
      BY <2>3 DEF StampInv
    <3>2. late' \/ t % Period = 0
      BY <2>2, <2>3, <2>4 DEF StampInv
    <3>3. ASSUME NEW u \in history'[d], t \div Period = u \div Period PROVE t = u
      BY <2>3, <2>5, <3>3 DEF StampInv
    <3> QED BY <3>1, <3>2, <3>3
  <2>7. StampInv'
    BY <2>1, <2>6 DEF StampInv
  <2> QED BY <2>1, <2>3, <2>7 DEF CheckInv
<1> QED BY <1>1, <1>2, <1>3, <1>4, <1>5, <1>6 DEF Next, M!Next

(* The records of a period are no more than the checks expected in it, but *)
(* for one when a check has stamped its records late, and checks are       *)
(* expected in every period that has records, for any interval and clock.  *)
THEOREM AvailabilityAlwaysInRange == Spec => []AvailabilityInRange
<1> DEFINE Inv == focus = "monitoring" => MonitoringInv
<1>1. Inv => AvailabilityInRange
  <2> SUFFICES ASSUME MonitoringInv, NEW d \in Device, NEW from \in M!Time, NEW to \in M!Time,
                      M!OfflineCount(d, from, to) > 0
               PROVE  /\ M!Expected(from, to) > 0
                      /\ M!OfflineCount(d, from, to) <= M!Expected(from, to) + (IF late THEN 1 ELSE 0)
    BY DEF AvailabilityInRange, M!AvailabilityInRange
  <2> DEFINE S == {t \in history[d] : from <= t /\ t <= to}
             e == (to - from) \div Period
  <2>1. from \in Nat /\ to \in Nat /\ history[d] \in SUBSET Nat
    BY Bounds DEF MonitoringInv, MonitoringTypes, M!Time
  <2>2. S \in SUBSET (from .. to) /\ M!OfflineCount(d, from, to) = Cardinality(S)
    <3>1. S \in SUBSET (from .. to)
      BY <2>1
    <3>2. M!OfflineCount(d, from, to) = Cardinality(S)
      BY Zenon DEF M!OfflineCount, M!Cardinality, Cardinality
    <3> QED BY <3>1, <3>2
  <2>3. from <= to
    <3>1. S # {}
      BY <2>2, FS_EmptySet
    <3> QED BY <2>1, <3>1
  <2>4. e \in Int /\ e >= 0
    <3>1. to - from \in Nat /\ e \in Int
      BY <2>1, <2>3, Bounds, Quotient
    <3>2. 0 \div Period = 0
      BY Bounds, Unique
    <3> QED BY <3>1, <3>2, Bounds, Monotone
  <2>5. Cardinality(S) \in Nat /\ Cardinality(S) <= e + 2
    BY <2>1, <2>2, <2>3, Bounds, CountOnce, FS_CardinalityType DEF MonitoringInv, StampInv
  <2>6. ~ late => Cardinality(S) <= e + 1
    BY <2>1, <2>2, <2>3, Bounds, CountOnTime DEF MonitoringInv, StampInv
  <2>7. M!Expected(from, to) = e + 1
    BY DEF M!Expected
  <2> HIDE DEF S, e
  <2> QED BY <2>2, <2>4, <2>5, <2>6, <2>7
<1>2. Inv /\ [Next]_vars => Inv'
  BY NextMonitoring DEF Next, vars
<1> QED BY <1>1, <1>2, InitMonitoring, PTL DEF Spec

-----------------------------------------------------------------------------
(* DeviceGroups: the size of the list.  Every request that has ended has   *)
(* added each device once at most, to the list or to what others loaded.   *)
Spent == {r \in GroupRequest : request[r].pc = "done"}
Fits(copies) == \A d \in Device : copies[d] <= Cardinality(Spent) + 1
SizeInv ==
    /\ registered \subseteq Device /\ stored \in {"no", "yes", "deleted"}
    /\ Fits(members)
    /\ \A r \in GroupRequest : G!Loaded(r) => Fits(request[r].seen)

LEMMA SpentCount ==
  /\ IsFiniteSet(GroupRequest)
  /\ Cardinality(Spent) \in Nat /\ Cardinality(Spent) <= Cardinality(GroupRequest)
  /\ Cardinality(Spent)' \in Nat /\ Cardinality(Spent)' <= Cardinality(GroupRequest)
<1>1. IsFiniteSet(GroupRequest) /\ Cardinality(GroupRequest) \in Nat
  BY CountAssumption, FS_Subset, FS_CardinalityType DEF GroupRequest
<1>2. \A S \in SUBSET GroupRequest : Cardinality(S) \in Nat /\ Cardinality(S) <= Cardinality(GroupRequest)
  BY <1>1, FS_Subset, FS_CardinalityType
<1> QED BY <1>1, <1>2 DEF Spent

(* A request ends, and no other one starts: there is room for one more.    *)
LEMMA SpentGrows ==
  ASSUME GroupShapes, Spent \subseteq Spent'
  PROVE  /\ Cardinality(Spent) <= Cardinality(Spent)'
         /\ \A r \in GroupRequest : request[r].pc # "done" /\ request'[r].pc = "done"
               => Cardinality(Spent) + 1 <= Cardinality(Spent)'
<1>1. /\ IsFiniteSet(GroupRequest) /\ Spent' \in SUBSET GroupRequest /\ Spent \in SUBSET GroupRequest
      /\ Cardinality(Spent)' = Cardinality(Spent')
  BY SpentCount DEF Spent
<1>2. IsFiniteSet(Spent') /\ Cardinality(Spent) <= Cardinality(Spent')
  BY <1>1, FS_Subset
<1>3. ASSUME NEW r \in GroupRequest, request[r].pc # "done", request'[r].pc = "done"
      PROVE  Cardinality(Spent) + 1 <= Cardinality(Spent')
  <2>1. r \notin Spent /\ Spent \cup {r} \subseteq Spent'
    BY <1>3 DEF Spent
  <2>2. Cardinality(Spent \cup {r}) = Cardinality(Spent) + 1
    BY <1>1, <2>1, FS_AddElement, FS_Subset
  <2> QED BY <1>2, <2>1, <2>2, FS_Subset
<1> QED BY <1>1, <1>2, <1>3

(* The steps of the list and of the requests, as far as the size goes.     *)
LEMMA SizeSteps ==
  ASSUME MemberInv, MemberInv', SizeInv, registered' \subseteq Device, stored' \in {"no", "yes", "deleted"},
         Spent \subseteq Spent',
         \/ \A d \in Device : members'[d] <= members[d] \/ members'[d] <= 1
         \/ \E r \in GroupRequest : /\ request[r].pc # "done" /\ request'[r].pc = "done"
                                    /\ \A d \in Device : members'[d] <= members[d] + 1
         \/ \E r \in GroupRequest : G!Loaded(r) /\ members' = request[r].seen,
         \A r \in GroupRequest : G!Loaded(r)' => \/ request'[r].seen = members
                                                 \/ G!Loaded(r) /\ request'[r].seen = request[r].seen
  PROVE  SizeInv'
<1> DEFINE n == Cardinality(Spent)
           m == Cardinality(Spent)'
<1>1. n \in Nat /\ m \in Nat /\ n <= m
  BY SpentCount, SpentGrows DEF MemberInv, MemberTypes
<1>2. /\ \A d \in Device : members[d] \in Nat /\ members'[d] \in Nat /\ members[d] <= n + 1
      /\ \A r \in GroupRequest : G!Loaded(r) => \A d \in Device : request[r].seen[d] \in Nat /\ request[r].seen[d] <= n + 1
  BY DEF MemberInv, MemberTypes, SizeInv, Fits
<1>3. \A d \in Device : members'[d] <= m + 1
  <2>1. CASE \A d \in Device : members'[d] <= members[d] \/ members'[d] <= 1
    BY <1>1, <1>2, <2>1
  <2>2. CASE \E r \in GroupRequest : /\ request[r].pc # "done" /\ request'[r].pc = "done"
                                     /\ \A d \in Device : members'[d] <= members[d] + 1
    <3>1. n + 1 <= m
      BY <2>2, SpentGrows DEF MemberInv, MemberTypes
    <3> QED BY <1>1, <1>2, <2>2, <3>1
  <2>3. CASE \E r \in GroupRequest : G!Loaded(r) /\ members' = request[r].seen
    BY <1>1, <1>2, <2>3
  <2> QED BY <2>1, <2>2, <2>3
<1>4. \A r \in GroupRequest : G!Loaded(r)' => \A d \in Device : request'[r].seen[d] <= m + 1
  BY <1>1, <1>2
<1> QED BY <1>3, <1>4 DEF SizeInv, Fits

LEMMA NextSizes ==
  ASSUME MemberInv, MemberInv', SizeInv, [Next]_vars, focus = "groups"
  PROVE  SizeInv'
<1> USE DEF GroupRequest
<1>1. GroupShapes /\ members \in [Device -> Nat] /\ registered \subseteq Device /\ stored \in {"no", "yes", "deleted"}
  BY DEF MemberInv, MemberTypes, SizeInv
<1>2. ASSUME NEW r \in GroupRequest, G!Ends(r)
      PROVE  /\ request'[r].pc = "done" /\ Spent \subseteq Spent'
             /\ \A o \in GroupRequest : G!Loaded(o)' => G!Loaded(o) /\ request'[o].seen = request[o].seen
  BY <1>1, <1>2 DEF G!Ends, G!Done, G!Idle, G!Loaded, Spent, GroupShapes
<1>3. CASE UNCHANGED vars
  BY <1>3 DEF vars, groups, SizeInv, Fits, Spent, G!Loaded
<1>4. ASSUME NEW r \in GroupRequest, NEW todo \in G!Operation, G!Load(r, todo) PROVE SizeInv'
  <2>1. UNCHANGED <<registered, stored, members>>
    BY <1>4 DEF G!Load
  <2>2. CASE G!Ends(r)
    BY <1>1, <1>2, <2>1, <2>2, SizeSteps
  <2>3. CASE request' = [request EXCEPT ![r] = [pc |-> "loaded", todo |-> todo, seen |-> members]]
    <3>1. request[r].pc = "idle"
      BY <1>4 DEF G!Load, G!Idle
    <3>2. /\ Spent \subseteq Spent'
          /\ \A o \in GroupRequest : G!Loaded(o)' =>
                \/ request'[o].seen = members
                \/ G!Loaded(o) /\ request'[o].seen = request[o].seen
      BY <1>1, <2>3, <3>1 DEF Spent, GroupShapes, G!Loaded
    <3> QED BY <1>1, <2>1, <3>2, SizeSteps
  <2> QED BY <1>4, <2>2, <2>3 DEF G!Load
<1>5. ASSUME NEW r \in GroupRequest, G!Check(r) \/ G!Publish(r) PROVE SizeInv'
  <2>1. UNCHANGED <<registered, stored, members>>
    BY <1>5 DEF G!Check, G!Publish
  <2>2. Spent \subseteq Spent' /\ \A o \in GroupRequest : G!Loaded(o)' => G!Loaded(o) /\ request'[o].seen = request[o].seen
    <3>1. CASE G!Ends(r)
      BY <1>2, <3>1
    <3>2. CASE ~ G!Ends(r)
      BY <1>1, <1>5, <3>2 DEF G!Check, G!Publish, Spent, GroupShapes, G!Loaded
    <3> QED BY <3>1, <3>2
  <2> QED BY <1>1, <2>1, <2>2, SizeSteps
<1>6. ASSUME NEW r \in GroupRequest, G!Create(r) PROVE SizeInv'
  <2>1. G!Ends(r) /\ registered' = registered /\ stored' \in {"no", "yes", "deleted"}
    BY <1>1, <1>6 DEF G!Create
  <2>2. \A d \in Device : members'[d] <= members[d] \/ members'[d] <= 1
    BY <1>1, <1>6 DEF G!Create, G!ListOf
  <2> QED BY <1>1, <1>2, <2>1, <2>2, SizeSteps
<1>7. ASSUME NEW r \in GroupRequest, G!AddDevices(r) PROVE SizeInv'
  <2>1. G!Ends(r) /\ request[r].pc = "checked" /\ UNCHANGED <<registered, stored>>
    BY <1>7 DEF G!AddDevices
  <2>2. \A d \in Device : members'[d] <= members[d] + 1
    BY <1>1, <1>7 DEF G!AddDevices, G!Write
  <2> QED BY <1>1, <1>2, <2>1, <2>2, SizeSteps
<1>8. ASSUME NEW r \in GroupRequest, G!RemoveDevices(r) PROVE SizeInv'
  <2>1. G!Ends(r) /\ UNCHANGED <<registered, stored>>
    BY <1>8 DEF G!RemoveDevices
  <2>2. \A d \in Device : members'[d] <= members[d] \/ members'[d] <= 1
    BY <1>1, <1>8 DEF G!RemoveDevices, G!Write
  <2> QED BY <1>1, <1>2, <2>1, <2>2, SizeSteps
<1>9. ASSUME NEW r \in GroupRequest, G!Update(r) PROVE SizeInv'
  <2>1. G!Ends(r) /\ G!Loaded(r) /\ UNCHANGED <<registered, stored>>
    BY <1>9 DEF G!Update, G!Loaded
  <2>2. \/ members' = request[r].seen
        \/ \A d \in Device : members'[d] <= members[d] \/ members'[d] <= 1
    BY <1>1, <1>9 DEF G!Update, G!Write, G!NewList, G!ListOf
  <2> QED BY <1>1, <1>2, <2>1, <2>2, SizeSteps
<1>10. ASSUME NEW r \in GroupRequest, G!Insert(r) PROVE SizeInv'
  <2>1. G!Ends(r) /\ UNCHANGED <<registered, stored, members>>
    BY <1>10 DEF G!Insert
  <2> QED BY <1>1, <1>2, <2>1, SizeSteps
<1>11. CASE G!Delete \/ \E d \in Device : G!DeleteDevice(d)
  <2>1. /\ registered' \subseteq Device /\ stored' \in {"no", "yes", "deleted"} /\ members' = members /\ request' = request
    BY <1>1, <1>11 DEF G!Delete, G!DeleteDevice
  <2> QED BY <1>1, <2>1, SizeSteps DEF Spent, G!Loaded
<1>12. CASE G!Crash
  <2>1. UNCHANGED <<registered, stored, members>>
    BY <1>12 DEF G!Crash
  <2>2. Spent \subseteq Spent' /\ \A o \in GroupRequest : ~ G!Loaded(o)'
    BY <1>1, <1>12 DEF G!Crash, G!Done, G!Idle, Spent, GroupShapes, G!Loaded
  <2> QED BY <1>1, <2>1, <2>2, SizeSteps
<1> QED BY <1>3, <1>4, <1>5, <1>6, <1>7, <1>8, <1>9, <1>10, <1>11, <1>12 DEF Next, G!Next

-----------------------------------------------------------------------------
(* The states of the five services have their types: a list has no more    *)
(* copies of a device than there are requests, and what a device has been  *)
(* assigned is or was a firmware.                                          *)
THEOREM TypeCorrect == Spec => []TypeOK
<1> DEFINE Groups == focus = "groups" => MemberInv /\ SizeInv
           Claims == RegistryInv
           Checks == focus = "monitoring" => MonitoringInv
           Focus == focus \in {"groups", "firmwares", "certificates", "registries", "monitoring"}
           Inv == Groups /\ Claims /\ Checks /\ Focus
<1>1. Init => Inv
  <2>1. Init /\ focus = "groups" => SizeInv
    <3> SUFFICES ASSUME G!Init PROVE SizeInv
      BY DEF Init
    <3>1. registered \subseteq Device /\ stored \in {"no", "yes", "deleted"} /\ \A r \in GroupRequest : ~ G!Loaded(r)
      BY DEF G!Init, G!Idle, G!Loaded, GroupRequest
    <3>2. \A d \in Device : members[d] \in {0, 1}
      BY DEF G!Init, G!ListOf
    <3> QED BY <3>1, <3>2, SpentCount DEF SizeInv, Fits
  <2> QED BY <2>1, InitMembers, InitRegistry, InitMonitoring DEF Init
<1>2. Inv /\ [Next]_vars => Inv'
  <2>1. Inv /\ [Next]_vars => focus' = focus
    BY DEF Next, vars
  <2>2. Groups /\ [Next]_vars /\ focus = "groups" => (MemberInv /\ SizeInv)'
    BY NextMembers, NextSizes
  <2> HIDE DEF Groups
  <2>3. Claims /\ [Next]_vars => Claims'
    BY NextRegistry
  <2>4. Checks /\ [Next]_vars /\ focus = "monitoring" => MonitoringInv'
    BY NextMonitoring
  <2> QED BY <2>1, <2>2, <2>3, <2>4 DEF Groups
<1>3. /\ Inv
      /\ focus = "firmwares" => FirmwareInv /\ NamedInv
      /\ focus = "certificates" => CertificateInv
      => TypeOK
  <2>1. Inv /\ focus = "groups" => G!TypeOK
    <3> SUFFICES ASSUME MemberInv, SizeInv PROVE G!TypeOK
      OBVIOUS
    <3>1. \A S : G!Cardinality(S) = Cardinality(S)
      BY Zenon DEF G!Cardinality, Cardinality
    <3>2. \A copies \in [Device -> Nat] : Fits(copies) => copies \in G!Lists
      <4> SUFFICES ASSUME NEW copies \in [Device -> Nat], Fits(copies) PROVE copies \in G!Lists
        OBVIOUS
      <4>1. \A d \in Device : copies[d] \in 0 .. Cardinality(GroupRequest) + 1
        BY SpentCount, FS_CardinalityType DEF Fits
      <4> QED BY <3>1, <4>1 DEF G!Lists, GroupRequest
    <3> QED BY <3>2 DEF G!TypeOK, MemberInv, MemberTypes, SizeInv, GroupRequest
  <2>2. focus = "firmwares" /\ FirmwareInv /\ NamedInv => F!TypeOK
    BY DEF FirmwareInv, Types, NamedInv, F!TypeOK
  <2>3. focus = "certificates" /\ CertificateInv => C!TypeOK
    <3> SUFFICES ASSUME CertificateTypes PROVE C!TypeOK
      BY DEF CertificateInv
    <3>1. ca \in [key : C!Key \cup {None}, crt : C!Key \cup {None}]
      BY DEF CertificateTypes, KeyOrNone, C!Key
    <3>2. \A r \in Request : record[r] = None \/ record[r].crt \in C!Certificate
      BY DEF CertificateTypes, Record
    <3> QED BY <3>1, <3>2 DEF C!TypeOK
  <2>4. Inv /\ focus = "registries" => R!TypeOK
    BY DEF RegistryInv, RegistryTypes, R!TypeOK
  <2>5. Inv /\ focus = "monitoring" => M!TypeOK
    BY DEF MonitoringInv, MonitoringTypes, M!TypeOK
  <2>6. Inv => Focus
    OBVIOUS
  <2> HIDE DEF Inv
  <2> QED BY <2>1, <2>2, <2>3, <2>4, <2>5, <2>6 DEF TypeOK
<1> HIDE DEF Inv
<1> QED BY <1>1, <1>2, <1>3, FirmwaresAlways, CertificatesAlways, PTL DEF Spec
=============================================================================
