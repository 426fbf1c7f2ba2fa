------------------------------- MODULE Services -------------------------------
(***************************************************************************)
(* Five services of the backend beside the pipeline, commands, presence    *)
(* and provisioning.  They share no state, so a behaviour follows one of   *)
(* them, the one in focus, with every interleaving of its own requests.    *)
(***************************************************************************)
EXTENDS Integers, FiniteSets

CONSTANTS
    Device, Serial, Firmware, Category, File,
    Request, Earlier,       \* see CertificateAuthority; the others use the rest
    Period, MaxTime,        \* see Monitoring
    MaxFaults, None

ASSUME ServicesAssumption ==
    /\ Earlier \in Request /\ {None, "pending"} \cap Request = {}
    /\ None \notin {"pending", "ca", "generate", "sign", "renew", "revoke"} \cup [of : Request, by : Request]
    /\ None \notin [serial : Serial, key : Request \cup {None}, crt : [of : Request, by : Request], active : BOOLEAN]
    /\ None \notin [file : File \cup {None}, category : Category \cup {None}]
    /\ Period \in Nat \ {0} /\ MaxTime \in Nat

ASSUME CountAssumption == IsFiniteSet(Request) /\ None \notin Nat

VARIABLES
    focus,                                                \* the service
    request, past,                                        \* its requests and history
    registered, stored, members, published, recorded, crashes,   \* DeviceGroups
    firmware, category, disk, assigned,                   \* FirmwareStore
    ca, files, record,                                    \* CertificateAuthority
    token, lapsed, list,                                  \* Registries
    now, heard, check, history, late                      \* Monitoring

groups == <<registered, stored, members, published, recorded, crashes>>
firmwares == <<firmware, category, disk, assigned>>
certificates == <<ca, files, record>>
registries == <<token, lapsed, list>>
monitoring == <<now, heard, check, history, late>>
vars == <<focus, request, past, groups, firmwares, certificates, registries, monitoring>>

G == INSTANCE DeviceGroups WITH Request <- Request \ {Earlier}, MaxCrashes <- MaxFaults
F == INSTANCE FirmwareStore WITH Request <- Request \ {Earlier}
C == INSTANCE CertificateAuthority
R == INSTANCE Registries
M == INSTANCE Monitoring

NoGroups ==
    /\ registered = None /\ stored = None /\ members = None
    /\ published = None /\ recorded = None /\ crashes = None
NoFirmwares == firmware = None /\ category = None /\ disk = None /\ assigned = None
NoCertificates == ca = None /\ files = None /\ record = None
NoRegistries == token = None /\ lapsed = None /\ list = None
NoMonitoring == now = None /\ heard = None /\ check = None /\ history = None /\ late = None

Init ==
    \/ /\ focus = "groups" /\ G!Init
       /\ NoFirmwares /\ NoCertificates /\ NoRegistries /\ NoMonitoring
    \/ /\ focus = "firmwares" /\ F!Init
       /\ NoGroups /\ NoCertificates /\ NoRegistries /\ NoMonitoring
    \/ /\ focus = "certificates" /\ C!Init
       /\ NoGroups /\ NoFirmwares /\ NoRegistries /\ NoMonitoring
    \/ /\ focus = "registries" /\ R!Init
       /\ NoGroups /\ NoFirmwares /\ NoCertificates /\ NoMonitoring
    \/ /\ focus = "monitoring" /\ M!Init /\ request = None /\ past = None
       /\ NoGroups /\ NoFirmwares /\ NoCertificates /\ NoRegistries

Next ==
    /\ UNCHANGED focus
    /\ \/ focus = "groups" /\ G!Next /\ UNCHANGED <<firmwares, certificates, registries, monitoring>>
       \/ focus = "firmwares" /\ F!Next /\ UNCHANGED <<groups, certificates, registries, monitoring>>
       \/ focus = "certificates" /\ C!Next /\ UNCHANGED <<groups, firmwares, registries, monitoring>>
       \/ focus = "registries" /\ R!Next /\ UNCHANGED <<groups, firmwares, certificates, monitoring>>
       \/ focus = "monitoring" /\ M!Next /\ UNCHANGED <<request, past, groups, firmwares, certificates, registries>>

Spec == Init /\ [][Next]_vars

-----------------------------------------------------------------------------
(* The types of the state of the service in focus.                         *)
TypeOK ==
    CASE focus = "groups" -> G!TypeOK
      [] focus = "firmwares" -> F!TypeOK
      [] focus = "certificates" -> C!TypeOK
      [] focus = "registries" -> R!TypeOK
      [] focus = "monitoring" -> M!TypeOK

(* See DeviceGroups: what overlapping requests can do to a group's list.   *)
MembershipDriftHasCause == focus = "groups" => G!MembershipDriftHasCause

(* See DeviceGroups: the commands that were sent are recorded.             *)
SendRecords == focus = "groups" => G!SendRecords

(* See FirmwareStore: the file and the category of a record are there.     *)
FirmwareIsWhole == focus = "firmwares" => F!RecordHasFile /\ F!CategoryHasCause

(* See CertificateAuthority: keys, certificates and the CA fit together.   *)
CertificateMatchesKey == focus = "certificates" => C!CertificateMatchesKey

(* See CertificateAuthority: when a device is left without a certificate.  *)
ActiveLossHasCause == focus = "certificates" => C!ActiveLossHasCause

(* See Registries: which claim and which list prevail.                     *)
OverwriteHasCause == focus = "registries" => R!OverwriteHasCause

(* See Monitoring: the availability of the dashboard.                      *)
AvailabilityInRange == focus = "monitoring" => M!AvailabilityInRange
=============================================================================
