-------------------------------- MODULE WebApp --------------------------------
(***************************************************************************)
(* The web frontend: the login form, then the page of the path that the    *)
(* browser shows.  A page owns its React state, so the pages share the     *)
(* variables: one of them is mounted.  Leaving a page, which drops its     *)
(* state, is not followed.                                                 *)
(***************************************************************************)
EXTENDS Naturals, FiniteSets

CONSTANTS
    Device, Group, Existing, Firmware, Category, Template, Name, Range,
    MaxCalls, MaxFaults,
    MetricsCalls, \* bound of the calls of Metrics, which makes two at a time
    MetricsClicks,\* bound of the changes of its range
    FewClicks,    \* bound of the pages with many handlers
    MoreClicks,   \* bound of the other pages
    WizardClicks, \* bound of the wizard, which takes five to its end
    None

ASSUME WebAppAssumption ==
    /\ MaxCalls \in Nat \ {0} /\ MaxFaults \in Nat
    /\ MetricsCalls \in Nat /\ MaxCalls <= MetricsCalls
    /\ Existing \subseteq Group
    /\ None \notin Device \cup Group \cup Firmware \cup Category \cup Template
    /\ \A S \in (SUBSET Device) \cup (SUBSET Category) : None # S
    /\ None \notin [name : Name, isDefault : BOOLEAN]
    /\ None \notin [status : {"online", "offline"}, timeout : {"default", "longer", "negative"}]
    /\ None \notin [status : {"unclaimed", "claimed", "provisioned"}, template : Template \cup {None}, certificate : BOOLEAN]

VARIABLES page, server, view, calls, past

vars == <<page, server, view, calls, past>>

H == INSTANCE StatsPages WITH Path <- "/", MaxClicks <- FewClicks
M == INSTANCE StatsPages WITH Path <- "/metrics", MaxCalls <- MetricsCalls, MaxClicks <- MetricsClicks
D == INSTANCE DevicesPage WITH Path <- "/devices", MaxClicks <- FewClicks
G == INSTANCE GroupsPage WITH Path <- "/device-groups", MaxClicks <- MoreClicks
F == INSTANCE FirmwaresPage WITH Path <- "/firmwares", MaxClicks <- MoreClicks
T == INSTANCE TemplatesPage WITH Path <- "/provisioning-templates", MaxClicks <- MoreClicks
O == INSTANCE OnboardingPage WITH Path <- "/device-onboarding", MaxClicks <- WizardClicks

(* isAuthenticated is FALSE: the login form.                               *)
Init == page = "login" /\ server = None /\ view = None /\ calls = None /\ past = None

(* handleLogin with a good answer; Routes then mounts the page of the path. *)
Mount(path, servers, v, c, p) ==
    /\ page = "login"
    /\ page' = path
    /\ server' \in servers
    /\ view' = v
    /\ calls' = c
    /\ past' = p

Login ==
    \/ \E v \in H!ViewsAtMount : Mount("/", H!ServersAtMount, v, H!CallsAtMount(v.range), H!PastAtMount)
    \/ \E v \in M!ViewsAtMount : Mount("/metrics", M!ServersAtMount, v, M!CallsAtMount(v.range), M!PastAtMount)
    \/ Mount("/devices", {D!ServerAtMount}, D!ViewAtMount, D!CallsAtMount, D!History)
    \/ Mount("/device-groups", G!ServersAtMount, G!ViewAtMount, G!CallsAtMount, G!PastAtMount)
    \/ Mount("/firmwares", F!ServersAtMount, F!ViewAtMount, F!CallsAtMount, F!PastAtMount)
    \/ Mount("/provisioning-templates", T!ServersAtMount, T!ViewAtMount, T!CallsAtMount, T!PastAtMount)
    \/ Mount("/device-onboarding", O!ServersAtMount, O!ViewAtMount, O!CallsAtMount, O!History)

Next ==
    \/ Login
    \/ H!Next \/ M!Next \/ D!Next \/ G!Next \/ F!Next \/ T!Next \/ O!Next

(* The browser settles every call that it has made, the event loop runs    *)
(* every continuation, and setInterval goes on for ever.                   *)
Handled(i) ==
    \/ M!Handled(i)
    \/ i \in 1 .. MaxCalls /\
          \/ H!Handled(i) \/ D!Answer(i) \/ D!Continue(i) \/ G!Answer(i) \/ G!Continue(i)
          \/ F!Answer(i) \/ F!Continue(i) \/ (\E list \in {"firmwares", "categories"} : F!AnswerList(i, list))
          \/ T!Answer(i) \/ T!Continue(i) \/ O!Answer(i) \/ O!Continue(i)
Refreshed(op) ==
    M!Refreshed(op) \/ H!Refreshed(op) \/ (op = "devices" /\ \E i \in 1 .. MaxCalls : D!Refresh(i))

Spec ==
    /\ Init /\ [][Next]_vars
    /\ \A i \in 1 .. MetricsCalls : WF_vars(Handled(i))
    /\ \A op \in {"devices", "metrics"} : SF_vars(Refreshed(op))

-----------------------------------------------------------------------------
(* The types of the state of whichever page is mounted.                    *)
TypeOK ==
    CASE page = "login" -> view = None
      [] H!Here -> H!TypeOK [] M!Here -> M!TypeOK [] D!Here -> D!TypeOK [] G!Here -> G!TypeOK
      [] F!Here -> F!TypeOK [] T!Here -> T!TypeOK [] O!Here -> O!TypeOK

(* Once the fleet and the user are quiet, the pages that poll show what    *)
(* the backend has, whichever answer came last, and the others have no     *)
(* handler running and are not left loading, whatever failed.  Metrics     *)
(* shows the range chosen last, also when the calls for another one were   *)
(* under way when it was chosen, and are answered last.                    *)
PagesSettle == <>[](H!Settled /\ M!Settled /\ D!Settled /\ G!Idle /\ F!Idle /\ T!Idle)

(* See DevicesPage: a saved copy of a row may undo a report of the device; *)
(* nothing else may.                                                       *)
StatusIsReported == D!StatusIsReported

(* See PageHandlers: without overlapping handlers isLoading keeps a form   *)
(* from being sent twice.                                                  *)
LoadingMeansRunning == G!LoadingMeansRunning /\ F!LoadingMeansRunning /\ T!LoadingMeansRunning

(* See FirmwaresPage and TemplatesPage: without overlapping handlers,      *)
(* failures and other clients the tables are those of the backend.         *)
TablesMatch == F!ListsMatch /\ T!RowsMatch

(* See OnboardingPage: a step of the wizard is not ahead of the backend.   *)
StepIsBacked == O!StepIsBacked

(* See OnboardingPage: a device that is left between claim and completion. *)
StrandedHasCause == O!StrandedHasCause

(* See GroupsPage: the ticks of the dialog become the members of the group. *)
UpdateSavesTicked == G!UpdateSavesTicked
=============================================================================
