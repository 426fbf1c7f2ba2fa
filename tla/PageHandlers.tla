----------------------------- MODULE PageHandlers -----------------------------
(***************************************************************************)
(* What the pages of the web frontend have in common.  A page is mounted   *)
(* under its path and keeps React state.  The handler of a click runs to   *)
(* its first await at once, between setIsLoading(true) and a finally that  *)
(* calls setIsLoading(false); after an await it goes on with the values of *)
(* its closure, whatever the page shows by then.                           *)
(***************************************************************************)
EXTENDS Naturals, FiniteSets

CONSTANTS
    Path,         \* the path of the page
    MaxCalls,     \* bound: handlers of the page running at a time
    MaxClicks,    \* bound: what the user does
    MaxFaults,    \* bound: failing calls, and changes by other clients
    None          \* no document, no list, nothing selected

VARIABLES
    page,         \* the path whose component is mounted
    server,       \* the documents of the backend
    view,         \* the React state of the page
    calls,        \* the running handlers and the calls they await
    past          \* history: the counters, and whether handlers overlapped

vars == <<page, server, view, calls, past>>

Here == page = Path
Slot == 1 .. MaxCalls
PastAtMount == [clicks |-> 0, faults |-> 0, overlap |-> FALSE]

Click == Here /\ past.clicks < MaxClicks
Counted == [past EXCEPT !.clicks = @ + 1]
Running == {i \in Slot : calls[i].pc # "free"}
Unused(i) == i \notin Running /\ \A j \in 1 .. i - 1 : j \in Running

(* A handler that awaits nothing, and one whose click leaves the page v.   *)
Show(v) == Click /\ view' = v /\ past' = Counted /\ UNCHANGED <<page, server, calls>>
Start(i, handler, v) ==
    /\ Click
    /\ Unused(i)
    /\ calls' = [calls EXCEPT ![i] = handler]
    /\ view' = [v EXCEPT !.loading = TRUE]
    /\ past' = [Counted EXCEPT !.overlap = @ \/ Running # {}]
    /\ UNCHANGED <<page, server>>

(* A call fails that the backend must refuse, and any other may.           *)
Fails(i, refused) ==
    /\ refused \/ past.faults < MaxFaults
    /\ calls' = [calls EXCEPT ![i].pc = "failed"]
    /\ past' = IF refused THEN past ELSE [past EXCEPT !.faults = @ + 1]
    /\ UNCHANGED server

(* Something else than this page changes the documents of the backend.     *)
Elsewhere(documents) ==
    /\ Here
    /\ past.faults < MaxFaults
    /\ server' = documents
    /\ past' = [past EXCEPT !.faults = @ + 1]
    /\ UNCHANGED <<page, view, calls>>

(* The continuation of handler i leaves the page v and awaits call c.      *)
Proceed(i, v, c) ==
    /\ Here
    /\ calls[i].pc \in {"answered", "failed"}
    /\ view' = v
    /\ calls' = [calls EXCEPT ![i] = c]
    /\ UNCHANGED <<page, server, past>>

(* isLoading says that a handler runs, which keeps a form from being sent  *)
(* twice, unless handlers have overlapped: the first to end clears it.     *)
LoadingMeansRunning == Here /\ ~ past.overlap => (view.loading <=> Running # {})

(* What a page ends up with, also when handlers have overlapped and failed. *)
Idle == Here => Running = {} /\ ~ view.loading
=============================================================================
