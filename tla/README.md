# A TLA+ development of the SmartReader cloud backend

The backend (`src/src/`, NestJS, TypeScript) connects RFID readers over MQTT to MongoDB and a REST
API. It is one Node.js process: no two lines of it run at once, but every `await` lets other
callbacks run, and almost every operation is *load a document, wait, decide, save, wait*. The modules
here model what such interleavings, restarts and failing operations can do to the stored and the
in-memory state, check it with TLC on small instances, and prove the main results with TLAPS for all
instances.

## 1. Inventory

| Component (source) | State | Operations | Interacts with | What is hard | What makes it correct |
|---|---|---|---|---|---|
| Event ingestion (`mqtt/mqtt.service.ts`, `events/events.service.ts`) | `eventBuffer`, the `events` collection | `message` callback, `handleEventPayload`, `flushEventBuffer`, `storeEventsBulk`, the 5 s interval | broker, MongoDB, `updateLastSeen` | the buffer is truncated after an `await`; overlapping flushes; an insert that fails in silence; restart | an event is stored once; whatever is lost or doubled has a known cause; the buffer drains |
| Command lifecycle (`mqtt/mqtt.service.ts`, `commands/commands.service.ts`) | `pendingCommands`, timers, `deviceCommands` | `publishCommand`, publish callback, timeout callback, `handleCommandResponse` | devices, broker, MongoDB | response before PUBACK; timeout against response; ids used twice; half-done updates | a timer never outlives its entry; an answered command does not time out; every command gets a verdict |
| Commands worker (`commands/commands.worker.ts`) | `deviceCommands` | `processCommands` each 5 s, `getNextCommand` | command lifecycle | starves or repeats a command; order of priorities | the next command is the most urgent one |
| Device presence (`devices/devices.service.ts`, `devices/device-monitor.service.ts`) | `lastSeen`, `communicationStatus`, `communicationTimeout` | `updateLastSeen`, `updateCommunicationStatus` (cron, each minute), create, delete, configure | every MQTT message, MongoDB | saves from stale copies; overlapping sweeps; a sweep that breaks off | offline only when silent for longer than the timeout; the status converges |
| Device configuration (`devices/`) | the other `Device` fields | CRUD, network, LED, mode, firmware | presence, firmwares | lost updates between two loads and saves | a field changes only on request |
| Provisioning (`provisioning/provisioning.service.ts`) | `provisioningStatus`, claim token, owner, template of a device, templates | phone home, claim, apply template, complete, revoke, template CRUD | certificates, devices | two claims with one token; completion against revocation; a template deleted while it is applied | one owner; a revoked device stays revoked; no dangling template |
| Certificates (`certificates/certificates.service.ts`) | CA files, per-serial files, `certificates`, `device.certificateId` | `ensureCA`, generate, renew, revoke, list revoked | provisioning, file system, openssl | shared files of two generations; renewal revokes first; CA written twice | at most one active certificate; the key on disk matches |
| Device groups (`device-groups/device-groups.service.ts`) | groups and their device lists, group commands | CRUD, add/remove devices, send group commands | MQTT service | stale write-back of the list; duplicates; partial fan-out | membership is a set of existing devices; each member gets the command |
| Claim tokens (`claim-tokens/`) | tokens with a TTL index | generate, verify, claim | clients, MongoDB TTL | check and save apart; expiry a minute late | a token is claimed once |
| Firmwares (`firmwares/`) | records, files, categories | upload, update, delete, assign | file system, devices | file and record out of step; category removed while used | each record has its file and category |
| Monitoring (`monitoring/`) | history collection | record, query, availability | cron | expected checks by rounding | availability between 0 and 100 |
| Reference lists (`reference-lists/`) | lists | upsert from MQTT | broker | messages handled out of order | the newest list wins |
| Webhooks, API keys and auth, metrics, device logs, status | stored documents | queries, one create each | – | no protocol of steps (webhook dispatch has no caller) | – |
| Web frontend (`src/smartreader-frontend`) | the React state of each page | the handlers of buttons and forms, polling every 30 s | REST API | handlers go on after an `await` with the values of an old render; answers out of order, lost answers; dialogs that stay open while calls run | pages end up showing what the backend has; a click sends what the user saw; no device is stranded |

`PROJECT.json` lists the same components with their status, and under `hazards` every place where
this code is hard to test, with the properties that cover it or the reason none does.

## 2. Modules

| Module | Models |
|---|---|
| `EventPipeline` | event ingestion, from the arrival of a message to the documents |
| `CommandLifecycle` | one command from `publishCommand` to its verdict |
| `DevicePresence` | `updateLastSeen` against the cron sweep, creation, deletion, `communicationTimeout` |
| `Provisioning` | phone home, claim, templates, completion and revocation of devices |
| `EventLog` | what event ingestion promises, without buffer and flushes: the abstract specification of `EventPipeline` |
| `DeviceGroups` | requests on one group and its list of members, group commands and their records |
| `FirmwareStore` | firmware records, their files on disk, categories, assignment |
| `CertificateAuthority` | the CA, openssl commands over shared files, certificate records, renewal, revocation |
| `Registries` | claim tokens and reference lists |
| `Monitoring` | the cron job that records offline devices, the availability arithmetic |
| `Services` | the five modules above in one specification |
| `PageHandlers` | what all pages of the frontend share: handlers, their calls, `isLoading` |
| `StatsPages`, `DevicesPage`, `GroupsPage`, `FirmwaresPage`, `TemplatesPage`, `OnboardingPage` | the pages, each with the part of the backend that it talks to |
| `WebApp` | login and all pages in one specification |
| `MCEventPipeline`, `MCCommandLifecycle`, `MCDevicePresence`, `MCProvisioning` | the small instances for TLC of the first four |
| `EventPipelineProofs`, `CommandLifecycleProofs`, `DevicePresenceProofs`, `ProvisioningProofs` | theorems about the first four, the refinement of `EventLog` among them |
| `ServicesProofs`, `CertificateAuthorityProofs`, `FirmwareStoreProofs` | theorems about `Services`; the first uses the other two |
| `WebAppProofs` | theorems about the pages of `WebApp` |

Common conventions. An action is the code between two `await`s (or a whole callback without one), so
that whatever the event loop can interleave, `Next` can. A load copies the document into the state of
the operation; a save writes the fields that differ from that copy, as mongoose does. A failing
database operation is a disjunct of the action that would have completed it, enabled by `DbFails` or
`StoreFails`. History variables (`overlapped`, `contended`, `rejected`, `crashed`, `lateAck`,
`racing`, `wrongly`, `stale...`, `raced`, `handed`, `hasty`, `reattached`, `reopened`, and the fields
of `past`) record a circumstance when it occurs and guard nothing but the bounds, so that a property
can say *only for this cause* and be refuted when there is another. Operators named
`Definition_Fault` next to a definition are the faults which each property is tested against (`mutants` in
`PROJECT.json`); nothing else uses them.

### EventPipeline

`handler` is the progress of each `message` callback (line 63 of `mqtt.service.ts`): `Receive` up to
the await of `updateLastSeen`, `Push` from there through `handleEventPayload`. `flush[f]` is one
invocation of `flushEventBuffer`: *handed* once `insertMany` has the reference to the array,
*inserting* once the driver has read it (`ReadBatch`, where validation rejects a whole batch for one
malformed event), *settled* when the insert has ended (`Store`: all of the batch or, if it fails, a
prefix; the exception is swallowed), then `Complete` truncates the array. `IntervalFlush` is the 5 s
interval. `Crash` is a restart; messages are acknowledged before they are handled and the session is
clean, so nothing comes again. What `handleEventPayload` builds from a payload is abstracted to a
sequence of distinct events.

### CommandLifecycle

`save` and `ack` are the two things `publishCommand` starts and does not wait for. `PubAck` is the
publish callback: `timer` and the entry in `pending` (`pendingCommands`). `PubError`/`ErrorUpdated`
are its error branch with the update it does not wait for. `Expire`, `TimerUpdated`, `TimerStamped`
are the timeout callback at its two awaits; `Receive`, `HandleResponse`, `ResponseUpdated`,
`ResponseStamped` are the response. An `Update` keeps two things apart: `asked`, what the caller
wanted to be stored, and `doc`, what is stored; the filter selects by a field no record has, so `doc`
never follows. A failing update inside the timeout callback is an unhandled rejection and ends the
process: that is `Crash`.

### DevicePresence

`db` holds the presence fields; `beat[b]` is a call of `updateLastSeen` (`LoadBeat`, `StampBeat`,
`SaveBeat`), `sweep[s]` a run of `updateCommunicationStatus` (`StartSweep` reads the clock,
`LoadSweep` the devices, `Visit` decides and saves one, `EndSweep`). `BeatWrites` is what makes the
races matter: a report that loaded *online* writes `lastSeen` only. A failed save ends a sweep, and is
swallowed by a report. The clock is in the unit of the timeouts. `UpdateDevice` is a change by a
client: of `communicationTimeout` alone, or of all the presence fields, since the edit form of the
devices page puts the whole row that it was opened with, with the status and `lastSeen` of some
earlier time (`Rows`). Either is one of the causes (`raced`) that the properties name.

### Provisioning

`db` holds the provisioning fields of each device, `call[c]` an operation in progress: what it has
loaded decides its `writes`, `pc` is the await it is at, `stale` says that the document was written
since it was loaded. The operation's first action is the load with all the checks made on the loaded
copy (`PhoneHome`, `Claim`, `Apply`, `Complete`, `Revoke`, `Delete`), then come the awaits on other
collections (`FindDefault`, `FindTemplate`, `RevokeIts`, `LookAtDefault`), and `Save`, `CreateDevice`
or `DeleteOne` end it. Calls that are refused change nothing and are left out; `claimDevice` is
modelled for a client that holds the token. Tokens are numbered in the order in which they are
generated, which is the order in which they expire. Certificates only appear as far as a device
refers to them: issued, revoked, and stored in the device by a client's `PUT /api/devices/:id`, since
no service stores `certificateId`.

`updateDevice`, which serves that PUT, writes whatever fields the body has, without a look at what is
stored. Two clients are modelled. One sends `certificateId` alone (`Attach`). The other is the edit
form of the devices page (`Devices.js:117-189`): it starts from a copy of a row of the table and puts
all of it, so that `provisioningStatus`, `ownerId`, `claimToken` and `provisioningTemplateId` come
back as they were when the table was loaded. `row` is that copy, for each `Page`; `LoadRow` loads it;
`PutRow` writes the fields it has (one that was undefined is not in it, and stays as it is), and the
answer becomes the row. What an old row undoes is a cause of its own in each property that it can
break: the token it replaces is `raced`, a deleted template that it brings back is `hasty`, a device
that it revokes, or whose certificate it changes during or after a revocation, is `reattached`, one
that it makes unclaimed beside its owner is `reopened`. That a client puts any other combination of
these fields is left out: no program of the repository does.

`UserId` is what the controller passes and `ObjectId` what can be cast to the type of `ownerId`: the run
`Provisioning_claims` has the one value the controller passes at this commit, which cannot;
`Provisioning_races` the ids that `claimDevice` is written for. The races of two claims are therefore
dormant as long as no user id reaches the controller.

### EventLog and its refinement

`EventLog` knows only the `fate` of each event: *new*, *waiting*, *stored* or *lost*. Events are
accepted together and settled in any grouping; a settled one stays as it is; none waits for ever.
`EventPipeline!Fate` is the refinement mapping: an event with a document is stored; one that is in the
buffer, or in a batch whose insert is under way, is waiting; one that was pushed and is neither is
lost. The second half of *waiting* matters: after an overlapping flush has truncated the buffer, the
event is still in the batch of the other insert, and may be stored after all.

### DeviceGroups, FirmwareStore, CertificateAuthority, Registries, Monitoring

Each of the first four has `request`: where a request is (`pc`, or `at` in
`CertificateAuthority`), what it asks for, and what it has read. An action is the code up to the next
`await`. Requests that are refused at once end at their first action.

- `DeviceGroups`: `Load` is the first read, with its 404; `Check` the lookup of the device ids;
  `AddDevices` (`$push` of what the *loaded* list lacks), `RemoveDevices` (`$pull`), `Update` (writes
  the loaded list back when the request has none) and `Create` are the writes. A list counts how
  often a device is in it. `Publish` is the loop of `sendCommandToGroup`, which awaits nothing;
  `Insert` is the `insertMany` of its records afterwards.
- `FirmwareStore`: `create` writes the file before anything else; `update` unlinks the old file and
  writes the new one (`Swap`) before it looks up the categories and saves; `remove` unlinks, then
  deletes the record. Removal of a category counts first. Names of files are fresh.
- `CertificateAuthority`: `at` is the await that a request is at, `First` and `After` the order of the
  awaits of each operation; a command reads its inputs in `StartCommand` and writes its output in
  `EndCommand`, so that two requests for a serial can mix their key, CSR and certificate. A key is named
  by the request that it was generated for. `renewCertificate` catches a failing revocation and goes on.
- `Registries`: `Verify`/`Claim` are the two halves of `claimDevice` of the claim tokens; the expiry is
  looked at by neither (`verifyClaimToken` compares the status alone, although its refusal says *already
  used or expired*), and `Remove`, the TTL index, comes some time after `Lapse`. `Receive`/`Upsert` are
  a reference list on its way to the database. Either save may fail (`MaxFaults`): a failing claim is
  answered with an error, but a failing upsert of a message is logged and its list is dropped
  (`mqtt.service.ts:83-86`). `Crash` breaks off what is under way.
- `Monitoring`: `StartCheck` takes the threshold, `EndCheck` stamps the records with the clock as it
  is by then; `Expected` is the expression of `monitoring.controller.ts`.

`Services` composes them. They share neither documents nor files, so that interleaving two of them
adds no behaviour of either: a behaviour has one service in `focus`, and all the others at rest.

### The frontend

`view` is the React state of the mounted page, `server` the part of the backend that it talks to,
`calls` the running handlers. The code of a handler up to its first `await` is the action of the
click (`Start`, `Submit`, `Press`); the backend handles the call in `Answer`, or the call fails; the
code after the `await` is `Continue`. What a handler reads after its `await` is what it closed over at
the click: the record of the call keeps it (`seen`, `ticks`, `filter`). `Shown` gives the state that
the continuation leaves. The guards of the buttons (`disabled`, a dialog that is open, a step of the
wizard) are those of the JSX. `past` counts clicks and faults and notes whether handlers overlapped;
a page whose properties need more adds fields to it.

- `StatsPages`: Home and Metrics, which count by status. A change of the time range makes both calls
  anew, in the effect of `Metrics.js:42`, whatever calls for the old range are under way: their answers
  may come last.
- `DevicesPage`: list, filter and polling; the forms (which copy the row when they open); delete;
  commands to one device, or to all ticked ones, where *start* sends the mode first.
- `GroupsPage`: creation, commands, history, membership dialog. `handleUpdateGroupDevices` makes two
  calls, of which the second may fail, and closes the dialog at once when there is nothing to add or
  remove. "Manage" and "History" run with the selection of the render before the click. `Existing` are
  the groups there are when the page is mounted.
- `FirmwaresPage`: the two lists are awaited together, upload, categories, assignment, upgrade.
- `TemplatesPage`: the list is never fetched again; each handler rewrites it from its closure.
- `OnboardingPage`: the wizard; *Back* works while a call is outstanding. Step 3 has a certificate
  issued (`issued`), which nothing stores in the device; `completeProvisioning` refuses a device without
  `certificateId`, so that step 4 leads to step 5 only if another client has stored one
  (`StoredElsewhere`); the second part of `StrandedHasCause` says so. The controller claims for
  `req.user?.id || 'placeholder-user-id'`: `identified` says whether a request carries the id of a user.
  No route of this commit gives it one, and the placeholder fails the save, so that the wizard never
  leaves step 1; both values are checked, since the steps behind the first are what the wizard is
  written for.

As committed, the frontend does not run as it is: `Devices.js` and `DeviceGroups.js` have text after
their exports that repeats their ends; `App.js` imports `./components/DeviceOnboarding`, the file is
`DeviceOnboard.js`; pages import `device-groups-api` and `firmware-api`, the files end in
`-api-service.js`; and calls go to `http://localhost:3000/api/...`, a prefix that only the devices,
auth and status controllers have. The pages are therefore modelled from the components against the
API that they are written for. Where that API refuses a call whatever its arguments, the model does
so: `POST /devices` (the form sends no `type`), and the firmware upgrade
(`firmware.controller.ts:158-214` takes the whole body for the list of ids).

## 3. Runs

Passing runs:

- `EventPipeline_faults` – all faults at once: four events in three messages (one carries two), batch
  size 2, two flushes at once, one malformed event, failing and partial inserts, one restart. Safety:
  `LossHasCause`, `BatchesCoverBuffer`, `DuplicateHasCause`, `FullBufferIsFlushing`; liveness:
  `EveryEventAccountedFor`, `BufferDrains`; refinement: `ImplementsEventLog`, with the liveness of
  `EventLog`. With batch size 2 one push, two pushes and the interval
  can each start a flush, and a second can overlap it; a third flush adds no new kind of overlap, and
  the safety results are proved for any number.
- `CommandLifecycle_shared` – two publications under one command_id supplied by the client, one
  response, failing operations, one restart: `PendingHasLiveTimer`, `ArmedTimerIsReachable`,
  `WrongTimeoutHasCause`, `OutcomeReplacedOnlyByRace`, `EveryAckedCommandGetsVerdict`. One id is the
  hard case (entries replace and remove each other); the safety properties are proved for any number
  of publications, ids and responses. Commands come to an end, so the system may stop.
- `DevicePresence_races` – one device, two reports, two overlapping sweeps, two ticks (with a timeout of
  0 or 1: enough to expire, be heard and expire again), one change by a client, of the timeout or of a
  whole row, failing saves: `OfflineWhileFreshHasCause`, `UndisturbedSweepIsRight`.
- `DevicePresence_live` – two devices, one of which may be deleted during a sweep, one report of each,
  one change by a client, a sweep that restarts for ever: `StatusConverges`. One sweep at a time:
  overlapping sweeps are in the run before. Saves do not fail here: if they failed for ever nothing
  would converge.

- `Provisioning_races` – one device and one page that shows it, three operations of any kind with two at
  a time, two users and two certificates (not told apart, hence the symmetry), two templates, two tokens
  that may expire, failing saves. Rows are loaded and put any number of times (`MaxCalls` counts the
  operations of the provisioning service only). `HandedTokenIsStored`: a token returned to a device is
  the one a claim is compared with, unless a call that had loaded an older copy, or an old row, replaced
  it. `ClaimOverridesOnlyByRace`: an owner is replaced only by a claim with an older copy, by an old
  row, or once such a row has made the device unclaimed again. `DanglingHasCause`,
  `RevokedHasNoActiveCertificate`, `ProvisionedIsEquipped`. Three operations are enough for phone home
  and two claims against each other, or a claim against a revocation; more than two at a time add no
  order of load and save that pairs do not have. The properties are proved for any number of operations,
  pages and devices.

- `Services_races` – two requests of any kind per service (and a certificate left by an earlier process,
  or none), at most one failing call or restart in the service in focus (none in monitoring, which has
  nine units of time with a check every three). `MembershipDriftHasCause`: the members are those asked
  for, each once, unless requests overlapped in one of two ways. `SendRecords`: commands that were sent
  are recorded, unless the insert failed after the fact. `FirmwareIsWhole`: the file and the category of
  a record exist, unless a swap or a removal broke off, or a category was counted while it was being
  named. `CertificateMatchesKey`, `ActiveLossHasCause`: the record of a device fits together, and a
  device loses its last certificate only by revocation or a renewal that broke off. `OverwriteHasCause`:
  two claims of a token only by overlap, and the stored list is not the last one received only by
  overlap or because the upsert of the last one failed or was broken off. `AvailabilityInRange`: an
  availability is below 0 only by one late check. Two requests are enough for every order of one
  request's reads with the other's writes, which is what these properties are about; each of the causes
  they name is a single overlap or a single failure.
- `WebApp_pages` – every page with two handlers at a time and one fault (a failing call, a lost answer,
  a change by another client or a change of status); two clicks on Home and Devices, three on groups,
  firmwares and templates, seven in the wizard (five lead to its end if another client stores the
  certificate, two go back). `StatusIsReported`, `LoadingMeansRunning`, `TablesMatch`, `StepIsBacked`,
  `StrandedHasCause`, `UpdateSavesTicked`; liveness: `PagesSettle`. Two handlers give one overlap, which
  is what the continuations can disagree about; a third one would only repeat it. Metrics makes two
  calls at a time, so it has three and one change of its range: calls for the old range are under way
  when those for the new one are made, and may be answered last. `PagesSettle` says that in the end it
  shows the metrics of the range chosen; the interval repairs what a late answer has put there.

Violations, each a disagreement between the code and what the repository says of it (`findings`):

- `EventPipeline_kept` – an event pushed while the insert is outstanding is truncated away.
- `CommandLifecycle_recorded` – a command whose timeout has run is stored as *pending* for ever.
- `CommandLifecycle_received` – the timer fires for a command whose response is being handled.
- `Provisioning_claims` – a claim that has passed every check is turned down by the save.
- `GroupsPage_preselect` – with one group selected, "Manage" of another, empty one ticks the members of
  the first.

Fairness. The event loop runs each continuation that is ready, timers fire, the interval and the cron
job go on, and a database operation ends, well or not: weak fairness on the steps of an operation that
has begun. None is assumed of the broker, the devices, the users, the clock, or of restarts. In the
frontend: weak fairness on answers and continuations (the browser settles each call), and strong
fairness on the refreshes, since `setInterval` goes on for ever but the bound on calls in flight, which
the browser does not have, disables the action now and then. `Services_races` has no liveness.
`CHECK_DEADLOCK FALSE` where the bounds, or the end of all operations, let the system stop.

## 4. Proofs

`EventPipelineProofs` proves, for any events, messages, batch size, flushes and restarts, that the
types hold, that a full buffer is being flushed, and that every loss and every duplicate has one of
the named causes. `LossHasCause` is not inductive: it says nothing of an event still in the buffer
when a settled flush is about to truncate it. The strengthening is `BatchesCoverBuffer`: an event in
the buffer that nothing has befallen is in the batch of every flush that has read one, and no such
flush has settled. For duplicates the strengthening counts: an event stored once is either out of the
buffer, or the flush that stored it is settled, or the event is contended.

`CommandLifecycleProofs` proves the types, that no report ever changes a stored record
(`RecordsNeverUpdated`), and the four timer properties from one inductive invariant `IInv`: besides
the properties it says that a timer belongs to an acknowledged publication (so a removed entry's
owner counts as a second use of the id), that a report is made only for an answered id
(`ReportsAreAnswers`), and that a timer still armed or firing under an answered id has a cause
(`AnsweredTimersHaveCause`). Without the last, `Expire` could not be shown to keep
`WrongTimeoutHasCause`.

The last part of `EventPipelineProofs`, `PipelineImplementsLog`, is the safety part of the refinement of
`EventLog`, `Spec => Log!Init /\ [][Log!Next]_Fate`, from the types and one more invariant,
`NowhereBefore`: an event that was not pushed is in no buffer, no batch and no document. A push makes
new events wait (`PushAccepts`); every other step leaves the pushed events as they are and moves a fate
only from *waiting* to *stored* or *lost* (`QuietSettles`).

`DevicePresenceProofs` proves the types, `OfflineWhileFreshHasCause` and `UndisturbedSweepIsRight`, for
any number of reports, sweeps and changes by clients. The inductive invariant adds `Copies`: what a
report or a sweep that is not marked stale has loaded is what is stored, and a sweep's time is not later
than the clock. Without it a sweep could save *offline* on the grounds of a copy that nobody had
outdated.

`ProvisioningProofs` proves the types and all five safety properties. `Base` describes what each pending
call may write, by operation and by the await it is at (stronger than `TypeOK`, which does not tie the
one to the other); `Known` says that calls are about registered devices. On these rest `EquippedInv`
(the device of every pending completion has a template and a certificate, and so has every row that says
*provisioned*, for neither an operation nor a row takes them away), `ClaimInv` (an unclaimed device has
no owner unless it was reopened by a row, and a claim whose copy is fresh is about an unclaimed one),
`RevokedInv` (a revocation has revoked the certificate of the device by the time that it saves, or the
device was given another, or revoked by a row), `TemplateInv` (a template that is assigned, or about to
be, while it is being deleted or afterwards, is hasty: a row that brings one back makes it so) and
`HandedInv` (a phone home that is about to store a token is stale or the stored one has
expired; one that is about to return the stored token returns what is there, unless it was raced).

Three modules prove the safety properties of `Services`, whose steps are those of one service while
the others stand still; an invariant is claimed only of the service in focus.

`ServicesProofs`: `EveryOverwriteHasCause` and `EverySendRecorded` follow from what a pending request
has read, and from what a failing or broken-off one leaves noted. `EveryMembershipDriftHasCause` needs
three invariants besides the types: `WantedInv`, the list holds what the completed requests ask for, but
for the devices that were lost to an overlap; `LoadedInv`, the copy which a pending request loaded
agrees with what is stored, but for the devices that another request has written since; and `OnceInv`, a
device is in the list twice only if two requests that may add it overlapped.

`AvailabilityAlwaysInRange` is about numbers. The record stamps of a device fall into different
intervals of the cron job (`StampInv`), since a check begins at the boundary of one, ends within it,
and finds no record of it (`CheckInv`); the bound on overlapping checks is what `Monitoring!Tick`
assumes. The quotient by the interval is therefore an injection of the records of a period, and
`CountOnce` bounds their number by one more than the checks expected; when every check stamps in
time the stamps are multiples of the interval, and `CountOnTime` takes the one off.

`TypeCorrect` of `ServicesProofs` puts the types of the five services together. Two of them are more than
types: `SizeInv` bounds how often a group lists a device by the requests that have ended
(`SpentGrows`: a write that adds a copy ends its request), and `NamedInv` in `FirmwareStoreProofs`
says that what was assigned to a device is or was a firmware.

`CertificateAuthorityProofs` proves `CertificatesAlwaysMatch` and `EveryActiveLossHasCause` from
`CertificateInv`. Its two main parts say what a request *at* a given await can rely on: `Supplies`,
what the commands before it have put into the files of the serial; and `OwnFiles`, that these are
still its own as long as no other request has used the files of that serial. `OneCA` says that the
key and the certificate of the CA go together unless two requests created it at a time.

`FirmwareStoreProofs` proves `FirmwareAlwaysWhole` from `FirmwareInv`: every file has at most one
record and one request that is writing it (`OneRecord`, `OneWriter`), a request unlinks only what it
has seen in its record (`OnlyItsOwn`), so that a record without its file has a request that unlinked
it (`RecordHasFile`). Of categories, `CategoryInv` says that one which has been counted as unused and
is about to be deleted is named by no record and no request, and that one which a request is about to
save is there, unless the count and the request have raced.

`WebAppProofs` proves every safety property of the pages, for any documents and any number of handlers
at a time, clicks and faults. A page's invariant holds when it is mounted, and only its own steps are
taken afterwards; each invariant has one lemma per click and per operation for the answer of the backend
and for the code after the `await`.

- `Alone` is shared by the pages of groups, firmwares and templates: until two handlers overlap, at most
  one runs, and `isLoading` says so (`LoadingAlwaysMeansRunning`). The tables rest on it:
  `RowsInv` and `ListsInv` say what the one running handler still has to bring to the table, and, for the
  templates, that the closure from which it will be rewritten is the list of the backend
  (`TablesAlwaysMatch`).
- `WizardInv` (`StepAlwaysBacked`): besides the fetch of the templates one handler runs (`OneBusy`), its
  step of the wizard is not passed meanwhile, and what the steps before it took for done has been done
  (`AsStarted`): the device claimed for an identified user, its certificate issued; *Back* only lowers
  the step. `StepIsBacked` alone says nothing of the answer that is about to move the wizard on.
  `StrandedInv` adds that a device claimed without the wizard knowing has its answered claim waiting
  (`EveryStrandedHasCause`); that a device is provisioned only after a fault is `Equipped` in
  `WizardInv`.
- `GroupInv` (`UpdateAlwaysSavesTicked`, an action property): undisturbed, the two calls of an update
  bring the members to the ticks in the order in which they are answered (`UpdateOnItsWay`). That needs
  the dialog to have shown the members of its group when the click computed the two differences
  (`DialogShown`), which needs the same of the rows that it was opened from (`RowsShown`).
- `DeviceInv` (`StatusAlwaysReported`): only a save of the edit form writes a status (`Reported`).
- `TypeCorrect` collects the types of all pages, those of Home and Metrics among them.

The assumptions are those of the modules: the constants have their types, event objects are fresh for
every message, `undefined` or `null` is no id, no number, no document and no list (`ServicesAssumption`,
`CountAssumption`, `WebAppAssumption`), and a behaviour of `Services` has finitely many requests, which
the bound of its `TypeOK` counts. Every safety property and every invariant that a passing run checks is
proved, and so is the action property of the pages. Only model-checked: the liveness properties
`EveryEventAccountedFor`, `BufferDrains`, `EveryAckedCommandGetsVerdict`, `StatusConverges`,
`PagesSettle`, and the liveness of `EventLog` within `ImplementsEventLog` (the prover
has no reasoning about fairness and ENABLED). Out of the prover's reach altogether: induction over data
(the library's induction theorems take an operator as a parameter), and modules with RECURSIVE
operators; the modules here have none.

## 5. Not modelled, and why

The commands worker never finds a command: it needs a record with `executeAt`, which `publishCommand`
does not set, and `POST /commands` fails for want of a `command_id`. Webhook dispatch has no caller. API
keys, authentication, metrics, logs and status are single queries, with no state between their steps. Of
the device documents the presence and the provisioning fields are modelled, with all that writes them,
the whole-row PUT of the edit form included; the remaining configuration fields (network, LED, mode) are
written in the same two ways, by a load and save and by that PUT, and no decision of the backend reads
them; the assigned firmware is in `FirmwareStore`, where an old row could only bring back an earlier
assignment. MongoDB, mongoose, mqtt.js, the broker, openssl and the browser are external and modelled
only as this code uses them. A device deleted while it is being provisioned is left out of
`Provisioning`: its save fails, as `DbFails` lets it. Two services at a time are not followed in
`Services`, nor two pages in `WebApp`: leaving a page drops its state. Left out of the pages: the search
boxes, form fields that no property tells apart, deletion of devices in `GroupsPage`, what Metrics does
with its metrics (nothing: they are never rendered). Payload formats, logging and validation messages
are abstracted to what the properties tell apart.
