# Specifications of Screenctl

Screenctl manages Linux machines ("devices", table `apps`) from a web page or a CLI. A
NestJS **backend** keeps the rows in PostgreSQL and queues in Redis; on each device an
**agent** (`screenctl agent start`) holds a Socket.IO connection to the backend, over which
it runs scripts ("jobs") and interactive shells. This directory holds TLA+ specifications of
the parts of that system in which several processes, handlers and messages interleave, the
TLC runs that check them and proofs that TLAPS checks. `PROJECT.json` is the machine-readable
index: components, runs, mutants, the map from definitions to source lines, findings,
hazards and theorems.

    tlc -workers 2 -config jobs_safety.cfg MCRemoteJobs     # a run
    tlapm RemoteJobs_proofs.tla                             # the proofs of a module

## Inventory

The live backend is `backend/src/modules/*`, wired by `backend/src/app.module.ts`.
`backend/src/{apps,auth,jobs,...}` is an earlier copy and `modules/fleet-runs` is imported by
nobody; neither runs.

| component | its state | operations | what is hard | what makes it correct |
|---|---|---|---|---|
| presence: `apps/agents.gateway.ts`, `apps.service.ts`, `apps.repository.ts`, `cli/src/agent/run.ts` | row of `apps`; the gateway's Map and Socket.IO rooms; two ends of each connection | register, heartbeat, disconnect, token rotation, removal; (re)connection of the agent | every handler awaits queries that execute in any order; an old and a new connection overlap; the backend dies | Map and rooms agree; departures are recorded; what is shown converges to what is true |
| jobs on devices: `jobs.service.ts` `enqueueRemote`, gateway `job:run`/`job:complete`, `executeJob` | row of `jobs`; messages; scripts; send buffer of the client | request, dispatch, run, report | check, await, then emit; lost and late reports; retries by callers | a finished row is true and final; a refused request never runs; no process runs a job twice |
| jobs on the backend: `jobs.service.ts` `enqueue`, `jobs.processor.ts`, BullMQ | row of `jobs`; queue; worker; child process; UPDATEs under way | enqueue, take, spawn, close, error, stall | `markRunning` is not awaited; a crash makes BullMQ run the job again | verdicts are true; a second run only after a stall; the queue drains |
| terminals: `apps/terminal.gateway.ts`, `cli/src/agent/terminal.ts` | sessions of the gateway; shells of the agents; messages on connections and in Redis | open, close, browser leaves, shell exits, agent leaves | sessions and shells live in two processes joined by lossy connections and pub/sub | no shell escapes its close or is replaced by another; no session is left without a shell and without an end |
| templates and versions: `templates.service.ts`, `template-versions.service.ts`, `files.service.ts` | directory of scripts, row of `templates`, snapshots | create, synchronise, change visibility, edit, snapshot, restore | read, increment and write in separate queries; files and rows without a transaction; a catch that removes a directory | a creation that was answered stays; every state an edit replaced can be restored |
| schedules: `schedules.service.ts`, `schedule-trigger.processor.ts` | row of `schedules`, BullMQ scheduler and triggers | create, enable, disable, remove, trigger | two stores, no transaction; triggers that wait, stall and come late | an answer leaves both stores agreed; switched off, at most one more job |
| fleet: `fleet.service.ts`, `fleet.repository.ts`, page `FleetRunDetail.jsx` | run and its targets, jobs; the polling page | createRun, getRunStatus, poll | parallel fan-out, each part may fail; a page that decides to stop | rows are true, every device is accounted for; a page that stops shows the end |
| sessions: `auth.service.ts`, `refresh-tokens.repository.ts`; `frontend/src/lib/{api.js,auth.jsx}`; `cli/src/api/client.ts`, `cli/src/config/store.ts` | refresh tokens; the token in localStorage or the credentials file; calls that wait for a refresh | register, login, refresh, logout, calls and commands | check and revoke are separate; tabs and processes share one token; answers come late or not at all | the stored token is usable; a logout is final; no call waits for ever |
| organizations: `organizations.service.ts`, `roles.guard.ts`, `auth.service.ts` `register` | organization, members, roles, accounts | register, invite, change role, remove | guard, check and write apart; registration in several queries | exactly one owner; no invite is forgotten |
| browser terminal: `components/Terminal.jsx`, `lib/socket.js` | status, session, requests under way, the shared socket | show, hide, reconnect, acknowledgements | late acknowledgements, changes of device, connections that break | a session is shown or will be closed |
| devices, audit, system, distro-configs, metrics (`collect.ts`), UI | rows, files read | inserts and reads | none: no state two operations compete for | - |

**How they interact.** HTTP controllers call services; services call repositories (one
query each) and, for jobs and terminals, `AgentsGateway` methods directly. Agents and
browsers talk to two Socket.IO namespaces of the same process. `AgentsGateway` tells
`TerminalGateway` of exits and departures over Redis pub/sub. Local jobs go through a BullMQ
queue, schedules through BullMQ's job schedulers and a second queue. Web tabs and CLI
processes talk HTTP and share their tokens among themselves. All of the gateways' state is in
the backend's memory; nothing at start-up repairs the rows (templates are read from disk).

## Modules

| module | models | extends |
|---|---|---|
| `AgentsGateway` | presence of agents | |
| `JobLifecycle` | abstract: what readers of a `jobs` row rely on | |
| `RemoteJobs` | jobs on devices; implements `JobLifecycle` | `AgentsGateway` |
| `LocalJobs` | jobs on the backend | |
| `Terminals` | remote shells, the backend's and the agent's side | `AgentsGateway` |
| `TerminalPane` | remote shells, the browser's side | |
| `FleetRuns` | a fleet run and the pages that watch it, over jobs that behave as `JobLifecycle` says (`INSTANCE`) | |
| `ScheduleContract` | abstract: what a user may expect of a schedule | |
| `Schedules` | a schedule; implements `ScheduleContract` | |
| `RefreshTokens` | the backend's tokens and the one stored token that clients share | |
| `WebSession`, `CliSession` | what web tabs and CLI processes do with it | `RefreshTokens` |
| `Organizations` | one organization, its members and the registrations that touch it | |
| `TemplateFiles` | one template: directory, row, versions | |
| `MCAgentsGateway`, `MCRemoteJobs`, `MCTerminals` | instances for TLC (model values, symmetry) | the module of that name |
| `MCServices` | instances of the modules that share no state | `LocalJobs`, `FleetRuns`, `Schedules`, `WebSession`, `CliSession`, `Organizations`, `TemplateFiles`, `TerminalPane` |
| `AgentsGateway_proofs`, `RemoteJobs_proofs`, `Terminals_proofs` | theorems and proofs of the module and of its composition with the presence protocol | the module of that name, `AgentsGateway_proofs` |
| `Dispatch_proofs` | of `LocalJobs`, `FleetRuns` and `Schedules` | those |
| `Clients_proofs` | of `WebSession`, `CliSession` and `TerminalPane` | those |
| `Organizations_proofs`, `TemplateFiles_proofs` | of the module of that name | that |
| `Services_proofs` | of `MCServices`, the eight services side by side | `MCServices` and the four modules above |

`MCServices` runs eight components in one run without multiplying their states: `part` is
chosen in the initial state and says which of them takes steps; all others stay as they
start. `ServicesInv` is the invariant of that one.

Definitions named `XSomething` just above `X` are wrong variants of the code's `X`; the
`mutants` of `PROJECT.json` put them in its place to show that a property notices.

### Handlers and awaits

JavaScript runs a handler without interruption up to its next `await`; an awaited query
executes at some moment of its own, and the queries of concurrent handlers run on different
connections of the pool (10), in any order. So each handler is cut at its awaits, and each
awaited query is a step: `register` is `RegAuth` (SELECT), `RegMark` (UPDATE), `RegJoin`
(everything after it: Map entry, `client.join`, ack). `handleDisconnect` is `Close` up to its
await, `DiscWrite` and `DiscPublish`. `enqueueRemote` is `ReqFind`, `ReqCheck`, `ReqCreate`,
`ReqMark`, `ReqDispatch`. `handleOpen` is `OpenFind`, `OpenStart`.

`createRun` is `CreateRun`, then for each device `JobMoves` and `EnqueueEnds` (enqueue under
way and answered), `AddTarget` or `AddRefusal`, and `Answer` after `Promise.all`. `setEnabled`
is `FindOne`, `SetTimer`, `SetRow`; `process` of a trigger is `ReadRow`, `Enqueue`,
`EndProcess`. `AuthService.refresh` is `RefFind`, `RefRevoke`, `RefIssue`. An organization's
request is `Guard`, `Check`, `Execute`. A local job is `Take` (spawn, and the `markRunning`
nobody awaits), `ChildEnds` or `ChildUnborn` (the script's events, which issue `markFinished`),
`Write` (an UPDATE executes), `Hear` (a `markFinished` is answered and settles the promise of
`process`) and `Report` (BullMQ's worker tells Redis): between any two of them the late
`markRunning` may execute. `createTemplate` is `StartCreation`, `FillDir` (three
stages), `SaveTemplate` and, in its catch, `CleanUp`; `snapshotBeforeChange` is `BeginEdit`,
`CopyFiles`, `KeepVersion`, `Bump`.

Under fault `"db"` a query fails for its caller and may have executed or not (`"register"` is
the same of the queries of a registration only: heartbeats repair nothing if every one of them
may fail for ever); `"redis"` is the
same of BullMQ's calls, `"disk"` of files, `"net"` of HTTP requests and their answers,
`"crash"` a death of the backend, `"kill"` of a CLI process. Where the code handles the error,
so does the model; where it swallows the error, the model goes on as the code does: a copy
for a version may miss files (`CopyFiles`), a synchronisation skips a manifest it could not read
(`ReadManifest`), and a directory `fs.access` cannot look at counts as not there
(`StartCreation`). Where nobody handles the promise (the `markOffline` of `handleDisconnect`,
which Nest calls and forgets, and the `.finally` of the processor's `'error'` handler) the
unhandled rejection ends the Node process, and systemd starts it again (`Restart=always`):
`DiscFails`, `ErrorWriteFails`.

### Connections

`cl[s]` and `sv[s]` are what the two ends of connection `s` believe. The network may cut
either end's view at any time (`"net"`); an end always learns in the end that the other has
closed. A message is lost when its receiving end closes; it is never repeated. What the
client emits while it knows it is disconnected is buffered and sent at the next connect
(`outbox`). `client.disconnect(true)` makes the client stop for good (`proc[a] = "halted"`):
Socket.IO does not reconnect after "io server disconnect".

A connection is a slot that can be used again once nothing remembers the old one. What that
bounds is how many remembered connections overlap, not how often an agent reconnects.

### Abstractions and assumptions

- Rows are reduced to what is decided on: `apps.status` and whether `last_seen_at` is fresh
  (`Elapse` is the passing of `STALE_AFTER_MS`); the token by "the agent holds the right one"
  (`valid`). Rotation and removal leave connected sockets alone, as the code does.
- At most one heartbeat of a socket awaits its UPDATE at a time (the interval is 20 s).
- `executeJob` always ends in one `job:complete`; temporary files are not modelled.
- Job log lines, terminal data, input and resizing change no state that a property is about.
- An agent without `node-pty` answers `terminal:start` with `terminal:exit`: in the model a
  shell that exits at once.
- A browser that reconnects is another `Viewer`; a viewer that leaves does not return.
- Redis delivers what was published as long as the backend that subscribed lives. Until an
  offline message has been delivered the slot of its connection is not used again.
- Removal of a device deletes its `apps` row; its job rows stay (`ON DELETE SET NULL`), only an
  INSERT that names the removed device fails. Templates are not removed under a job.
- Redis messages are delivered in any order (the application has several publishers).
- `LocalJobs` has BullMQ's defaults: one worker, concurrency 1, one attempt,
  `MaxStalledCount` 1. A stalled job is detected only when its worker has gone or has lost
  Redis. Queries of a dead backend are lost. The same holds of the triggers of `Schedules`.
- A fleet run's job that is `running` may be one whose script was never sent: then it never
  ends. Liveness of polling is therefore conditional (`RunOver`).
- Of a schedule's cron expression nothing is left but that the scheduler may fire while it
  exists. Schedules share only the worker of their queue.
- Tokens are names; one that nobody knows any more may be given again, which bounds how many
  are remembered, not how many are issued. Access tokens may expire at any moment.
- Waiting calls of a tab go on in one step when its refresh is answered: they are continuations
  of one promise. A CLI process is not killed between the backend's queries of its refresh (the
  backend would finish it: that is the answer lost afterwards).
- Roles developer and operator are treated by the guard of every modelled request as viewer is.
- A snapshot reads the directory in one step and may miss any of its files; edits write file by
  file, and a file holds anything until it is written (`WriteFile`). `template.json` is one of
  the files: that a version holds it a second time, as its manifest, which a restore writes
  before the files, is left out. The scripts that `createTemplate` writes are one step, the manifest another.
- `OpenFind` has no refusal for a browser without the permission or without a session: such a
  browser opens nothing. In the model it may, so there is only more that can happen.
- Times (8 s of an acknowledgement, 2 s of polling, the stall check) are steps that may come at
  any moment.

History variables, marked so, serve the properties only: they record that nothing overlapped
(`solo`, `alone`, `calm`, `crossed`, `early`), what was answered (`told`, `sworn`) or happened
(`late`, `fired`, `made`, `lost`, `quiet`, `past`, `tardy`, `torn`, `overtaken`).
No action of the code is guarded by one.

## Runs

Every run but the four that expect a violation passes. Deadlock is checked except in the
runs whose model lets the system really stop: `term_liveness`, `gateway_will_retry`,
`jobs_accepted_finish` and `term_hanging_pty`, once the agent is halted and its job or session
over, and `services_*`, where a component is done when its bounded requests are.

| run | question | bounds |
|---|---|---|
| `gateway_safety` | do Map, rooms, acknowledgements and departures agree in every interleaving? | 1 device, 2 agent processes, 3 connections, all faults |
| `gateway_liveness` | does a registration end, does what is shown converge to what is true? | same, 2 connections, all faults, of failing queries those of registrations |
| `jobs_safety` | is a row true and final, is a refused job never run, is `JobLifecycle` implemented? | 1 device, 1 agent, 2 connections, 1 job, all faults |
| `jobs_liveness` | does a job that reached an open connection finish? | same, `net`, `crash`, `restart` |
| `term_safety` | does a shell escape its close, is one replaced by a second start, is a session left dead? | 1 device, 2 agents, 2 connections, 1 session, `crash`, `restart` |
| `term_liveness` | do closed shells die, do dead sessions end? | 1 agent, 2 connections, 1 session, `net` |
| `services_safety` | the safety properties of the eight services, `ScheduleContract` among them (1.3 million states, 2 minutes) | 2 local jobs; a run on 2 devices with 1 page; 3 requests and 2 triggers of a schedule; 2 tabs or processes, 3 tokens, a call in each tab; 2 users, 2 requests of an organization; of 2 creations and 2 edits any 3 (`MaxTmplRequests`), 1 file, 2 texts; 3 tries, 2 devices of a terminal |
| `services_liveness` | does the queue drain, does polling stop, are calls and commands answered? | 2 local jobs with `spawn`, `db`, `crash`; 2 devices, 1 page; 2 calls in one tab; a command of 2 requests; `db`, `net` |
| `gateway_will_retry` | violated: "will retry..." | 1 agent, 2 connections, `db` |
| `gateway_offline_cut_off` | violated: offline means cut off | 1 agent, 2 connections, `net`, `crash` |
| `jobs_accepted_finish` | violated: an accepted job ends | 1 agent, 1 job, `net` |
| `term_hanging_pty` | violated: no shell hangs once its browser has gone | 1 agent, 1 session, no fault |

**Why the bounds are enough.** Two connections are what an overlap needs (the old one not yet
noticed, the new one registered); the third of `gateway_safety` lets a second process join
in. Devices are independent in the code (everything is keyed by the app id), and that they
stay so is proved (`AlwaysOnlyItsDevice`, `ShellsAlwaysOnTheirDevice`), as are the safety
properties for any number of agents, connections, jobs and sessions; so the runs of jobs have
one agent. Of the services each has two of whatever competes: two callbacks of a fleet run (one
fails while the other goes on), two requests for an organization (two stale checks, or an
invite and its removal), a creation after another, an edit after one that failed half way. A
template that is edited twice has one creation, one that is created twice has one edit: after a
second creation over a row that was left, nothing is claimed of edits any more (`calm`). A
schedule has three requests (create, and two that overlap) and two triggers (one in hand, one
waiting); a terminal three (a late one, the shown one and the button's). What TLC says of
these is proved for any numbers. A version per edit is enough (`Version`; that
`current_version` never goes beyond it is `VersionsSuffice`, which is proved). Three tokens are
what two clients need: the stored one and a new one each.

Sockets and local jobs are symmetric. `SvcSymmetry` swaps two members of each symmetric set at
once: calls are swapped with their tabs, and the texts, users and tokens, of which a `CHOOSE`
or a constant singles one out, stay. Symmetry is used in safety runs only.

**Fairness.** Assumed of what the event loop and timers do by themselves: awaited queries
are answered, timers fire, a client reconnects while its process runs and is not halted, each
end notices that the other has closed, messages on an open connection arrive, scripts end
(`SCRIPT_TIMEOUT_MS` kills them), killed shells exit, BullMQ takes jobs and looks for stalled
ones. `FleetFairness`: the page's requests are answered or fail, its timer fires.
`WebFairness`, `CliFairness`: requests and refreshes are answered, or fail (axios times out
after 30 s, fetch when the browser gives up); which answer it is, and how often a token has
expired, is left open. It is weak fairness throughout. No fairness is assumed of faults, of
operators and users, of process starts, or of a shell exiting by itself.

## What the runs show

The presence protocol is sound in its own terms: late, failed and crossing UPDATEs make rows
wrong for a while, and heartbeats or staleness repair them. A remote job's row tells the truth
and is final, but only because `markDispatched` is awaited before the emit; nothing else
guards it. What does not hold, and has a run or a note:

- **A refused agent never returns** (`gateway_will_retry`). One failing query during
  `register` makes the backend disconnect the client, which then never reconnects, while it
  prints "will retry...".
- **"Offline" does not mean cut off** (`gateway_offline_cut_off`). The late disconnect of an
  old socket marks a device offline and drops its terminal sessions although it has
  registered anew.
- **An accepted job may run for ever** (`jobs_accepted_finish`), and `waitForJob` with it.
- **A terminal opened for a browser that has just left** (`term_hanging_pty`) stays open.
- **A local job may run for ever, too** (a finding): the UPDATE of the
  `markRunning` nobody awaits may execute after that of `markFinished`, and takes the row back
  for good, without any fault. `CompletedIsWritten` says that nothing else does: a job that
  BullMQ counts completed has its row finished but for that.
- **A state of a template may be lost by a failing read** (a finding): the copy for
  a version swallows the error, and the edit overwrites what was not copied. `EditsAreUndoable`
  is about all versions but those (`torn`).
- A failed `markFinished` leaves a remote row `running` (why `jobs_liveness` has no `db`). A
  failed `queue.add` leaves a local row `pending`, and its caller with `ENQUEUE_FAILED`.

The services, as far as requests do not overlap, keep what they promise, also when calls fail
half way and the backend dies: that is not obvious of code without a transaction, and mutants
show how little is missing (`SetTimerIfNew`, an optimisation one might make, breaks
`AnswersHold`). Where they overlap, the properties name the window instead of closing it:

- **Fleet rows.** `RowsAreTrue` covers "offline" and "dispatched"; "error" may be said of a
  device whose job runs, and a device may have two rows (a finding). A page opened from the
  list while the request still runs may stop too early (`early`).
- **Schedules.** Two requests that overlap, or one that failed, may leave an enabled schedule
  without a scheduler until the next request alone repairs it (`AnswersHold`). Disabled, a
  schedule runs at most the job that was being triggered (`KeepsContract`).
- **Sessions.** A token is lost for good when the answer of its rotation is lost (`lost`); a
  refresh that is under way when the user logs out logs him in again (`quiet`); loading a page
  with an expired access token logs out (a finding).
- **Organizations.** Stale checks never make a second owner, since only the founder's row is
  one and no request can change or replace it; but what a demoted member has asked for may
  still be done.
- **Templates.** Two overlapping creations may destroy each other, and so may two that do not
  overlap if `fs.access` fails on the directory of the first. Two overlapping edits lose a state
  (a finding) and may set `current_version` back. `EditsAreUndoable` says that besides them, and
  besides a copy that missed a file, nothing loses a state.
- **Browser terminals.** A session that opens too late is closed, unless the pane's request
  timed out or the reconnect button made a second one: then it may stay (`crossed`). The button
  does not work after a disconnect by the server (a finding).

## Proofs

Every invariant and every action property of a passing run is a theorem, for all values of
the constants, under the named assumptions on them: that "nobody" and "nothing" are not among
the sets they stand beside (`NoAgentFresh`, `NoAppFresh`, `NoJobFresh`, `NoReqFresh`,
`NoTriggerFresh`, `NoTokenFresh`, `NoAskFresh` and their like), that each agent, job, session
and tab has its owner (`AppOfType`, `JobAppType`, `ViewerOfType`, `TermAppType`, `TabOfType`,
`FounderType`), and which faults there are (`FaultsType` and its like); where a number is
counted, that the set is finite (`EditFinite`). The sets themselves may be of any size and
the faults any of those that are named. Each proof rests on an inductive invariant that TLC
checks as well, in the run of its module.

### Presence and what is built on it

- `GatewayInv`. `RoomsMatchMap` is not inductive by itself: `RegJoin` adds the entry and joins
  the room in one go, but is it the first to do so, and for an open socket? That needs
  `RegisteringIsUnknown` (a registering socket is in no map, not acknowledged, not refused),
  and `BusyHasOwner` so that `AppOf[owner[s]]` means something. `AckMeansReachable` needs
  `AckedIsEntered`; `HaltedIsNowhere` needs that a process has one client
  (`OneConnectionEach`) and that refusals are on closed sockets (`KickedIsClosed`).
- `JobInv` adds to it where a request is, what its row may be and that nothing of the job is
  outside before it is answered (`RequestInv`), that reports carry verdicts that happened
  (`ReportsAreTrue`), where messages can be (`WireHasEnds`, `OnlyItsDevice`) and that what a
  process is about to receive it never started (`NewToItsProcess`).
  The presence part is reused: `JobsKeepGateway` and the lemma `ConnectionStep` (what a step
  of the presence protocol may do to a connection) spare a case for each of its actions.
- `JobsImplementLifecycle` is refinement with the identity mapping of `job` and `ran`:
  `RequestInv` and `ReportsAreTrue` give the guards of the abstract actions.
- `TermInv` is proved in three layers, each from the one below.
  `ShellsInv`: as long as a connection works at both ends, what is or will be a shell there is
  in the room (`ShellsAreInRoom`), so a close emitted to the room follows it
  (`CloseFollowsShell`); shells of a lost connection are gone (`ShellsNeedConnection`).
  `SessionsInv`: `SessionIsAccountedFor` is not inductive, because it does not say what becomes
  of a shell's end. An agent may have lost the connection before the backend has, so the end of
  the shell is never sent; then the departure is what ends the session. `SessionHasAnEnd` says
  so: for every session that is open there is a connection in the room that still carries its
  shell or its end (`Heard`), or whose departure is written, published or on its way in Redis,
  or else the exit is in Redis already. `ClosesAreOfClosed` is needed because a close that was
  not asked for would take the shell and leave the session. `TermInv`:
  `NoShellIsReplaced` holds because a session that is not open yet is nowhere
  (`UnopenedIsNowhere`), is opened once, and its one start on a connection reaches the one
  process that owns it.
- `TerminalsImplementPresence`, `JobsImplementPresence`: both compositions imply the presence
  protocol's own `Spec`. So what is proved of the presence protocol holds in them; the action
  property `DeparturesAreRecorded` is carried over like this (`TerminalsRecordDepartures`,
  `JobsRecordDepartures`).

### Services

- `FleetInv`: what a callback is about to record agrees with its job (`BranchKnowsJob`), an
  answered request has only callbacks that are over (`AnsweredIsSettled`), and an answer on its
  way to a page that says `done` cannot become false (`ViewsAreFinal`), because nothing is added
  to an answered run and finished jobs stay so. A step of a job is a step of `JobLifecycle`.
- `SchedInv`: after the row was switched off the worker may have read it as enabled, once
  (`LateIsLast`, from which `SchedulesKeepContract` follows with the mapping `on <- row = "on"`);
  a trigger's jobs are bounded by its stalls (`TriggersInHand`); and a request nothing overlaps
  finds what it has done itself (`AloneIsUndisturbed`), which gives `AnswersHold`.
- `WebInv`, `CliInv`: a token that is no longer valid but still stored belongs to a refresh or
  logout that has not told its client yet (`StoredIsCovered`); the token of a refresh that was
  granted is valid and nobody else knows it (`NewIsSecret`), so that nobody can revoke it before
  it is stored; a tab's refresh runs exactly while calls wait for it (`RefreshIsAwaited`).
- `OrgInv`: nobody passes the guard before the owner's row is there (`OwnerIsThere`), and the
  id of that row is not the id of any other, nor what a request that passed its check is about
  (`RowsHaveIds`).
- `LocalInv`: UPDATEs under way carry verdicts that happened (`WritesAreTrue`), a waiting job
  has a run left (`RunsLeft`), the worker is busy with a started, active job (`BusyIsStarted`).
  `CompletedIsWritten` is about the end of three steps; before it, a `markFinished` that was
  executed and not yet answered, and one whose answer has settled `process`, have written their
  row, or it was taken back since (`AnswersAreWritten`), and only taken jobs are ever written
  (`WritesAreOfTaken`), so that a row is not begun anew.
- `TmplInv`: `EditsAreUndoable` depends on what three separate queries have seen. While edits
  come one by one (`CalmIsOneByOne`), what one has read, copied and kept is still so when it
  writes (`EditIsUpToDate`). A version that is already there is not written again (`ON
  CONFLICT DO NOTHING`): that loses nothing, because a version with the current number, left
  by an edit that failed before its UPDATE, holds what is in the directory now
  (`KeptIsInOrder`). All this but for versions whose copy missed a file (`torn`), of which
  nothing is claimed but that they spoil no other.
  `CreatedStays` needs that a creation nothing overlapped
  is the only one while it runs, so that nobody else's catch removes what it has written, and
  that none is under way once it was answered (`AloneIsAlone`).
- `PaneInv`: sessions of the backend exist only while the browser is connected (`OnTheLink`)
  and were requested (`HeldWereServed`, `RequestsAreKnown`); a request whose answer will be
  shown replaces no session that counts (`PendingIsAlone`).
- `ServicesInvariant` puts the eight together: the invariants hold side by side, for all values
  of all their constants, which is the invariant `services_safety` checks.

**Only model-checked:** the liveness properties (`gateway_liveness`,
`jobs_liveness`, `term_liveness`, `services_liveness`): fairness and ENABLED are beyond the prover. So are the
four violations, which are counterexamples and need no proof.

## Not modelled

- Unused code: `backend/src/{apps,audit,auth,jobs,...}` is an earlier copy of
  `backend/src/modules`, and `modules/fleet-runs` is imported by nobody.
- Views: `Dashboard.jsx`, `AppDetail.jsx`, `Apps.jsx` and most of the other pages show what a
  request returned; the agent's metrics (`cli/src/agent/collect.ts`), prompts and output of the
  CLI, system information and distribution templates read and format. These and the unused
  copies are most of the repository's lines; they hold no state two operations compete for.
- Job log lines (`job_logs`, `job:log`, the viewers' channel): they are appended and shown, and
  nothing decides on them. What is typed and printed in a terminal.
- `devices.touch` and the audit interceptor: one statement each, whose failure changes nothing.
- Passwords, guards' parsing of tokens, expiry of refresh tokens, `logoutAll` (no client calls
  it), validation of requests.
- Redis losing what was published while it is down.

`AgentsGateway` with jobs and with terminals are two compositions: together they share nothing
but `AgentsGateway`, which neither disturbs (`JobsKeepGateway`, `TerminalsKeepGateway`).
`FleetRuns` stands on `JobLifecycle`, which `RemoteJobs` implements.
