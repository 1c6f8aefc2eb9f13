# Verification of the web front-end of SysResEval

SysResEval runs network and system labs for courses: a student starts a lab (a set of Kathara
containers), works on its machines, answers questions, and the work is graded by `sre eval`.
This directory holds TLA+ models of the web front-end of that suite (`src/sreweb`), their TLC
configurations and their TLAPS proofs. Paths below are relative to the root of the repository.

- [1. The system](#1-the-system)
- [2. Plan](#2-plan)
- [3. What is modelled](#3-what-is-modelled)
- [4. What is checked](#4-what-is-checked)
- [5. What is proved](#5-what-is-proved)
- [6. Where the code and its documents disagree](#6-where-the-code-and-its-documents-disagree)
- [7. What is not modelled](#7-what-is-not-modelled)

## 1. The system

Two daemons, both Python/asyncio, one thread each for everything that matters here.

**The agent** (`src/sreweb/agent`, one per lab host) owns the running projects of its host. It runs
`sre` as a child process for every operation, serves an HTTP API to the portal, and relays
terminals (a pty on `sre connect`) and X desktops over WebSockets.

**The portal** (`src/sreweb/portal`, one) is what browsers talk to. It authenticates the users,
places new projects on the hosts of a pool, relays requests to the agents, and holds what belongs
to no host: programmed exams, presentations, groups, archives, access logs.

The command line (`src/SRE`) does the work on the containers; the Qt GUI (`src/sysreseval`) is an
older local front-end that may share a host, and the answers file of a project, with an agent.

### Inventory

| Component | State it keeps | Operations | Correct when |
|---|---|---|---|
| Agent exams and schedulers (`schedulers.py`, `exam.py`) | per project: exam object, `exam_ending`, retry instant, next periodic evaluation, idle clock, `closing`, the project lock | one tick per second; end of exam; final evaluation and retry; periodic evaluation; reaper; close; exam PUT / DELETE | one `sre` command at a time; the end is run, evaluated once owed, and stands; nothing runs on a stopped project |
| Agent registry (`registry.py`) | the projects found on disk, the state files, the subscribers | scan, adopt, write and load the state, remove | the state file holds what a restart needs; a removed project is hung up |
| Agent terminals (`terminals.py`, `pty_session.py`) | sessions of a project, their clients, linger timers, the pty and its child | open, join, leave, linger, evict, hang up, exit | a shell without a typing client ends; the cap holds; no live shell is forgotten; an ended exam cuts the student off |
| Agent desktops (`display.py`) | display numbers reserved and used, X servers, display sockets | reserve, commit, ensure, disconnect, stop | no number twice; no server left behind; streams cut at the end of the exam |
| Agent runner (`runner.py`) | commands in flight, per-user lock, start and evaluation semaphores | run, stream, cancel, wait for idle | limits respected and released on every path |
| Agent answers (`answers.py`) | the answers file, its signature, an in-process lock and a lock file shared with the GUI | put, rewrite, refresh, consume the cheat file | no lost update between agent and GUI |
| Agent archive index (`results.py`) | cached archive summaries | refresh, invalidate | an invalidation is never lost |
| Agent API (`app.py`, `access.py`) | event sockets, power and restart requests | the HTTP handlers | decisions hold at the time they are acted on |
| Portal exams (`exams.py`, `examstore.py`) | exams, members (start, extra time, end, projects), dirty set | create, update, resume, end, adjust, set labs, observe, tick, persist | a member's clock never runs backwards; what was written survives a restart |
| Portal exam projects (`examprojects.py`) | what each agent last answered, retries, orphans, close jobs | sync, reconcile, release, close | each agent ends up with the portal's last object |
| Portal pool (`pool.py`, `manager.py`, `poolctl.py`) | host statuses, reservations, wake and restart state | poll, pick, reserve, release, wake, power off, restart, add / remove hosts | a project goes to a host that accepts it; capacity is not promised twice |
| Portal presentations (`presentation.py`, `focus.py`) | presentations, presence sockets, who is shown what | start, set audience / view, end, attach, detach, resync, tick | a spectator is shown the newest presentation that includes them; an abandoned one ends |
| Portal groups, archives, access log, sessions, authentication | files and SQL tables | edits, collection, statistics | not modelled (section 7) |
| Command line, GUI, wrapper, labs | containers, files | `sre start / eval / state / stop ...` | seen here as commands that succeed, fail or cannot be run |

How they interact: the browser calls the portal, the portal calls one agent per request
(`relay.py`) and polls all of them every two seconds (`pool.py`); the exam objects travel from
`exams.py` through `examprojects.py` to `exam_put` of the agent, which may miss them, get them
late or get them twice; inside an agent the handlers, the tick of the registry, and the sessions
share the `Project` object and its lock.

What makes it hard: every `await` is a point where another handler runs. Nearly every hazard in
`PROJECT.json` is a value read before one and used after it, or a flag set before one and read by
others during it; the rest are restarts (of the agent during an exam) and calls between portal
and agents that are lost or overtaken.

## 2. Plan

Written in this order.

1. **`AgentExam`**, with **`AgentExamProofs`** and **`AgentExamSafety`**: the life of one project on
   an agent: exam, end, final evaluation, reaper, close, lock, restart. *(checked, proved)*
2. **`StudentAccess`**, with **`AccessProofs`**: terminals and desktops against the end of the exam,
   the close and the reaper. *(checked, proved)*
3. **`ExamSync`** (checked through `MCExamSync`), with **`ExamSyncProofs`**: PUT and DELETE of the
   exam objects to the agents under loss, repetition and restarts of the portal. *(checked, proved)*
4. **`ExamContract`**, with **`AgentExamContract`**: what the portal may rely on in an agent, and the
   refinement that shows `AgentExam` implements it; **`ExamDelivery`**: what the portal promises about
   an exam object that changes, and the refinement that shows `ExamSync` implements it. *(checked,
   proved)*
5. **`PoolPolicy`**, **`AgentHost`** and **`Placement`**, which composes them, with
   **`PlacementProofs`**: placement and reservations against polls, wake-up, power-off and restart of
   a host. *(checked, proved)*
6. **`ExamClock`** and **`PortalExam`**, with **`PortalExamProofs`**: the phases and the clock of a
   student, their records in memory and in the database. *(checked, proved)*
7. **`Presentation`**, with **`PresentationProofs`**: which presentation a student is shown, over
   sockets that come and go. *(checked, proved)*
8. Left: the focus of the portal; `DisplayNumbers` (reservation, commit and release of display
   numbers), `RunnerLimits` (the per-user lock and the two semaphores with cancellation),
   `AnswersFile` (agent and GUI on one file with a lock that gives up), the archive index.

```
AgentExam ---- implements ---> ExamContract        ExamClock <- PortalExam
ExamSync ----- implements ---> ExamDelivery        PoolPolicy <- Placement -> AgentHost
MCExamSync -> ExamSync                              StudentAccess, Presentation
```

Runs stay few and each asks one question: one per state machine (two where liveness needs a smaller
instance) and one per disagreement with a document.

## 3. What is modelled

### `AgentExam`: the exam life cycle of one project

One action is what the loop runs between two awaits. The variables are the fields of `Project`
(`exam`, `ending` for `exam_ending`, `retry` for `exam_retry_at`, `nextEval` for `next_eval_at`,
`idle` for `last_activity` past the timeout, `pages` for `subscribers`, `closing`), the state file
(`saved`), the project lock (`holder`, `queue`) and where each coroutine that takes that lock is
(`pc`, over the jobs `end`, `close`, `periodic`, `user`). `planned` holds the coroutines a tick gave
to `ensure_future` and that have not started.

Time: an end is `ahead` or `reached`, a timer `running` or `over`. The code compares every instant
only with the present, so nothing more is observable; `EndComes`, `RetryElapses`,
`IntervalElapses` and `IdleElapses` are the passing of it.

| Code | Actions |
|---|---|
| `Registry.tick`, `Schedulers.on_tick` | `Tick` (what is due is planned, the interval re-armed) |
| `Schedulers.end_exam` | `EndNotDue` (checked again at its start), `EndExam` / `ResumeEnd`, `CutOff` (terminals and displays gone, pages told, lock), `Grant`, `FinalEvalSucceeds` / `FinalEvalFails`, `EndTold` |
| `Schedulers._run_eval`, `eval_post`, `state_post` | `StartPeriodicEval`, `UserCommand`, `EvalDone` |
| `Schedulers.close_project` | `Reap`, `CloseRequest`, `StopRequest` (its three callers), `HungUp`, `CloseEvaluated`, `Stopped`, `StopFails`, `CloseDies` |
| `exam_put`, `exam_delete`, `_exam_changed` | `ExamPut`, `ExamDelete` |
| `events_ws`, `Application._project` | `PageOpens`, `PageCloses`, `PageSpeaks` |
| `refresh_info` | `InfoChanges` |
| a crash, then `_new_project`, `_load_state`, `arm` | `Restart` |

`asyncio.Lock` is external: `Lock`, `Unlock`, `Grant` model its queue, including the window in which
it is released, not yet re-acquired, and reports `locked() == False`.

`sinceEnd`, `graded` and `closeTried` are history variables: the first two say whether a final
evaluation that *began* after the recorded end succeeded, the third whether the close ran its own.

Assumptions and bounds, each named in the module: one periodic evaluation and one user command at a
time wait for the lock; the body of a request is there when its handler runs; the state file is
writable (`write_state` only logs an `OSError`); the host is not in the GUI's host-wide exam mode.
`PutWhileEnding` says whether the portal may change the exam while its end runs: TRUE is what the
code allows, FALSE excludes the race of section 6 where a property needs that.

### `StudentAccess`: terminals and desktops

The sessions of a project (`shell`: unused, its child being created, usable, hung up, over), the
list of the project (`listed`), linger timers, closes scheduled with `ensure_future` (`doomed`),
where each browser is attached (`at`, `opening`), the display streams (`desk`, `shown`), and two
jobs that take them away: the end of the exam and the close (`job`, `left`, `waits`, `cut`).

| Code | Actions |
|---|---|
| `terminal_ws` | `OpenTerminal` (checks, `_evict_lingering`, the entry in the list), `TerminalStarts` / `TerminalFails` (after `await session.start()`), `Join` |
| `TerminalSession.detach`, `_linger_expired`, `close` | `Leave`, `LingerOver`, `CloseRuns` / `HangUp` |
| `PtySession._wait_exit`, `_on_exit` | `ChildExits` |
| `display_ws` | `OpenDisplay`, `DisplayShows` (after the two awaits), `DisplayEnds` |
| `Registry._close_terminals` | `TakeTerminals`, `HangUpNext`, `HungUp` |
| `DisplayManager._close_clients` | `TakeDisplays`, `CutNext` |
| `end_exam` | `EndExam`, `EndTerminals`, `FinalEval`, `EvalEnds` |
| `_reap_if_idle` | `Reap` (the decision), `ReapStarts` (the close it scheduled begins) |
| `close_project`, `_apply_scan` | `CloseRequest`, `CloseBegins`, `CloseStops`, `StopFails`, `Forget`, `ForgetDisplays` |

The cap per device is folded into the cap per project (the eviction is the same code, run for one
then for the other); `ws.prepare` is taken not to suspend. `SlowOpens` says whether an end, a close or
a join may find something still opening: TRUE is what the code allows.

### `ExamSync`: the exam of one student between the portal and the agents

The portal keeps, per student and lab, the project and what its agent was told (`record`, `synced`:
`Member.projects`), the projects of labs the student lost (`orphans`) and the projects whose retry is
not due (`resting`: `_retry_at`). The instructor and the clock change the exam object (`started`,
`edit`: what tells two results of `exam_payload` apart); a pass of `sync_member` sends it (`at`,
`payload`, `target`, `todo`: the pass makes the object once and loops over a copy of the records).
A record that leaves `Member.projects` during the pass is still called about, and what the pass
notes of it is lost (`dropped`, `Forgotten`). `stored` is what the database holds of it all.

| Code | Actions |
|---|---|
| `Exams.update`, `end_now`, `adjust`, `set_labs`, `tick` | `Edit`, `UpdateLabs`, `SetLabs`, `StartComes`, `ClockStarts` |
| `Exams.observe` (listings, end of a start) | `Observe` |
| `sync_member`, `reconcile` | `PassStarts`, `PutAnswered`, `PutLost`, `RetryComes`, `DropAnswered`, `DropLost` (each with `Proceed`, the rest of the loop up to the next call) |
| agent: `exam_put`, `exam_delete` | `PutArrives`, `DropArrives` |
| `projects_create`, `_stream_creation`, `close_project` | `Create`, `Adopt`, `StartFails`, `CloseAsked`, `CloseEnds` |
| a crash of the portal, then `load` | `Restart` |

`known`, `accepted` and `overlooked` are history: the projects recorded from a row of a project whose
start had ended, those whose agent accepted the last PUT, and those whose record another project of
their lab has taken.

A student has one project of a lab only as far as the portal sees: `projects_create` refuses a second
one if the list of the student's projects has one of that lab, and that list is of the hosts that
answer when it is made. `ListsMiss` says whether it may miss a project. With TRUE, which is what the
code allows, `Create` starts a second project whatever became of the first, and `Observe` takes the
row of either one at any time, so that the record may go back and forth between them. It is TRUE in
`exam_sync` and `exam_sync_live`; what it breaks is the run `exam_sync_hidden`, and the theorems say
what more holds without it.

The other constants exclude what breaks the properties, and section 6 and `hazards` say how:
`ListsCreating` (a project is listed while its start runs; TRUE in `exam_sync`), `LabsReturn` (a lab comes back before its orphan is released, in the database too: a restart
brings back an orphan the last pass forgot and had not written), `StopsFail` (a close fails after
the agent answered 404). `MCExamSync` adds the symmetry of the labs. The agent's own use of the object
is `AgentExam`; the exam deleted, the close jobs and a database that fails are left out.

### `ExamContract`: what an agent promises about the exam of a project

Six actions on three variables: an exam runs, is over, is final (`phase`); it goes back only by being
resumed or removed; a project whose exam is not over is stopped only after an evaluation was tried
(`tried`), and a stopped project (`stopped`) keeps the phase it had, but for an end that the clock
brings. `AgentExam` maps its exam object to `phase`, the history variable `closeTried` to `tried` and
`gone` to `stopped` (`ContractHolds`: the contract as a property of the run). It implements the
contract unless the portal gives the project a running exam while an end is under way (`NotResumed`);
the race of section 6 breaks it otherwise.

### `ExamDelivery`: what the portal promises about an exam object that changes

Three variables: the object the portal wants the agents to have (`wanted`), the one each project has
(`has`), and what the portal notes of the agents that took what they were told (`noted`). `Order` says
which object may have been wanted before which. The wanted object moves forward (`Change`); a call or a
creation brings an agent what it has or a later one, never later than the wanted one (`Deliver`), or
takes the exam away (`Drop`); and with any step the portal may change its notes as it likes (`Note`: a
restart reads older ones back), as long as none is of a later object than the agent has (`Notes`).
`ExamSync` maps its `Wanted` to `wanted`, `held` to `has` and `synced` of the projects in `accepted` to
`noted` (`DeliveryHolds`).

### `Placement`: the portal and a host of its pool

`PoolPolicy` is the policy as pure operators on a sequence of host views (`wake_plan`,
`poweroff_plan` and their helpers). `AgentHost` is the machine, its agent and the starts it was given.
`Placement` composes both with the portal's side: the reservations (`claim`), the status the last poll
gave, the poll under way and its answer, the wake, drain, power-off and restart state of the host.

| Code | Actions |
|---|---|
| `Pool.pick`, `_reserve`, `release` | `Pick`, `Release`, `BrowserLeaves` |
| `Pool.refresh_host`, `_consume`, `_track_restart` | `PollSent`, `PollReceived` |
| agent: `status` | `PollServed` |
| `PoolManager.tick`, `_expire_wakes` | `Tick` |
| `PoolManager.wake`, `power_off`, `restart` | `WakeDone`, `PowerOffServed` / `PowerOffDone`, `RestartServed` / `RestartDone` |
| `api_pool_action` | `ManagerAsked`, `DrainAsked` |
| agent: `projects_create`, `_stream_creation`, `SreRunner._acquire` | `CreateArrives`, `SreStarts`, `SreEnds`, `SreFails`, `WriteFails`, `StrayEnds` |
| agent: `Registry.scan_once` | `SreListed`, `ProjectCloses` |
| agent: `_run_restart`, `_run_power_off`, `_on_startup`, `_on_shutdown` | `RestartRuns`, `RestartFails`, `AgentBack`, `PowerOffRuns`, `PowerOffFails`, `Halted`, `MachineBoots` |
| the deadlines of `HostRuntime` | `WakeTimesOut`, `PowerOffTimesOut`, `RestartTimesOut`, `HoldElapses` |

A reservation released while a poll is under way is `late`: the code compares the instant of the
release with the one at which the poll was sent. The other hosts of the pool are one view that is
always up. The manager has one call at a time; whether the interval between two wakes has passed and
how long a host was idle is a choice in `Tick`; a machine takes longer to boot than the portal to see
it off. Not modelled: the cache of the occupancy and the sessions of a local user, the hosts reserved
to instructors, the exam mode of a host, hosts disabled, added or removed.

### `PortalExam`: a programmed exam in the portal

`ExamClock` holds the arithmetic: `Exam.end_at` and `Exam.phase`, on whole times with `None`.
`PortalExam` keeps the definition and the record of each student in `memory` and in the database
(`stored`), the records to be saved again (`dirty`), the saves under way, each a transaction in a
thread (`saving`), and the requests that read before an await and write after it.

| Code | Actions |
|---|---|
| `Exams.end_now`, `adjust` | `EndNowForAll`, `EndNow`, `AdjustAll`, `Adjust` |
| `Exams.set_labs` | `SetLabs`, `SetLabsForAll`, `SetLabsGoesOn` (the loop of saves) |
| `api_exam_update`, `Exams.update` | `EditChecked`, `EditMade` (the groups are read between them) |
| `api_exam`, `note_seen`, `observe` | `ExamAsked`, `ExamAnswered` (the agents are asked between them) |
| `api_projects`, `api_projects_create` | `ProjectsListed`, `StartAsked`, `Started`, `StartFails` |
| `Exams.dismiss` | `Dismiss` |
| `Exams.tick`, `_retry_dirty` | `TickStarts`, `RetryDirty` |
| `_persist_exam`, `_persist_member`, `ExamStore` | `SaveEnds`, `SaveFails` |
| a crash, then `load` | `Restart` |

Time is counted in one unit, `Lead` and `PreStart` are constants. Of `first_seen` a record keeps
whether it is set (`seen`). A request comes from an address the exam allows or from another one
(`allowed`): from another one `api_exam` and `api_projects` observe nothing, `api_projects_create` is
refused. The address a record keeps is left out, and with it the saves of a record in which nothing
else changed. `Dismiss` has the request that is refused too: `Exams.dismiss` makes the record of the
student before it looks at the phase, and does not save it (`MakeMember`), so that memory may hold a
record the database lacks and no save is to bring. Such a record says nothing (`Contents`), and the
first request that changes it saves it whole.

Left out are also the rows of projects (`ExamSync`'s), the deletion and the purge of exams, and stale
rows of a project list; there is one exam. A restart reads
the database before anything else, and a save writes the record as it was when it began. Two constants
exclude races the code has: `Overlaps` (two requests save one record at once: the older save may end
last, and the database then keeps the older record) and `Newcomers` (a student gets a record while
`set_labs` saves them all: the loop over the dictionary raises and the rest is not saved); with them
`NothingForgotten` and `ClockKept` fail, and `hazards` gives the lines.

### `Presentation`: which presentation a student is shown

The presentations (`running`, `audience`, `here` for the presenters with a page, `absent` for the
grace of the others, `spectators`), the presence sockets (`present`), what each student was told
(`shown`), and their page: the link, the presentation laid over it (`overlay`) and the state of its
frame. A request is a coroutine: it changes something, then goes through the students concerned
(`todo`) and may wait, for one, that the sockets of their page are closed (`waiting`, with what it
found before).

| Code | Actions |
|---|---|
| `Presentations.start`, `set_audience`, `end` | `Start`, `SetAudience`, `End` (a start that replaces one is `End`, then `Start`; a change of the groups is a `SetAudience` that tells whoever is connected) |
| `Presentations.resync` | `Resync`, `SocketsClosed` |
| `attach_presenter`, `detach_presenter`, `tick` | `PresenterComes`, `PresenterLeaves`, `GraceElapses`, `TickEnds` |
| `api_presence_ws` | `PageConnects`, `PageNoticed` (the resync of one student, in one step with the change) |
| `present_page`, `api_presentation_ws`, `attach_spectator`, `detach_spectator` | `FrameAsked`, `FrameConnects`, `FrameNoticed` |
| `base.js`, `project.js` (the page) | `PageOpens`, `PageCloses`, `NetworkLost` |

A message to a page is taken not to wait while one student is told. A student has one page at a time,
whose dead sockets are noticed before it comes back: a second page is never told of a presentation
the first was told of (`hazards`). `crossed` and `lost` are history: the students about whom a request
came while another waited, and those whose network was lost. The first is excluded from the properties
because `resync` then writes what it found before its await over what the other request wrote, and the
documentation's *the newest that includes them* fails (eleven steps suffice); the second from
`WatchersAreIncluded`, since a page cut off when it was left out of an audience goes on showing its
frame. Not modelled: what is shown (the view), the evaluation table, the counts of spectators, the
focus, and a refresh of the directory, which tells nobody.

## 4. What is checked

| Run | Module | Size | Question |
|---|---|---|---|
| `exam_life` | `AgentExam` | 103 368 states | safety of the life cycle, the contract, and that the end, the final evaluation and the close make progress; two restarts, every interval configured |
| `access` | `StudentAccess` | 132 216 states | cut-off, cap, no shell lost, no typist reaped; idle shells end, the cut-off finishes |
| `exam_sync` | `MCExamSync` | 1 112 760 states | what the portal notes is what the agents hold; what it releases is plain; no agent goes back to an older object |
| `exam_sync_live` | `ExamSync` | 11 592 states | changes arrive, orphans are released |
| `placement` | `Placement` | 174 453 states | capacity, no flapping, the host takes projects again |
| `portal_exam` | `PortalExam` | 232 211 states | records survive, clocks end and are kept, phases in order, saves and starts happen |
| `presentation` | `Presentation` | 295 079 states | the newest is shown, watchers are included, abandoned presentations and stale covers end |
| `exam_final_lost` | `AgentExam` | violation | section 6 |
| `exam_resumed_final` | `AgentExam` | violation | section 6 |
| `access_cut` | `StudentAccess` | violation | section 6 |
| `exam_sync_untold` | `ExamSync` | violation | section 6 |
| `exam_sync_hidden` | `ExamSync` | violation | section 6 |

**Properties of `AgentExam`.** `OneCommand`: a coroutine is inside `sre` only with the lock.
`StoppedIsQuiet`: after `sre stop` succeeded nothing runs, those that queued behind it included.
`StateFileCurrent`: the state file is never behind. `FinalMeansEvaluated`: a recorded final
evaluation began after the recorded end and succeeded. `EndStands` (action): only the portal undoes an
end. `MarkedOnce` (action): a final evaluation is recorded on an exam that is over and was not marked
before, so that an end, retried and restarted as it may be, is evaluated once. `ContractHolds`: every
behaviour is one of `ExamContract`, so that a project stopped before its end was evaluated by the close
(`StoppedExamWasEvaluated`, an invariant of its own among the theorems).
`EndIsRun`, `FinalEvalIsDone`, `ClosingEnds` (liveness): each waits for the project lock on its way. That
the lock is never left taken, and who waits is in its queue, is proved (section 5). A close ends with a
stopped project, with one that may be closed again, or dead: `sre` could not be run and `closing` stays
set until the agent restarts (`CloseDies`, `hazards`), which `ClosingEnds` accepts.
All but `FinalMeansEvaluated`, `MarkedOnce` and `ContractHolds` hold with `PutWhileEnding` too (384 240
states; not kept as a run for its length).

**Properties of `StudentAccess`.** `StudentCutOff`: during the final evaluation no student types or
sees. `CapHolds`. `NoShellIsLost`: a shell somebody types into is on the project's list, or its
hang-up is on its way; one that nobody types into lingers, or its close is scheduled.
`TypistsAreNotReaped` (action). `IdleShellEnds`, `CutOffEnds` (liveness).

**Properties of `ExamSync`.** `AcceptedIsHeld`: with no call under way, an agent that took the last
object sent to it, and whose record is up to date, holds the student's object. `DroppedIsPlain`: a
project whose record left with its lab, and that is not an orphan any more, has no exam, even if the
record was of another project of the lab meanwhile. `DeliveryHolds`: every behaviour is one of
`ExamDelivery`. `ChangeArrives`, `OrphansEnd` (liveness). `ToldIsHeld`, `LabGoneIsPlain` and
`UnrecordedIsPlain` (`DroppedIsPlain` for the projects another one replaced in the records, too) are
the wider claims of the documentation.

**Properties of `Placement`.** `CapacityHolds`: whatever polls, starts and releases cross, the host
never has more starts under way and managed projects than its maximum. `NoFlapping`: a host powered
off as idle is not one that would be woken at once. `PlacesAgain` (liveness): no drain, restart, power
off, reservation or failed wake keeps the host from the placement for ever, unless a project that the
agent does not manage stays for ever.

**Properties of `PortalExam`.** `NothingForgotten`: what a record says and the database does
not is being saved or will be. `EveryClockEnds`: a clock that started has an end. `ClockKept` (action):
only a restart before its save takes a clock back. `PhasesGoForward` (action): without an instructor a
student only advances. `StoredInTheEnd` (liveness): what the records say is in the database, again and
again. `ReadyStarts` (liveness): a student whose projects all run starts, if their page is open at an
allowed address; with a page at another address alone, or none, only the tick starts the clock, and
only in an exam with a start.

**Properties of `Presentation`.** `NewestIsShown`: a student no request is about was told of the newest
presentation that includes them, and their page shows it. `WatchersAreIncluded`: nobody goes on
watching what they were left out of. `AbandonedEnds`, `CoverEnds` (liveness): an abandoned presentation
ends, and a page is freed of one that is over, whatever message was missed.

**Bounds.** Everything in `AgentExam` is about one project, and projects share nothing it models; the
machine is finite but for the restarts, which two bound: one to lose a pending evaluation, one to
lose its retry. In `StudentAccess` two sessions are what an eviction, and a hang-up that skips
another's, need; one browser of each kind suffices because clients of a kind only differ by where
they are attached: the student types, the viewer watches. With an instructor, who types into a session
the student shares, the safety properties hold too (1 656 512 states), and with three sessions and a
cap of two (9.9 million); neither is kept as a run for its length, and the proofs cover both.
`ExamSync` needs two labs for a pass
that goes on after a call and a lab that leaves, two projects of one lab for one that takes the record
of the other and gives it back, one change of the object for a record that is behind, and one restart.
That change is the start of the clock, or an edit in `exam_sync_live`: with both, and lists that miss
projects, the run is too long, and the proofs cover every number of edits. One pass
runs at a time (`Passes`): with two that cross on their way to one agent, `AcceptedIsHeld` fails
(`hazards`). The liveness run has one project: an agent answers for each of its own.

`Placement`: two starts and one slot, so that a start, its release and a second start cross one poll;
one slot elsewhere, one to spare and a floor of two hosts, so that the host is sometimes needed and
sometimes not; two events among starts, drains, restarts, halts, requests of administrators and lost
polls, the faults that have to fall together. `PortalExam`: one student and one lab (students share
only the definition, and `set_labs` goes over their records one by one), durations and starts of one
unit, an end at two, one change, one refused save, one restart; the clock stops at two, which is why
the run does not check for deadlock. No start of that instance is far enough away for a student to be
"scheduled" still; the order of the phases is proved for every time (`PhasesAreInOrder`). `Presentation`: one student, whom two requests and the tick tell
of two presentations, with one change of an audience; students share nothing but the order in which a
request tells them. 8.0 million states of the instance with two students, as far as it was searched,
violate no safety property.

**Fairness.** Weak fairness on what the event loop runs by itself (ticks, scheduled coroutines, the
lock's next waiter, timers), on the end of `sre` commands (they have timeouts) and on the exit of a
child whose master is closed (it is killed after a grace). Strong fairness only on the success of
a final evaluation: it is retried every minute for ever, and `FinalEvalIsDone` is about the retry
loop, not about a command that never works. In `ExamSync` the reconcile hook runs for ever and the
delay of a retry passes (weak), and a call repeated for ever is answered in the end (strong): the
claim is about the retries, not about a host that never comes back. In `Placement` the loops of the
portal, its timers, `sre` and the agent are weakly fair; strongly fair are a tick in the active hours
that acts, a wake command that works, a machine woken again and again that boots and one told again
and again to stop that does, and the hold of a restart, whose instant is only compared between two
polls. In `PortalExam` the tick of each student and their page, open at an
address the exam allows (`Page`), are weakly fair, and the saves as a whole: one that can go on does, in any order. In `Presentation` the steps of a request, the grace,
the tick, the frames and the network are weakly fair; a socket that opens or is found dead needs a
free request slot, which is a bound of the model and not of the code, hence strong fairness there.
Nothing is assumed of users, of instructors or of restarts.

Each property has a seeded fault (`mutants` in `PROJECT.json`): an operator beside the one it
replaces, with the bug written in, under which TLC finds the property violated.

## 5. What is proved

All proofs are for arbitrary values of the constants, bounds included.

`AgentExamProofs` proves `Spec => []TypeOK` (`TypeCorrect`), one step per action.

`AgentExamSafety` proves the safety properties of `AgentExam`. None is inductive alone. The argument:

- `LockInv` says where the coroutines are: who holds the lock is exactly the one inside `sre`, who
  waits is exactly in the queue, once (`QueueInv`).
- `BehindClose` and `FlagInv` tie the flags to the places: while a close waits or runs, `closing` is
  set, and the final evaluation of an end that runs has `ending` set.
- `CloseInv` and `LifeInv` add what a stopped project looks like: `closing` stays set, so a waiter that
  is granted the lock afterwards finds it and leaves. `OneCommandCorrect` and
  `StoppedIsQuietCorrect` follow.
- `ExamMoves` says how one step may change the exam: not at all, by the passing of time, by an end,
  by the mark of the final evaluation, or by the portal. `StateFileCorrect` and `EndStandsCorrect` come
  from it, `StoppedExamCorrect` from it and `Decided` (what the close decided and has not
  finished doing).
- `EndInv` follows an end that is under way (`Ending`: from `ended_at` to the return of `sre eval`): the
  exam, if the project still has one, is over and not final, and the evaluation that runs began after
  the end. It is not inductive as the code is: a resume makes the exam run under the end (section 6).
  The theorems that need it therefore suppose `NotResumed`, an action formula over the behaviour and
  not a constant: no step makes an exam run while an end is under way. What the portal may still do
  meanwhile, remove the exam, move its end in the past, send it again, is covered by the proofs.
  `FinalEvalCorrect` and `MarkedOnceCorrect` follow; `LeftAloneCorrect` shows that a portal which changes
  nothing during an end (`~PutWhileEnding`, as in the run) meets the supposition.
- `DecidesOnce` says that `HungUp` is the one place where a close decides whether to evaluate, and
  `FinalStays` that only the portal takes a mark back. `StoppedIsEvaluated` follows: if no close decides
  while a final evaluation is owed (`Owed`), every exam that is stopped was evaluated, by its end or by
  the close. The loss of section 6 thus has that one cause.
- `FlagsAttended` and `WaitersQueued` are the converse of `FlagInv` and `QueueInv`: a flag is up only
  while the coroutine that takes it down runs, and who waits is in the queue. `NothingIsStuckCorrect`
  follows: what is owed is due, under way, or waits for a timer that runs. It is the part of the
  liveness properties that is about states, and it is proved for every constant; that what is due then
  happens is fairness, and stays with TLC.

`AgentExamContract` proves that `AgentExam` implements `ExamContract` (`ContractCorrect`, with
`NotResumed`). `ExamMoves` and its like for the close say what one step may change; a step of the
agent moves the exam or the close, never both, and is a step of the contract or a stutter.

`AccessProofs` proves the safety properties of `StudentAccess`, all but `AccessTyped` and `CapCorrect`
with `~SlowOpens`. The inductive invariant `AccessInv` has one part per way a session can be lost: one
not yet born is listed nowhere and has no client (`UnbornInv`), one that is opening waits for its
browser, which types nowhere else (`OpeningInv`), one that is hung up stays so (`ClosedInv`), one that
lingers has no typist (`LingerInv`), one without a typist lingers or is about to be closed (`IdleInv`),
one somebody types into is on the list or with the job that took it (`HeldInv`); likewise the streams
(`ShownInv`), and where the two jobs are (`JobInv`, `OverInv`). `WaitsEnd` adds that a job that waits
for a child waits for one that was hung up, which is what makes `CutOffEnds` a matter of fairness only.
`NobodyReturnsCorrect` (from the end of the exam until it is put on again, a student gets no shell and
no stream that he did not have) needs no more than `AccessInv`: the only ways into a shell or a stream are an
opening that ends, of which there is none once the exam is over (`OpeningInv`, `OverInv`), and `Join`,
which looks at the exam; instructors included, which the run leaves out.

`PlacementProofs` proves `PlacementTyped` and `CapacityCorrect` for every number of starts, maximum
and policy. A start is in the hands of an open reservation until the agent manages its project
(`StartsInv`); the number the portal has (`CountInv`) counts every managed project and every
reservation, and so will the answer under way, which counts every managed project whose reservation it
will make the portal forget. A placement therefore happens only when there is room.

The rest of `PlacementProofs` is about the policy alone. `PolicySettles`: for every pool, a shared host
powered off as idle leaves nothing lacking, so that `wake_plan` wakes none; `WokenIsKept`: a host
`wake_plan` chose is not the one `poweroff_plan` takes once it is up and the others are as they were.
The two plans thus never undo each other, and `NoFlappingCorrect` follows for the pool of `Placement`.
Both rest on what one host more changes (`OneHostLess`), hence on the sum of a function over a finite
set not depending on the order of the fold. That is an induction, made over the *set* of the sizes for
which the fact holds (`SizesInduct`, from the well-founded order of the naturals), which needs no
operator for a parameter: `SumAny`, `SumSame` and `SumType` are proved that way from the definition of
the fold. The idle times, and which of several idle hosts goes first, do not matter.

`PortalExamProofs` proves `TypeOK` and, for every time, clock and bound, `EveryClockEnds` (`LimitInv`:
every copy of the definition, in memory, in the database, in a save or in an edit, has a duration or an
end) and, with `~Overlaps` and `~Newcomers`, `NothingForgotten` (`SavesInv`: a save under way writes
what is in memory, but for a record `set_labs` has still to save; a record that a refused dismissal
made is the one thing in memory that no save is to bring, and `MemberMade` says it is all that changes),
`ClockKept` and `PhasesGoForward`.
The last rests on what a step may change (`Steps`) and on lemmas about `Phase` alone: it grows with the
clock, with a start, with a dismissal, and not with anything else a student does.

`PresentationProofs` proves `TypeOK`, `NewestIsShown` and `WatchersAreIncluded` for any number of
students and requests. `ShownInv` is about one student at a time whom no two requests crossed about: a
request that waits for the sockets of the student found what is still true of them (`WaitInv`), so that
they were told of their newest presentation once no request is about them (`RestInv`), and their page
follows (`AbsentInv`, `PageInv`, `CoverInv`); `RequestInv` says where the requests are. A step is the
turn of the student, or tells whom it changed the newest of, or leaves the student alone. That a newest
presentation exists is the well-founded order of the naturals. `AbandonedAlone`: the grace of a
presenter runs or is over exactly while they have no page, so that the tick ends abandoned
presentations only.

`ExamSyncProofs` proves `TypeOK` for any passes, and for one pass at a time (`OnePass`) with
`~LabsReturn` `AcceptedIsHeld`, and with `~StopsFail` too `DroppedIsPlain`; `ListsCreating` may be
either. The exam object only grows (`AtMost`): what is noted of an agent that took the last object is
at most what it holds, which is at most what the portal wants (`HeldInv`), so that all three are the
same once the note is up to date. That needs that a pass sends nothing older than any note, in memory
or in the database (`PassInv`), that only recorded projects have notes (`NoteInv`), and that a project
to release belongs to a lab that is gone (`LabInv`). For the release, `ReleaseInv` adds that a pass
only calls about projects the portal has to do with or whose record another one took, and that the
project of a DELETE that arrived is plain until its answer (`CallInv`); a project whose record left with
its lab is an orphan, not managed any more, or plain (`PlainInv`). One whose record another project took
may be none of these. Only where the lists miss no project (`~ListsMiss`) are the older
projects of a lab over once the next one started (`InTurnInv`), and the release holds of all of them:
`ReleasedIsPlain` states both.

`DeliveryCorrect` proves that `ExamSync` implements `ExamDelivery`, with `OnePass` and `~LabsReturn`
(two passes that cross, or an orphan the database brings back, do undo a delivery: `hazards`). Most
steps of the portal and of the agents are a `Note`; the clock and the edits a `Change`, a PUT that
arrives, a creation adopted or listed a `Deliver`, a DELETE that arrives or a close a `Drop`. That what
is delivered is between what the agent has and what is wanted is `HoldInv`: what an agent holds, or a
project is about to be born with, was wanted and is no later than the object a pass carries over its
awaits. The condition on the notes is `HeldInv`.

The claims of the documentation that section 6 refutes are theorems where their cause is
excluded. `ToldCorrect` (also with `~ListsCreating` and `~StopsFail`): `TellInv` says that the portal has
to do only with projects that began, and that what it noted of one that is still managed was taken
there, for an agent answers below 500 without taking the object only before a project is managed or
after it began to close. What was taken and is up to date is held (`HeldInv`), even while another call
is under way (`BehindIsDue`). `LabGoneCorrect`: if labs change by `set_labs` only (an action formula
again), every record is of a lab of the student (`RecordInv`), and what is not recorded any more is
released (`ReleasedIsPlain`), but for the projects another one replaced in the records (`LabGoneApart`);
with `~ListsMiss` the claim of the documentation holds as it stands (`LabGoneIsPlain`).

The proofs assume what the modules declare and nothing else: the types of the constants (`ASSUME` in
`AgentExam`, `StudentAccess`, `ExamSync`, `PoolPolicy`, `AgentHost`, `Placement`, `ExamClock`,
`PortalExam`, `Presentation`), and, where a theorem says so, the constants or the action
formula that exclude a race which the code has and `hazards` locates.

Only model-checked: the liveness properties. Fairness and `ENABLED` are out of the prover's reach; what
they need of the states is proved for the agent, its terminals, the records of the portal
(`NothingForgotten`) and the presentations. All safety and action properties of the passing runs, and
both refinements, are theorems.

## 6. Where the code and its documents disagree

- `exam_final_lost`: `close_project` says that a project closed after the end "got its final evaluation
  already" and skips its own. A close that takes the lock between `ended_at` and the final evaluation
  (an instructor's, or the halt of the machine) stops the project unevaluated. It is the only way to
  that loss (`StoppedIsEvaluated`).
- `exam_resumed_final`: `end_exam` writes `final_eval_at` after an await on whatever exam the project
  has by then. If the instructor resumed the exam meanwhile, the running exam is marked finally
  evaluated; should the evaluation at its new end fail, it would not be tried again. Without such a
  resume the mark always means what it says (`FinalEvalCorrect`, `MarkedOnceCorrect`).
- `access_cut`: the cut-off closes what is open. A terminal whose child is being created, or a desktop
  whose server is being reached, opens afterwards and is there during the final evaluation. If nothing is opening the cut-off is
  complete and stays so (`CutOffCorrect`, `NobodyReturnsCorrect`).
- `exam_sync_untold`: the documentation has the portal repeat the PUT "until the agent has it". The
  portal stops at any answer below 500. A project whose start still runs is listed already, refuses
  the PUT (409), and is adopted with the object of its creation, in which the clock of the student
  may not have started; nothing corrects it until the object changes again. A listing without such projects
  would make the claim true (`ToldCorrect`).
- `exam_sync_hidden`: the documentation has the portal drop the exam of a project whose lab is "no
  longer the student's". A student whose host is out of reach may start a project of the same lab on
  another one, for the check of `api_projects_create` sees the hosts that answer. `Exams.observe` then
  records the second project and forgets the first, without an orphan. When *Change labs* takes the lab
  away, the DELETE goes to the second only; once its host is back, the first has its exam and is told
  nothing more. A project that had the record when its lab left is released (`ReleasedIsPlain`).

The same claim fails in a plainer way: *Edit*, which replaces the labs of an exam as *Change labs* does
(`Exams.update`, exams.py:657), makes no orphans, and a project of a lab that an edit took away keeps its
exam and goes on being told of it. With `UpdateLabs` in `Next` TLC finds `LabGoneIsPlain` violated by it;
no run is kept for it. Where only *Change labs* changes the labs, and the lists miss no project, the
claim holds (`LabGoneCorrect`).

Other places where the code is exposed and no run shows it yet are listed in `hazards`.

## 7. What is not modelled

Planned and left (section 2): the focus of the portal, display numbers, runner limits, the answers
file, the archive index. In `AgentExam` and `StudentAccess` the portal appears as requests that may
come at any time; what each modelled component leaves out is said in section 3.

Left out: authentication and sessions, groups, the collection of archives, the access log and its
statistics (decisions on one request, files, SQL), the RFB filter and the parsers (sequential, on
bytes), the flow control and the early input of terminals, the SVG and PDF views, the Qt GUI and the
command line but for what the agent sees of them. Most of the repository by its length is the labs and
their helper libraries (`lab`, `lib`): scripts that describe networks and grade answers one command
after another, with no state of their own that outlives a command.
