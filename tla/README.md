# TLA+ models of ccc

`ccc listen` is a single Go daemon (SQLite in WAL mode, one database per
instance) that turns a Telegram private chat and paired phones into a
dispatcher ("General") and a set of worker sessions, each driven by a
command-line engine (claude, codex, grok). This directory holds TLA+ models of
its control logic, the TLC instances that check them and TLAPS proofs about
them. `PROJECT.json` maps every definition to the lines it translates.

Paths below are relative to the repository (`src/`).

## 1. Inventory

### 1.1 Processes and goroutines

| Actor | Started at | Survives a crash of listen |
|---|---|---|
| `getUpdates` goroutine: one Telegram update at a time | `listenv3.go` listenV3, last | no |
| hub client goroutine: one phone RPC at a time | `listenv3.go:211`, **before** recovery | no |
| one loop goroutine per session | first `kick` of the session | no |
| scheduler goroutine (watches, schedules, idle, maintenance, jobs) | after recovery | no |
| one watcher goroutine per background job | claim or reattach | no |
| engine processes, with `ccc mcp` as a child that writes the database directly | `Runner.spawn` | no (killed with the group) |
| background job wrappers (`setsid`) | `runBackgroundJob` | **yes** |
| hub server (`ccc hub`), a separate daemon | by hand | yes |

Nearly everything shared between them is rows: there is no cross-table transaction in
the turn path, each `db.Model(..).Update(..)` commits on its own. That is the
source of most of what is hard here: **one step of the model is one committed
write, or one in-memory synchronisation**, with the reads that precede it.

### 1.2 Components

| Component | State | Operations | Talks to | What is hard | What makes it correct | Status |
|---|---|---|---|---|---|---|
| Turn runner (`runner.go`) | `turns`, `bots.status`, `Runner.active`, a 1-token wake channel per session | Enqueue, kick, loop, foldQueue, execute with up to 3 spawns, Stop | everyone enqueues; engines through pipes | several writers of one row, stale reads before writes, crash between the writes of one operation | at most one running turn per session, in order; no input lost but in a crash, none run under two turns; no running row nobody finishes; every queued turn served | modelled but for prompts and output streams |
| Boot and recovery (`listenv3.go`) | the rows left behind | requeue running rows, reset session status, reattach jobs, arm queues | runner, scheduler, hub client | recovery is concurrent with the phone | every interrupted turn is retried, under its id | modelled |
| Telegram handlers (`listenv3.go`) | none of their own | deliver, callbacks, /stop and the other commands | runner, questions, access | act on rows read earlier | see the runner | partly |
| Questions (`mcp.go`, `hub_client.go`, `listenv3.go`) | `questions`, `bots.status = waiting` | ask_owner, answers by text, tap, reply or phone | runner | two front ends answer; the parked flag is derived from a count | one answer per question; parked only while a question is open | modelled |
| Session rows, archiving (`store.go`) | `bots` | archive, unarchive, status | runner, jobs, watches | does not stop the running turn | nothing stays running; no job is left behind | modelled but for names |
| Background jobs (`background.go`) | `background_jobs`, artifact files, wrapper processes, `bgRuntime.handles` | queue, cancel, claim under a cap, start, watch, reattach twice, finish, wake | scheduler, runner, archiving | processes outlive the supervisor; pid known late; several finishers | cap holds; one verdict, one wake, equal to it; no unsupervised process; every job settles | modelled |
| Access (`access.go`) | `access` table | pairing of strangers, owner's decisions | Telegram handlers | codes expire, old buttons stay in the chat | bounded replies, a block stands | modelled |
| General's 60 s cap (`chief.go`, `runner.go`) | follow-up turns, the inbox | timer, notice turn, automatic hand-off to a worker | runner, inbox | the notice may time out as well; General may have handed over itself | a request that timed out is handed over once | modelled |
| Inbox and owner relay (`botmsg.go`, `runner.go`) | `inbox` | instructions, reports, idle reminders; create/mark pair, relabelling, fallback | runner, scheduler | two writes; three kinds of deliverer; a merge overtakes the label | delivered, and once but for a crash; a report reaches the owner | modelled but for quiet messages |
| Scheduler (`scheduler.go`) | `watches`, `schedules`, idle sessions | due watches, expiry, due schedules, idle rotation | runner, tools | rows change while a watch's command runs; enqueue and roll-forward are two writes; many make a session idle behind a question | no change goes unreported; a due time fires, once; an idle rotation spares an open question | modelled but for cron arithmetic |
| Routines (`routine.go`) | schedules that own a worker | create, fire, reuse worker | scheduler, runner | reuses a session in any state | the firing runs | partly (not the parsing) |
| Accounts, failover, usage (`profiles.go`, `account.go`, `runner.go`, `usage*.go`) | `config.json` and the daemon's copy, sandboxes, needs-login marks, cool-downs | add, remove, default, login, doctor, `ccc profile`, the attempts of a turn | runner, scheduler, a second process | five writers of one file and its copy; marks and attempts are by a key that may change | no account is lost; a turn does not return to one that refused it; a usable one does not stay benched | modelled but for usage and ranking |
| Login and secret capture (`account.go`, `secrets.go`, `ptyflow.go`, `enginelogin.go`) | the pending login and secret of the chat | start, answer, cancel, replace, time out | handlers | who owns the owner's next message; redelivery | a secret never becomes a turn's input; a login gives way | modelled but for the engines' screens |
| Secret vault (`secrets.go`) | one file and its lock | set, remove, resolve, run a command and redact | daemon, `ccc mcp` processes | read-modify-write by several processes | no lost update; no value in an output | modelled |
| Daily maintenance (`maintenance.go`) | `memories`, `memories_archive`, last-run setting | compact, restore, age archives | scheduler, `ccc maintain` | minutes between list and transaction | no memory lost | modelled but for trimming of turns and logs |
| Hub client (`hub_client.go`, `hub_file.go`) | the connection, uploads, what was announced | reconnect, begin, chunk, commit, collect, announce, withdraw | runner, hub | lost and repeated requests, collection in between, restart | a committed file is complete and is delivered once; the phones see the open questions | modelled but for roster, history and outgoing files |
| Hub server, pairing (`hub_server.go`, `hub_pair.go`, `hub_mux.go`, `hub_proto.go`, `hub_crypto.go`, `hub_privacy.go`) | connections by key, codes | register, replace, forward, offer, pair, unpair | hub clients, phones | an old socket may register after the new one | the daemon stays reachable | modelled but for encryption and framing |
| Session panel, progress (`sessionpanel.go`, `progress.go`) | one pinned message | edit, move, retire | runner, jobs | edits from many goroutines | at most one panel | not modelled |
| Memories and projects (`store.go`, `mcp.go`) | `memories`, `projects` | one statement each | engines, maintenance | compaction in between | see maintenance | remember and forget |
| MCP tools, CLI twins (`mcp.go`, `commands.go`, `engine_mcp.go`, `agents.go`) | none | calls on the rows above | all | the tools that matter are actions of the other models | - | partly |
| Engine arguments, prompts (`engine.go`, `prompt.go`) | none | pure text | runner | none | - | not modelled |
| Telegram transport, rendering (`telegram.go`, `markdown.go`, `helpers.go`) | rate limiter | HTTP, text | all | none of the protocol's | - | not modelled |
| Configuration, service (`config.go`, `envfile.go`, `service.go`, `paths.go`, `main.go`, `profilecmd.go`) | `config.json` | load, save, `ccc profile` | accounts | two processes, one file | see accounts | load, save, `ccc profile` |
| File relay, voice (`relay.go`, `whisper*.go`) | one stream per token | copy bytes, call a program | - | - | - | not modelled |

The full list of hazards, each at its line with the properties that would catch
it, is `hazards` in `PROJECT.json`.

## 2. Modules

| Module | What it is |
|---|---|
| `TurnRunner.tla`, `MCTurnRunner.tla` + 3 cfg | the turn queue with everything that writes to it: the session loops, the Telegram, phone and machine handlers, questions, /stop, archiving, process death, recovery |
| `TurnRunnerProofs.tla` | type correctness, no running row without an owner, done is final; no input lost, no wake-up lost, one running turn, in order, no input under two turns |
| `BackgroundJobs.tla`, `MCBackgroundJobs.tla` + 2 cfg | job supervisor, wrapper processes, artifacts, cancels, archiving, crashes |
| `BackgroundJobsProofs.tla` | type correctness, the cap, a verdict is final, one wake with the verdict, what is done is reported, no process without a supervisor |
| `InboxRelay.tla`, `MCInboxRelay.tla` + cfg | messages between sessions, the relay of reports to the owner, and General's time-out with its hand-off, on a session loop cut down to the writes that touch messages |
| `InboxRelayProofs.tla` | types, one delivery, one report per turn, what is marked is heard, one hand-off |
| `Access.tla`, `MCAccess.tla` + cfg, `AccessProofs.tla` | pairing state machine, its instance, its proofs |
| `Scheduler.tla` | the scheduler's tick over one session's watch, schedule and conversation |
| `Housekeeping.tla`, `MCHousekeeping.tla` + cfg | extends `Scheduler` by the daily maintenance it starts |
| `HousekeepingProofs.tla` | types, baselines, firings, open questions and rotation, memories |
| `Accounts.tla`, `MCAccounts.tla` + cfg | the registry of accounts, its writers, and a turn that fails over |
| `AccountsProofs.tla` | types, a turn does not return to what refused it, no account is lost |
| `Hub.tla` | the hub, the daemon's connection, pairing codes, announced questions |
| `Uploads.tla`, `MCHub.tla` + 2 cfg | extends `Hub` by the upload of files, which the same read loop handles |
| `FileDelivery.tla` | the abstract promise of an upload, which `Uploads` implements |
| `UploadsProofs.tla` | the refinement, for any number of uploads and pieces |
| `Capture.tla`, `MCCapture.tla` + cfg, `CaptureProofs.tla` | who gets the owner's next message, and the vault; its instance, its proofs |

Operators whose name ends in `Mutant` are the plausible bugs the properties are
calibrated against (`mutants` in `PROJECT.json`); no specification uses them.

### 2.1 TurnRunner and the code

*Rows.* `tstatus`, `tbot`, `tinput` are the columns of `turns`. An input is
identified with the row created for it, and `tinput[t]` is the set of inputs
whose text row `t` holds: a singleton at `Enqueue`, a union once `execute`
stored the combined text. `bstatus` and `archived` are `bots.status` and
`archived_at`; `qbot` and `answers` stand for `questions`, `answers` counting the
writes of `answered_at` so that a second one is visible.

*A loop goroutine* is a program counter `pc[b]` with the locals of `runNext` and
`execute`:

```
absent --kick--> select --token--> check --> fold --> merge* --> mark --> attempt <-> run
                   ^                 ^                                      |          |
                   |  parked/empty   |                                      v          v
                   +-----------------+<---------- park <--- look <--- [inject] <---- end
```

`check` reads the session row, `fold` the queued rows (after the debounce wait,
during which anything may happen), `mergeExtra` closes one merged row per step,
`startTurn` writes the carrier, `markRunning` the session, and so on down to
`parkOrIdle`, which writes a status computed one step earlier. `engineExit` has
one disjunct per class the turn may get; retry classes return to `attempt` while
attempts are left (which account each one takes is `Accounts`'), and `noEngine` is the exit when no account is left or the
process does not start.

*Handlers.* Each of the three sources of calls handles one call at a time:
`Telegram` (getUpdates), `Phone` (hub client), `Backend` (scheduler, job wakes,
inbox delivery and MCP tools, of which the model lets one run at a time). A
handler reads rows in its first step (`Begin`) and acts on them in later ones,
which is how stale reads get into the model.

*Crash* forgets loops, handlers, tokens and `active`; rows stay. `listInterrupted`,
`requeueInterruptedTurn`, `resetBots`, `armQueues` are recovery in the order of
`listenV3`. `Listening` says which handler is live when: the phone from the
start, the scheduler before the queues are armed, Telegram last.

*Abstractions.* Session ids, prompts, replies, the progress message, accounts and
the class of a retryable error are left out; whether the 60 s timer fires and
whether a notice is due (it depends on the source of the input and on hand-offs
the model made) are choices. `answered_at` of a question is written by the model
of `resolveQuestionAnswer` only. `MaxTurns` and `MaxQuestions` bound rows: a
handler starts only if there is room for what it will create (`Room`).

### 2.2 BackgroundJobs and the code

A job is a row, a wrapper process (`proc`), two artifact files and at most one
goroutine (`wpc`): `runBackgroundJob` (start, pid, adopt) and then
`watchBackgroundJob` (poll, finish, wake, drop). The scheduler goroutine is
`phase` with the list it iterates over (`todo`) and the job it is about to claim
(`pick`), as those are stale by the time they are used. `handle` is
`bgRuntime.handles`, whose first entry wins (`adopt`). `cancel_background` and
`archiveBotRow` are the two other writers. The wrapper writes its pid first,
`exit.code` last; it may be killed by somebody else in between.

*Abstractions.* Pids do not get reused; SIGTERM ends a wrapper at once and the
later SIGKILL is not needed; the wrapper writes its first line before a restart
of listen gets to its list of running jobs (`reattachList`); `expired` stands for
the deadline column against the clock.

### 2.3 Access and the code

One row per stranger and the counter of codes minted. Handlers are atomic since
one goroutine handles one update at a time and the table is written by no one
else; what interleaves is time (`expire`) and buttons posted earlier, which is why
`approveByCode` takes any code ever minted.

### 2.4 InboxRelay and the code

A message is a row (`mfrom`, `mto`, `relay`, `delivered`, `mturn`); `tmsgs[t]` is the set of
messages whose text a turn's input holds. Delivering is two writes, `deliverCreate`
and `deliverMark`, run by a session's loop at the end of `execute` (its own
messages), by the boot pass (all) and by the scheduler (the reminder it has just
queued). `mergeExtra` and `relabel` are the two writes of one iteration of
`foldQueue`. The loops go round on their wake token, so that a row created but not
yet kicked is run only when something else wakes its session.

`heard` collects the reports the owner got: General's own text counts for every
report its input held, and `fulfillOwnerRelay` for those labelled with its turn.

*General's cap.* A turn of General may end `late`. `ensureChiefTimeoutHandoff` then decides, as
`persistChiefTimeout` does, whether a session is started with the request (its first message
is a row of the inbox like any other) and whether the notice is queued (`followUp`); after a
turn that had the notice and got done it looks again. Whether the request "was handed over" is, in the code, a count of
messages of General since an instant, so instants are kept as that count: `tcreated`
and `tstarted` are what the count was when the row was created and started. A session may
fail to start (`refused`).

*Abstractions.* `TurnRunner` has the turn path; here a turn leaves a text, leaves none, or
is late, recovery is one step, questions and archiving are absent, and inputs of the
owner start after the boot pass. Messages that do not wake are left out. A new session is a
worker that has not run yet. Time-outs and process deaths do not meet in one behaviour (a bound in `endTurn`
and `crash`): a crash between the two writes of `persistChiefTimeout` loses the second.

### 2.5 Scheduler, Housekeeping and the code

`pc` is the scheduler goroutine in its tick (`scheduler.go`, `Run`), `row` the row it read
and works on while the tools of the sessions (`Tools`) change or remove the rows; a write by
id reaches the row only while it is there (`Reaches`). There is no clock: an
interval, a lifetime, an idle hour and a due time *pass* as actions of their own (`Time`),
and leave a mark on the row. What a watch's command prints is the pair of the command and what it
sees, so that an old command's output is told from a new one's. Histories say what
the session was told (`known`, `report`) and how often each due time fired.

A tick may touch one worker session, and `loop` is where that session's loop is in a turn: `fold` after `runNext` has read
the session, `turn` while an attempt runs, `name` and then `park` or `free` in the last writes of `execute`. `resume` and `renamed` are
what the loop keeps from its first read (`b.SessionID`, `nameAtStart`), `conv` is `bots.session_id`. Every write of the code that
empties a worker's `session_id` is an action: the scheduler's rotation (`rotate`), the one at the start of an attempt (`startTurn`,
`retry`), a lost transcript (`sessionLost`), a rename by tool or phone and its effect at the end of the turn (`renameBot`, `rotateRenamed`), and the firing of
the routine whose worker the session is (`routineWorkerBot`; `worker` is whether its name is that one). So is every write
of its status: start and end of a turn, an answer, archiving, reopening, firing, restart.
`asked` says that some question is open; the history `raced` marks the window of `compactIdleSessions` between its look and its conditional update, in which
someone makes the session idle. A wake-up belongs to the session, a routine to the session or to General (`mine`).

`Housekeeping` adds the memories of one scope and two passes over them: the one the tick
starts once a day on a goroutine of its own, and `ccc maintain`. A pass lists the
memories, has a model shorten the list (any part of it of an accepted size comes back) and swaps the scope in
one transaction, with `remember`, `forget` and `/memory restore` in between.

*Abstractions.* One watch, schedule and scope at a time: each row is handled by itself. There is one routine name, and one
session whose questions are told apart only by whether any is open. An answer and the status it writes are one step, and so are the
reopening and the emptying of a routine's worker when both succeed. What is queued for the session is left to `TurnRunner`: `runNext` may find
something whenever the status allows it. A restart and its recovery are one step. /stop, /new and /engine reach General only (`listenv3.go:899-926`), which is never rotated.
Cron arithmetic is "it falls due again". The size limits of the compacted list are those of the code in
entries, not in characters. The tick's other duties are in `BackgroundJobs` (jobs), `InboxRelay`
(idle reminders) and `Accounts` (doctor).

### 2.6 Accounts and the code

`file` is `config.json`, `mem` the daemon's copy. `Writers` are the goroutines of the daemon
that change both: the doctor (every tick), the owner's handler and a login; `cli` is a `ccc profile`
process, which loads, works and saves without a lock. `updateConfig` reads, changes and
writes the file in one step under its lock, and the copy in memory follows in
another (`setConfig`). A turn takes an account (`pickAccount`) that is neither tried nor
marked, runs, and on a refusal marks it (`authStale`) or notes its limit (`rateLimited`) and goes
round. Keys are renamed when an address becomes known (`reKey`), and the turn's and the
marks' keys are then old ones, as in the code.

*Abstractions.* One engine; what ranks candidates (usage, cool-down, load) is a choice among
them. A sandbox is logged out, good, or stale: it looks logged in and refuses turns. A restart ends the turn,
and with it the history of its refusals.

### 2.7 Hub, Uploads, FileDelivery and the code

Sockets of the daemon are numbered; the hub serves each in a goroutine, so that the first
frame of a dead one may be read after that of its successor (`register`, `leave` test as `handleWS`
does). `fileLoop` is a second goroutine of the client: it compares the open questions with those last sent and
pushes the difference (`compare`, `pushEvents`), while the read loop answers requests. `Uploads` adds `put_begin`, `put_chunk`, `put_commit`, step by
step, to that read loop and the collector to `fileLoop`. Requests are whatever the phone may send, in any
order and again; replies may be lost.

`WholeFile` is `FileDelivery!Spec` under the mapping `have <- disk` and `fate <- Fate(u)`: an upload is
"open" while it has an entry or a commit of it is being handled, "delivered" once its
turn is queued, else "dropped".

*Abstractions.* Encryption, pings and deadlines (a dead socket is noticed sooner or later); phones have
one connection; what is in a piece. A queued turn's file name and text are `TurnRunner`'s input.

### 2.8 Capture and the code

`update` is what `getUpdates` returned and has not confirmed; `handleMessage` offers it, in the
code's order, to the login that waits for a code, the secret that waits for its value, and then to
commands and sessions (`hand` is where it is). A login is a goroutine: URL, code,
verification, end, with its ten minutes (`loginTimeout`); another login, a cancel and a command abort it. The vault is a file rewritten as a
whole under a lock by the daemon and by `ccc mcp` processes (`withSecretsFile`, `writeSecretsMap`); `runWithSecrets` reads a value,
runs, and redacts the output with what it injected and what the vault holds then.

*Abstractions.* A text is a number; a session "sees" numbers. Values are long enough to be redacted (shorter than
`redactMinLen` they are not). What the engines' own login programs print is external.

## 3. What TLC checks

Each run ends within five minutes on two cores. "v" marks the run whose property must fail: it
demonstrates a finding (section 6).

| Run | Instance | What it shows |
|---|---|---|
| `general` | General, Telegram + backend, 3 rows, 1 question, 2 spawns, 1 crash | `OneRunningTurn`, `RunningIsOldest`, `ExecutedByOneTurn`, `LostOnlyInCrash`, `DoneIsFinal`, `TypeOK` |
| `worker_phone` | a worker, phone + backend, 3 rows, no question, 1 spawn, 1 crash, archive and unarchive | `NoZombieTurn` with the phone live during recovery |
| `live` | General, all three handlers, 2 rows, 1 question, 2 spawns, 1 crash, fair, no /stop | `QueuedTurnServed`, `NoLostWakeup` |
| `archive` | 1 job, 2 crashes, 2 cancels, 2 archivings | `WakeTellsVerdict`, `VerdictIsFinal`, `TypeOK` |
| `jobs_live` | 2 jobs, cap 1, 1 crash, no cancel, fair | `RunningCap`, `FinishIsReported`, `EveryJobSettles`, `NoOrphan` |
| `relay` | General and a worker, 1 input, 2 messages, 6 rows, time-outs or 1 crash, fair | `DeliveredOnce`, `MarkedReportHeard`, `HandedOverOnce`, `OneReportPerTurn`, `EveryMessageDelivered` |
| `pairing` | 3 strangers, queue of 2, 2 replies, 5 codes | `RepliesBounded`, `BlockStands` |
| `daily` | 2 commands of 2 outputs, a watch or a schedule with a conversation, 2 firings, 3 events; 3 memories, 1 day, fair | `BaselineKnown`, `ChangeOfOneCommand`, `FiredOnce`, `DueFires`, `RotationSparesQuestion`, `MemoriesKept`, `HousekeepingTypeOK` |
| `accounts` | 2 addresses, 2 sandboxes, 1 turn of 2 attempts, 1 event, fair | `RefusedOnce`, `AccountStays`, `NotBenchedForever` |
| `capture` | 2 secrets, 1 mcp process, 2 topics, 3 texts, 3 events, fair | `ValueStaysOut`, `OneNamePerWrite`, `LoginEnds`, `CaptureTypeOK` |
| `hub` | 1 phone, 1 code, 1 question, 3 sockets, 2 uploads of 2 pieces, 2 events, fair | `WholeFile`, `Reachable`, `AnsweredWithdrawn` |
| `pair_offer` v | the same with one upload of one piece | `AdvertisedUntilExpiry` fails |

`OneRunningTurn`, `RunningIsOldest` and `ExecutedByOneTurn` are claimed for `general` only: with the
phone live before recovery they do not hold (section 6).
`NoOrphan` is claimed with no archiving (`jobs_live`), for the reason in section 6. `HandedOverOnce` leaves out a
request whose turn also holds the notice of an earlier one (section 6.2).
`FinishIsReported`, `DeliveredOnce`, `MarkedReportHeard` and `HandedOverOnce` speak of a process that has not been
restarted: they are implications from `crashes = 0`, in runs that do crash for the sake of
their other properties. `DeliveredOnce` leaves out the idle reminder and `MarkedReportHeard` the
reports whose label came late. `BaselineKnown`, `FiredOnce`, `MemoriesKept`, `AccountStays` and `ValueStaysOut` name, in
their formula and their comment, the one window in which the code does not keep them; each window is an
observation of section 6. The type invariants of `InboxRelay`, `Access`, `Accounts` and
`Hub` are definitions without a run of their own (all but that of `Hub` are proved).

**Bounds.** Sessions share nothing in the turn path but the handlers, and a handler
serves one session at a time, so one session per run is enough for every property
here: each relates rows of one session. Three turns are the least for a fold that
has a merged row left while a third arrives; for the liveness of a wake-up two are
enough, one being run and one that must not be overlooked. Questions are in
`general` (answered from Telegram) and in `live` (from Telegram and the phone). A second crash adds nothing after
recovery has passed, as a crash leaves only rows and every shape of rows is
reached with one. Two spawns show both a retry and the last attempt. For jobs,
two jobs and a cap of one make the second wait; one job is enough for the
properties about a single row, and the second crash covers both reattach passes
after a first adopted watcher. Three strangers and a queue of two fill the queue;
five codes allow two refreshes of each pending request. In `relay`
two messages are the least for an instruction and its report, for a report by
tool and one from the last message, or for a request handed over twice; six rows hold one input, its notice, and two deliveries of
each message (before and after the crash, or a reminder's two).

In `daily` a schedule, the session's turns and its being a routine's worker take one place of `MaxRows = 3` each, a watch all
three (`Room`): a firing meets a conversation and its question, while no property relates a watch to another row. Three events are a watch set, its command or world
changed and a crash, or a routine set, a turn and a new name, an error or a crash; asking, answering, retries, a lost transcript and reopening cost nothing. Two firings tell a lost due
time from one that fired twice. The run has 345 230 states. The memories and
the scheduler's rows share only whether the session is archived, so a behaviour has the one or the other (`Quiet`). Three
memories over a threshold of one leave something to drop, something to keep and something
written meanwhile. In `accounts` an event is a command of the owner, a call of `ccc profile`, a login or a change of
credentials, and the doctor's re-keying is free: one event against the doctor and a turn that fails over already gives
778 039 states, and each hazard needs one event and the doctor. The code makes three attempts; two show a refusal and where the
turn goes next. In `capture` three texts are the value of a secret, a code and a message; three
events a command, a button and a death. In `hub` three sockets are one that breaks, its successor, and one
more after a restart; two pieces can be exchanged, repeated or missing; two
uploads interleave.

**Deadlock** is checked in `accounts` and `hub`, where a goroutine always goes
round. In the other runs an idle daemon with nothing queued, or with all its
bounded rows used, stops legally.

**Fairness.** Weak fairness of each loop, each started handler, recovery, the
scheduler, each watcher, the archiver and, in `relay`, each deliverer: the Go scheduler runs a goroutine that
can proceed, and none of them waits for another while it holds something. In `daily` the
tick goes on, in `accounts` the doctor does, in `capture` a login's goroutine does, in `hub` the hub's
handlers, the client's read loop and its `fileLoop` do, and a connection that is down is dialled again. Some
parts are assumptions about the world. `WF(Loop(b))` includes `engineExit`:
an engine ends. General's is cut off at 60 s; a worker's turn has no cap in the
code. `WF(expire(j))`, `WF(wrapperPid(j))` and `WF(loginTimeout)`: four hours or ten minutes pass, and a shell runs its
first line; a watch's command ends (`watchTimeout`). Nothing is assumed of the owner, of the engines' tool calls, of jobs'
commands, of the network or of the machine's inputs. `live` runs without /stop: `/stop` sets the
session idle after its reply and does not kick, so an input that was queued while
the session was parked may wait for the next kick (`listenv3.go:923`).

## 4. What is proved

All theorems hold for every value of the constants (any number of sessions,
handlers, rows, questions, attempts, crashes, users, jobs) under the named
assumptions on them (`TurnRunnerAssumption`, `BackgroundAssumption`,
`AccessAssumption`, `HubAssumption`, `UploadsAssumption`, `CaptureAssumption`, `InboxAssumption`, `SchedulerAssumption`,
`HousekeepingAssumption`, `AccountsAssumption`), which say that the bounds are natural numbers and that the
placeholders (`NoBot`, `None`) are no session, socket, upload, secret or topic. Every safety property that a passing run checks
is the statement of a theorem; where a theorem has a hypothesis it is given here.

* **TurnRunnerProofs.** `TypeCorrect` (`TypeOK`), `NoZombie` (`NoZombieTurn`),
  `DoneFinal` (`DoneIsFinal`). The invariant is
  `IInv == TypeOK /\ RowsFresh /\ LoopOwnsHead /\ RunningOwned`. `NoZombieTurn` by itself says
  nothing before recovery is over, so it cannot survive the step that ends it:
  `RunningOwned` says who owns a running row in *every* phase (nobody yet, the list
  of recovery, or the loop). A loop may write "done" on rows it merges and on its
  head, so `LoopOwnsHead` is needed for a write by one loop not to disturb the row of
  another, and gives that the head it is about to mark running is never a done row.
  `RowsFresh` keeps a newly created row apart from every row held by someone.
  The proof goes by `Loop`, `Finish`, `Owner`, `Machine`, `Recovery`, `crash`, one step
  per action; rows picked by age use `OldestIn`, from well-foundedness of `<`.

  `OnlyCrashLoses` (`LostOnlyInCrash`), for every instance, the phone included: `CarryKept` says that what a loop
  carries is exactly what it has taken from rows it closed, until `startTurn` stores it, and what was handed
  to an engine after that. Without it a merged row's input is nowhere between the two writes.

  `NoWakeupIsLost` (`NoLostWakeup`) has the hypotheses `~OwnerStops` and `Phone \notin Handlers \/ Bots \subseteq
  {General}`: /stop, and the phone unarchiving a worker, set a session idle and leave its queue to the next kick
  (section 6.1), and General cannot be archived. `WakeInv` adds that a handler at rest has no session
  (`HandlersQuiet`) and that no session is archived when there is a phone (`PhoneFindsNone`).

  `OneRuns`, `RunningFirst` and `RunsUnderOneTurn` (`OneRunningTurn`, `RunningIsOldest`, `ExecutedByOneTurn`) have the hypothesis
  `Phone \notin Handlers`: the phone listens before recovery and breaks all three (section 6.1). None of them is
  inductive, as they hang on each other: `RecoveryFirst` (nobody works before the running rows are requeued),
  `InputsOfRow`, `ExecutedIsHeld` (a row that ran holds what it ran), `RunIsOldest` (of a session's open rows only the
  oldest may have run), `SharedIsClosed` (what ran under one row is in no other open one), `MergeIsOldest` and `MergeIsAlone`
  (the same for a loop between its fold and `startTurn`), and `CarryKept`. A crash in the middle of a merge is the
  case that needs all of them: the closed rows never come back, the carrier is still the oldest.
* **BackgroundJobsProofs.** `TypeCorrect`, `CapHolds` (`RunningCap`), `VerdictFinal`
  (`VerdictIsFinal`). `IInv == TypeOK /\ ListIsStale /\ RoomForPick /\ RunningCap`: between
  the count and the claim the count may only fall, because only the one scheduler
  goroutine claims (`RoomForPick`); the unconditional failing write of
  `startQueuedBackground` is harmless because a job on its stale list cannot have
  been started by anyone else (`ListIsStale`).

  `WakesTellVerdict` (`WakeTellsVerdict`) rests on `VerdictTold`: a goroutine on its way to the wake is the one whose update
  settled the row, so that nothing was told before and its verdict is the row's, which is final.
  `FinishesAreReported` is `archives = 0 => FinishIsReported`, with `DoneIsTold` and, as a reattach would take the goroutine from
  its wake, `FirstStart` (a first start has nothing to reattach). `NoneOrphaned` is `archives = 0 => NoOrphan`, for any restarts and
  cancels: `ProcessOf` follows a wrapper whose pid is in the row, in the pid file, or in neither yet; the
  last is why `reattachList` waits for a forked wrapper's first line (section 2.2) and why the
  finisher never takes a live one for dead. The hypothesis is about the state, not the constant: it
  holds up to the first archiving, and archiving does break both (section 6.2).
* **AccessProofs.** `AccessTypes`, `RepliesAreBounded`, `BlockIsFinal`; the invariant adds that
  the replies a stranger received are the replies its row counts.

* **UploadsProofs.** `UploadsImplementDelivery` (`WholeFile`): `UploadsSpec` implements
  `FileDelivery` under the mapping of section 2.7. `IInv == Types /\ NotedIsWritten /\ CommitIsAlone`: a
  piece counts as received only after it is in the file, so a commit that finds all of them noted
  finds them on disk (`NotedIsWritten`); a commit takes its entry away before it reads, so
  that no second commit, chunk or collection reaches that file (`CommitIsAlone`). Each of the upload's steps then maps to
  one of `Begin`, `Receive`, `Deliver`, `Drop`, `Hear` or to a stutter, and each of Hub's steps to a stutter or,
  in a restart, to `Drop`.
* **CaptureProofs.** `TypeCorrect` (`CaptureTypeOK`), `ValuesStayOut` (`ValueStaysOut`), `WritesKeepOthers`
  (`OneNamePerWrite`). The invariant is `NamedUpdates /\ CaptureTypeOK /\ RoutedOnce /\ CopyIsFresh /\ JobsNamed /\
  ValueStaysOut`: a text on its way is new to the vault and to the sessions (`RoutedOnce`), which is what makes "routed once"
  mean "never both"; who holds the lock has a copy equal to the file (`CopyIsFresh`), so that writing the
  whole of it changes one name.
* **HousekeepingProofs.** `TypeCorrect` (`HousekeepingTypeOK`), `FiresOnce` (`FiredOnce`), `BaselinesAreKnown` (`BaselineKnown`),
  `ChangesAreOfOneCommand` (`ChangeOfOneCommand`), `QuestionsSpareRotation` (`RotationSparesQuestion`), `MemoriesAreKept`
  (`MemoriesKept`). The scheduler's invariant relates the row in its hand to the one in the table while the
  tools change the latter: a newer watch has no baseline, the baseline it read is what the session knows, and a baseline is the
  output of the row's command unless the row says that it is mixed (`RowInHand`, `BaselineInHand`, `BaselineOfCommand`); a due time has one number and
  one row, and once fired it is not due, but for a crash or while it is about to be rolled forward
  (`DueIsNumbered`, `FiredIsRetired`); a session the scheduler has found idle has no open question and no turn that
  could ask one for as long as nobody else makes it idle, and a turn that is about to make it idle has left none (`QuestionHeld`):
  `RotationSparesQuestion` does not hold from the status alone, since an idle session may have an open question. For the
  memories, what the scope holds is on a working pass's list or in an archive (`ListCovers`), what a pass
  keeps is of its list (`KeptOfList`), what was there at a compaction and has not come back is in an archive (`SinceIsArchived`), and
  what the retention is about to delete holds nothing that is counted on (`OldIsLate`).
* **InboxRelayProofs.** `TypeCorrect`, `NoneDeliveredTwice` (`DeliveredOnce`), `NoSecondReport` (`OneReportPerTurn`), `MarkedIsHeard`
  (`MarkedReportHeard`), `HandedOnce` (`HandedOverOnce`), in four layers over the types. `DeliveryInv`: the one copy of a message has
  been marked, or its sender's loop has the mark still to write. `ReportInv`: a report the worker has made by a tool is still
  pending when its turn ends. `LabelInv`: the label of a report leads to the row that has its text, or to one whose
  text a fold is just moving on (`LabelsLead`). `HandoffInv`: the counters of the hand-off window only lag
  behind what General wrote, the request a turn timed out on is known to it through notices and merges, and is counted once.
* **AccountsProofs.** `TypeCorrect` (`TypeOK`), `NoneRefusesTwice` (`RefusedOnce`), `NoAccountIsLost` (`AccountStays`). `TypeInv` adds what each
  of the writers has in hand at each of its steps. `RefusedInv`: a sandbox that refused has one key, which is among
  the turn's tried ones and is not the one it runs under; `RefusedOnce` alone does not survive the next pick. For `AccountStays` lemmas say what
  each change of a registry overwrites (`ReKeyKeeps`, `DropIsConfig`, `OneIsOverwritten`), whatever file it meets.

Model-checked only: the liveness properties `QueuedTurnServed`, `EveryJobSettles`, `EveryMessageDelivered`, `DueFires`,
`NotBenchedForever`, `Reachable`, `AnsweredWithdrawn` and `LoginEnds` (liveness under fairness is outside what TLAPS does
here), and what section 3 says of the instances a hypothesis above leaves out.

## 5. How to run

```
tlc -workers 2 -config MCTurnRunner_general.cfg MCTurnRunner.tla
tlapm TurnRunnerProofs.tla
```

## 6. Findings and observations

One disagreement has a run whose counterexample is the schedule (`findings`):

* `pair_offer`: `hub_client.go:862-863` says of a pairing code that "listen advertises it to the hub until it expires or is
  consumed". `offerPending` runs when a connection opens and on the hub's answer to that, so a code
  minted by `ccc pair` while the connection stands is advertised only if the connection
  happens to break in time.

The rest was seen while modelling and has no run of its own.

### 6.1 Turns

* `foldQueue` closes the merged rows before their text is stored in the carrier
  (`runner.go:464`); a crash in between loses them. `docs/DESIGN.md:40` says that further inputs "queue (FIFO) and are delivered together on the next turn".
  `LostOnlyInCrash` says that nothing else loses an input.
* The final status is computed from a count read earlier (`runner.go:597`); an answer in
  between leaves the session waiting for nothing (`docs/DESIGN.md:130`).
* `execute` marks its row running unconditionally (`runner.go:473`); a /stop since the fold reports an empty
  queue and the turn runs. `docs/DESIGN.md:468` says /stop does "Kill General's running turn, drop the queue".
* The hub client starts before recovery (`listenv3.go:211`): a message from the phone
  can start a session's loop while an interrupted row is still marked running, so
  that two rows are running, or the newer one runs first. The comment at
  `listenv3.go:302-304` says the requeued row stays older than what arrived. With a second death an input may even be run
  under two turns: the phone's row runs while the interrupted one is requeued, the next recovery requeues both, and the
  fold that follows merges the row that ran into the older one.
* Two answers to one question, from Telegram and the phone, can both be taken: the
  "already answered" test of `mcp.go:654` looks at a row its caller read, and
  `answerQuestion` updates unconditionally. `hub_client_test.go:476` says the second must fail.
* /stop sets the session idle after its reply and does not kick (`listenv3.go:923`); `unarchiveBotRow` does not kick
  either (`store.go:833`). What was queued waits for the next input. A crash between recording an answer and queueing it loses the answer.

### 6.2 Jobs, messages, General's cap

* Archiving between a job's claim and the write of its pid leaves a process nobody supervises
  (`background.go:501`), against `background.go:36`: "a forgotten `sleep 999999` cannot live forever".
* A crash between the update that settles a job and its wake (`background.go:683`)
  loses the wake; `docs/DESIGN.md:41` says completion enqueues a turn.
* A report's turn is created before its message is labelled with it (`runner.go:898`, `runner.go:905`). If
  another input wakes General in between, the row is merged or over before the label is there; should
  that turn of General fail, time out or stay empty, the fallback does not know the report and the owner never hears of it,
  against `docs/DESIGN.md:118`. These are the `raced` messages of `MarkedReportHeard`.
* An idle reminder may reach General twice: it is in the inbox before the scheduler
  marks it (`scheduler.go:291-304`), and the worker's own turn end or the boot pass may
  deliver it meanwhile.
* The hand-off window of a time-out starts when the request was *queued*, not when its turn started: the row in
  memory was read before it had a start (`chief.go:88-96`). A message General sent to any session in an earlier
  turn, while the request waited, counts as its hand-off, and the request is neither handed over nor
  asked again. `docs/DESIGN.md:159-163` speaks of "this turn". `HandedOverOnce` states what the code does.
* A request whose turn was merged with the notice of an earlier one counts as a follow-up (`runner.go:786-806`): if it runs
  into the cap as well it is neither handed over nor asked again (`chief.go:138-149`), against the same lines. It takes
  four rows of General, a request that arrives while another one's notice is queued.
* An owner's message merged behind a worker's report takes the report's source, so that a
  time-out neither hands it over nor asks General again; the hand-off passes the head
  row's own text, not the combined one; after a session that failed to start, the notice's time-out hands over the *latest* message
  of the owner, which need not be the one that timed out.
* `startBackendSession` may fail after its row is there (`store.go:798`): a session without a first instruction stays.

### 6.3 Scheduler and maintenance

* `sessionForTurn` rotates a conversation whose last turn is old before the turn that brings the answer to its question
  (`runner.go:928`, against `docs/DESIGN.md:913-915`) when the answer takes more than an hour.
* `compactIdleSessions` counts a session's questions before its update and the update looks only at the status (`scheduler.go:231-238`): an
  answer to one question, a reopening or a turn that asks may come between, and the conversation of another open question is dropped. These are
  the `raced` states of `RotationSparesQuestion`.
* The firing of a routine empties its worker's `session_id` and makes it idle on the scheduler's goroutine (`routine.go:176-177`),
  also with a turn running or a question open; the answer then arrives in a fresh conversation, although `scheduler.go:218` says that "a parked
  ask_owner still needs the transcript". So does a new name, at once (`store.go:482`) and at the end of the turn (`runner.go:591-593`), question or not, and a lost
  transcript (`runner.go:540`). Each is meant by its own comment, and `RotationSparesQuestion` names them (`MeansTo`).
* A watch whose command is replaced while it runs gets the old command's output stored over the reset
  baseline, and then reports a change that is none. A crash between storing a baseline and the wake loses the change.
* A schedule fires twice when the daemon dies between enqueue and roll-forward (`scheduler.go:95`); the roll-forward of a row that was
  set anew meanwhile writes the stale cron line's next time over it; a routine whose worker failed to start rolls forward all the same.
* Memories written between a pass's list and its transaction are lost, and ones forgotten meanwhile come back; undoing a
  compaction drops everything remembered since; restoring compactions out of order loses facts; their
  ids are used again after the newest was restored. Keys of 81 to 120 characters make a compaction
  fail for ever. `trimTurnBodies` cuts the input of a turn that has been queued for more than seven days.

### 6.4 Accounts

* Marks and tried accounts are by key, and survive a re-key under the old one: a refused account may be taken
  again. The doctor clears the mark of an account that looks logged in but refuses turns, so that it flaps.
* `updateConfig` and `setConfig` are two steps: two writers may swap the copies in the reverse order. `accountAdd`
  writes without looking again, and may replace an entry the doctor has just re-keyed; `profile add` at the
  same time gives one sandbox two keys; `accountSetDefault` may write a key that has gone; adding an account
  drops the implicit default one if it was never registered; a turn may start between the busy test and the removal.
* `ccc profile` loads and saves without the lock and loses the daemon's changes; the daemon does not read the file again.
* `docs/DESIGN.md` section 3.4 says a turn is retried once, the code makes three attempts; section 8 says a partial profile is removed when its
  login fails, the code leaves it registered. `loginCLIArgs` has no case for codex.

### 6.5 Hub

* An answer over the hub while the announcement of the question waits to be sent overtakes it: the phone
  shows a question that is answered (`raced`). The reply to `questions` may be older than events after it.
* `ccc unpair` takes effect with the next start of the daemon. At the hub a code lives anew with each offer, and
  `handlePair` does not ask for its row.
* A commit whose reply was lost answers "unknown upload" when repeated, so that a phone may send a file twice. Temporary
  files of uploads stay after a restart. A Telegram attachment overwrites an inbox file of the same name, an
  upload does not. Outgoing files are marked as pushed even when nobody is connected.

### 6.6 Capture and vault

* A daemon that dies after it handled an update, and before the next `getUpdates`, reads it again. A secret's value is then
  a turn of General, because the pending secret was in memory; `listenv3.go` says that the value never becomes a turn. A restart between `/secret add` and the
  value does the same.
* `account.go:568` says that a message sent while a code is verified goes through; it is swallowed. A device login,
  which needs no code, still eats the next message. With a secret pending, the Relogin button makes the value go to the
  engine's login program.
* Values shorter than `redactMinLen` are not redacted. The branch "Already waiting" of `beginSecretAdd` cannot be reached from Telegram.

### 6.7 Access

* An expired pairing request is refreshed without a look at the cap
  (`access.go:124`), so that more than three requests can be pending;
  `docs/DESIGN.md:537` and `README.md:406` say at most 3.

## 7. Not modelled

* The session panel and progress messages: what is on the screen depends on the order in which Telegram
  takes edits, which the code does not control; no row depends on it.
* Engine command lines, prompts, output streams, rendering, configuration paths and the service: pure text or I/O.
* How usage is fetched and how candidates are ranked by it: HTTP, and a sort over numbers nothing else depends on.
* Encryption and framing of the hub, its roster and history calls, outgoing files.
* Trimming of old turns, logs and sandboxes; full text search of memories.
* Telegram attachments, edits, `/model`, `/engine`, `/name`, `/status`: one row each.
* Messages that do not wake, and messages to an archived session.

## 8. Plan

1. Proofs: the types of `Hub`, and the safety part of what `Reachable` rests on (which socket a registered key names).
2. `Mailbox`, the abstract promise of a session (inputs are accepted, then executed or
   dropped, in order, one batch at a time), with `TurnRunner` restricted to a process that
   does not crash shown to implement it, by TLC and then by proof.
3. The ranking of accounts as a function, checked against a reference definition; outgoing hub files; the session panel.
