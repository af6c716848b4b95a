------------------------------- MODULE Scheduler -------------------------------
(***************************************************************************)
(* The scheduler goroutine of the daemon (scheduler.go) over one worker    *)
(* session: idle rotation, watches, their expiry, and schedules.  It is    *)
(* one thread, and every step of it works on a row it read before, while   *)
(* the tools of the sessions (the MCP processes) change the rows and the   *)
(* session's loop (runner.go) runs its turns.                              *)
(*                                                                         *)
(* A wake-up is the session's own.  A routine is the session's or one of   *)
(* General, which is never archived; the session may be the worker that    *)
(* the routine fires on, which is a matter of its name.                    *)
(*                                                                         *)
(* There is no clock.  A row has a mark for each limit it has passed: due  *)
(* (interval over, time come), old (watch_ttl_s over), and the session one *)
(* for its last turn (aged: idle_compact_s over).                          *)
(* A watch's output is the pair of its command and what the command sees.  *)
(***************************************************************************)
EXTENDS Naturals, FiniteSets

CONSTANTS
    Commands,     \* commands a watch may run
    Values,       \* what a command may see
    None,         \* no row, no baseline
    MaxRows,      \* bound: the room for rows, see Room
    MaxFirings,   \* bound: times a schedule falls due
    MaxEvents     \* bound: tool calls, turns, changes of a value, errors and crashes in all
                  \* (an archived session is reopened and an attempt repeated for nothing)

ASSUME SchedulerAssumption ==
    /\ {MaxRows, MaxFirings, MaxEvents} \subseteq Nat
    /\ None \notin Commands \X Values
    /\ Values # {}

Outputs == Commands \X Values
Firings == 1..MaxFirings

VARIABLES
    watch,        \* the row of the watch
    schedule,     \* the row of the schedule
    archived,     \* bots.archived_at of the session
    status,       \* bots.status
    worker,       \* bots.name is that of the routine's worker
    conv,         \* bots.session_id is set
    asked,        \* a question of the session is open
    aged,         \* the last turn ended more than idle_compact_s ago
    loop,         \* where the session's loop is in a turn
    resume,       \* the turn's b.SessionID, read before the turn, is set
    renamed,      \* bots.name is not the turn's nameAtStart
    pc,           \* where the scheduler is in its tick
    row,          \* the row it read
    out,          \* what the watch's command printed
    sees,         \* what a command sees now
    lastId,       \* the highest id of a row
    lastFiring,   \* how often a schedule fell due
    events,       \* how much of MaxEvents is spent
    known,        \* history: the last output the session was told, or a first baseline
    report,       \* history: the last change reported to the session
    lost,         \* history: a crash or an error fell between a baseline and its wake-up
    fired,        \* history: how often a due time fired
    cut,          \* history: firings a crash fell into
    dropped,      \* history: due times that were cancelled, replaced, archived or failed
    raced         \* history: since the scheduler looked at the session it was made idle by
                  \* someone else, or it was idle in the middle of a turn then

rows == <<watch, schedule, lastId, lastFiring>>
turn == <<loop, resume, renamed>>
session == <<archived, status, worker, conv, asked, aged, turn>>
thread == <<pc, row, out>>
told == <<known, report, lost>>
firings == <<fired, cut, dropped>>
schedulerVars == <<rows, session, thread, sees, events, told, firings, raced>>

WatchRows == [id : Nat, cmd : Commands, on : BOOLEAN, base : Outputs \cup {None},
              due : BOOLEAN, old : BOOLEAN, mixed : BOOLEAN]
ScheduleRows == [id : Nat, named : BOOLEAN, mine : BOOLEAN, recurring : BOOLEAN, on : BOOLEAN,
                 due : BOOLEAN, firing : Firings \cup {0}]

\* The types of the rows and of the scheduler's stale copies of them.
TypeOK ==
    /\ watch \in WatchRows \cup {None}
    /\ schedule \in ScheduleRows \cup {None}
    /\ status \in {"idle", "running", "waiting", "disabled"}
    /\ archived \in BOOLEAN /\ worker \in BOOLEAN /\ conv \in BOOLEAN /\ asked \in BOOLEAN
    /\ aged \in BOOLEAN /\ raced \in BOOLEAN /\ lost \in BOOLEAN
    /\ loop \in {"rest", "fold", "turn", "name", "park", "free"}
    /\ resume \in BOOLEAN /\ renamed \in BOOLEAN
    /\ pc \in {"idle", "rotate", "watches", "runWatch", "command", "store", "wake", "expire",
               "delete", "expired", "fire", "enqueue", "worker", "start", "post", "roll"}
    /\ row \in WatchRows \cup ScheduleRows \cup {None}
    /\ out \in Outputs \cup {None}
    /\ sees \in [Commands -> Values]
    /\ lastId \in Nat /\ lastFiring \in 0..MaxFirings
    /\ events \in 0..MaxEvents
    /\ known \in Outputs \cup {None}
    /\ report \in [before : Outputs, after : Outputs, mixed : BOOLEAN] \cup {None}
    /\ fired \in [Firings -> Nat]
    /\ cut \subseteq Firings /\ dropped \subseteq Firings

SchedulerInit ==
    /\ watch = None /\ schedule = None
    /\ archived = FALSE /\ status = "idle" /\ worker \in BOOLEAN
    /\ conv = FALSE /\ asked = FALSE /\ aged = FALSE
    /\ loop = "rest" /\ resume = FALSE /\ renamed = FALSE /\ raced = FALSE
    /\ pc = "idle" /\ row = None /\ out = None
    /\ sees = [c \in Commands |-> CHOOSE v \in Values : TRUE]
    /\ lastId = 0 /\ lastFiring = 0
    /\ events = 0
    /\ known = None /\ report = None /\ lost = FALSE
    /\ fired = [f \in Firings |-> 0] /\ cut = {} /\ dropped = {}
-----------------------------------------------------------------------------
Event == events < MaxEvents /\ events' = events + 1
Goto(label) == pc' = label /\ UNCHANGED <<row, out>>
Read(r, label) == row' = r /\ pc' = label /\ UNCHANGED out
Leave(label) == pc' = label /\ row' = None /\ out' = None
Rest == Leave("idle")

\* An UPDATE or DELETE by id reaches the row only while it is there.
Reaches(r) == r # None /\ r.id = row.id

\* bound: a schedule, the session's turns and the name of a worker take one place each, and
\* a watch three.
Room(places) ==
    LET taken == {k \in 1..6 : \/ k <= 3 /\ watch # None
                               \/ k = 4 /\ schedule # None
                               \/ k = 5 /\ (conv \/ asked \/ loop # "rest")
                               \/ k = 6 /\ worker}
    IN  Cardinality(taken) + places <= MaxRows

\* The due time of the row as it is now, which will not fire any more.
DueNow == IF schedule # None /\ schedule.on /\ schedule.due THEN {schedule.firing} ELSE {}
-----------------------------------------------------------------------------
\* sessionIdleTooLong: the last turn is old, and no question is open.
IdleTooLong == aged /\ ~asked

\* The loop is in execute, which will write the status when the turn is over.
Executing == loop \notin {"rest", "fold"}

\* Someone other than the session's turn makes the session idle.
MadeIdle == status' = "idle" /\ raced' = (raced \/ pc = "rotate")

\* compactIdleSessions: the list and sessionIdleTooLong, then the conditional update.
compactIdleSessions ==
    /\ pc = "idle"
    /\ Goto(IF ~archived /\ conv /\ status = "idle" /\ IdleTooLong THEN "rotate" ELSE "watches")
    /\ raced' = (pc' = "rotate" /\ Executing)
    /\ UNCHANGED <<rows, session, sees, events, told, firings>>

\* Mutant of rotate: the update does not look at the status again.
rotateAlwaysMutant ==
    /\ pc = "rotate"
    /\ conv' = FALSE
    /\ raced' = FALSE
    /\ Goto("watches")
    /\ UNCHANGED <<rows, archived, status, worker, asked, aged, turn, sees, events, told,
                   firings>>

rotate ==
    /\ pc = "rotate"
    /\ conv' = (conv /\ status # "idle")
    /\ raced' = FALSE
    /\ Goto("watches")
    /\ UNCHANGED <<rows, archived, status, worker, asked, aged, turn, sees, events, told,
                   firings>>

runDueWatches ==
    /\ pc = "watches"
    /\ IF watch # None /\ watch.on /\ watch.due
       THEN Read(watch, "runWatch")
       ELSE Goto("expire")
    /\ UNCHANGED <<rows, session, sees, events, told, firings, raced>>

\* runWatch: a watch of an archived session is retired, any other one's command starts.
runWatch ==
    /\ pc = "runWatch"
    /\ IF archived THEN Leave("expire") ELSE Goto("command")
    /\ watch' = IF archived /\ Reaches(watch) THEN [watch EXCEPT !.on = FALSE] ELSE watch
    /\ UNCHANGED <<schedule, lastId, lastFiring, session, sees, events, told, firings, raced>>

\* The command may take up to watchTimeout; what it prints is what it sees at some moment.
runWatchCommand ==
    /\ pc = "command"
    /\ out' = <<row.cmd, sees[row.cmd]>>
    /\ pc' = "store"
    /\ UNCHANGED <<rows, session, row, sees, events, told, firings, raced>>

\* Mutant of storeRun: no wake-up for a session archived meanwhile.
storeGoneMutant ==
    /\ pc = "store"
    /\ watch' = IF Reaches(watch)
                THEN [watch EXCEPT !.base = out, !.due = FALSE, !.mixed = (watch.cmd # row.cmd)]
                ELSE watch
    /\ known' = IF row.base = None THEN out ELSE known
    /\ IF row.base \in {None, out} \/ archived THEN Leave("expire") ELSE Goto("wake")
    /\ UNCHANGED <<schedule, lastId, lastFiring, session, sees, events, report, lost, firings,
                   raced>>

\* The new baseline is written whatever the row says by now; a first run wakes nobody.
storeRun ==
    /\ pc = "store"
    /\ watch' = IF Reaches(watch)
                THEN [watch EXCEPT !.base = out, !.due = FALSE, !.mixed = (watch.cmd # row.cmd)]
                ELSE watch
    /\ known' = IF row.base = None THEN out ELSE known
    /\ IF row.base \in {None, out} THEN Leave("expire") ELSE Goto("wake")
    /\ UNCHANGED <<schedule, lastId, lastFiring, session, sees, events, report, lost, firings,
                   raced>>

\* Runner.Enqueue of the change; a database error is only logged.
wakeWatch ==
    /\ pc = "wake"
    /\ \/ /\ known' = out
          /\ report' = [before |-> row.base, after |-> out, mixed |-> row.mixed]
          /\ UNCHANGED <<events, lost>>
       \/ /\ Event
          /\ lost' = TRUE
          /\ UNCHANGED <<known, report>>
    /\ Leave("expire")
    /\ UNCHANGED <<rows, session, sees, firings, raced>>

expireWatches ==
    /\ pc = "expire"
    /\ IF watch # None /\ watch.on /\ watch.old
       THEN Read(watch, "delete")
       ELSE Goto("fire")
    /\ UNCHANGED <<rows, session, sees, events, told, firings, raced>>

expireDelete ==
    /\ pc = "delete"
    /\ watch' = IF Reaches(watch) THEN None ELSE watch
    /\ Leave("expired")
    /\ UNCHANGED <<schedule, lastId, lastFiring, session, sees, events, told, firings, raced>>

\* The session is told that its watch timed out; known is not about that message.
expireWake ==
    /\ pc = "expired"
    /\ Goto("fire")
    /\ UNCHANGED <<rows, session, sees, events, told, firings, raced>>

fireDueSchedules ==
    /\ pc = "fire"
    /\ IF schedule # None /\ schedule.on /\ schedule.due
       THEN Read(schedule, "enqueue")
       ELSE Rest
    /\ UNCHANGED <<rows, session, sees, events, told, firings, raced>>

\* Mutant of fireSchedule: a failed enqueue rolls forward too.
fireNoContinueMutant ==
    /\ pc = "enqueue"
    /\ IF row.mine /\ archived
       THEN /\ schedule' = IF Reaches(schedule) THEN [schedule EXCEPT !.on = FALSE] ELSE schedule
            /\ dropped' = dropped \cup {row.firing} \cup (IF Reaches(schedule) THEN DueNow ELSE {})
            /\ Rest
            /\ UNCHANGED <<events, fired>>
       ELSE /\ \/ row.named /\ Goto("worker") /\ UNCHANGED <<events, fired>>
               \/ /\ ~row.named
                  /\ Goto("roll")
                  /\ fired' = [fired EXCEPT ![row.firing] = @ + 1]
                  /\ UNCHANGED events
               \/ ~row.named /\ Event /\ Goto("roll") /\ UNCHANGED fired
            /\ UNCHANGED <<schedule, dropped>>
    /\ UNCHANGED <<watch, lastId, lastFiring, session, sees, told, cut, raced>>

\* The row of an archived session is retired.  A wake-up is enqueued and stays due when
\* that fails; a routine is for its worker.
fireSchedule ==
    /\ pc = "enqueue"
    /\ IF row.mine /\ archived
       THEN /\ schedule' = IF Reaches(schedule) THEN [schedule EXCEPT !.on = FALSE] ELSE schedule
            /\ dropped' = dropped \cup {row.firing} \cup (IF Reaches(schedule) THEN DueNow ELSE {})
            /\ Rest
            /\ UNCHANGED <<events, fired>>
       ELSE /\ \/ row.named /\ Goto("worker") /\ UNCHANGED <<events, fired>>
               \/ /\ ~row.named
                  /\ Goto("roll")
                  /\ fired' = [fired EXCEPT ![row.firing] = @ + 1]
                  /\ UNCHANGED events
               \/ ~row.named /\ Event /\ Rest /\ UNCHANGED fired
            /\ UNCHANGED <<schedule, dropped>>
    /\ UNCHANGED <<watch, lastId, lastFiring, session, sees, told, cut, raced>>

\* The worker is reopened if need be, idle whatever it was doing, and its conversation is
\* gone whatever it had asked.  If that fails, before or after the reopening, the routine
\* goes on as if it had started.
routineWorkerBot ==
    /\ pc = "worker"
    /\ \/ /\ archived' = (archived /\ ~worker)
          /\ status' = IF worker THEN "idle" ELSE status
          /\ conv' = (conv /\ ~worker)
          /\ Goto("start")
          /\ UNCHANGED <<events, dropped>>
       \/ /\ Event
          /\ archived' \in {archived, archived /\ ~worker}
          /\ status' = IF archived' = archived THEN status ELSE "idle"
          /\ dropped' = dropped \cup {row.firing}
          /\ Goto("post")
          /\ UNCHANGED conv
    /\ UNCHANGED <<rows, worker, asked, aged, turn, sees, told, fired, cut, raced>>

startRoutineWorker ==
    /\ pc = "start"
    /\ \/ /\ fired' = [fired EXCEPT ![row.firing] = @ + 1]
          /\ UNCHANGED <<events, dropped>>
       \/ /\ Event
          /\ dropped' = dropped \cup {row.firing}
          /\ UNCHANGED fired
    /\ Goto("post")
    /\ UNCHANGED <<rows, session, sees, told, cut, raced>>

\* The line about the routine goes to Telegram before the row moves on.
postRoutineFired ==
    /\ pc = "post"
    /\ Goto("roll")
    /\ UNCHANGED <<rows, session, sees, events, told, firings, raced>>

\* Mutant of rollForward: a wake-up that fired is not retired.
rollOnlyCronMutant ==
    /\ pc = "roll"
    /\ schedule' = IF Reaches(schedule)
                   THEN IF row.recurring THEN [schedule EXCEPT !.due = FALSE, !.firing = 0]
                                         ELSE schedule
                   ELSE schedule
    /\ dropped' = dropped \cup (IF Reaches(schedule) THEN DueNow \ {row.firing} ELSE {})
    /\ Rest
    /\ UNCHANGED <<watch, lastId, lastFiring, session, sees, events, told, fired, cut, raced>>

\* The next time is computed from the row as read and written over the row as it is.
rollForward ==
    /\ pc = "roll"
    /\ schedule' = IF Reaches(schedule)
                   THEN IF row.recurring THEN [schedule EXCEPT !.due = FALSE, !.firing = 0]
                                         ELSE [schedule EXCEPT !.on = FALSE]
                   ELSE schedule
    /\ dropped' = dropped \cup (IF Reaches(schedule) THEN DueNow \ {row.firing} ELSE {})
    /\ Rest
    /\ UNCHANGED <<watch, lastId, lastFiring, session, sees, events, told, fired, cut, raced>>
-----------------------------------------------------------------------------
\* Mutant of upsertWatch: a new command keeps the old baseline.
upsertKeepMutant(c) ==
    /\ Event
    /\ \/ /\ watch = None /\ Room(3)
          /\ lastId' = lastId + 1
          /\ watch' = [id |-> lastId', cmd |-> c, on |-> TRUE, base |-> None, due |-> TRUE,
                       old |-> FALSE, mixed |-> FALSE]
       \/ /\ watch # None
          /\ watch' = IF watch.cmd = c
                      THEN [watch EXCEPT !.on = TRUE, !.old = FALSE]
                      ELSE [watch EXCEPT !.cmd = c, !.on = TRUE, !.old = FALSE,
                                         !.due = TRUE, !.mixed = FALSE]
          /\ UNCHANGED lastId
    /\ UNCHANGED <<schedule, lastFiring, session, thread, sees, told, firings, raced>>

\* The tools of the session.  A watch that changes its command forgets its baseline.
upsertWatch(c) ==
    /\ Event
    /\ \/ /\ watch = None /\ Room(3)
          /\ lastId' = lastId + 1
          /\ watch' = [id |-> lastId', cmd |-> c, on |-> TRUE, base |-> None, due |-> TRUE,
                       old |-> FALSE, mixed |-> FALSE]
       \/ /\ watch # None
          /\ watch' = IF watch.cmd = c
                      THEN [watch EXCEPT !.on = TRUE, !.old = FALSE]
                      ELSE [watch EXCEPT !.cmd = c, !.on = TRUE, !.old = FALSE, !.base = None,
                                         !.due = TRUE, !.mixed = FALSE]
          /\ UNCHANGED lastId
    /\ UNCHANGED <<schedule, lastFiring, session, thread, sees, told, firings, raced>>

deleteWatch ==
    /\ watch # None
    /\ Event
    /\ watch' = None
    /\ UNCHANGED <<schedule, lastId, lastFiring, session, thread, sees, told, firings, raced>>

\* schedule_wakeup, once or by cron.
scheduleWakeup(recurring) ==
    /\ Event
    /\ schedule = None /\ Room(1)
    /\ lastId' = lastId + 1
    /\ schedule' = [id |-> lastId', named |-> FALSE, mine |-> TRUE, recurring |-> recurring,
                    on |-> TRUE, due |-> FALSE, firing |-> 0]
    /\ UNCHANGED <<watch, lastFiring, session, thread, sees, told, firings, raced>>

\* set_routine of the session or of General, also of a name that exists, fired or not:
\* another time, the same row.
upsertRoutine(mine) ==
    /\ Event
    /\ \/ /\ schedule = None /\ Room(1)
          /\ lastId' = lastId + 1
          /\ schedule' = [id |-> lastId', named |-> TRUE, mine |-> mine, recurring |-> TRUE,
                          on |-> TRUE, due |-> FALSE, firing |-> 0]
       \/ /\ schedule # None /\ schedule.named /\ schedule.mine = mine
          /\ schedule' = [schedule EXCEPT !.on = TRUE, !.due = FALSE, !.firing = 0]
          /\ UNCHANGED lastId
    /\ dropped' = dropped \cup DueNow
    /\ UNCHANGED <<watch, lastFiring, session, thread, sees, told, fired, cut, raced>>

cancelSchedule ==
    /\ schedule # None
    /\ Event
    /\ schedule' = None
    /\ dropped' = dropped \cup DueNow
    /\ UNCHANGED <<watch, lastId, lastFiring, session, thread, sees, told, fired, cut, raced>>

\* archiveBotRow retires the session's rows for good; unarchiveBotRow does not bring them back.
archiveBotRow ==
    /\ ~archived
    /\ Event
    /\ archived' = TRUE
    /\ status' = "disabled"
    /\ watch' = IF watch = None THEN None ELSE [watch EXCEPT !.on = FALSE]
    /\ IF schedule # None /\ schedule.mine
       THEN schedule' = [schedule EXCEPT !.on = FALSE] /\ dropped' = dropped \cup DueNow
       ELSE UNCHANGED <<schedule, dropped>>
    /\ UNCHANGED <<lastId, lastFiring, worker, conv, asked, aged, turn, thread, sees, told,
                   fired, cut, raced>>

\* Mutant of unarchiveBotRow: a word that is no status.
unarchiveWordMutant ==
    /\ archived
    /\ archived' = FALSE
    /\ status' = "active"
    /\ UNCHANGED <<rows, worker, conv, asked, aged, turn, thread, sees, events, told, firings, raced>>

unarchiveBotRow ==
    /\ archived
    /\ archived' = FALSE
    /\ MadeIdle
    /\ UNCHANGED <<rows, worker, conv, asked, aged, turn, thread, sees, events, told, firings>>

\* set_name in a turn, or a rename from the phone at any time: the name is part of the
\* prompt, so that the conversation goes.  The new name may be the one of the routine's
\* worker, or the one the turn started with.
renameBot ==
    /\ ~archived \/ loop = "turn"
    /\ Event
    /\ worker' \in BOOLEAN
    /\ conv' = FALSE
    /\ renamed' \in (IF renamed THEN BOOLEAN ELSE {loop # "rest"})
    /\ UNCHANGED <<rows, archived, status, asked, aged, loop, resume, thread, sees, told,
                   firings, raced>>
-----------------------------------------------------------------------------
\* The turns of the session, as far as its conversation and its questions go.
runNext ==
    /\ loop = "rest"
    /\ ~archived /\ status \notin {"waiting", "disabled"}
    /\ conv \/ asked \/ Room(1)
    /\ Event
    /\ loop' = "fold"
    /\ resume' = conv /\ renamed' = FALSE
    /\ UNCHANGED <<rows, archived, status, worker, conv, asked, aged, thread, sees, told,
                   firings, raced>>

\* A conversation that sat unused too long starts fresh, for every attempt anew.
sessionForTurn ==
    /\ resume' = (resume /\ ~IdleTooLong)
    /\ conv' = (conv /\ ~(resume /\ IdleTooLong))

startTurn ==
    /\ loop = "fold"
    /\ loop' = "turn"
    /\ status' = "running"
    /\ sessionForTurn
    /\ UNCHANGED <<rows, archived, worker, asked, aged, renamed, thread, sees, events, told,
                   firings, raced>>

askOwner ==
    /\ loop = "turn"
    /\ asked' = TRUE
    /\ UNCHANGED <<rows, archived, status, worker, conv, aged, turn, thread, sees, events, told,
                   firings, raced>>

\* The attempt failed and the next one starts.
retry ==
    /\ loop = "turn"
    /\ sessionForTurn
    /\ UNCHANGED <<rows, archived, status, worker, asked, aged, loop, renamed, thread, sees,
                   events, told, firings, raced>>

\* errSessionLost: the account does not have the transcript.
sessionLost ==
    /\ loop = "turn"
    /\ resume' = FALSE
    /\ conv' = FALSE
    /\ UNCHANGED <<rows, archived, status, worker, asked, aged, loop, renamed, thread, sees,
                   events, told, firings, raced>>

\* persistSession writes a new conversation's id after a success only.
endTurn ==
    /\ loop = "turn"
    /\ loop' = "name"
    /\ conv' \in (IF resume THEN {conv} ELSE {TRUE, conv})
    /\ aged' = FALSE
    /\ UNCHANGED <<rows, archived, status, worker, asked, resume, renamed, thread, sees, events,
                   told, firings, raced>>

\* The new name takes effect in a new conversation; then the open questions are counted.
rotateRenamed ==
    /\ loop = "name"
    /\ conv' = (conv /\ ~renamed)
    /\ loop' = IF asked THEN "park" ELSE "free"
    /\ UNCHANGED <<rows, archived, status, worker, asked, aged, resume, renamed, thread, sees,
                   events, told, firings, raced>>

parkOrIdle ==
    /\ loop \in {"park", "free"}
    /\ status' = IF loop = "park" THEN "waiting" ELSE "idle"
    /\ loop' = "rest" /\ resume' = FALSE /\ renamed' = FALSE
    /\ UNCHANGED <<rows, archived, worker, conv, asked, aged, thread, sees, events, told,
                   firings, raced>>

\* The owner answers one question, at any time; others may be open.
answer ==
    /\ asked
    /\ asked' \in BOOLEAN
    /\ MadeIdle
    /\ UNCHANGED <<rows, archived, worker, conv, aged, turn, thread, sees, events, told,
                   firings>>
-----------------------------------------------------------------------------
\* Time: an interval, a lifetime, an idle hour or a due time passes.
intervalPasses ==
    /\ watch # None /\ ~watch.due
    /\ watch' = [watch EXCEPT !.due = TRUE]
    /\ UNCHANGED <<schedule, lastId, lastFiring, session, thread, sees, events, told, firings,
                   raced>>

lifetimePasses ==
    /\ watch # None /\ watch.on /\ ~watch.old
    /\ watch' = [watch EXCEPT !.old = TRUE]
    /\ UNCHANGED <<schedule, lastId, lastFiring, session, thread, sees, events, told, firings,
                   raced>>

idleHourPasses ==
    /\ conv \/ resume
    /\ ~aged
    /\ aged' = TRUE
    /\ UNCHANGED <<rows, archived, status, worker, conv, asked, turn, thread, sees, events, told,
                   firings, raced>>

fallsDue ==
    /\ schedule # None /\ schedule.on /\ ~schedule.due
    /\ lastFiring < MaxFirings
    /\ lastFiring' = lastFiring + 1
    /\ schedule' = [schedule EXCEPT !.due = TRUE, !.firing = lastFiring']
    /\ UNCHANGED <<watch, lastId, session, thread, sees, events, told, firings, raced>>

worldChanges(c) ==
    /\ Event
    /\ \E v \in Values \ {sees[c]} : sees' = [sees EXCEPT ![c] = v]
    /\ UNCHANGED <<rows, session, thread, told, firings, raced>>

\* The daemon dies and starts again; the rows stay.  Recovery makes a running session idle
\* and retries its turn, or ends the turn.
crash ==
    /\ Event
    /\ Rest
    /\ lost' = (lost \/ pc = "wake")
    /\ cut' = IF pc \in {"post", "roll"} THEN cut \cup {row.firing} ELSE cut
    /\ status' = IF status = "running" THEN "idle" ELSE status
    /\ aged' \in {aged, aged /\ ~Executing}
    /\ loop' = "rest" /\ resume' = FALSE /\ renamed' = FALSE
    /\ raced' = FALSE
    /\ UNCHANGED <<rows, archived, worker, conv, asked, sees, known, report, fired, dropped>>

Tick ==
    \/ compactIdleSessions \/ rotate
    \/ runDueWatches \/ runWatch \/ runWatchCommand \/ storeRun \/ wakeWatch
    \/ expireWatches \/ expireDelete \/ expireWake
    \/ fireDueSchedules \/ fireSchedule \/ routineWorkerBot \/ startRoutineWorker
    \/ postRoutineFired \/ rollForward

Tools ==
    \/ \E c \in Commands : upsertWatch(c)
    \/ deleteWatch \/ cancelSchedule
    \/ \E b \in BOOLEAN : scheduleWakeup(b) \/ upsertRoutine(b)
    \/ archiveBotRow \/ unarchiveBotRow \/ renameBot

Turns ==
    \/ runNext \/ startTurn \/ askOwner \/ retry \/ sessionLost
    \/ endTurn \/ rotateRenamed \/ parkOrIdle \/ answer
Time == intervalPasses \/ lifetimePasses \/ idleHourPasses \/ fallsDue
World == \E c \in Commands : worldChanges(c)

\* Every step but the end of the process.
Step == Tick \/ Tools \/ Turns \/ Time \/ World
-----------------------------------------------------------------------------
\* A session knows the baseline its watch compares with: it was the first one, or the
\* session was woken with it.  What a watch saw is never silently taken for old news,
\* but for a crash or an error between the store of the baseline and the wake-up.
BaselineKnown ==
    watch # None /\ watch.base # None /\ ~lost
        => watch.base = known \/ (pc = "wake" /\ row.id = watch.id /\ out = watch.base)

\* A change reported to a session is one of the output of one command.  The comment in
\* upsertWatch says so; a watch whose command was replaced while it ran is excepted,
\* because the run stores the old command's output over the reset baseline.
ChangeOfOneCommand ==
    report # None =>
        report.before # report.after /\ (report.mixed \/ report.before[1] = report.after[1])

\* A due time fires once, but for a crash between the enqueue and the roll forward.
FiredOnce == \A f \in Firings : fired[f] > 1 => f \in cut

\* An idle rotation, by the scheduler or at the start of an attempt, spares the conversation
\* of a session with an open question ("a parked ask_owner still needs the transcript",
\* scheduler.go:218), also after an answer, a reopening, a firing or a restart has made the
\* session idle behind the question, but for one between the scheduler's look at the
\* session and its update.  Whatever else drops such a conversation means to: a new name
\* (store.go:474, runner.go:588), a transcript that is gone (runner.go:538), a firing of the
\* routine whose worker the session is (routine.go:147).
MeansTo == renameBot \/ rotateRenamed \/ sessionLost \/ routineWorkerBot
RotationSparesQuestion == [][conv /\ ~conv' /\ asked => raced \/ MeansTo]_schedulerVars

\* Every due time fires, unless it was cancelled, replaced or archived, or its
\* routine's worker could not be started.
DueFires == \A f \in Firings : lastFiring >= f ~> (fired[f] > 0 \/ f \in dropped)
=============================================================================
