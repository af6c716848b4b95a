-------------------------- MODULE HousekeepingProofs --------------------------
(* Proofs about Scheduler and Housekeeping for every set of commands and values, every *)
(* number of rows, firings, events, facts and days, and every threshold.               *)
EXTENDS Housekeeping, TLAPS, WellFoundedInduction

WatchSteps == {"runWatch", "command", "store", "wake", "delete"}
FireSteps == {"enqueue", "worker", "start", "post", "roll"}

\* What the scheduler holds at each place of its tick.
RowInHand ==
    /\ pc \in WatchSteps => row \in WatchRows
    /\ pc \in {"store", "wake"} => out \in Outputs /\ out[1] = row.cmd
    /\ pc \in FireSteps => row \in ScheduleRows /\ row.firing \in 1..lastFiring

\* A due time is numbered when it falls due, and a number is given to one row.
DueIsNumbered ==
    /\ schedule # None /\ schedule.due => schedule.firing \in 1..lastFiring
    /\ \A f \in Firings : fired[f] > 0 => f <= lastFiring
    /\ pc \in FireSteps /\ schedule # None /\ schedule.due /\ schedule.firing = row.firing
           => schedule.id = row.id

\* A due time that has fired is not due any more, but for a crash, or while the scheduler
\* is about to roll the very row forward.
FiredIsRetired ==
    /\ schedule # None /\ schedule.on /\ schedule.due /\ fired[schedule.firing] > 0
           => schedule.firing \in cut \/ (pc \in {"post", "roll"} /\ row.firing = schedule.firing)
    /\ pc \in {"enqueue", "worker", "start"} => fired[row.firing] = 0 \/ row.firing \in cut

\* The watch the scheduler has in hand and the one in the table: a newer one has no baseline,
\* and the baseline as it was read is what the session knows.
BaselineInHand ==
    /\ watch # None /\ watch.base # None /\ pc \in {"runWatch", "command", "store", "wake"}
           => watch.id = row.id /\ (pc = "wake" => watch.base = out)
    /\ pc \in {"runWatch", "command", "store"} /\ row.base # None /\ ~lost => row.base = known
    /\ pc = "wake" => row.base # None /\ row.base # out

\* A baseline is the output of the watch's command, or the row says that it is mixed.
BaselineOfCommand ==
    /\ watch # None /\ watch.base # None => watch.mixed \/ watch.base[1] = watch.cmd
    /\ pc \in WatchSteps /\ row.base # None => row.mixed \/ row.base[1] = row.cmd

\* A session that the scheduler found idle, and that is idle still or again, has no open
\* question and no turn that could ask one, unless somebody else has made it idle; and a
\* turn that is about to leave the session idle has left no question.
QuestionHeld ==
    /\ pc = "rotate" /\ ~raced /\ status = "idle" => ~asked /\ ~Executing
    /\ loop = "free" => ~asked

SchedulerInv ==
    /\ TypeOK /\ RowInHand
    /\ DueIsNumbered /\ FiredIsRetired /\ FiredOnce
    /\ BaselineInHand /\ BaselineKnown /\ BaselineOfCommand /\ ChangeOfOneCommand
    /\ QuestionHeld

\* The types of the maintenance's variables.  The identifiers are bounded, so that the next
\* one, one more than the largest, exists.
MaintenanceTypeOK ==
    /\ mems \subseteq Facts /\ archive \subseteq Archives
    /\ at \in [Passes -> {"off", "memories", "turn", "apply", "cleanup"}]
    /\ list \in [Passes -> SUBSET Facts] /\ kept \in [Passes -> SUBSET Facts]
    /\ today \in 0..MaxDays /\ marked \in 0..MaxDays /\ monthGone \in BOOLEAN
    /\ remembered \subseteq Facts /\ late \subseteq Facts

IdsBounded == \E n \in Nat : \A a \in archive : a.id <= n

Archived == UNION {a.facts : a \in archive}

\* What a compaction may drop it has on its list, or it is archived already; and what it
\* keeps is from its list.
ListCovers ==
    \A p \in Passes : at[p] \in {"turn", "apply"} => mems \ late \subseteq list[p] \cup Archived

KeptOfList == \A p \in Passes : at[p] = "apply" => kept[p] \subseteq list[p]

\* What was there at a compaction and has not come back since is in an archive: the
\* restore of that compaction loses nothing.
SinceIsArchived == \A a \in archive : a.since \ late \subseteq Archived

\* A row that the retention is about to delete holds nothing the session counts on.
OldIsLate == \A a \in archive : a.old => a.facts \subseteq late

MemoryInv ==
    /\ MaintenanceTypeOK /\ IdsBounded
    /\ ListCovers /\ KeptOfList /\ SinceIsArchived /\ OldIsLate /\ MemoriesKept

IInv == SchedulerInv /\ MemoryInv
-----------------------------------------------------------------------------
\* What the updates of the two tables make of a row.
LEMMA WatchUpdates ==
    ASSUME NEW w \in WatchRows
    PROVE  /\ w.cmd \in Commands /\ w.base \in Outputs \cup {None}
           /\ [w EXCEPT !.on = FALSE] \in WatchRows
           /\ [w EXCEPT !.due = TRUE] \in WatchRows
           /\ [w EXCEPT !.old = TRUE] \in WatchRows
           /\ [w EXCEPT !.on = TRUE, !.old = FALSE] \in WatchRows
BY DEF WatchRows

LEMMA WatchStored ==
    ASSUME NEW w \in WatchRows, NEW o \in Outputs, NEW x \in BOOLEAN
    PROVE  [w EXCEPT !.base = o, !.due = FALSE, !.mixed = x] \in WatchRows
BY DEF WatchRows

LEMMA WatchReplaced ==
    ASSUME NEW w \in WatchRows, NEW c \in Commands
    PROVE  [w EXCEPT !.cmd = c, !.on = TRUE, !.old = FALSE, !.base = None,
                     !.due = TRUE, !.mixed = FALSE] \in WatchRows
BY DEF WatchRows

LEMMA ScheduleUpdates ==
    ASSUME NEW s \in ScheduleRows
    PROVE  /\ [s EXCEPT !.on = FALSE] \in ScheduleRows
           /\ [s EXCEPT !.due = FALSE, !.firing = 0] \in ScheduleRows
           /\ [s EXCEPT !.on = TRUE, !.due = FALSE, !.firing = 0] \in ScheduleRows
           /\ \A f \in Firings : [s EXCEPT !.due = TRUE, !.firing = f] \in ScheduleRows
BY DEF ScheduleRows

\* An event that is counted stays within the bound.
LEMMA EventIsBounded ==
    ASSUME TypeOK, Event
    PROVE  events' \in 0..MaxEvents
BY SchedulerAssumption DEF TypeOK, Event

\* The due time that a step cancels is a number that was given.
LEMMA DueNowIsFiring ==
    ASSUME SchedulerInv
    PROVE  DueNow \subseteq Firings /\ 1..lastFiring \subseteq Firings
BY SchedulerAssumption DEF SchedulerInv, TypeOK, DueIsNumbered, DueNow, Firings

\* The scheduler's half.
LEMMA InitScheduler == SchedulerInit => SchedulerInv
<1> SUFFICES ASSUME SchedulerInit PROVE SchedulerInv
  OBVIOUS
<1>1. sees \in [Commands -> Values]
  <2>1. \E v \in Values : TRUE
    BY SchedulerAssumption
  <2>2. (CHOOSE v \in Values : TRUE) \in Values
    BY <2>1
  <2> QED BY <2>2, Zenon DEF SchedulerInit
<1>2. fired \in [Firings -> Nat] /\ 0 \in 0..MaxFirings /\ 0 \in 0..MaxEvents
  BY SchedulerAssumption DEF SchedulerInit
<1>3. TypeOK
  BY <1>1, <1>2 DEF SchedulerInit, TypeOK
<1>4. DueIsNumbered /\ FiredIsRetired /\ FiredOnce
  BY DEF SchedulerInit, DueIsNumbered, FiredIsRetired, FiredOnce, FireSteps
<1>5. RowInHand /\ BaselineInHand /\ BaselineKnown /\ BaselineOfCommand /\ ChangeOfOneCommand
  BY DEF SchedulerInit, RowInHand, BaselineInHand, BaselineKnown, BaselineOfCommand,
         ChangeOfOneCommand, WatchSteps, FireSteps
<1>6. QuestionHeld
  BY DEF SchedulerInit, QuestionHeld
<1> QED BY <1>3, <1>4, <1>5, <1>6 DEF SchedulerInv

LEMMA TypeTick ==
    ASSUME SchedulerInv, Tick
    PROVE  TypeOK' /\ RowInHand'
<1> USE SchedulerAssumption DEF SchedulerInv, TypeOK, RowInHand, DueIsNumbered, WatchSteps, FireSteps,
        rows, session, turn, told, firings, thread, Goto, Read, Leave, Rest, Event
<1>1. CASE compactIdleSessions
  <2>1. raced' \in BOOLEAN /\ pc' \in {"rotate", "watches"}
    BY <1>1 DEF compactIdleSessions
  <2>2. UNCHANGED <<rows, session, row, out, sees, events, told, firings>>
    BY <1>1 DEF compactIdleSessions
  <2> QED BY <2>1, <2>2
<1>2. CASE rotate
  <2>1. conv' \in BOOLEAN /\ raced' \in BOOLEAN /\ pc' = "watches"
    BY <1>2 DEF rotate
  <2>2. UNCHANGED <<rows, archived, status, worker, asked, aged, turn, row, out, sees, events, told,
                    firings>>
    BY <1>2 DEF rotate
  <2> QED BY <2>1, <2>2
<1>3. CASE runDueWatches
  BY <1>3 DEF runDueWatches
<1>4. CASE runWatch
  <2>1. watch' \in WatchRows \cup {None}
    BY <1>4, WatchUpdates DEF runWatch, Reaches
  <2> QED BY <1>4, <2>1 DEF runWatch
<1>5. CASE runWatchCommand
  <2>1. row.cmd \in Commands
    BY <1>5 DEF runWatchCommand, WatchRows
  <2>2. out' \in Outputs /\ out'[1] = row.cmd
    BY <1>5, <2>1 DEF runWatchCommand, Outputs
  <2> QED BY <1>5, <2>2 DEF runWatchCommand
<1>6. CASE storeRun
  <2>1. watch' \in WatchRows \cup {None}
    BY <1>6, WatchStored DEF storeRun, Reaches
  <2>2. known' \in Outputs \cup {None}
    BY <1>6 DEF storeRun
  <2> QED BY <1>6, <2>1, <2>2 DEF storeRun
<1>7. CASE wakeWatch
  <2>1. row.base \in Outputs /\ row.mixed \in BOOLEAN
    BY <1>7 DEF wakeWatch, WatchRows, BaselineInHand
  <2>2. report' \in [before : Outputs, after : Outputs, mixed : BOOLEAN] \cup {None}
    BY <1>7, <2>1 DEF wakeWatch
  <2>3. known' \in Outputs \cup {None} /\ lost' \in BOOLEAN /\ events' \in 0..MaxEvents
    <3>1. events' \in 0..MaxEvents
      BY <1>7, EventIsBounded DEF wakeWatch
    <3>2. known' \in Outputs \cup {None} /\ lost' \in BOOLEAN
      BY <1>7 DEF wakeWatch
    <3> QED BY <3>1, <3>2
  <2>4. pc' = "expire" /\ row' = None /\ out' = None
    BY <1>7 DEF wakeWatch
  <2> QED BY <1>7, <2>2, <2>3, <2>4 DEF wakeWatch
<1>8. CASE expireWatches
  BY <1>8 DEF expireWatches
<1>9. CASE expireDelete
  BY <1>9 DEF expireDelete
<1>10. CASE expireWake
  BY <1>10 DEF expireWake
<1>11. CASE fireDueSchedules
  BY <1>11 DEF fireDueSchedules
<1>12. CASE fireSchedule
  <2>1. schedule' \in ScheduleRows \cup {None}
    BY <1>12, ScheduleUpdates DEF fireSchedule, Reaches
  <2>2. row.firing \in Firings
    BY <1>12, DueNowIsFiring DEF fireSchedule
  <2>3. dropped' \subseteq Firings
    BY <1>12, <2>2, DueNowIsFiring DEF fireSchedule
  <2>4. fired' \in [Firings -> Nat]
    BY <1>12, <2>2 DEF fireSchedule
  <2>5. events' \in 0..MaxEvents
    BY <1>12 DEF fireSchedule
  <2> QED BY <1>12, <2>1, <2>3, <2>4, <2>5 DEF fireSchedule
<1>13. CASE routineWorkerBot \/ startRoutineWorker
  <2>1. row.firing \in Firings /\ pc \in {"worker", "start"}
    BY <1>13, DueNowIsFiring DEF routineWorkerBot, startRoutineWorker
  <2>2. fired' \in [Firings -> Nat] /\ dropped' \subseteq Firings
    BY <1>13, <2>1 DEF routineWorkerBot, startRoutineWorker
  <2>3. events' \in 0..MaxEvents
    BY <1>13, EventIsBounded DEF routineWorkerBot, startRoutineWorker
  <2>4. archived' \in BOOLEAN /\ status' \in {status, "idle"} /\ conv' \in BOOLEAN
    BY <1>13 DEF routineWorkerBot, startRoutineWorker
  <2>5. /\ UNCHANGED <<rows, worker, asked, aged, turn, row, out, sees, told, cut, raced>>
        /\ pc' \in {"start", "post"}
    BY <1>13 DEF routineWorkerBot, startRoutineWorker
  <2> QED BY <2>1, <2>2, <2>3, <2>4, <2>5
<1>14. CASE postRoutineFired
  BY <1>14 DEF postRoutineFired
<1>15. CASE rollForward
  <2>1. schedule' \in ScheduleRows \cup {None}
    BY <1>15, ScheduleUpdates DEF rollForward, Reaches
  <2>2. dropped' \subseteq Firings
    BY <1>15, DueNowIsFiring DEF rollForward
  <2> QED BY <1>15, <2>1, <2>2 DEF rollForward
<1> QED BY <1>1, <1>2, <1>3, <1>4, <1>5, <1>6, <1>7, <1>8, <1>9, <1>10, <1>11, <1>12, <1>13, <1>14,
           <1>15 DEF Tick

LEMMA TypeOutside ==
    ASSUME SchedulerInv, Tools \/ Turns \/ Time \/ World \/ crash
    PROVE  TypeOK' /\ RowInHand'
<1> USE SchedulerAssumption DEF SchedulerInv, TypeOK, RowInHand, DueIsNumbered, WatchSteps, FireSteps,
        rows, session, turn, told, firings, thread, Leave, Rest, Event
<1>1. ASSUME NEW c \in Commands, upsertWatch(c) PROVE TypeOK' /\ RowInHand'
  <2>1. watch' \in WatchRows \cup {None} /\ lastId' \in Nat
    <3>1. CASE watch = None
      <4>1. lastId' = lastId + 1
            /\ watch' = [id |-> lastId', cmd |-> c, on |-> TRUE, base |-> None, due |-> TRUE,
                         old |-> FALSE, mixed |-> FALSE]
        BY <1>1, <3>1 DEF upsertWatch
      <4> QED BY <4>1 DEF WatchRows
    <3>2. CASE watch # None
      <4>1. watch \in WatchRows /\ lastId' = lastId
        BY <1>1, <3>2 DEF upsertWatch
      <4>2. CASE watch.cmd = c
        BY <1>1, <3>2, <4>1, <4>2, WatchUpdates DEF upsertWatch
      <4>3. CASE watch.cmd # c
        <5>1. watch' = [watch EXCEPT !.cmd = c, !.on = TRUE, !.old = FALSE, !.base = None,
                                     !.due = TRUE, !.mixed = FALSE]
          BY <1>1, <3>2, <4>3 DEF upsertWatch
        <5> QED BY <4>1, <5>1, WatchReplaced
      <4> QED BY <4>1, <4>2, <4>3
    <3> QED BY <3>1, <3>2
  <2> QED BY <1>1, <2>1 DEF upsertWatch
<1>2. CASE deleteWatch
  BY <1>2 DEF deleteWatch
<1>3. ASSUME NEW recurring \in BOOLEAN, scheduleWakeup(recurring) PROVE TypeOK' /\ RowInHand'
  <2>1. schedule' \in ScheduleRows /\ lastId' \in Nat
    BY <1>3 DEF scheduleWakeup, ScheduleRows
  <2> QED BY <1>3, <2>1 DEF scheduleWakeup
<1>4. ASSUME NEW mine \in BOOLEAN, upsertRoutine(mine) PROVE TypeOK' /\ RowInHand'
  <2>1. schedule' \in ScheduleRows \cup {None} /\ lastId' \in Nat
    <3>1. CASE schedule = None
      <4>1. lastId' = lastId + 1
            /\ schedule' = [id |-> lastId', named |-> TRUE, mine |-> mine, recurring |-> TRUE,
                            on |-> TRUE, due |-> FALSE, firing |-> 0]
        BY <1>4, <3>1 DEF upsertRoutine
      <4> QED BY <4>1 DEF ScheduleRows
    <3>2. CASE schedule # None
      <4>1. schedule' = [schedule EXCEPT !.on = TRUE, !.due = FALSE, !.firing = 0] /\ lastId' = lastId
        BY <1>4, <3>2 DEF upsertRoutine
      <4> QED BY <3>2, <4>1, ScheduleUpdates
    <3> QED BY <3>1, <3>2
  <2>2. dropped' \subseteq Firings
    BY <1>4, DueNowIsFiring DEF upsertRoutine
  <2> QED BY <1>4, <2>1, <2>2 DEF upsertRoutine
<1>5. CASE cancelSchedule
  <2>1. dropped' \subseteq Firings
    BY <1>5, DueNowIsFiring DEF cancelSchedule
  <2> QED BY <1>5, <2>1 DEF cancelSchedule
<1>6. CASE archiveBotRow
  <2>1. watch' \in WatchRows \cup {None} /\ schedule' \in ScheduleRows \cup {None}
    BY <1>6, WatchUpdates, ScheduleUpdates DEF archiveBotRow
  <2>2. dropped' \subseteq Firings
    BY <1>6, DueNowIsFiring DEF archiveBotRow
  <2> QED BY <1>6, <2>1, <2>2 DEF archiveBotRow
<1>7. CASE unarchiveBotRow \/ renameBot
  <2>1. events' \in 0..MaxEvents
    BY <1>7, EventIsBounded DEF unarchiveBotRow, renameBot
  <2>2. /\ archived' \in BOOLEAN /\ status' \in {status, "idle"} /\ worker' \in BOOLEAN
        /\ conv' \in BOOLEAN /\ renamed' \in BOOLEAN /\ raced' \in BOOLEAN
        /\ UNCHANGED <<rows, asked, aged, loop, resume, thread, sees, told, firings>>
    BY <1>7 DEF unarchiveBotRow, renameBot, MadeIdle
  <2> QED BY <2>1, <2>2
<1>8. CASE Turns
  <2> USE <1>8 DEF Turns, runNext, startTurn, askOwner, retry, sessionLost, endTurn, rotateRenamed,
          parkOrIdle, answer, sessionForTurn, MadeIdle
  <2>1. events' \in 0..MaxEvents
    BY EventIsBounded
  <2>2. status' \in {status, "idle", "running", "waiting"} /\ raced' \in BOOLEAN
    OBVIOUS
  <2>3. conv' \in BOOLEAN /\ asked' \in BOOLEAN /\ aged' \in BOOLEAN
    OBVIOUS
  <2>4. /\ loop' \in {loop, "rest", "fold", "turn", "name", "park", "free"}
        /\ resume' \in BOOLEAN /\ renamed' \in BOOLEAN
    OBVIOUS
  <2>5. UNCHANGED <<rows, archived, worker, thread, sees, told, firings>>
    OBVIOUS
  <2> QED BY <2>1, <2>2, <2>3, <2>4, <2>5
<1>9. CASE intervalPasses \/ lifetimePasses
  <2>1. watch' \in WatchRows
    BY <1>9, WatchUpdates DEF intervalPasses, lifetimePasses
  <2> QED BY <1>9, <2>1 DEF intervalPasses, lifetimePasses
<1>10. CASE idleHourPasses
  BY <1>10 DEF idleHourPasses
<1>11. CASE fallsDue
  <2>1. lastFiring' \in Firings /\ lastFiring' = lastFiring + 1
    BY <1>11 DEF fallsDue, Firings
  <2>2. schedule' \in ScheduleRows
    BY <1>11, <2>1, ScheduleUpdates DEF fallsDue
  <2> QED BY <1>11, <2>1, <2>2 DEF fallsDue
<1>12. CASE World
  <2>1. sees' \in [Commands -> Values]
    BY <1>12 DEF World, worldChanges
  <2> QED BY <1>12, <2>1 DEF World, worldChanges
<1>13. CASE crash
  <2>1. cut' \subseteq Firings /\ events' \in 0..MaxEvents
    BY <1>13, DueNowIsFiring, EventIsBounded DEF crash
  <2>2. status' \in {"idle", "running", "waiting", "disabled"}
    BY <1>13 DEF crash
  <2>3. /\ UNCHANGED <<watch, schedule, lastId, lastFiring, archived, worker, conv, asked, sees, known,
                      report, fired, dropped>>
        /\ pc' = "idle" /\ row' = None /\ out' = None /\ aged' \in BOOLEAN /\ lost' \in BOOLEAN
        /\ loop' = "rest" /\ resume' = FALSE /\ renamed' = FALSE /\ raced' = FALSE
    BY <1>13 DEF crash
  <2>4. RowInHand'
    BY <2>3
  <2>5. TypeOK'
    BY <2>1, <2>2, <2>3
  <2> QED BY <2>4, <2>5
<1> QED BY <1>1, <1>2, <1>3, <1>4, <1>5, <1>6, <1>7, <1>8, <1>9, <1>10, <1>11, <1>12, <1>13
        DEF Tools, Time

-----------------------------------------------------------------------------
\* Due times.
FiringInv == DueIsNumbered /\ FiredIsRetired /\ FiredOnce

\* A step that leaves the schedule, the history and the row in hand alone.
LEMMA FiringFrame ==
    ASSUME FiringInv, UNCHANGED <<schedule, lastFiring, firings>>,
           \/ pc \notin FireSteps /\ pc' \notin FireSteps
           \/ UNCHANGED <<pc, row>>
    PROVE  FiringInv'
BY DEF FiringInv, DueIsNumbered, FiredIsRetired, FiredOnce, firings, FireSteps

LEMMA FiringTick ==
    ASSUME SchedulerInv, Tick
    PROVE  FiringInv'
<1> USE DEF SchedulerInv, FiringInv, TypeOK, RowInHand, DueIsNumbered, FiredIsRetired, FiredOnce, FireSteps,
        rows, session, turn, told, firings, thread, Goto, Read, Leave, Rest, Event, Firings
<1>1. CASE \/ compactIdleSessions \/ rotate \/ runDueWatches \/ runWatch \/ runWatchCommand \/ storeRun
           \/ wakeWatch \/ expireWatches \/ expireDelete \/ expireWake
  <2>1. UNCHANGED <<schedule, lastFiring, firings>> /\ pc \notin FireSteps /\ pc' \notin FireSteps
    BY <1>1 DEF compactIdleSessions, rotate, runDueWatches, runWatch, runWatchCommand, storeRun,
                wakeWatch, expireWatches, expireDelete, expireWake
  <2> QED BY <2>1, FiringFrame
<1>2. CASE fireDueSchedules
  <2>1. CASE schedule # None /\ schedule.on /\ schedule.due
    <3>1. UNCHANGED <<schedule, lastFiring, firings>> /\ pc = "fire" /\ pc' = "enqueue" /\ row' = schedule
      BY <1>2, <2>1 DEF fireDueSchedules
    <3>2. schedule.firing \in 1..lastFiring /\ schedule.firing \in Firings
      BY <2>1, DueNowIsFiring
    <3>3. fired[schedule.firing] \in Nat
      BY <3>2
    <3>4. fired[schedule.firing] = 0 \/ schedule.firing \in cut
      BY <2>1, <3>1, <3>3
    <3> QED BY <2>1, <3>1, <3>2, <3>4
  <2>2. CASE ~(schedule # None /\ schedule.on /\ schedule.due)
    BY <1>2, <2>2, FiringFrame DEF fireDueSchedules
  <2> QED BY <2>1, <2>2
<1>3. CASE fireSchedule \/ routineWorkerBot \/ startRoutineWorker
  <2>1. /\ row.firing \in Firings /\ row.firing <= lastFiring
        /\ pc \in {"enqueue", "worker", "start"} /\ UNCHANGED <<lastFiring, cut>>
    BY <1>3, DueNowIsFiring DEF fireSchedule, routineWorkerBot, startRoutineWorker
  <2>2. CASE fireSchedule /\ row.mine /\ archived
    <3>1. fired' = fired /\ pc' = "idle"
      BY <2>2 DEF fireSchedule
    <3>2. schedule' = schedule \/ (schedule # None /\ schedule' = [schedule EXCEPT !.on = FALSE])
      BY <2>2 DEF fireSchedule, Reaches
    <3>3. schedule' = None \/ ~schedule'.on \/ schedule' = schedule
      BY <3>2 DEF ScheduleRows
    <3>4. schedule' # None /\ schedule'.due
            => schedule # None /\ schedule.due /\ schedule'.firing = schedule.firing
      BY <3>2 DEF ScheduleRows
    <3> QED BY <2>1, <3>1, <3>3, <3>4
  <2>3. CASE UNCHANGED <<schedule, row>> /\ fired' = [fired EXCEPT ![row.firing] = @ + 1]
             /\ pc' \in {"post", "roll"}
    <3>1. \A f \in Firings : fired'[f] = IF f = row.firing THEN fired[f] + 1 ELSE fired[f]
      BY <2>1, <2>3
    <3>2. DueIsNumbered'
      BY <2>1, <2>3, <3>1
    <3>3. FiredIsRetired'
      <4>1. schedule # None /\ schedule.due => schedule.firing \in Firings
        BY DueNowIsFiring
      <4> QED BY <2>1, <2>3, <3>1, <4>1
    <3>4. FiredOnce'
      <4>1. fired[row.firing] = 0 \/ row.firing \in cut
        BY <2>1
      <4> QED BY <2>1, <2>3, <3>1, <4>1
    <3> QED BY <3>2, <3>3, <3>4
  <2>4. CASE UNCHANGED <<schedule, fired>>
             /\ (pc' = "idle" \/ (pc' \in {"worker", "start", "post"} /\ row' = row))
    BY <2>1, <2>4
  <2>5. CASE fireSchedule /\ ~(row.mine /\ archived)
    <3>1. UNCHANGED schedule
      BY <2>5 DEF fireSchedule
    <3>2. \/ UNCHANGED <<fired, row>> /\ pc' = "worker"
          \/ fired' = [fired EXCEPT ![row.firing] = @ + 1] /\ pc' = "roll" /\ row' = row
          \/ fired' = fired /\ pc' = "idle"
      BY <2>5 DEF fireSchedule
    <3> QED BY <2>3, <2>4, <3>1, <3>2
  <2>6. CASE routineWorkerBot
    BY <2>4, <2>6 DEF routineWorkerBot
  <2>7. CASE startRoutineWorker
    <3>1. UNCHANGED <<schedule, row>> /\ pc' = "post"
      BY <2>7 DEF startRoutineWorker
    <3>2. fired' = [fired EXCEPT ![row.firing] = @ + 1] \/ fired' = fired
      BY <2>7 DEF startRoutineWorker
    <3> QED BY <2>3, <2>4, <3>1, <3>2
  <2> QED BY <1>3, <2>2, <2>5, <2>6, <2>7
<1>4. CASE postRoutineFired
  BY <1>4 DEF postRoutineFired
<1>5. CASE rollForward
  <2>1. UNCHANGED <<lastFiring, fired, cut>> /\ pc' = "idle" /\ pc = "roll"
    BY <1>5 DEF rollForward
  <2>2. CASE schedule # None /\ schedule.id = row.id
    <3>1. ~schedule'.on \/ ~schedule'.due
      BY <1>5, <2>2 DEF rollForward, Reaches, ScheduleRows
    <3>2. schedule'.due => schedule.due /\ schedule'.firing = schedule.firing
      BY <1>5, <2>2 DEF rollForward, Reaches, ScheduleRows
    <3> QED BY <2>1, <2>2, <3>1, <3>2
  <2>3. CASE schedule = None \/ schedule.id # row.id
    <3>1. schedule' = schedule
      BY <1>5, <2>3 DEF rollForward, Reaches
    <3> QED BY <2>1, <2>3, <3>1
  <2> QED BY <2>2, <2>3
<1> QED BY <1>1, <1>2, <1>3, <1>4, <1>5 DEF Tick

LEMMA FiringOutside ==
    ASSUME SchedulerInv, Tools \/ Turns \/ Time \/ World \/ crash
    PROVE  FiringInv'
<1> USE DEF SchedulerInv, FiringInv, TypeOK, RowInHand, DueIsNumbered, FiredIsRetired, FiredOnce, FireSteps,
        rows, session, turn, told, firings, thread, Leave, Rest, Event, Firings
<1>1. CASE \/ \E c \in Commands : upsertWatch(c) \/ worldChanges(c)
           \/ deleteWatch \/ unarchiveBotRow \/ renameBot \/ Turns
           \/ intervalPasses \/ lifetimePasses \/ idleHourPasses
  <2>1. UNCHANGED <<schedule, lastFiring, firings, pc, row>>
    BY <1>1 DEF upsertWatch, worldChanges, deleteWatch, unarchiveBotRow, renameBot, Turns, runNext,
                startTurn, askOwner, retry, sessionLost, endTurn, rotateRenamed, parkOrIdle, answer,
                intervalPasses, lifetimePasses, idleHourPasses
  <2> QED BY <2>1, FiringFrame
<1>2. ASSUME UNCHANGED <<lastFiring, fired, cut, pc, row>>, schedule' = None \/ ~schedule'.due
      PROVE  FiringInv'
  BY <1>2
<1>3. ASSUME NEW recurring \in BOOLEAN, scheduleWakeup(recurring) PROVE FiringInv'
  BY <1>2, <1>3 DEF scheduleWakeup
<1>4. ASSUME NEW mine \in BOOLEAN, upsertRoutine(mine) PROVE FiringInv'
  <2>1. UNCHANGED <<lastFiring, fired, cut, pc, row>>
    BY <1>4 DEF upsertRoutine
  <2>2. ~schedule'.due
    <3>1. CASE schedule = None
      BY <1>4, <3>1 DEF upsertRoutine
    <3>2. CASE schedule # None
      BY <1>4, <3>2 DEF upsertRoutine, ScheduleRows
    <3> QED BY <3>1, <3>2
  <2> QED BY <2>1, <2>2, <1>2
<1>5. CASE cancelSchedule
  BY <1>2, <1>5 DEF cancelSchedule
<1>6. CASE archiveBotRow
  <2>1. UNCHANGED <<lastFiring, fired, cut, pc, row>>
    BY <1>6 DEF archiveBotRow
  <2>2. CASE schedule = None
    BY <1>2, <1>6, <2>1, <2>2 DEF archiveBotRow
  <2>3. CASE schedule # None /\ ~schedule.mine
    BY <1>6, <2>1, <2>3, FiringFrame DEF archiveBotRow
  <2>4. CASE schedule # None /\ schedule.mine
    <3>1. schedule' = [schedule EXCEPT !.on = FALSE] /\ schedule \in ScheduleRows
      BY <1>6, <2>4 DEF archiveBotRow
    <3>2. ~schedule'.on /\ schedule'.due = schedule.due /\ schedule'.firing = schedule.firing
          /\ schedule'.id = schedule.id
      BY <3>1 DEF ScheduleRows
    <3> QED BY <2>1, <2>4, <3>2
  <2> QED BY <2>2, <2>3, <2>4
<1>7. CASE fallsDue
  <2>1. UNCHANGED <<fired, cut, pc, row>> /\ lastFiring' = lastFiring + 1 /\ lastFiring' \in Firings
    BY <1>7, SchedulerAssumption DEF fallsDue
  <2>2. schedule'.firing = lastFiring'
    BY <1>7 DEF fallsDue, ScheduleRows
  <2>3. fired[lastFiring'] = 0
    BY <2>1
  <2> QED BY <2>1, <2>2, <2>3
<1>8. CASE crash
  <2>1. UNCHANGED <<schedule, lastFiring, fired>> /\ pc' = "idle" /\ cut \subseteq cut'
    BY <1>8 DEF crash
  <2>2. pc \in {"post", "roll"} => row.firing \in cut'
    BY <1>8 DEF crash
  <2> QED BY <2>1, <2>2
<1> QED BY <1>1, <1>3, <1>4, <1>5, <1>6, <1>7, <1>8 DEF Tools, Time, World

-----------------------------------------------------------------------------
\* Baselines and reports of a watch.
WatchInv == BaselineInHand /\ BaselineKnown /\ BaselineOfCommand /\ ChangeOfOneCommand

\* A step that leaves the watch, the history and the row in hand alone.
LEMMA WatchFrame ==
    ASSUME WatchInv, UNCHANGED <<watch, told>>,
           \/ pc \notin WatchSteps /\ pc' \notin WatchSteps
           \/ UNCHANGED <<pc, row, out>>
    PROVE  WatchInv'
BY DEF WatchInv, BaselineInHand, BaselineKnown, BaselineOfCommand, ChangeOfOneCommand, told, WatchSteps

\* A step of another process on the watch: it takes the baseline away or leaves it, with
\* the row's identity and the command it belongs to.
LEMMA WatchTouched ==
    ASSUME WatchInv, UNCHANGED <<told, pc, row, out>>,
           watch' # None /\ watch'.base # None
               => /\ watch # None /\ watch'.base = watch.base /\ watch'.id = watch.id
                  /\ watch'.cmd = watch.cmd /\ watch'.mixed = watch.mixed
    PROVE  WatchInv'
BY DEF WatchInv, BaselineInHand, BaselineKnown, BaselineOfCommand, ChangeOfOneCommand, told, WatchSteps

LEMMA WatchTick ==
    ASSUME SchedulerInv, Tick
    PROVE  WatchInv'
<1> USE DEF SchedulerInv, WatchInv, rows, told, firings, thread, Goto, Read, Leave, Rest
<1>1. CASE \/ compactIdleSessions \/ rotate \/ expireWake
           \/ fireDueSchedules \/ fireSchedule \/ routineWorkerBot \/ startRoutineWorker
           \/ postRoutineFired \/ rollForward
  <2>1. UNCHANGED <<watch, told>> /\ pc \notin WatchSteps /\ pc' \notin WatchSteps
    BY <1>1 DEF compactIdleSessions, rotate, expireWake, fireDueSchedules, fireSchedule,
                routineWorkerBot, startRoutineWorker, postRoutineFired, rollForward, WatchSteps
  <2> QED BY <2>1, WatchFrame
<1>2. CASE runDueWatches
  <2>1. CASE watch # None /\ watch.on /\ watch.due
    <3>1. UNCHANGED <<watch, told>> /\ pc = "watches" /\ pc' = "runWatch" /\ row' = watch
      BY <1>2, <2>1 DEF runDueWatches
    <3>2. watch.base # None /\ ~lost => watch.base = known
      BY <2>1, <3>1 DEF BaselineKnown
    <3>3. BaselineInHand' /\ BaselineKnown'
      BY <3>1, <3>2 DEF BaselineInHand, BaselineKnown
    <3>4. BaselineOfCommand' /\ ChangeOfOneCommand'
      BY <2>1, <3>1 DEF BaselineOfCommand, ChangeOfOneCommand, WatchSteps
    <3> QED BY <3>3, <3>4
  <2>2. CASE ~(watch # None /\ watch.on /\ watch.due)
    BY <1>2, <2>2, WatchFrame DEF runDueWatches, WatchSteps
  <2> QED BY <2>1, <2>2
<1>3. CASE runWatch
  <2>1. UNCHANGED told /\ pc = "runWatch" /\ ((pc' = "command" /\ row' = row) \/ pc' = "expire")
    BY <1>3 DEF runWatch
  <2>2. watch' = watch \/ (watch \in WatchRows /\ watch' = [watch EXCEPT !.on = FALSE] /\ watch # None)
    BY <1>3 DEF runWatch, Reaches, TypeOK
  <2>3. watch' # None /\ watch'.base # None
               => /\ watch # None /\ watch'.base = watch.base /\ watch'.id = watch.id
                  /\ watch'.cmd = watch.cmd /\ watch'.mixed = watch.mixed
    BY <2>2 DEF WatchRows
  <2> QED BY <2>1, <2>3 DEF BaselineInHand, BaselineKnown, BaselineOfCommand, ChangeOfOneCommand, WatchSteps
<1>4. CASE runWatchCommand
  <2>1. UNCHANGED <<watch, told, row>> /\ pc = "command" /\ pc' = "store"
    BY <1>4 DEF runWatchCommand
  <2> QED BY <2>1 DEF BaselineInHand, BaselineKnown, BaselineOfCommand, ChangeOfOneCommand, WatchSteps
<1>5. CASE storeRun
  <2>1. pc = "store" /\ out \in Outputs /\ out[1] = row.cmd /\ row \in WatchRows /\ out # None
    BY <1>5, SchedulerAssumption DEF storeRun, RowInHand, WatchSteps, Outputs
  <2>2. UNCHANGED <<report, lost>> /\ known' = IF row.base = None THEN out ELSE known
    BY <1>5 DEF storeRun
  <2>3. \/ row.base \in {None, out} /\ pc' = "expire"
        \/ row.base \notin {None, out} /\ pc' = "wake" /\ row' = row /\ out' = out
    BY <1>5 DEF storeRun
  <2>4. \/ watch = None /\ watch' = None
        \/ watch # None /\ watch.id # row.id /\ watch' = watch
        \/ /\ watch # None /\ watch.id = row.id /\ watch'.base = out /\ watch'.id = watch.id
           /\ watch'.cmd = watch.cmd /\ watch'.mixed = (watch.cmd # row.cmd)
    BY <1>5 DEF storeRun, Reaches, TypeOK, WatchRows
  <2>5. ~lost /\ row.base # None => row.base = known
    BY <2>1 DEF BaselineInHand
  <2>6. watch # None /\ watch.base # None => watch.id = row.id
    BY <2>1 DEF BaselineInHand
  <2>7. BaselineInHand' /\ BaselineKnown'
    BY <2>2, <2>3, <2>4, <2>5, <2>6 DEF BaselineInHand, BaselineKnown
  <2>8. BaselineOfCommand'
    BY <2>1, <2>3, <2>4 DEF BaselineOfCommand, WatchSteps
  <2> QED BY <2>2, <2>7, <2>8 DEF ChangeOfOneCommand
<1>6. CASE wakeWatch
  <2>1. pc = "wake" /\ pc' = "expire" /\ watch' = watch
    BY <1>6 DEF wakeWatch
  <2>2. watch # None /\ watch.base # None => watch.base = out
    BY <2>1 DEF BaselineInHand
  <2>3. \/ known' = out /\ lost' = lost
           /\ report' = [before |-> row.base, after |-> out, mixed |-> row.mixed]
        \/ lost' = TRUE /\ UNCHANGED report
    BY <1>6 DEF wakeWatch
  <2>4. row.base # out /\ (row.mixed \/ row.base[1] = out[1])
    BY <2>1 DEF BaselineInHand, BaselineOfCommand, RowInHand, WatchSteps
  <2>5. ChangeOfOneCommand'
    BY <2>3, <2>4 DEF ChangeOfOneCommand
  <2> QED BY <2>1, <2>2, <2>3, <2>5 DEF BaselineInHand, BaselineKnown, BaselineOfCommand, WatchSteps
<1>7. CASE expireWatches
  <2>1. UNCHANGED <<watch, told>> /\ pc = "expire"
        /\ (\/ pc' = "delete" /\ row' = watch /\ watch # None
            \/ pc' = "fire")
    BY <1>7 DEF expireWatches
  <2> QED BY <2>1 DEF BaselineInHand, BaselineKnown, BaselineOfCommand, ChangeOfOneCommand, WatchSteps
<1>8. CASE expireDelete
  <2>1. UNCHANGED told /\ watch' \in {watch, None} /\ pc = "delete" /\ pc' = "expired"
    BY <1>8 DEF expireDelete
  <2> QED BY <2>1 DEF BaselineInHand, BaselineKnown, BaselineOfCommand, ChangeOfOneCommand, WatchSteps
<1> QED BY <1>1, <1>2, <1>3, <1>4, <1>5, <1>6, <1>7, <1>8 DEF Tick

LEMMA WatchOutside ==
    ASSUME SchedulerInv, Tools \/ Turns \/ Time \/ World \/ crash
    PROVE  WatchInv'
<1> USE DEF SchedulerInv, WatchInv, rows, told, firings, thread, Leave, Rest
<1>1. ASSUME NEW c \in Commands, upsertWatch(c) PROVE WatchInv'
  <2>1. UNCHANGED <<told, pc, row, out>>
    BY <1>1 DEF upsertWatch
  <2>2. watch # None => watch \in WatchRows
    BY DEF TypeOK
  <2>3. watch' # None /\ watch'.base # None
               => /\ watch # None /\ watch'.base = watch.base /\ watch'.id = watch.id
                  /\ watch'.cmd = watch.cmd /\ watch'.mixed = watch.mixed
    <3>1. CASE watch = None
      BY <1>1, <3>1 DEF upsertWatch
    <3>2. CASE watch # None /\ watch.cmd = c
      BY <1>1, <2>2, <3>2 DEF upsertWatch, WatchRows
    <3>3. CASE watch # None /\ watch.cmd # c
      <4>1. watch'.base = None
        BY <1>1, <2>2, <3>3 DEF upsertWatch, WatchRows
      <4> QED BY <4>1
    <3> QED BY <3>1, <3>2, <3>3
  <2> QED BY <2>1, <2>3, WatchTouched
<1>2. CASE deleteWatch
  BY <1>2, WatchTouched DEF deleteWatch
<1>3. CASE archiveBotRow \/ intervalPasses \/ lifetimePasses
  <2>1. UNCHANGED <<told, pc, row, out>>
    BY <1>3 DEF archiveBotRow, intervalPasses, lifetimePasses
  <2>2. watch # None => watch \in WatchRows
    BY DEF TypeOK
  <2>3. watch' # None /\ watch'.base # None
               => /\ watch # None /\ watch'.base = watch.base /\ watch'.id = watch.id
                  /\ watch'.cmd = watch.cmd /\ watch'.mixed = watch.mixed
    BY <1>3, <2>2 DEF archiveBotRow, intervalPasses, lifetimePasses, WatchRows
  <2> QED BY <2>1, <2>3, WatchTouched
<1>4. CASE \/ \E b \in BOOLEAN : scheduleWakeup(b) \/ upsertRoutine(b)
           \/ cancelSchedule \/ unarchiveBotRow \/ renameBot \/ Turns
           \/ idleHourPasses \/ fallsDue \/ World
  <2>1. UNCHANGED <<watch, told, pc, row, out>>
    BY <1>4 DEF scheduleWakeup, upsertRoutine, cancelSchedule, unarchiveBotRow, renameBot, Turns,
                runNext, startTurn, askOwner, retry, sessionLost, endTurn, rotateRenamed, parkOrIdle,
                answer, idleHourPasses, fallsDue, World, worldChanges
  <2> QED BY <2>1, WatchFrame
<1>5. CASE crash
  <2>1. UNCHANGED <<watch, known, report>> /\ pc' = "idle" /\ lost' = (lost \/ pc = "wake")
    BY <1>5 DEF crash
  <2> QED BY <2>1 DEF BaselineInHand, BaselineKnown, BaselineOfCommand, ChangeOfOneCommand, WatchSteps
<1> QED BY <1>1, <1>2, <1>3, <1>4, <1>5 DEF Tools, Time

-----------------------------------------------------------------------------
\* Rotation.  What may change the session while the scheduler is between its look and its
\* update, and what may drop a conversation.
Spared == conv /\ ~conv' /\ asked => raced \/ MeansTo

\* A step outside the window that the session's turn is not part of.
LEMMA QuestionFrame ==
    ASSUME QuestionHeld, UNCHANGED <<conv, asked, loop>>,
           pc' # "rotate" \/ UNCHANGED <<pc, raced, status>>
    PROVE  QuestionHeld' /\ Spared
BY DEF QuestionHeld, Spared, Executing

LEMMA QuestionTick ==
    ASSUME SchedulerInv, Tick
    PROVE  QuestionHeld' /\ Spared
<1> USE DEF SchedulerInv, TypeOK, Goto, Read, Leave, Rest, session, turn
<1>1. CASE compactIdleSessions
  <2>1. UNCHANGED <<conv, asked, loop, status>> /\ (pc' = "rotate" => ~asked)
    BY <1>1 DEF compactIdleSessions, IdleTooLong
  <2>2. pc' = "rotate" /\ ~raced' => ~Executing
    BY <1>1 DEF compactIdleSessions
  <2>3. Executing' = Executing
    BY <2>1 DEF Executing
  <2> QED BY <2>1, <2>2, <2>3 DEF QuestionHeld, Spared
<1>2. CASE rotate
  BY <1>2 DEF rotate, QuestionHeld, Spared
<1>3. CASE routineWorkerBot
  BY <1>3 DEF routineWorkerBot, QuestionHeld, Spared, MeansTo
<1>4. CASE Tick /\ ~(compactIdleSessions \/ rotate \/ routineWorkerBot)
  <2>1. UNCHANGED <<conv, asked, loop>> /\ pc' # "rotate"
    BY <1>4 DEF Tick, runDueWatches, runWatch, runWatchCommand, storeRun, wakeWatch, expireWatches,
                expireDelete, expireWake, fireDueSchedules, fireSchedule, startRoutineWorker,
                postRoutineFired, rollForward
  <2> QED BY <2>1, QuestionFrame
<1> QED BY <1>1, <1>2, <1>3, <1>4

LEMMA QuestionTurns ==
    ASSUME SchedulerInv, Turns
    PROVE  QuestionHeld' /\ Spared
<1> USE DEF SchedulerInv, TypeOK, QuestionHeld, Spared, Executing, thread, turn
<1>1. CASE runNext
  BY <1>1 DEF runNext
<1>2. CASE startTurn
  BY <1>2 DEF startTurn, sessionForTurn, IdleTooLong
<1>3. CASE askOwner
  BY <1>3 DEF askOwner
<1>4. CASE retry
  BY <1>4 DEF retry, sessionForTurn, IdleTooLong
<1>5. CASE sessionLost
  BY <1>5 DEF sessionLost, MeansTo
<1>6. CASE endTurn
  BY <1>6 DEF endTurn
<1>7. CASE rotateRenamed
  BY <1>7 DEF rotateRenamed, MeansTo
<1>8. CASE parkOrIdle
  BY <1>8 DEF parkOrIdle
<1>9. CASE answer
  BY <1>9 DEF answer, MadeIdle
<1> QED BY <1>1, <1>2, <1>3, <1>4, <1>5, <1>6, <1>7, <1>8, <1>9 DEF Turns

LEMMA QuestionStep ==
    ASSUME SchedulerInv, Step \/ crash
    PROVE  QuestionHeld' /\ Spared
<1> USE DEF SchedulerInv, TypeOK, QuestionHeld, Spared, Executing, thread, session, turn
<1>1. CASE archiveBotRow
  BY <1>1 DEF archiveBotRow
<1>2. CASE unarchiveBotRow
  BY <1>2 DEF unarchiveBotRow, MadeIdle
<1>3. CASE renameBot
  BY <1>3 DEF renameBot, MeansTo
<1>4. CASE crash
  BY <1>4 DEF crash, Rest, Leave
<1>5. CASE \/ Tools /\ ~(archiveBotRow \/ unarchiveBotRow \/ renameBot)
           \/ Time \/ World
  <2>1. UNCHANGED <<conv, asked, loop, pc, raced, status>>
    BY <1>5 DEF Tools, Time, World, upsertWatch, deleteWatch, upsertRoutine, cancelSchedule,
                scheduleWakeup, intervalPasses, lifetimePasses, idleHourPasses, fallsDue, worldChanges
  <2> QED BY <2>1, QuestionFrame
<1> QED BY <1>1, <1>2, <1>3, <1>4, <1>5, QuestionTick, QuestionTurns DEF Step

LEMMA SchedulerStep ==
    ASSUME SchedulerInv, Step \/ crash
    PROVE  SchedulerInv'
<1>1. TypeOK' /\ RowInHand'
  BY TypeTick, TypeOutside DEF Step
<1>2. FiringInv'
  BY FiringTick, FiringOutside DEF Step
<1>3. WatchInv'
  BY WatchTick, WatchOutside DEF Step
<1> QED BY <1>1, <1>2, <1>3, QuestionStep DEF SchedulerInv, FiringInv, WatchInv

\* The maintenance counts its events and leaves the rest of the scheduler's variables alone.
LEMMA SchedulerFrame ==
    ASSUME SchedulerInv, UNCHANGED <<rows, session, thread, sees, told, firings, raced>>,
           Event \/ UNCHANGED events
    PROVE  SchedulerInv'
<1>1. UNCHANGED <<watch, schedule, lastId, lastFiring, archived, status, worker, conv, asked, aged,
                  loop, resume, renamed, pc, row, out, sees, known, report, lost, fired, cut, dropped,
                  raced>>
  BY DEF rows, session, turn, thread, told, firings
<1>2. events' \in 0..MaxEvents
  BY EventIsBounded DEF SchedulerInv, TypeOK
<1>3. TypeOK'
  BY <1>1, <1>2 DEF SchedulerInv, TypeOK
<1>4. FiringInv' /\ RowInHand'
  BY <1>1 DEF SchedulerInv, FiringInv, DueIsNumbered, FiredIsRetired, FiredOnce, RowInHand
<1>5. WatchInv' /\ QuestionHeld'
  BY <1>1 DEF SchedulerInv, WatchInv, BaselineInHand, BaselineKnown, BaselineOfCommand,
              ChangeOfOneCommand, QuestionHeld, Executing
<1> QED BY <1>3, <1>4, <1>5 DEF SchedulerInv, FiringInv, WatchInv

-----------------------------------------------------------------------------
\* A bounded set of numbers has a greatest one: the identifier that a compaction counts on from.
LEMMA BoundedHasGreatest ==
    ASSUME NEW S \in SUBSET Nat, S # {}, NEW n \in Nat, \A s \in S : s <= n
    PROVE  \E i \in S : \A j \in S : j <= i
<1> DEFINE T == {m \in Nat : \A s \in S : s <= m}
           R == OpToRel(<, Nat)
<1>1. T \subseteq Nat /\ n \in T
  OBVIOUS
<1>2. PICK m \in T : \A k \in T : <<k, m>> \notin R
  <2> HIDE DEF T, R
  <2>1. IsWellFoundedOn(R, Nat)
    BY NatLessThanWellFounded DEF R
  <2>2. T # {}
    BY <1>1
  <2> QED BY <1>1, <2>1, <2>2, WFMin
<1>3. \A k \in T : ~(k < m)
  BY <1>1, <1>2 DEF OpToRel
<1>4. m \in S
  <2> SUFFICES ASSUME m \notin S PROVE FALSE
    OBVIOUS
  <2>1. ASSUME NEW s \in S PROVE s < m
    <3>1. s \in Nat /\ m \in Nat /\ s <= m /\ s # m
      BY <1>2
    <3> QED BY <3>1
  <2>2. m - 1 \in Nat
    <3>1. PICK s \in S : TRUE
      OBVIOUS
    <3>2. s \in Nat /\ s < m /\ m \in Nat
      BY <1>2, <2>1
    <3> QED BY <3>2
  <2>3. m - 1 \in T
    BY <2>1, <2>2
  <2> QED BY <1>3, <2>2, <2>3
<1> QED BY <1>2, <1>4

\* The memories' half.
LEMMA InitMemory == Init => MemoryInv
<1> SUFFICES ASSUME Init PROVE MemoryInv
  OBVIOUS
<1>1. MaintenanceTypeOK
  <2>1. 0 \in 0..MaxDays
    BY HousekeepingAssumption
  <2> QED BY <2>1 DEF Init, MaintenanceTypeOK
<1> QED BY <1>1 DEF Init, MemoryInv, IdsBounded, ListCovers, KeptOfList, SinceIsArchived, OldIsLate, MemoriesKept

\* A step that changes none of the memories, passes or histories.
LEMMA MemoryFrame ==
    ASSUME MemoryInv, UNCHANGED <<memory, passes, today, marked, remembered, late>>, monthGone' \in BOOLEAN
    PROVE  MemoryInv'
BY DEF MemoryInv, MaintenanceTypeOK, IdsBounded, ListCovers, KeptOfList, SinceIsArchived, OldIsLate, MemoriesKept,
       Archived, memory, passes

LEMMA CompactMemories ==
    ASSUME MemoryInv, NEW p \in Passes, compactMemories(p)
    PROVE  MemoryInv'
<1> USE DEF MemoryInv, memory, days
<1>1. UNCHANGED <<mems, archive, kept, today, marked, monthGone, remembered, late>> /\ Archived' = Archived
  BY DEF compactMemories, Archived
<1>2. \/ list' = [list EXCEPT ![p] = mems] /\ at' = [at EXCEPT ![p] = "turn"]
      \/ list' = list /\ at' = [at EXCEPT ![p] = "cleanup"]
  BY DEF compactMemories
<1>3. MaintenanceTypeOK'
  BY <1>1, <1>2 DEF MaintenanceTypeOK
<1>4. ListCovers' /\ KeptOfList'
  BY <1>1, <1>2 DEF ListCovers, KeptOfList, MaintenanceTypeOK
<1> QED BY <1>1, <1>3, <1>4 DEF IdsBounded, SinceIsArchived, OldIsLate, MemoriesKept, Archived

LEMMA CompactionTurn ==
    ASSUME MemoryInv, NEW p \in Passes, compactionTurn(p)
    PROVE  MemoryInv'
<1> USE DEF MemoryInv, memory, days
<1>1. UNCHANGED <<mems, archive, today, marked, monthGone, remembered, late>> /\ Archived' = Archived
  BY DEF compactionTurn, Archived
<1>2. \/ \E next \in SUBSET list[p] : /\ kept' = [kept EXCEPT ![p] = next]
                                     /\ at' = [at EXCEPT ![p] = "apply"] /\ list' = list
      \/ /\ list' = [list EXCEPT ![p] = {}] /\ kept' = [kept EXCEPT ![p] = {}]
         /\ at' = [at EXCEPT ![p] = "cleanup"]
  BY DEF compactionTurn, LetGo
<1>3. at[p] = "turn"
  BY DEF compactionTurn
<1>4. MaintenanceTypeOK' /\ ListCovers' /\ KeptOfList'
  <2>1. ASSUME NEW next \in SUBSET list[p], kept' = [kept EXCEPT ![p] = next],
               at' = [at EXCEPT ![p] = "apply"], list' = list
        PROVE  MaintenanceTypeOK' /\ ListCovers' /\ KeptOfList'
    <3>1. next \in SUBSET Facts
      BY DEF MaintenanceTypeOK
    <3>2. kept' \in [Passes -> SUBSET Facts]
          /\ at' \in [Passes -> {"off", "memories", "turn", "apply", "cleanup"}]
      BY <2>1, <3>1 DEF MaintenanceTypeOK
    <3>3. MaintenanceTypeOK'
      BY <1>1, <2>1, <3>2 DEF MaintenanceTypeOK
    <3>4. ListCovers'
      BY <1>1, <1>3, <2>1 DEF ListCovers, MaintenanceTypeOK
    <3>5. KeptOfList'
      BY <1>1, <2>1 DEF KeptOfList, MaintenanceTypeOK
    <3> QED BY <3>3, <3>4, <3>5
  <2>2. CASE /\ list' = [list EXCEPT ![p] = {}] /\ kept' = [kept EXCEPT ![p] = {}]
             /\ at' = [at EXCEPT ![p] = "cleanup"]
    <3>1. MaintenanceTypeOK'
      BY <1>1, <2>2 DEF MaintenanceTypeOK
    <3>2. ListCovers' /\ KeptOfList'
      BY <1>1, <2>2 DEF ListCovers, KeptOfList, MaintenanceTypeOK
    <3> QED BY <3>1, <3>2
  <2> QED BY <1>2, <2>1, <2>2
<1> QED BY <1>1, <1>4 DEF IdsBounded, SinceIsArchived, OldIsLate, MemoriesKept

\* The transaction: what it drops was on its list, which it archives in the same step.
LEMMA ApplyCompaction ==
    ASSUME MemoryInv, NEW p \in Passes, applyCompaction(p)
    PROVE  MemoryInv'
<1> USE DEF MemoryInv, memory, days
<1> DEFINE ids == {a.id : a \in archive}
           id == IF ids = {} THEN 1 ELSE 1 + CHOOSE i \in ids : \A j \in ids : j <= i
           new == [id |-> id, facts |-> list[p], since |-> remembered, old |-> FALSE]
<1>1. /\ archive' = archive \cup {new} /\ mems' = kept[p] /\ at[p] = "apply"
      /\ list' = [list EXCEPT ![p] = {}] /\ kept' = [kept EXCEPT ![p] = {}]
      /\ at' = [at EXCEPT ![p] = "cleanup"]
      /\ UNCHANGED <<today, marked, monthGone, remembered, late>>
  BY DEF applyCompaction, LetGo
<1>2. id \in Nat /\ \A a \in archive : a.id < id
  <2>1. ids \in SUBSET Nat
    BY DEF MaintenanceTypeOK, Archives
  <2>2. PICK n \in Nat : \A a \in archive : a.id <= n
    BY DEF IdsBounded
  <2>3. CASE ids = {}
    BY <2>3
  <2>4. CASE ids # {}
    <3>1. \E i \in ids : \A j \in ids : j <= i
      <4>1. \A s \in ids : s <= n
        BY <2>2
      <4> HIDE DEF ids
      <4> QED BY <2>1, <2>4, <4>1, BoundedHasGreatest
    <3> DEFINE top == CHOOSE i \in ids : \A j \in ids : j <= i
    <3>2. top \in ids /\ \A j \in ids : j <= top
      BY <3>1
    <3>3. id = 1 + top
      BY <2>4
    <3> HIDE DEF top, id
    <3>4. id \in Nat /\ top \in Nat
      BY <2>1, <3>2, <3>3
    <3>5. ASSUME NEW a \in archive PROVE a.id < id
      <4>1. a.id \in Nat /\ a.id <= top
        BY <2>1, <3>2
      <4> QED BY <3>3, <3>4, <4>1
    <3> QED BY <3>4, <3>5
  <2> QED BY <2>3, <2>4
<1> HIDE DEF id
<1>3. new \in Archives /\ new.facts = list[p] /\ new.since = remembered /\ new.old = FALSE /\ new.id = id
  BY <1>2 DEF MaintenanceTypeOK, Archives
<1> HIDE DEF new
<1>4. Archived' = Archived \cup list[p]
  <2>1. \A f : f \in Archived' <=> \E a \in archive \cup {new} : f \in a.facts
    BY <1>1 DEF Archived
  <2>2. \A f : f \in Archived <=> \E a \in archive : f \in a.facts
    BY DEF Archived
  <2> QED BY <1>3, <2>1, <2>2
<1>5. mems' \subseteq Archived'
  BY <1>1, <1>4 DEF KeptOfList
<1>6. MaintenanceTypeOK'
  <2>1. archive' \subseteq Archives /\ mems' \subseteq Facts
    BY <1>1, <1>3 DEF MaintenanceTypeOK
  <2> QED BY <1>1, <2>1 DEF MaintenanceTypeOK
<1>7. IdsBounded'
  <2>1. \A a \in archive' : a.id <= id
    <3> SUFFICES ASSUME NEW a \in archive' PROVE a.id <= id
      OBVIOUS
    <3>1. a.id \in Nat
      BY <1>6 DEF MaintenanceTypeOK, Archives
    <3> QED BY <1>1, <1>2, <1>3, <3>1
  <2> QED BY <1>2, <2>1 DEF IdsBounded
<1>8. ListCovers' /\ KeptOfList'
  BY <1>1, <1>5 DEF ListCovers, KeptOfList, MaintenanceTypeOK
<1>9. remembered \ late \subseteq Archived'
  <2>1. remembered \ late \subseteq mems \cup Archived
    BY DEF MemoriesKept, Archived
  <2>2. mems \ late \subseteq list[p] \cup Archived
    BY <1>1 DEF ListCovers
  <2> QED BY <1>4, <2>1, <2>2
<1>10. SinceIsArchived'
  BY <1>1, <1>3, <1>4, <1>9 DEF SinceIsArchived
<1>11. OldIsLate'
  BY <1>1, <1>3 DEF OldIsLate
<1>12. MemoriesKept'
  BY <1>1, <1>9 DEF MemoriesKept, Archived
<1> QED BY <1>6, <1>7, <1>8, <1>10, <1>11, <1>12

LEMMA RunCleanup ==
    ASSUME MemoryInv, NEW p \in Passes, runCleanup(p)
    PROVE  MemoryInv'
<1> USE DEF MemoryInv, memory, days
<1>1. /\ archive' = {a \in archive : ~a.old} /\ at' = [at EXCEPT ![p] = "off"]
      /\ marked' \in {marked, today} /\ UNCHANGED <<list, kept, today, monthGone, remembered>>
  <2>1. marked' = marked \/ marked' = today
    BY DEF runCleanup
  <2> QED BY <2>1 DEF runCleanup
<1>2. (mems' = mems /\ late' = late) \/ (mems' = {} /\ late' = late \cup mems)
  BY DEF runCleanup
<1>3. Archived \subseteq Archived' \cup late /\ Archived' \subseteq Archived
  <2>1. \A f : f \in Archived' <=> \E a \in archive : ~a.old /\ f \in a.facts
    BY <1>1 DEF Archived
  <2>2. \A f : f \in Archived <=> \E a \in archive : f \in a.facts
    BY DEF Archived
  <2> QED BY <2>1, <2>2 DEF OldIsLate
<1>4. late \subseteq late'
  BY <1>2
<1>5. MaintenanceTypeOK'
  BY <1>1, <1>2 DEF MaintenanceTypeOK
<1>6. IdsBounded'
  BY <1>1 DEF IdsBounded
<1>7. ListCovers' /\ KeptOfList'
  BY <1>1, <1>2, <1>3, <1>4 DEF ListCovers, KeptOfList, MaintenanceTypeOK
<1>8. SinceIsArchived' /\ OldIsLate'
  BY <1>1, <1>3, <1>4 DEF SinceIsArchived, OldIsLate
<1>9. MemoriesKept'
  <2>1. remembered \ late \subseteq mems \cup Archived
    BY DEF MemoriesKept, Archived
  <2>2. remembered' \ late' \subseteq mems' \cup Archived'
    BY <1>1, <1>2, <1>3, <1>4, <2>1
  <2> QED BY <2>2 DEF MemoriesKept, Archived
<1> QED BY <1>5, <1>6, <1>7, <1>8, <1>9

LEMMA Remember ==
    ASSUME MemoryInv, NEW f \in Facts, remember(f)
    PROVE  MemoryInv'
<1> USE DEF MemoryInv, memory, days, passes
<1>1. /\ mems' = mems \cup {f} /\ remembered' = remembered \cup {f}
      /\ late' = IF Compacting THEN late \cup {f} ELSE late
      /\ UNCHANGED <<archive, at, list, kept, today, marked, monthGone>> /\ Archived' = Archived
  BY DEF remember, Archived
<1>2. MaintenanceTypeOK'
  BY <1>1 DEF MaintenanceTypeOK
<1>3. ListCovers' /\ KeptOfList'
  BY <1>1 DEF ListCovers, KeptOfList, Compacting
<1>4. MemoriesKept'
  BY <1>1 DEF MemoriesKept
<1> QED BY <1>1, <1>2, <1>3, <1>4 DEF IdsBounded, SinceIsArchived, OldIsLate

LEMMA Forget ==
    ASSUME MemoryInv, NEW f \in Facts, forget(f)
    PROVE  MemoryInv'
<1> USE DEF MemoryInv, memory, days, passes
<1>1. /\ mems' = mems \ {f} /\ late' = late \cup {f}
      /\ UNCHANGED <<archive, at, list, kept, today, marked, monthGone, remembered>> /\ Archived' = Archived
  BY DEF forget, Archived
<1>2. MaintenanceTypeOK'
  BY <1>1 DEF MaintenanceTypeOK
<1> QED BY <1>1, <1>2 DEF ListCovers, KeptOfList, MemoriesKept, IdsBounded, SinceIsArchived, OldIsLate

\* A restore: what is dropped was written later, came back earlier, or is in another archive.
LEMMA RestoreCompaction ==
    ASSUME MemoryInv, NEW a \in archive, restoreCompaction(a)
    PROVE  MemoryInv'
<1> USE DEF MemoryInv, memory, days, passes
<1> DEFINE Edit(b) == [b EXCEPT !.since = @ \ a.facts]
<1>1. /\ mems' = a.facts /\ archive' = {Edit(b) : b \in archive \ {a}}
      /\ late' = late \cup (remembered \ a.since) \cup (IF Compacting THEN a.facts ELSE {})
      /\ UNCHANGED <<at, list, kept, today, marked, monthGone, remembered>>
  BY DEF restoreCompaction
<1>2. ASSUME NEW b \in archive
      PROVE  /\ Edit(b) \in Archives /\ Edit(b).id = b.id /\ Edit(b).facts = b.facts
             /\ Edit(b).since = b.since \ a.facts /\ Edit(b).old = b.old
  <2>1. b \in Archives
    BY DEF MaintenanceTypeOK
  <2> QED BY <2>1 DEF Archives
<1> HIDE DEF Edit
<1>3. a \in Archives
  BY DEF MaintenanceTypeOK
<1>4. Archived \subseteq Archived' \cup a.facts
  <2> SUFFICES ASSUME NEW f \in Archived, f \notin a.facts PROVE f \in Archived'
    OBVIOUS
  <2>1. PICK b \in archive : f \in b.facts
    BY DEF Archived
  <2>2. Edit(b) \in archive' /\ f \in Edit(b).facts
    BY <1>1, <1>2, <2>1
  <2> QED BY <2>2 DEF Archived
<1>5. late \subseteq late'
  BY <1>1
<1>6. MaintenanceTypeOK'
  <2>1. archive' \subseteq Archives /\ mems' \subseteq Facts /\ late' \subseteq Facts
    BY <1>1, <1>2, <1>3 DEF MaintenanceTypeOK, Archives
  <2> QED BY <1>1, <2>1 DEF MaintenanceTypeOK
<1>7. IdsBounded'
  BY <1>1, <1>2 DEF IdsBounded
<1>8. ListCovers'
  BY <1>1 DEF ListCovers, Compacting
<1>9. KeptOfList'
  BY <1>1 DEF KeptOfList
<1>10. SinceIsArchived'
  <2> SUFFICES ASSUME NEW c \in archive', NEW f \in c.since, f \notin late' PROVE f \in Archived'
    BY DEF SinceIsArchived
  <2>1. PICK b \in archive \ {a} : c = Edit(b)
    BY <1>1
  <2>2. f \in b.since /\ f \notin a.facts /\ f \notin late
    BY <1>2, <1>5, <2>1
  <2>3. f \in Archived
    BY <2>2 DEF SinceIsArchived
  <2> QED BY <1>4, <2>2, <2>3
<1>11. OldIsLate'
  BY <1>1, <1>2, <1>5 DEF OldIsLate
<1>12. MemoriesKept'
  <2>1. a.since \ late \subseteq Archived
    BY DEF SinceIsArchived
  <2>2. remembered' \ late' \subseteq mems' \cup Archived'
    BY <1>1, <1>4, <2>1
  <2> QED BY <2>2 DEF MemoriesKept, Archived
<1> QED BY <1>6, <1>7, <1>8, <1>9, <1>10, <1>11, <1>12

LEMMA ArchiveAges ==
    ASSUME MemoryInv, NEW a \in archive, archiveAges(a)
    PROVE  MemoryInv'
<1> USE DEF MemoryInv, memory, days, passes
<1> DEFINE b == [a EXCEPT !.old = TRUE]
<1>1. /\ archive' = (archive \ {a}) \cup {b} /\ late' = late \cup a.facts
      /\ UNCHANGED <<mems, at, list, kept, today, marked, monthGone, remembered>>
  BY DEF archiveAges
<1>2. b \in Archives /\ b.id = a.id /\ b.facts = a.facts /\ b.since = a.since /\ b.old = TRUE /\ a \in Archives
  <2>1. a \in Archives
    BY DEF MaintenanceTypeOK
  <2> QED BY <2>1 DEF Archives
<1> HIDE DEF b
<1>3. Archived' = Archived
  <2>1. \A f : f \in Archived' <=> \E c \in (archive \ {a}) \cup {b} : f \in c.facts
    BY <1>1 DEF Archived
  <2>2. \A f : f \in Archived <=> \E c \in archive : f \in c.facts
    BY DEF Archived
  <2> QED BY <1>2, <2>1, <2>2
<1>4. MaintenanceTypeOK'
  <2>1. archive' \subseteq Archives /\ late' \subseteq Facts
    BY <1>1, <1>2 DEF MaintenanceTypeOK, Archives
  <2> QED BY <1>1, <2>1 DEF MaintenanceTypeOK
<1>5. IdsBounded'
  BY <1>1, <1>2 DEF IdsBounded
<1>6. ListCovers' /\ KeptOfList'
  BY <1>1, <1>3 DEF ListCovers, KeptOfList
<1>7. SinceIsArchived'
  BY <1>1, <1>2, <1>3 DEF SinceIsArchived
<1>8. OldIsLate'
  BY <1>1, <1>2 DEF OldIsLate
<1>9. MemoriesKept'
  <2>1. remembered \ late \subseteq mems \cup Archived
    BY DEF MemoriesKept, Archived
  <2>2. remembered' \ late' \subseteq mems' \cup Archived'
    BY <1>1, <1>3, <2>1
  <2> QED BY <2>2 DEF MemoriesKept, Archived
<1> QED BY <1>4, <1>5, <1>6, <1>7, <1>8, <1>9

\* A pass that starts or dies with the daemon has nothing on its list.
LEMMA PassStartsOrDies ==
    ASSUME MemoryInv, runMaintenanceIfDue \/ runMaintainCommand \/ newDay \/ monthPasses \/ crashMaintenance
    PROVE  MemoryInv'
<1> USE DEF MemoryInv, memory, days, passes
<1>1. UNCHANGED <<mems, archive, remembered, late>> /\ Archived' = Archived
  BY DEF runMaintenanceIfDue, runMaintainCommand, newDay, monthPasses, crashMaintenance, Archived
<1>2. MaintenanceTypeOK' /\ ListCovers' /\ KeptOfList'
  <2>1. CASE runMaintenanceIfDue
    BY <1>1, <2>1 DEF runMaintenanceIfDue, MaintenanceTypeOK, ListCovers, KeptOfList, Passes
  <2>2. CASE runMaintainCommand
    BY <1>1, <2>2 DEF runMaintainCommand, MaintenanceTypeOK, ListCovers, KeptOfList, Passes
  <2>3. CASE newDay
    BY <1>1, <2>3, HousekeepingAssumption DEF newDay, MaintenanceTypeOK, ListCovers, KeptOfList
  <2>4. CASE monthPasses
    BY <1>1, <2>4 DEF monthPasses, MaintenanceTypeOK, ListCovers, KeptOfList
  <2>5. CASE crashMaintenance
    BY <1>1, <2>5 DEF crashMaintenance, LetGo, MaintenanceTypeOK, ListCovers, KeptOfList, Passes
  <2> QED BY <2>1, <2>2, <2>3, <2>4, <2>5
<1> QED BY <1>1, <1>2 DEF IdsBounded, SinceIsArchived, OldIsLate, MemoriesKept, Archived

-----------------------------------------------------------------------------
\* The two halves together.
LEMMA SchedulingKeeps ==
    ASSUME IInv, Scheduling \/ (crash /\ crashMaintenance)
    PROVE  IInv' /\ Spared
<1>1. Step \/ crash
  BY DEF Scheduling, Step, Tools
<1>2. SchedulerInv' /\ Spared
  BY <1>1, SchedulerStep, QuestionStep DEF IInv
<1>3. MemoryInv'
  <2>1. CASE Scheduling
    <3>1. monthGone' \in BOOLEAN
      BY <2>1 DEF Scheduling
    <3> QED BY <2>1, <3>1, MemoryFrame DEF IInv, Scheduling
  <2>2. CASE crashMaintenance
    BY <2>2, PassStartsOrDies DEF IInv
  <2> QED BY <2>1, <2>2
<1> QED BY <1>2, <1>3 DEF IInv

LEMMA MaintenanceKeeps ==
    ASSUME IInv, Maintenance
    PROVE  IInv' /\ conv' = conv
<1>1. UNCHANGED <<rows, session, thread, sees, told, firings, raced>> /\ (Event \/ UNCHANGED events)
  BY DEF Maintenance, runMaintenanceIfDue, runMaintainCommand, Pass, compactMemories, compactionTurn,
         applyCompaction, runCleanup, Memories, remember, forget, restoreCompaction, archiveAges,
         newDay, monthPasses, schedulerVars
<1>2. SchedulerInv' /\ conv' = conv
  BY <1>1, SchedulerFrame DEF IInv, session
<1>3. MemoryInv'
  BY CompactMemories, CompactionTurn, ApplyCompaction, RunCleanup, Remember, Forget, RestoreCompaction,
     ArchiveAges, PassStartsOrDies DEF IInv, Maintenance, Pass, Memories
<1> QED BY <1>2, <1>3 DEF IInv

LEMMA IInvStutters == IInv /\ UNCHANGED housekeepingVars => IInv'
<1> SUFFICES ASSUME IInv, UNCHANGED housekeepingVars PROVE IInv'
  OBVIOUS
<1>1. SchedulerInv'
  BY SchedulerFrame DEF IInv, housekeepingVars, schedulerVars
<1>2. MemoryInv'
  <2>1. monthGone' \in BOOLEAN
    BY DEF IInv, MemoryInv, MaintenanceTypeOK, housekeepingVars, maintenanceVars, days
  <2> QED BY <2>1, MemoryFrame DEF IInv, housekeepingVars, maintenanceVars, days
<1> QED BY <1>1, <1>2 DEF IInv

LEMMA IInvHolds == HousekeepingSpec => []IInv
<1>1. Init => IInv
  BY InitScheduler, InitMemory DEF Init, IInv
<1>2. IInv /\ [HousekeepingNext]_housekeepingVars => IInv'
  BY SchedulingKeeps, MaintenanceKeeps, IInvStutters DEF HousekeepingNext
<1> QED BY <1>1, <1>2, PTL DEF HousekeepingSpec

-----------------------------------------------------------------------------
\* The rows, the scheduler's stale copies of them, the memories, the archive and the passes
\* keep their types.
THEOREM TypeCorrect == HousekeepingSpec => []HousekeepingTypeOK
<1>1. IInv => HousekeepingTypeOK
  BY DEF IInv, SchedulerInv, MemoryInv, MaintenanceTypeOK, HousekeepingTypeOK
<1> QED BY <1>1, IInvHolds, PTL

\* No schedule fires twice for one due time, whatever the tools do to its row between the
\* enqueue and the roll forward, unless the daemon dies between the two.
THEOREM FiresOnce == HousekeepingSpec => []FiredOnce
<1>1. IInv => FiredOnce
  BY DEF IInv, SchedulerInv
<1> QED BY <1>1, IInvHolds, PTL

\* A watch never compares with an output that its session was not told of, unless a crash or
\* a database error fell between the store of the baseline and the wake-up.
THEOREM BaselinesAreKnown == HousekeepingSpec => []BaselineKnown
<1>1. IInv => BaselineKnown
  BY DEF IInv, SchedulerInv
<1> QED BY <1>1, IInvHolds, PTL

\* A reported change is one of the output of one command, but for a watch whose command was
\* replaced while it ran.
THEOREM ChangesAreOfOneCommand == HousekeepingSpec => []ChangeOfOneCommand
<1>1. IInv => ChangeOfOneCommand
  BY DEF IInv, SchedulerInv
<1> QED BY <1>1, IInvHolds, PTL

\* No idle rotation, neither the scheduler's nor that of an attempt of a turn, drops a
\* conversation with an open question, whatever has made the session idle behind it, unless
\* that happened between the scheduler's look at the session and its update; what drops one
\* is a new name, a transcript that is gone or a firing of the routine the session works for.
THEOREM QuestionsSpareRotation == HousekeepingSpec => RotationSparesQuestion
<1>1. IInv /\ [HousekeepingNext]_housekeepingVars => [conv /\ ~conv' /\ asked => raced \/ MeansTo]_schedulerVars
  <2> SUFFICES ASSUME IInv, [HousekeepingNext]_housekeepingVars
               PROVE  Spared
    BY DEF Spared
  <2>1. CASE HousekeepingNext
    BY <2>1, SchedulingKeeps, MaintenanceKeeps DEF HousekeepingNext, Spared
  <2>2. CASE UNCHANGED housekeepingVars
    BY <2>2 DEF housekeepingVars, schedulerVars, session, Spared
  <2> QED BY <2>1, <2>2
<1> QED BY <1>1, IInvHolds, PTL DEF HousekeepingSpec, RotationSparesQuestion

\* What a session remembered and did not forget is in the scope or in an archive that the
\* owner can restore, with two compactions, restores and clean-ups interleaved.
THEOREM MemoriesAreKept == HousekeepingSpec => []MemoriesKept
<1>1. IInv => MemoriesKept
  BY DEF IInv, MemoryInv
<1> QED BY <1>1, IInvHolds, PTL
=============================================================================
