------------------------ MODULE BackgroundJobsProofs ------------------------
(* Proofs about BackgroundJobs for every set of sessions, every cap and every *)
(* number of jobs, restarts, cancels and archivings.                          *)
EXTENDS BackgroundJobs, TLAPS, FiniteSetTheorems

\* The scheduler's list of queued jobs goes stale in one direction only: a job on it may have
\* been cancelled or archived, but it has not been started, and so cannot be done.
ListIsStale ==
    phase \in {"examine", "claim"} =>
        \A t \in todo : t[2] = FALSE /\ jstatus[t[1]] \in {"queued", "failed"}

\* The count read before a claim is an upper bound until the claim is made.
RoomForPick ==
    phase = "claim" =>
        /\ pick \in Jobs
        /\ jstatus[pick] # "none"
        /\ <<pick, FALSE>> \notin todo
        /\ Cardinality(RunningOf(jbot[pick])) < MaxPerBot

IInv == TypeOK /\ ListIsStale /\ RoomForPick /\ RunningCap

-----------------------------------------------------------------------------
\* The program counters of the tool and of the archiver, as triples and pairs.
Tools == {"idle", "cancelQueued", "flag", "kill"} \X (Jobs \cup {0}) \X BOOLEAN

LEMMA ToolValues ==
    /\ NoTool \in Tools
    /\ \A j \in Jobs, s \in {"cancelQueued", "flag", "kill"}, x \in BOOLEAN : <<s, j, x>> \in Tools
    /\ NoArchiver \in {"idle", "find", "fail"} \X (Bots \cup {NoBot})
BY DEF NoTool, NoArchiver, Tools

LEMMA InitIInv == Init => IInv
<1> SUFFICES ASSUME Init PROVE IInv
  OBVIOUS
<1>1. tool \in Tools /\ archiver \in {"idle", "find", "fail"} \X (Bots \cup {NoBot})
  BY ToolValues DEF Init
<1>2. told \in [Jobs -> Seq(Settled)]
  <2>1. <<>> \in Seq(Settled)
    OBVIOUS
  <2> QED BY <2>1 DEF Init
<1>3. TypeOK
  BY <1>1, <1>2, BackgroundAssumption DEF Init, TypeOK, Settled, Tools
<1>4. RunningCap
  <2> SUFFICES ASSUME NEW b \in Bots PROVE Cardinality(RunningOf(b)) <= MaxPerBot
    BY DEF RunningCap
  <2>1. RunningOf(b) = {}
    BY DEF Init, RunningOf, InStatus
  <2> QED BY <2>1, FS_EmptySet, BackgroundAssumption
<1> QED BY <1>3, <1>4 DEF Init, IInv, ListIsStale, RoomForPick

LEMMA TypeOutside ==
    ASSUME TypeOK,
           \/ \E b \in Bots : queueBackgroundJob(b) \/ archiveBotRow(b) \/ unarchiveBotRow(b)
           \/ \E j \in Jobs : cancelBackgroundJob(j) \/ Caller(j) \/ wrapperPid(j)
                              \/ wrapperExitCode(j) \/ wrapperEnd(j) \/ expire(j)
           \/ Archiver \/ crash
    PROVE  TypeOK'
<1> USE BackgroundAssumption DEF TypeOK, rows, bots, processes, scheduler, watchers, outside,
        Settled, NoTool, NoArchiver, kill
<1>1. ASSUME NEW b \in Bots, queueBackgroundJob(b) PROVE TypeOK'
  BY <1>1 DEF queueBackgroundJob
<1>2. ASSUME NEW b \in Bots, archiveBotRow(b) PROVE TypeOK'
  BY <1>2 DEF archiveBotRow
<1>3. ASSUME NEW b \in Bots, unarchiveBotRow(b) PROVE TypeOK'
  BY <1>3 DEF unarchiveBotRow
<1>4. ASSUME NEW j \in Jobs, cancelBackgroundJob(j) PROVE TypeOK'
  <2>1. tool' = <<"cancelQueued", j, FALSE>> \/ tool' = <<"flag", j, rowPid[j]>>
    BY <1>4 DEF cancelBackgroundJob
  <2>2. rowPid[j] \in BOOLEAN
    OBVIOUS
  <2>3. <<"cancelQueued", j, FALSE>> \in Tools /\ <<"flag", j, rowPid[j]>> \in Tools
    BY <2>2, ToolValues
  <2>4. tool' \in Tools
    BY <2>1, <2>3
  <2> QED BY <1>4, <2>4 DEF cancelBackgroundJob, Tools
<1>5. ASSUME NEW j \in Jobs, cancelQueued(j) PROVE TypeOK'
  BY <1>5 DEF cancelQueued
<1>6. ASSUME NEW j \in Jobs, cancelFlag(j) PROVE TypeOK'
  BY <1>6 DEF cancelFlag
<1>7. ASSUME NEW j \in Jobs, cancelKill(j) PROVE TypeOK'
  BY <1>7 DEF cancelKill
<1>8. ASSUME NEW j \in Jobs, wrapperPid(j) PROVE TypeOK'
  BY <1>8 DEF wrapperPid
<1>9. ASSUME NEW j \in Jobs, wrapperExitCode(j) PROVE TypeOK'
  BY <1>9 DEF wrapperExitCode
<1>10. ASSUME NEW j \in Jobs, wrapperEnd(j) PROVE TypeOK'
  BY <1>10 DEF wrapperEnd
<1>11. ASSUME NEW j \in Jobs, expire(j) PROVE TypeOK'
  BY <1>11 DEF expire
<1>12. CASE archiveKill
  <2>1. archiver' \in {"idle", "find", "fail"} \X (Bots \cup {NoBot})
    BY <1>12 DEF archiveKill
  <2> QED BY <1>12, <2>1 DEF archiveKill
<1>13. CASE archiveFail
  BY <1>13 DEF archiveFail
<1>14. CASE crash
  <2>1. tool' \in Tools /\ archiver' \in {"idle", "find", "fail"} \X (Bots \cup {NoBot})
    BY <1>14, ToolValues DEF crash
  <2> QED BY <1>14, <2>1 DEF crash, Tools
<1> QED BY <1>1, <1>2, <1>3, <1>4, <1>5, <1>6, <1>7, <1>8, <1>9, <1>10, <1>11, <1>12, <1>13,
           <1>14 DEF Caller, Archiver

LEMMA TypeScheduler ==
    ASSUME TypeOK, RoomForPick, Scheduler
    PROVE  TypeOK'
<1> USE BackgroundAssumption DEF TypeOK, rows, bots, processes, scheduler, watchers, outside,
        Settled, kill, InStatus
<1>1. CASE reattachList
  <2>1. todo' \in SUBSET (Jobs \X BOOLEAN)
    BY <1>1 DEF reattachList
  <2> QED BY <1>1, <2>1 DEF reattachList
<1>2. CASE reattach
  <2>1. PICK t \in todo : LET j == t[1]
                             known == t[2] \/ jobPID(j)
                         IN /\ todo' = todo \ {t}
                            /\ rowPid' = [rowPid EXCEPT ![j] = @ \/ (known /\ ~t[2])]
                            /\ IF handle[j] # "none"
                               THEN UNCHANGED <<handle, wpc>>
                               ELSE /\ handle' = [handle EXCEPT ![j] = IF known THEN "pid" ELSE "zero"]
                                    /\ wpc' = [wpc EXCEPT ![j] = "poll"]
    BY <1>2 DEF reattach
  <2>2. t[1] \in Jobs /\ t[2] \in BOOLEAN
    BY DEF TypeOK
  <2>3. todo' \in SUBSET (Jobs \X BOOLEAN) /\ rowPid' \in [Jobs -> BOOLEAN]
    BY <2>1, <2>2 DEF jobPID
  <2>4. handle' \in [Jobs -> {"none", "pid", "zero"}]
        /\ wpc' \in [Jobs -> {"none", "start", "pid", "adopt", "poll", "finish", "wake", "drop"}]
    <3>1. CASE handle[t[1]] # "none"
      BY <2>1, <3>1
    <3>2. CASE handle[t[1]] = "none"
      <4>1. PICK x \in {"pid", "zero"} : handle' = [handle EXCEPT ![t[1]] = x]
        BY <2>1, <3>2
      <4>2. wpc' = [wpc EXCEPT ![t[1]] = "poll"]
        BY <2>1, <3>2
      <4> QED BY <4>1, <4>2, <2>2
    <3> QED BY <3>1, <3>2
  <2> QED BY <1>2, <2>3, <2>4 DEF reattach
<1>3. CASE reattachDone
  BY <1>3 DEF reattachDone
<1>4. CASE applyBackgroundCancels
  BY <1>4 DEF applyBackgroundCancels
<1>5. CASE startQueuedBackground
  <2>1. todo' = {<<j, FALSE>> : j \in InStatus("queued")}
    BY <1>5, Zenon DEF startQueuedBackground
  <2>2. \A j \in InStatus("queued") : <<j, FALSE>> \in Jobs \X BOOLEAN
    BY DEF InStatus
  <2>3. todo' \in SUBSET (Jobs \X BOOLEAN)
    <3>1. ASSUME NEW x \in todo' PROVE x \in Jobs \X BOOLEAN
      <4>1. PICK j \in InStatus("queued") : x = <<j, FALSE>>
        BY <2>1, <3>1, Zenon
      <4> QED BY <4>1, <2>2
    <3> QED BY <3>1
  <2> QED BY <1>5, <2>3 DEF startQueuedBackground
<1>6. CASE examine
  <2>1. Listed \subseteq Jobs
    BY DEF Listed
  <2>2. CASE todo = {} /\ phase' = "tick" /\ UNCHANGED <<jstatus, todo, pick>>
    BY <1>6, <2>2 DEF examine
  <2>3. ASSUME NEW j \in Jobs, todo' = todo \ {<<j, FALSE>>},
               \/ jstatus' = [jstatus EXCEPT ![j] = "failed"] /\ UNCHANGED <<phase, pick>>
               \/ UNCHANGED <<jstatus, phase, pick>>
               \/ phase' = "claim" /\ pick' = j /\ UNCHANGED jstatus
        PROVE  TypeOK'
    <3>1. todo' \in SUBSET (Jobs \X BOOLEAN)
      BY <2>3
    <3>2. jstatus' \in [Jobs -> {"none", "queued", "running"} \cup Settled]
          /\ phase' \in {"list1", "adopt1", "list2", "adopt2", "tick", "examine", "claim"}
          /\ pick' \in Jobs \cup {0}
      <4>1. CASE jstatus' = [jstatus EXCEPT ![j] = "failed"] /\ UNCHANGED <<phase, pick>>
        BY <4>1
      <4>2. CASE UNCHANGED <<jstatus, phase, pick>>
        BY <4>2
      <4>3. CASE phase' = "claim" /\ pick' = j /\ UNCHANGED jstatus
        BY <4>3
      <4> QED BY <2>3, <4>1, <4>2, <4>3
    <3>3. UNCHANGED <<jbot, rowPid, cancelReq, expired, bots, processes, watchers, outside,
                      crashes, told>>
      BY <1>6 DEF examine
    <3> QED BY <3>1, <3>2, <3>3
  <2> QED BY <1>6, <2>1, <2>2, <2>3 DEF examine
<1>7. CASE claim
  <2>1. CASE jstatus[pick] = "queued" /\ pick \in Jobs
    <3>1. jstatus' = [jstatus EXCEPT ![pick] = "running"] /\ wpc' = [wpc EXCEPT ![pick] = "start"]
      BY <1>7, <2>1 DEF claim
    <3>2. jstatus' \in [Jobs -> {"none", "queued", "running"} \cup Settled]
          /\ wpc' \in [Jobs -> {"none", "start", "pid", "adopt", "poll", "finish", "wake", "drop"}]
      BY <3>1
    <3> QED BY <1>7, <3>2 DEF claim
  <2>2. CASE jstatus[pick] # "queued"
    BY <1>7, <2>2 DEF claim
  <2> QED BY <1>7, <2>1, <2>2 DEF claim, RoomForPick
<1> QED BY <1>1, <1>2, <1>3, <1>4, <1>5, <1>6, <1>7 DEF Scheduler

LEMMA TypeWatcher ==
    ASSUME TypeOK, NEW j \in Jobs, Watcher(j)
    PROVE  TypeOK'
<1> USE BackgroundAssumption DEF TypeOK, rows, bots, processes, scheduler, watchers, outside,
        Settled, kill, WatcherGoto
<1> DEFINE Places == {"none", "start", "pid", "adopt", "poll", "finish", "wake", "drop"}
<1>1. CASE runBackgroundJob(j)
  <2>1. \E l \in {"pid", "finish"} : wpc' = [wpc EXCEPT ![j] = l]
    BY <1>1 DEF runBackgroundJob
  <2>2. proc' \in [Jobs -> {"none", "forked", "up", "wrote", "gone"}]
        /\ verdict' \in [Jobs -> Settled]
    <3>1. CASE proc' = [proc EXCEPT ![j] = "forked"] /\ verdict' = verdict BY <3>1
    <3>2. CASE proc' = proc /\ verdict' = [verdict EXCEPT ![j] = "failed"] BY <3>2
    <3> QED BY <1>1, <3>1, <3>2 DEF runBackgroundJob
  <2>3. wpc' \in [Jobs -> Places]
    BY <2>1
  <2> QED BY <1>1, <2>2, <2>3 DEF runBackgroundJob
<1>2. CASE storePid(j) BY <1>2 DEF storePid
<1>3. CASE adopt(j) BY <1>3 DEF adopt
<1>4. CASE finishIfComplete(j)
  <2>1. PICK l \in {"drop", "finish"} : wpc' = [wpc EXCEPT ![j] = l]
    BY <1>4 DEF finishIfComplete
  <2>2. verdict' = verdict \/ \E v \in Settled : verdict' = [verdict EXCEPT ![j] = v]
    BY <1>4 DEF finishIfComplete
  <2>3. wpc' \in [Jobs -> Places] /\ verdict' \in [Jobs -> Settled]
    <3>1. wpc' \in [Jobs -> Places]
      BY <2>1
    <3>2. CASE verdict' = verdict
      BY <3>1, <3>2
    <3>3. CASE \E v \in Settled : verdict' = [verdict EXCEPT ![j] = v]
      <4>1. PICK v \in Settled : verdict' = [verdict EXCEPT ![j] = v]
        BY <3>3
      <4> QED BY <3>1, <4>1
    <3> QED BY <2>2, <3>2, <3>3
  <2> QED BY <1>4, <2>3 DEF finishIfComplete
<1>5. CASE shouldStopJob(j) BY <1>5 DEF shouldStopJob
<1>6. CASE finishBackgroundJob(j)
  <2>1. wpc' \in [Jobs -> Places]
    <3>1. \E l \in {"wake", "drop"} : wpc' = [wpc EXCEPT ![j] = l]
      BY <1>6 DEF finishBackgroundJob
    <3> QED BY <3>1
  <2>2. CASE jstatus[j] = "running"
    <3>1. jstatus' = [jstatus EXCEPT ![j] = verdict[j]] /\ rowPid' = [rowPid EXCEPT ![j] = FALSE]
      BY <1>6, <2>2 DEF finishBackgroundJob
    <3>2. jstatus' \in [Jobs -> {"none", "queued", "running"} \cup Settled]
          /\ rowPid' \in [Jobs -> BOOLEAN]
      BY <3>1
    <3> QED BY <1>6, <2>1, <3>2 DEF finishBackgroundJob
  <2>3. CASE jstatus[j] # "running"
    BY <1>6, <2>1, <2>3 DEF finishBackgroundJob
  <2> QED BY <2>2, <2>3
<1>7. CASE enqueueBackgroundWake(j)
  <2>1. Append(told[j], verdict[j]) \in Seq(Settled)
    BY DEF TypeOK
  <2>2. told' \in [Jobs -> Seq(Settled)]
    BY <1>7, <2>1 DEF enqueueBackgroundWake
  <2> QED BY <1>7, <2>2 DEF enqueueBackgroundWake
<1>8. CASE drop(j) BY <1>8 DEF drop
<1> QED BY <1>1, <1>2, <1>3, <1>4, <1>5, <1>6, <1>7, <1>8 DEF Watcher

LEMMA TypeNext == TypeOK /\ RoomForPick /\ [Next]_vars => TypeOK'
<1> SUFFICES ASSUME TypeOK, RoomForPick, [Next]_vars PROVE TypeOK'
  OBVIOUS
<1>1. CASE UNCHANGED vars
  BY <1>1 DEF vars, rows, bots, processes, scheduler, watchers, outside, TypeOK
<1> QED BY <1>1, TypeOutside, TypeScheduler, TypeWatcher DEF Next
-----------------------------------------------------------------------------
\* The steps a row can make: settled rows stay, rows keep their session, only the claim starts a
\* job, and a queued job that is not claimed can only fail.
Moves ==
    \A k \in Jobs :
        /\ jstatus[k] \in Settled => jstatus'[k] = jstatus[k]
        /\ jstatus[k] # "none" => jbot'[k] = jbot[k] /\ jstatus'[k] # "none"
        /\ jstatus'[k] = "running" => jstatus[k] = "running" \/ (claim /\ k = pick)
        /\ jstatus[k] = "queued" => jstatus'[k] \in {"queued", "failed"} \/ (claim /\ k = pick)

LEMMA RowSteps ==
    ASSUME TypeOK, ListIsStale, RoomForPick, [Next]_vars
    PROVE  Moves
<1> USE DEF Moves, TypeOK, Settled, rows
<1>1. CASE UNCHANGED rows
  BY <1>1
<1>2. ASSUME NEW b \in Bots, queueBackgroundJob(b) PROVE Moves
  BY <1>2 DEF queueBackgroundJob
<1>3. ASSUME NEW j \in Jobs, cancelQueued(j) PROVE Moves
  BY <1>3 DEF cancelQueued
<1>4. ASSUME NEW j \in Jobs, finishBackgroundJob(j) PROVE Moves
  BY <1>4 DEF finishBackgroundJob
<1>5. CASE examine
  <2>1. UNCHANGED jbot
    BY <1>5 DEF examine
  <2>2. CASE UNCHANGED jstatus
    BY <2>1, <2>2
  <2>3. ASSUME NEW j \in Listed, jstatus' = [jstatus EXCEPT ![j] = "failed"] PROVE Moves
    <3>1. PICK t \in todo : j = t[1]
      BY DEF Listed
    <3>2. j \in Jobs /\ jstatus[j] \in {"queued", "failed"}
      BY <1>5, <3>1 DEF examine, ListIsStale
    <3> QED BY <2>1, <2>3, <3>2
  <2> QED BY <1>5, <2>2, <2>3 DEF examine
<1>6. CASE claim
  BY <1>6 DEF claim, RoomForPick
<1>7. CASE archiveFail
  BY <1>7 DEF archiveFail, InStatus
<1>8. ASSUME UNCHANGED <<jstatus, jbot>> PROVE Moves
  BY <1>8
<1>9. CASE UNCHANGED vars
  BY <1>1, <1>9 DEF vars
<1>10. ASSUME NEW b \in Bots, archiveBotRow(b) \/ unarchiveBotRow(b) PROVE Moves
  BY <1>8, <1>10 DEF archiveBotRow, unarchiveBotRow
<1>11. ASSUME NEW j \in Jobs,
              \/ cancelBackgroundJob(j) \/ cancelFlag(j) \/ cancelKill(j)
              \/ wrapperPid(j) \/ wrapperExitCode(j) \/ wrapperEnd(j) \/ expire(j)
       PROVE  Moves
  BY <1>8, <1>11 DEF cancelBackgroundJob, cancelFlag, cancelKill, wrapperPid, wrapperExitCode,
                     wrapperEnd, expire
<1>12. ASSUME NEW j \in Jobs,
              \/ runBackgroundJob(j) \/ storePid(j) \/ adopt(j) \/ finishIfComplete(j)
              \/ shouldStopJob(j) \/ enqueueBackgroundWake(j) \/ drop(j)
       PROVE  Moves
  BY <1>8, <1>12 DEF runBackgroundJob, storePid, adopt, finishIfComplete, shouldStopJob,
                     enqueueBackgroundWake, drop
<1>13. CASE reattachList \/ reattach \/ reattachDone \/ applyBackgroundCancels
            \/ startQueuedBackground \/ archiveKill \/ crash
  <2>1. UNCHANGED <<jstatus, jbot>>
    BY <1>13 DEF reattachList, reattach, reattachDone, applyBackgroundCancels,
                 startQueuedBackground, archiveKill, crash
  <2> QED BY <1>8, <2>1
<1> QED BY <1>2, <1>3, <1>4, <1>5, <1>6, <1>7, <1>9, <1>10, <1>11, <1>12, <1>13
        DEF Next, Caller, Watcher, Scheduler, Archiver

\* What a step does to the scheduler's list.
LEMMA SchedulerSteps ==
    ASSUME [Next]_vars
    PROVE  \/ UNCHANGED scheduler
           \/ phase' \notin {"examine", "claim"}
           \/ startQueuedBackground \/ examine \/ claim
<1> USE DEF scheduler
<1>1. ASSUME NEW b \in Bots, queueBackgroundJob(b) \/ archiveBotRow(b) \/ unarchiveBotRow(b)
      PROVE  UNCHANGED scheduler
  BY <1>1 DEF queueBackgroundJob, archiveBotRow, unarchiveBotRow
<1>2. ASSUME NEW j \in Jobs,
             \/ cancelBackgroundJob(j) \/ Caller(j)
             \/ wrapperPid(j) \/ wrapperExitCode(j) \/ wrapperEnd(j) \/ expire(j)
      PROVE  UNCHANGED scheduler
  BY <1>2 DEF cancelBackgroundJob, Caller, cancelQueued, cancelFlag, cancelKill, wrapperPid,
              wrapperExitCode, wrapperEnd, expire
<1>3. ASSUME NEW j \in Jobs, Watcher(j) PROVE UNCHANGED scheduler
  BY <1>3 DEF Watcher, runBackgroundJob, storePid, adopt, finishIfComplete, shouldStopJob,
              finishBackgroundJob, enqueueBackgroundWake, drop
<1>4. CASE Archiver \/ applyBackgroundCancels
  BY <1>4 DEF Archiver, archiveKill, archiveFail, applyBackgroundCancels
<1>5. CASE reattachList \/ reattachDone \/ crash
  BY <1>5 DEF reattachList, reattachDone, crash
<1>6. CASE reattach
  BY <1>6 DEF reattach
<1>7. CASE UNCHANGED vars
  BY <1>7 DEF vars
<1> QED BY <1>1, <1>2, <1>3, <1>4, <1>5, <1>6, <1>7 DEF Next, Scheduler

LEMMA StaleNext ==
    ASSUME TypeOK, ListIsStale, RoomForPick, [Next]_vars
    PROVE  ListIsStale'
<1>1. Moves
  BY RowSteps
<1>2. CASE phase' \notin {"examine", "claim"}
  BY <1>2 DEF ListIsStale
<1>3. CASE startQueuedBackground
  <2> SUFFICES ASSUME NEW t \in todo'
               PROVE  t[2] = FALSE /\ jstatus'[t[1]] \in {"queued", "failed"}
    BY DEF ListIsStale
  <2>1. PICK j \in InStatus("queued") : t = <<j, FALSE>>
    BY <1>3, Zenon DEF startQueuedBackground
  <2>2. UNCHANGED jstatus
    BY <1>3 DEF startQueuedBackground, rows
  <2> QED BY <2>1, <2>2 DEF InStatus
<1>4. ASSUME todo' \subseteq todo, phase \in {"examine", "claim"},
             claim => <<pick, FALSE>> \notin todo
      PROVE  ListIsStale'
  <2> SUFFICES ASSUME NEW t \in todo'
               PROVE  t[2] = FALSE /\ jstatus'[t[1]] \in {"queued", "failed"}
    BY DEF ListIsStale
  <2>1. t \in todo /\ t[1] \in Jobs /\ t[2] = FALSE /\ jstatus[t[1]] \in {"queued", "failed"}
    BY <1>4 DEF ListIsStale, TypeOK
  <2>2. t = <<t[1], t[2]>>
    BY <2>1 DEF TypeOK
  <2>3. ~(claim /\ t[1] = pick)
    BY <1>4, <2>1, <2>2
  <2> QED BY <1>1, <2>1, <2>3 DEF Moves, Settled
<1>5. claim => <<pick, FALSE>> \notin todo
  BY DEF claim, RoomForPick
<1>6. CASE examine
  BY <1>4, <1>5, <1>6 DEF examine
<1>7. CASE claim
  BY <1>4, <1>5, <1>7 DEF claim
<1>8. CASE UNCHANGED scheduler /\ phase \in {"examine", "claim"}
  BY <1>4, <1>5, <1>8 DEF scheduler
<1>9. CASE UNCHANGED scheduler /\ phase \notin {"examine", "claim"}
  BY <1>2, <1>9 DEF scheduler
<1> QED BY SchedulerSteps, <1>2, <1>3, <1>6, <1>7, <1>8, <1>9
-----------------------------------------------------------------------------
LEMMA RunningIsFinite ==
    ASSUME NEW b
    PROVE  IsFiniteSet(RunningOf(b)) /\ Cardinality(RunningOf(b)) \in Nat
<1>1. IsFiniteSet(Jobs)
  BY FS_Interval, BackgroundAssumption DEF Jobs
<1>2. RunningOf(b) \subseteq Jobs
  BY DEF RunningOf, InStatus
<1> QED BY <1>1, <1>2, FS_Subset, FS_CardinalityType

\* Except for the claimed job, a session's running jobs can only become fewer.
LEMMA RunningShrinks ==
    ASSUME Moves, TypeOK, TypeOK', NEW b
    PROVE  /\ ~claim => RunningOf(b)' \subseteq RunningOf(b)
           /\ RunningOf(b)' \subseteq RunningOf(b) \cup {pick}
           /\ jbot'[pick] # b /\ pick \in Jobs => RunningOf(b)' \subseteq RunningOf(b)
<1>1. ASSUME NEW k \in RunningOf(b)', ~(claim /\ k = pick)
      PROVE  k \in RunningOf(b)
  <2>1. k \in Jobs /\ jstatus'[k] = "running" /\ jbot'[k] = b
    BY DEF RunningOf, InStatus
  <2>2. jstatus[k] = "running"
    BY <1>1, <2>1 DEF Moves
  <2>3. jbot[k] = b
    BY <2>1, <2>2 DEF Moves
  <2> QED BY <2>1, <2>2, <2>3 DEF RunningOf, InStatus
<1>2. jbot'[pick] # b => pick \notin RunningOf(b)'
  BY DEF RunningOf
<1> QED BY <1>1, <1>2

LEMMA CapNext ==
    ASSUME IInv, TypeOK', [Next]_vars
    PROVE  RunningCap' /\ RoomForPick'
<1> USE DEF IInv
<1>1. Moves
  BY RowSteps
<1>2. ASSUME NEW b, RunningOf(b)' \subseteq RunningOf(b)
      PROVE  Cardinality(RunningOf(b)') <= Cardinality(RunningOf(b))
  BY <1>2, RunningIsFinite, FS_Subset
<1>3. ASSUME NEW b PROVE Cardinality(RunningOf(b)) \in Nat /\ Cardinality(RunningOf(b)') \in Nat
  <2>1. RunningOf(b)' \subseteq Jobs
    BY DEF RunningOf, InStatus
  <2>2. IsFiniteSet(Jobs)
    BY FS_Interval, BackgroundAssumption DEF Jobs
  <2> QED BY <2>1, <2>2, RunningIsFinite, FS_Subset, FS_CardinalityType
<1>4. RunningCap'
  <2> SUFFICES ASSUME NEW b \in Bots PROVE Cardinality(RunningOf(b)') <= MaxPerBot
    BY DEF RunningCap
  <2>1. Cardinality(RunningOf(b)) <= MaxPerBot
    BY DEF RunningCap
  <2>2. CASE RunningOf(b)' \subseteq RunningOf(b)
    BY <1>2, <1>3, <2>1, <2>2, BackgroundAssumption
  <2>3. CASE ~(RunningOf(b)' \subseteq RunningOf(b))
    <3>1. claim
      BY <1>1, <2>3, RunningShrinks
    <3>2. pick \in Jobs /\ jbot'[pick] = jbot[pick] /\ Cardinality(RunningOf(jbot[pick])) < MaxPerBot
      BY <3>1 DEF claim, RoomForPick
    <3>3. b = jbot[pick]
      BY <1>1, <2>3, <3>2, RunningShrinks
    <3>4. Cardinality(RunningOf(b) \cup {pick}) <= Cardinality(RunningOf(b)) + 1
          /\ IsFiniteSet(RunningOf(b) \cup {pick})
      <4>1. IsFiniteSet(RunningOf(b))
        BY RunningIsFinite
      <4>2. /\ IsFiniteSet(RunningOf(b) \cup {pick})
            /\ \/ Cardinality(RunningOf(b) \cup {pick}) = Cardinality(RunningOf(b))
               \/ Cardinality(RunningOf(b) \cup {pick}) = Cardinality(RunningOf(b)) + 1
        BY <4>1, FS_AddElement, Zenon
      <4> QED BY <4>2, <1>3
    <3>5. RunningOf(b)' \subseteq RunningOf(b) \cup {pick}
      BY <1>1, RunningShrinks
    <3>6. Cardinality(RunningOf(b)') <= Cardinality(RunningOf(b) \cup {pick})
      BY <3>4, <3>5, FS_Subset
    <3>7. Cardinality(RunningOf(b) \cup {pick}) \in Nat
      BY <3>4, FS_CardinalityType
    <3> QED BY <1>3, <3>2, <3>3, <3>4, <3>6, <3>7, BackgroundAssumption
  <2> QED BY <2>2, <2>3
<1>5. RoomForPick'
  <2>1. CASE phase' # "claim"
    BY <2>1 DEF RoomForPick
  <2>2. ASSUME phase' = "claim", pick' \in Jobs, jstatus[pick'] # "none", ~claim,
               <<pick', FALSE>> \notin todo', Cardinality(RunningOf(jbot[pick'])) < MaxPerBot
        PROVE  RoomForPick'
    <3> DEFINE After == {j \in Jobs : jstatus'[j] = "running" /\ jbot'[j] = jbot'[pick']}
               Before == RunningOf(jbot[pick'])
    <3>1. jbot'[pick'] = jbot[pick'] /\ jstatus'[pick'] # "none"
      BY <1>1, <2>2 DEF Moves
    <3>2. After \subseteq Before
      BY <1>1, <2>2, <3>1 DEF Moves, RunningOf, InStatus
    <3>3. IsFiniteSet(Before) /\ Cardinality(Before) \in Nat
      BY RunningIsFinite
    <3>4. Cardinality(After) <= Cardinality(Before) /\ Cardinality(After) \in Nat
      BY <3>2, <3>3, FS_Subset, FS_CardinalityType
    <3>5. Cardinality(After) < MaxPerBot
      BY <2>2, <3>3, <3>4, BackgroundAssumption
    <3>6. RunningOf(jbot[pick])' = After
      BY DEF RunningOf, InStatus
    <3> QED BY <2>2, <3>1, <3>5, <3>6 DEF RoomForPick
  <2>3. CASE UNCHANGED scheduler /\ phase' = "claim"
    <3>1. pick' = pick /\ todo' = todo /\ phase = "claim" /\ phase' = "claim"
      BY <2>3 DEF scheduler
    <3>2. pick \in Jobs /\ jstatus[pick] # "none" /\ <<pick, FALSE>> \notin todo
          /\ Cardinality(RunningOf(jbot[pick])) < MaxPerBot
      BY <3>1 DEF RoomForPick
    <3> QED BY <2>2, <3>1, <3>2 DEF claim
  <2>4. CASE examine /\ phase' = "claim"
    <3>1. phase = "examine"
      BY <2>4 DEF examine
    <3>2. PICK j \in Listed : todo' = todo \ {<<j, FALSE>>} /\ pick' = j
                              /\ Cardinality(RunningOf(jbot[j])) < MaxPerBot
      BY <2>4, <3>1 DEF examine
    <3>3. j \in Jobs /\ jstatus[j] # "none"
      <4>1. PICK t \in todo : j = t[1]
        BY DEF Listed
      <4> QED BY <3>1, <4>1 DEF ListIsStale, TypeOK
    <3> QED BY <2>2, <2>4, <3>1, <3>2, <3>3 DEF claim
  <2> QED BY <2>1, <2>3, <2>4, SchedulerSteps DEF startQueuedBackground, claim
<1> QED BY <1>4, <1>5
-----------------------------------------------------------------------------
LEMMA NextIInv == IInv /\ [Next]_vars => IInv'
<1> SUFFICES ASSUME IInv, [Next]_vars PROVE IInv'
  OBVIOUS
<1>1. TypeOK'
  BY TypeNext DEF IInv
<1> QED BY <1>1, StaleNext, CapNext DEF IInv

LEMMA Invariance == Spec => []IInv
BY InitIInv, NextIInv, PTL DEF Spec

\* Every reachable state has the types of TypeOK: rows, processes, watchers and program counters.
THEOREM TypeCorrect == Spec => []TypeOK
<1>1. IInv => TypeOK
  BY DEF IInv
<1> QED BY Invariance, <1>1, PTL

\* The cap of maxBackgroundPerBot holds in every state, whatever settles, is cancelled or is
\* archived between the count and the claim.
THEOREM CapHolds == Spec => []RunningCap
<1>1. IInv => RunningCap
  BY DEF IInv
<1> QED BY Invariance, <1>1, PTL

\* No step rewrites the verdict of a settled job: racing finishers, late cancels, archiving and
\* the scheduler's unconditional failing write included.
THEOREM VerdictFinal == Spec => VerdictIsFinal
<1>1. IInv /\ [Next]_vars =>
          [\A j \in Jobs : jstatus[j] \in Settled => jstatus'[j] = jstatus[j]]_vars
  BY RowSteps DEF IInv, Moves
<1> QED BY Invariance, <1>1, PTL DEF Spec, VerdictIsFinal
-----------------------------------------------------------------------------
(* The wake: what a session is told of its jobs.                             *)

\* What was told is the verdict of a settled row, and a goroutine on its way to the wake is the one
\* that settled the row, with nothing told before it.
VerdictTold ==
    \A j \in Jobs :
        /\ told[j] # <<>> => told[j] = <<jstatus[j]>> /\ jstatus[j] \in Settled
        /\ wpc[j] = "wake" => /\ told[j] = <<>>
                              /\ jstatus[j] \in Settled /\ verdict[j] = jstatus[j]

Booting == {"list1", "adopt1", "list2", "adopt2"}

\* Rows that were queued belong to a session; nothing is archived by itself.
RowsBelong ==
    /\ \A j \in Jobs : jstatus[j] # "none" => jbot[j] \in Bots
    /\ archives = 0 => archiver = NoArchiver /\ \A b \in Bots : ~archived[b]

\* A first start of listen has no running job to reattach.
FirstStart ==
    crashes = 0 /\ phase \in Booting =>
        todo = {} /\ \A j \in Jobs : wpc[j] = "none" /\ jstatus[j] # "running"

DoneIsTold ==
    crashes = 0 /\ archives = 0 =>
        \A j \in Jobs : jstatus[j] = "done" => told[j] # <<>> \/ wpc[j] = "wake"

ReportInv == VerdictTold /\ RowsBelong /\ FirstStart /\ DoneIsTold

LEMMA SettledIsWord ==
    /\ "done" \in Settled /\ "failed" \in Settled
    /\ "none" \notin Settled /\ "queued" \notin Settled /\ "running" \notin Settled
BY DEF Settled

\* A step that leaves a job's goroutine, verdict and wakes alone, or moves the goroutine to a place
\* other than the wake, keeps VerdictTold.
LEMMA VerdictFrame ==
    ASSUME VerdictTold, Moves, UNCHANGED told,
           \A j \in Jobs : wpc'[j] = "wake" => wpc[j] = "wake" /\ verdict'[j] = verdict[j]
    PROVE  VerdictTold'
BY DEF VerdictTold, Moves

LEMMA VerdictNext ==
    ASSUME IInv, VerdictTold, [Next]_vars
    PROVE  VerdictTold'
<1>m. Moves
  BY RowSteps DEF IInv
<1>t. /\ wpc \in [Jobs -> {"none", "start", "pid", "adopt", "poll", "finish", "wake", "drop"}]
      /\ verdict \in [Jobs -> Settled] /\ told \in [Jobs -> Seq(Settled)]
      /\ jstatus \in [Jobs -> {"none", "queued", "running"} \cup Settled]
  BY DEF IInv, TypeOK
<1>1. CASE UNCHANGED <<wpc, verdict, told>>
  BY <1>1, <1>m, VerdictFrame
<1>2. CASE reattach
  <2>1. UNCHANGED <<verdict, told>>
    BY <1>2 DEF reattach
  <2>2. \/ UNCHANGED wpc
        \/ \E j \in Jobs : wpc' = [wpc EXCEPT ![j] = "poll"]
    <3>1. PICK t \in todo : \/ UNCHANGED wpc
                            \/ wpc' = [wpc EXCEPT ![t[1]] = "poll"]
      BY <1>2 DEF reattach
    <3>2. t[1] \in Jobs
      BY DEF IInv, TypeOK
    <3> QED BY <3>1, <3>2
  <2> QED BY <2>1, <2>2, <1>m, <1>t, VerdictFrame
<1>3. CASE claim
  BY <1>3, <1>m, <1>t, VerdictFrame DEF claim
<1>4. CASE crash
  BY <1>4, <1>m, <1>t, VerdictFrame DEF crash
<1>5. ASSUME NEW j \in Jobs, Watcher(j) PROVE VerdictTold'
  <2>1. CASE runBackgroundJob(j)
    BY <2>1, <1>m, <1>t, VerdictFrame DEF runBackgroundJob, WatcherGoto
  <2>2. CASE storePid(j) \/ adopt(j)
    BY <2>2, <1>m, <1>t, VerdictFrame DEF storePid, adopt, WatcherGoto
  <2>3. CASE finishIfComplete(j)
    BY <2>3, <1>m, <1>t, VerdictFrame DEF finishIfComplete, WatcherGoto
  <2>4. CASE shouldStopJob(j)
    BY <2>4, <1>1 DEF shouldStopJob
  <2>5. CASE finishBackgroundJob(j)
    <3>1. CASE jstatus[j] = "running"
      <4>1. /\ jstatus' = [jstatus EXCEPT ![j] = verdict[j]] /\ UNCHANGED <<verdict, told>>
            /\ wpc' = [wpc EXCEPT ![j] = "wake"]
        BY <2>5, <3>1 DEF finishBackgroundJob, WatcherGoto
      <4>2. told[j] = <<>>
        BY <3>1, SettledIsWord DEF VerdictTold
      <4> QED BY <4>1, <4>2, <1>t DEF VerdictTold
    <3>2. CASE jstatus[j] # "running"
      BY <2>5, <3>2, <1>m, <1>t, VerdictFrame DEF finishBackgroundJob, WatcherGoto
    <3> QED BY <3>1, <3>2
  <2>6. CASE enqueueBackgroundWake(j)
    <3>1. /\ told' = [told EXCEPT ![j] = IF archived[jbot[j]] THEN @ ELSE Append(@, verdict[j])]
          /\ UNCHANGED <<jstatus, verdict>> /\ wpc[j] = "wake"
          /\ wpc' = [wpc EXCEPT ![j] = "drop"]
      BY <2>6 DEF enqueueBackgroundWake, WatcherGoto, rows
    <3>2. told[j] = <<>> /\ verdict[j] = jstatus[j] /\ jstatus[j] \in Settled
      BY <3>1 DEF VerdictTold
    <3>3. Append(told[j], verdict[j]) = <<jstatus[j]>>
      BY <3>2
    <3>4. told'[j] \in {<<>>, <<jstatus[j]>>}
      BY <3>1, <3>2, <3>3, <1>t
    <3> QED BY <3>1, <3>2, <3>4, <1>t DEF VerdictTold
  <2>7. CASE drop(j)
    BY <2>7, <1>m, <1>t, VerdictFrame DEF drop, WatcherGoto
  <2> QED BY <1>5, <2>1, <2>2, <2>3, <2>4, <2>5, <2>6, <2>7 DEF Watcher
<1>6. CASE UNCHANGED vars
  BY <1>1, <1>6 DEF vars, watchers
<1>7. ASSUME NEW j \in Jobs,
             \/ cancelBackgroundJob(j) \/ Caller(j)
             \/ wrapperPid(j) \/ wrapperExitCode(j) \/ wrapperEnd(j) \/ expire(j)
      PROVE  VerdictTold'
  BY <1>1, <1>7 DEF cancelBackgroundJob, Caller, cancelQueued, cancelFlag, cancelKill, wrapperPid,
                    wrapperExitCode, wrapperEnd, expire, watchers
<1>8. ASSUME NEW b \in Bots, queueBackgroundJob(b) \/ archiveBotRow(b) \/ unarchiveBotRow(b)
      PROVE  VerdictTold'
  BY <1>1, <1>8 DEF queueBackgroundJob, archiveBotRow, unarchiveBotRow, watchers
<1>9. CASE reattachList \/ reattachDone \/ applyBackgroundCancels \/ startQueuedBackground
           \/ examine \/ Archiver
  BY <1>1, <1>9 DEF reattachList, reattachDone, applyBackgroundCancels, startQueuedBackground,
                    examine, Archiver, archiveKill, archiveFail, watchers
<1> QED BY <1>2, <1>3, <1>4, <1>5, <1>6, <1>7, <1>8, <1>9 DEF Next, Scheduler

\* The session is told once, and what its job's row says for good: through double reattaches, races
\* of finishers with archiving and cancels, and any number of restarts.
THEOREM WakesTellVerdict == Spec => []WakeTellsVerdict
<1>1. Init => VerdictTold
  BY DEF Init, VerdictTold
<1>2. VerdictTold => WakeTellsVerdict
  BY DEF VerdictTold, WakeTellsVerdict
<1> QED BY <1>1, <1>2, VerdictNext, Invariance, PTL DEF Spec

LEMMA RowsBelongNext ==
    ASSUME IInv, RowsBelong, [Next]_vars
    PROVE  RowsBelong'
<1>m. Moves
  BY RowSteps DEF IInv
<1>t. /\ jstatus \in [Jobs -> {"none", "queued", "running"} \cup Settled]
      /\ jbot \in [Jobs -> Bots \cup {NoBot}] /\ archived \in [Bots -> BOOLEAN]
      /\ archives \in Nat
  BY BackgroundAssumption DEF IInv, TypeOK
<1>1. ASSUME \/ UNCHANGED <<jbot, jstatus>>
             \/ Moves /\ \A j \in Jobs : jstatus[j] = "none" => jstatus'[j] = "none",
             UNCHANGED <<bots, archiver>>
      PROVE  RowsBelong'
  BY <1>1 DEF RowsBelong, Moves, bots
<1>2. ASSUME NEW b \in Bots, queueBackgroundJob(b) PROVE RowsBelong'
  <2>1. UNCHANGED <<bots, archiver>>
    BY <1>2 DEF queueBackgroundJob, outside
  <2>2. \A j \in Jobs : jstatus'[j] # "none" => jbot'[j] \in Bots
    BY <1>2, <1>t DEF queueBackgroundJob, RowsBelong
  <2> QED BY <2>1, <2>2 DEF RowsBelong, bots
<1>3. ASSUME NEW b \in Bots, archiveBotRow(b) PROVE RowsBelong'
  BY <1>3, <1>t DEF archiveBotRow, RowsBelong, rows
<1>4. ASSUME NEW b \in Bots, unarchiveBotRow(b) PROVE RowsBelong'
  BY <1>4, <1>t DEF unarchiveBotRow, RowsBelong, rows, outside
<1>5. CASE Archiver
  <2>1. archives # 0
    BY <1>5 DEF Archiver, archiveKill, archiveFail, RowsBelong, NoArchiver
  <2>2. UNCHANGED bots
    BY <1>5 DEF Archiver, archiveKill, archiveFail
  <2>3. \A j \in Jobs : jstatus[j] = "none" => jstatus'[j] = "none"
    BY <1>5 DEF Archiver, archiveKill, archiveFail, InStatus, rows
  <2> QED BY <1>m, <2>1, <2>2, <2>3 DEF RowsBelong, Moves, bots
<1>6. ASSUME NEW j \in Jobs, Watcher(j) PROVE RowsBelong'
  <2>1. UNCHANGED <<bots, archiver>>
    BY <1>6 DEF Watcher, runBackgroundJob, storePid, adopt, finishIfComplete, shouldStopJob,
         finishBackgroundJob, enqueueBackgroundWake, drop, outside
  <2>2. \A k \in Jobs : jstatus[k] = "none" => jstatus'[k] = "none"
    BY <1>6, <1>t DEF Watcher, runBackgroundJob, storePid, adopt, finishIfComplete, shouldStopJob,
         finishBackgroundJob, enqueueBackgroundWake, drop, rows
  <2> QED BY <1>1, <1>m, <2>1, <2>2
<1>7. ASSUME NEW j \in Jobs,
             \/ cancelBackgroundJob(j) \/ Caller(j)
             \/ wrapperPid(j) \/ wrapperExitCode(j) \/ wrapperEnd(j) \/ expire(j)
      PROVE  RowsBelong'
  <2>1. UNCHANGED <<bots, archiver>>
    BY <1>7 DEF cancelBackgroundJob, Caller, cancelQueued, cancelFlag, cancelKill, wrapperPid,
         wrapperExitCode, wrapperEnd, expire, outside
  <2>2. \A k \in Jobs : jstatus[k] = "none" => jstatus'[k] = "none"
    BY <1>7, <1>t DEF cancelBackgroundJob, Caller, cancelQueued, cancelFlag, cancelKill, wrapperPid,
         wrapperExitCode, wrapperEnd, expire, rows
  <2> QED BY <1>1, <1>m, <2>1, <2>2
<1>8. CASE Scheduler
  <2>1. UNCHANGED <<bots, archiver>>
    BY <1>8 DEF Scheduler, reattachList, reattach, reattachDone, applyBackgroundCancels,
         startQueuedBackground, examine, claim, outside
  <2>2. \A k \in Jobs : jstatus[k] = "none" => jstatus'[k] = "none"
    <3>1. CASE examine
      <4>1. UNCHANGED jstatus \/ \E j \in Listed : jstatus' = [jstatus EXCEPT ![j] = "failed"]
        BY <3>1 DEF examine
      <4>2. \A j \in Listed : jstatus[j] # "none"
        <5> SUFFICES ASSUME NEW t \in todo PROVE jstatus[t[1]] # "none"
          BY DEF Listed
        <5> QED BY <3>1, SettledIsWord DEF IInv, ListIsStale, examine
      <4> QED BY <4>1, <4>2, <1>t
    <3>2. CASE claim
      BY <3>2, <1>t DEF claim
    <3> QED BY <1>8, <3>1, <3>2 DEF Scheduler, reattachList, reattach, reattachDone,
         applyBackgroundCancels, startQueuedBackground, rows
  <2> QED BY <1>1, <1>m, <2>1, <2>2
<1>9. CASE crash
  BY <1>9 DEF crash, RowsBelong, rows, bots
<1>10. CASE UNCHANGED vars
  BY <1>1, <1>10 DEF vars, rows, outside
<1> QED BY <1>2, <1>3, <1>4, <1>5, <1>6, <1>7, <1>8, <1>9, <1>10 DEF Next

LEMMA FirstStartNext ==
    ASSUME IInv, FirstStart, [Next]_vars
    PROVE  FirstStart'
<1>m. Moves
  BY RowSteps DEF IInv
<1>t. crashes \in Nat /\ wpc \in [Jobs -> {"none", "start", "pid", "adopt", "poll", "finish", "wake", "drop"}]
  BY BackgroundAssumption DEF IInv, TypeOK
<1>1. CASE crash
  BY <1>1, <1>t DEF crash, FirstStart
<1>2. ASSUME ~claim, crashes' = crashes, phase' \in Booting => phase \in Booting,
             FirstStart /\ crashes = 0 /\ phase \in Booting => todo' = {} /\ wpc' = wpc
      PROVE  FirstStart'
  BY <1>2, <1>m DEF FirstStart, Moves
<1>3. CASE claim
  BY <1>3 DEF claim, FirstStart, Booting
<1>4. CASE reattachList
  <2>1. phase \in Booting /\ crashes' = crashes /\ UNCHANGED <<wpc, jstatus>>
        /\ todo' = {<<j, rowPid[j]>> : j \in InStatus("running")}
    BY <1>4 DEF reattachList, Booting, watchers, rows
  <2>2. crashes = 0 => InStatus("running") = {}
    BY <2>1 DEF FirstStart, InStatus
  <2> QED BY <2>1, <2>2 DEF FirstStart
<1>5. CASE reattach
  BY <1>5 DEF reattach, FirstStart, Booting
<1>6. CASE reattachDone
  BY <1>6 DEF reattachDone, FirstStart, Booting, watchers, rows
<1>7. CASE startQueuedBackground \/ examine
  BY <1>7 DEF startQueuedBackground, examine, FirstStart, Booting
<1>8. ASSUME UNCHANGED <<crashes, scheduler>>, ~claim,
             wpc' = wpc \/ \E j \in Jobs : wpc[j] # "none"
      PROVE  FirstStart'
  <2>1. FirstStart /\ crashes = 0 /\ phase \in Booting => wpc' = wpc /\ todo' = {}
    BY <1>8 DEF FirstStart, scheduler
  <2> QED BY <1>2, <1>8, <2>1 DEF scheduler
<1>9. CASE applyBackgroundCancels \/ Archiver
  <2>1. UNCHANGED <<crashes, scheduler, wpc>>
    BY <1>9 DEF applyBackgroundCancels, Archiver, archiveKill, archiveFail, watchers
  <2> QED BY <1>3, <1>8, <2>1
<1>10. ASSUME NEW j \in Jobs, Watcher(j) PROVE FirstStart'
  <2>1. wpc[j] # "none"
    BY <1>10 DEF Watcher, runBackgroundJob, storePid, adopt, finishIfComplete, shouldStopJob,
         finishBackgroundJob, enqueueBackgroundWake, drop
  <2>2. UNCHANGED <<crashes, scheduler>>
    BY <1>10 DEF Watcher, runBackgroundJob, storePid, adopt, finishIfComplete, shouldStopJob,
         finishBackgroundJob, enqueueBackgroundWake, drop
  <2> QED BY <1>3, <1>8, <2>1, <2>2
<1>11. ASSUME NEW j \in Jobs,
             \/ cancelBackgroundJob(j) \/ Caller(j)
             \/ wrapperPid(j) \/ wrapperExitCode(j) \/ wrapperEnd(j) \/ expire(j)
      PROVE  FirstStart'
  <2>1. UNCHANGED <<crashes, scheduler, wpc>>
    BY <1>11 DEF cancelBackgroundJob, Caller, cancelQueued, cancelFlag, cancelKill, wrapperPid,
         wrapperExitCode, wrapperEnd, expire, watchers
  <2> QED BY <1>3, <1>8, <2>1
<1>12. ASSUME NEW b \in Bots, queueBackgroundJob(b) \/ archiveBotRow(b) \/ unarchiveBotRow(b)
       PROVE  FirstStart'
  <2>1. UNCHANGED <<crashes, scheduler, wpc>>
    BY <1>12 DEF queueBackgroundJob, archiveBotRow, unarchiveBotRow, watchers
  <2> QED BY <1>3, <1>8, <2>1
<1>13. CASE UNCHANGED vars
  BY <1>3, <1>8, <1>13 DEF vars, watchers
<1> QED BY <1>1, <1>3, <1>4, <1>5, <1>6, <1>7, <1>9, <1>10, <1>11, <1>12, <1>13 DEF Next, Scheduler

\* A step that settles no job as done and takes no goroutine from the wake keeps DoneIsTold.
LEMMA DoneFrame ==
    ASSUME DoneIsTold, UNCHANGED told, crashes' = 0 => crashes = 0, archives' = 0 => archives = 0,
           \A j \in Jobs : /\ jstatus'[j] = "done" => jstatus[j] = "done"
                           /\ wpc[j] = "wake" => wpc'[j] = "wake"
    PROVE  DoneIsTold'
BY DEF DoneIsTold

LEMMA DoneIsToldNext ==
    ASSUME IInv, VerdictTold, RowsBelong, FirstStart, DoneIsTold, [Next]_vars
    PROVE  DoneIsTold'
<1>t. /\ crashes \in Nat /\ archives \in Nat
      /\ wpc \in [Jobs -> {"none", "start", "pid", "adopt", "poll", "finish", "wake", "drop"}]
      /\ jstatus \in [Jobs -> {"none", "queued", "running"} \cup Settled]
      /\ told \in [Jobs -> Seq(Settled)]
  BY BackgroundAssumption DEF IInv, TypeOK
<1>1. CASE crash
  BY <1>1, <1>t DEF crash, DoneIsTold
<1>2. ASSUME NEW j \in Jobs, Watcher(j) PROVE DoneIsTold'
  <2>1. CASE finishBackgroundJob(j)
    <3>1. CASE jstatus[j] = "running"
      <4>1. /\ jstatus' = [jstatus EXCEPT ![j] = verdict[j]] /\ UNCHANGED <<archives, told, crashes>>
            /\ wpc' = [wpc EXCEPT ![j] = "wake"]
        BY <2>1, <3>1 DEF finishBackgroundJob, WatcherGoto, bots
      <4> QED BY <4>1, <1>t DEF DoneIsTold
    <3>2. CASE jstatus[j] # "running"
      BY <2>1, <3>2, <1>t, DoneFrame DEF finishBackgroundJob, WatcherGoto, bots
    <3> QED BY <3>1, <3>2
  <2>2. CASE enqueueBackgroundWake(j)
    <3>1. /\ told' = [told EXCEPT ![j] = IF archived[jbot[j]] THEN @ ELSE Append(@, verdict[j])]
          /\ UNCHANGED <<archives, archived, jstatus, crashes>> /\ wpc[j] = "wake"
          /\ wpc' = [wpc EXCEPT ![j] = "drop"]
      BY <2>2 DEF enqueueBackgroundWake, WatcherGoto, rows, bots
    <3>2. ASSUME archives = 0 PROVE told'[j] # <<>>
      <4>1. ~archived[jbot[j]]
        BY <3>1, <3>2, SettledIsWord DEF RowsBelong, VerdictTold
      <4>2. told[j] = <<>>
        BY <3>1 DEF VerdictTold
      <4>3. told'[j] = Append(told[j], verdict[j])
        BY <3>1, <4>1, <1>t
      <4> QED BY <4>2, <4>3
    <3> QED BY <3>1, <3>2, <1>t DEF DoneIsTold
  <2>3. CASE ~finishBackgroundJob(j) /\ ~enqueueBackgroundWake(j)
    <3>1. UNCHANGED <<archives, jstatus, crashes, told>> /\ wpc[j] # "wake"
      BY <1>2, <2>3 DEF Watcher, runBackgroundJob, storePid, adopt, finishIfComplete,
         shouldStopJob, drop, rows, bots
    <3>2. UNCHANGED wpc \/ \E l \in {"pid", "finish", "adopt", "poll", "none", "drop"} :
                              wpc' = [wpc EXCEPT ![j] = l]
      BY <1>2, <2>3 DEF Watcher, runBackgroundJob, storePid, adopt, finishIfComplete,
         shouldStopJob, drop, WatcherGoto
    <3> QED BY <3>1, <3>2, <1>t, DoneFrame
  <2> QED BY <2>1, <2>2, <2>3
<1>3. CASE claim
  <2>1. UNCHANGED <<archives, crashes, told>> /\ pick \in Jobs
    BY <1>3 DEF claim, bots, IInv, RoomForPick
  <2>2. CASE jstatus[pick] = "queued"
    <3>1. wpc[pick] # "wake"
      BY <2>2, <2>1, SettledIsWord DEF VerdictTold
    <3>2. /\ jstatus' = [jstatus EXCEPT ![pick] = "running"]
          /\ wpc' = [wpc EXCEPT ![pick] = "start"]
      BY <1>3, <2>2 DEF claim
    <3> QED BY <2>1, <3>1, <3>2, <1>t, DoneFrame
  <2>3. CASE jstatus[pick] # "queued"
    BY <1>3, <2>1, <2>3, DoneFrame DEF claim
  <2> QED BY <2>2, <2>3
<1>4. CASE reattach
  <2>1. crashes # 0 /\ crashes' = crashes
    BY <1>4 DEF reattach, FirstStart, Booting
  <2> QED BY <2>1 DEF DoneIsTold
<1>5. CASE examine
  <2>1. UNCHANGED <<archives, crashes, told, wpc>>
    BY <1>5 DEF examine, bots, watchers
  <2>2. \A j \in Jobs : jstatus'[j] = "done" => jstatus[j] = "done"
    <3>1. UNCHANGED jstatus \/ \E j \in Listed : jstatus' = [jstatus EXCEPT ![j] = "failed"]
      BY <1>5 DEF examine
    <3> QED BY <3>1, <1>t
  <2> QED BY <2>1, <2>2, DoneFrame
<1>6. CASE Archiver
  <2>1. UNCHANGED <<archives, crashes, told, wpc>>
    BY <1>6 DEF Archiver, archiveKill, archiveFail, bots, watchers
  <2>2. \A j \in Jobs : jstatus'[j] = "done" => jstatus[j] = "done"
    BY <1>6, <1>t DEF Archiver, archiveKill, archiveFail, rows
  <2> QED BY <2>1, <2>2, DoneFrame
<1>7. ASSUME NEW b \in Bots, queueBackgroundJob(b) \/ archiveBotRow(b) \/ unarchiveBotRow(b)
      PROVE  DoneIsTold'
  <2>1. UNCHANGED <<crashes, told, wpc>> /\ (archives' = 0 => archives = 0)
    BY <1>7, <1>t DEF queueBackgroundJob, archiveBotRow, unarchiveBotRow, watchers, bots
  <2>2. \A j \in Jobs : jstatus'[j] = "done" => jstatus[j] = "done"
    BY <1>7, <1>t DEF queueBackgroundJob, archiveBotRow, unarchiveBotRow, rows
  <2> QED BY <2>1, <2>2, DoneFrame
<1>8. ASSUME NEW j \in Jobs,
             \/ cancelBackgroundJob(j) \/ Caller(j)
             \/ wrapperPid(j) \/ wrapperExitCode(j) \/ wrapperEnd(j) \/ expire(j)
      PROVE  DoneIsTold'
  <2>1. UNCHANGED <<archives, crashes, told, wpc>>
    BY <1>8 DEF cancelBackgroundJob, Caller, cancelQueued, cancelFlag, cancelKill, wrapperPid,
         wrapperExitCode, wrapperEnd, expire, watchers, bots
  <2>2. \A k \in Jobs : jstatus'[k] = "done" => jstatus[k] = "done"
    BY <1>8, <1>t DEF cancelBackgroundJob, Caller, cancelQueued, cancelFlag, cancelKill, wrapperPid,
         wrapperExitCode, wrapperEnd, expire, rows
  <2> QED BY <2>1, <2>2, DoneFrame
<1>9. CASE reattachList \/ reattachDone \/ applyBackgroundCancels \/ startQueuedBackground
           \/ UNCHANGED vars
  <2>1. UNCHANGED <<archives, crashes, told, wpc, jstatus>>
    BY <1>9 DEF reattachList, reattachDone, applyBackgroundCancels, startQueuedBackground, vars,
         rows, bots, watchers
  <2> QED BY <2>1, DoneFrame
<1> QED BY <1>1, <1>2, <1>3, <1>4, <1>5, <1>6, <1>7, <1>8, <1>9 DEF Next, Scheduler

LEMMA ReportAlways == Spec => []ReportInv
<1>1. Init => ReportInv
  BY DEF Init, ReportInv, VerdictTold, RowsBelong, FirstStart, DoneIsTold
<1>2. IInv /\ ReportInv /\ [Next]_vars => ReportInv'
  BY VerdictNext, RowsBelongNext, FirstStartNext, DoneIsToldNext DEF ReportInv
<1> QED BY <1>1, <1>2, Invariance, PTL DEF Spec

\* While nothing has been archived, and in a process that has not been restarted, every job that is
\* done has told its session or is about to: no second finisher, cancel or deadline takes the
\* settled row without the wake.
THEOREM FinishesAreReported == Spec => [](archives = 0 => FinishIsReported)
<1>1. ReportInv => (archives = 0 => FinishIsReported)
  BY DEF ReportInv, DoneIsTold, FinishIsReported
<1> QED BY <1>1, ReportAlways, PTL
-----------------------------------------------------------------------------
(* The wrapper processes.                                                    *)

\* The wrapper and its files; a job is started by its first goroutine only, which runs after the
\* boot, and a wrapper whose pid is in neither place was forked by the goroutine that is about to
\* store it, or by one that died with listen.
ProcessOf(j) ==
    /\ jstatus[j] \in {"none", "queued"} => proc[j] = "none" /\ wpc[j] # "start"
    /\ wpc[j] \in {"start", "pid", "adopt"} => phase \notin Booting
    /\ wpc[j] = "start" => proc[j] = "none"
    /\ proc[j] = "up" => pidFile[j]
    /\ exitFile[j] # "absent" => proc[j] \in {"wrote", "gone"}
    /\ proc[j] = "forked" /\ ~rowPid[j] => wpc[j] = "pid" \/ (wpc[j] = "none" /\ phase = "list1")
    /\ wpc[j] = "finish" => proc[j] \notin {"forked", "up"}

\* A started job, or one about to start, is running, while nothing has been archived.
StartedIsRunning ==
    archives = 0 =>
        \A j \in Jobs : wpc[j] = "start" \/ proc[j] \in {"forked", "up"} => jstatus[j] = "running"

ProcessInv == (\A j \in Jobs : ProcessOf(j)) /\ StartedIsRunning

\* Killing wrappers ends processes and starts none.
LEMMA KillFrame ==
    ASSUME TypeOK, ProcessInv, NEW S, kill(S), UNCHANGED <<jstatus, rowPid, pidFile, exitFile, wpc,
                                                           phase, archives>>
    PROVE  ProcessInv'
BY DEF TypeOK, ProcessInv, ProcessOf, StartedIsRunning, kill, processAlive

\* A step that leaves the processes and the goroutines alone, and ends no row while nothing is
\* archived, keeps ProcessInv.
LEMMA RowFrame ==
    ASSUME TypeOK, ProcessInv,
           UNCHANGED <<rowPid, processes, wpc>>,
           phase' = phase \/ (phase' \notin Booting /\ phase \notin Booting),
           archives' = 0 => archives = 0,
           \A j \in Jobs : /\ jstatus'[j] \in {"none", "queued"} => jstatus[j] \in {"none", "queued"}
                           /\ archives = 0 /\ jstatus[j] = "running" => jstatus'[j] = "running"
    PROVE  ProcessInv'
BY DEF ProcessInv, ProcessOf, StartedIsRunning, processes, Booting

LEMMA ProcessWatcher ==
    ASSUME IInv, ProcessInv, NEW j \in Jobs, Watcher(j)
    PROVE  ProcessInv'
<1>t. /\ wpc \in [Jobs -> {"none", "start", "pid", "adopt", "poll", "finish", "wake", "drop"}]
      /\ jstatus \in [Jobs -> {"none", "queued", "running"} \cup Settled]
      /\ proc \in [Jobs -> {"none", "forked", "up", "wrote", "gone"}]
      /\ rowPid \in [Jobs -> BOOLEAN]
  BY DEF IInv, TypeOK
<1>f. UNCHANGED <<phase, archives, pidFile, exitFile>>
  BY DEF Watcher, runBackgroundJob, storePid, adopt, finishIfComplete, shouldStopJob,
         finishBackgroundJob, enqueueBackgroundWake, drop, bots, processes, scheduler
<1> USE DEF ProcessInv, ProcessOf, StartedIsRunning
<1>1. CASE runBackgroundJob(j)
  <2>1. UNCHANGED <<jstatus, rowPid>> /\ wpc[j] = "start"
    BY <1>1 DEF runBackgroundJob, rows
  <2>2. CASE proc' = [proc EXCEPT ![j] = "forked"] /\ wpc' = [wpc EXCEPT ![j] = "pid"]
    <3>1. jstatus[j] \notin {"none", "queued"}
      BY <2>1, <2>2
    <3> QED BY <2>1, <2>2, <3>1, <1>f, <1>t
  <2>3. CASE wpc' = [wpc EXCEPT ![j] = "finish"] /\ proc' = proc
    BY <2>1, <2>3, <1>f, <1>t
  <2> QED BY <1>1, <2>2, <2>3 DEF runBackgroundJob, WatcherGoto
<1>2. CASE storePid(j)
  <2>1. /\ UNCHANGED <<jstatus, proc>> /\ wpc[j] = "pid" /\ rowPid' = [rowPid EXCEPT ![j] = TRUE]
        /\ wpc' = [wpc EXCEPT ![j] = "adopt"]
    BY <1>2 DEF storePid, WatcherGoto, processes
  <2> QED BY <2>1, <1>f, <1>t
<1>3. CASE adopt(j)
  <2>1. /\ UNCHANGED <<jstatus, proc, rowPid>> /\ wpc[j] = "adopt"
        /\ \E l \in {"poll", "none"} : wpc' = [wpc EXCEPT ![j] = l]
    BY <1>3 DEF adopt, WatcherGoto, processes, rows
  <2> QED BY <2>1, <1>f, <1>t
<1>4. CASE finishIfComplete(j)
  <2>1. UNCHANGED <<jstatus, proc, rowPid>> /\ wpc[j] = "poll"
    BY <1>4 DEF finishIfComplete, processes, rows
  <2>2. CASE wpc' = [wpc EXCEPT ![j] = "drop"]
    BY <2>1, <2>2, <1>f, <1>t
  <2>3. CASE /\ wpc' = [wpc EXCEPT ![j] = "finish"]
             /\ exitFile[j] # "absent" \/ ~(jobPID(j) /\ processAlive(j))
    <3>1. proc[j] \notin {"forked", "up"}
      BY <2>1, <2>3, <1>t DEF jobPID, processAlive
    <3> QED BY <2>1, <2>3, <3>1, <1>f, <1>t
  <2> QED BY <1>4, <2>2, <2>3 DEF finishIfComplete, WatcherGoto
<1>5. CASE shouldStopJob(j)
  BY <1>5, <1>f, KillFrame DEF shouldStopJob, rows, IInv
<1>6. CASE finishBackgroundJob(j)
  <2>1. /\ UNCHANGED proc /\ wpc[j] = "finish"
        /\ \E l \in {"wake", "drop"} : wpc' = [wpc EXCEPT ![j] = l]
    BY <1>6 DEF finishBackgroundJob, WatcherGoto, processes
  <2>2. CASE jstatus[j] = "running"
    <3>1. /\ jstatus' = [jstatus EXCEPT ![j] = verdict[j]] /\ verdict[j] \in Settled
          /\ rowPid' = [rowPid EXCEPT ![j] = FALSE]
      BY <1>6, <2>2 DEF finishBackgroundJob, IInv, TypeOK
    <3> QED BY <2>1, <3>1, <1>f, <1>t DEF Settled
  <2>3. CASE UNCHANGED <<jstatus, rowPid>>
    BY <2>1, <2>3, <1>f, <1>t
  <2> QED BY <1>6, <2>2, <2>3 DEF finishBackgroundJob
<1>7. CASE enqueueBackgroundWake(j) \/ drop(j)
  <2>1. /\ UNCHANGED <<jstatus, proc, rowPid>> /\ wpc[j] \in {"wake", "drop"}
        /\ \E l \in {"drop", "none"} : wpc' = [wpc EXCEPT ![j] = l]
    BY <1>7 DEF enqueueBackgroundWake, drop, WatcherGoto, processes, rows
  <2> QED BY <2>1, <1>f, <1>t
<1> QED BY <1>1, <1>2, <1>3, <1>4, <1>5, <1>6, <1>7 DEF Watcher

LEMMA ProcessScheduler ==
    ASSUME IInv, ProcessInv, Scheduler
    PROVE  ProcessInv'
<1>t. /\ wpc \in [Jobs -> {"none", "start", "pid", "adopt", "poll", "finish", "wake", "drop"}]
      /\ jstatus \in [Jobs -> {"none", "queued", "running"} \cup Settled]
      /\ rowPid \in [Jobs -> BOOLEAN] /\ handle \in [Jobs -> {"none", "pid", "zero"}]
      /\ todo \subseteq Jobs \X BOOLEAN /\ TypeOK
  BY DEF IInv, TypeOK
<1>f. UNCHANGED <<pidFile, exitFile, archives>>
  BY DEF Scheduler, reattachList, reattach, reattachDone, applyBackgroundCancels,
         startQueuedBackground, examine, claim, bots, processes
<1>1. CASE reattachList
  BY <1>1, <1>f DEF reattachList, rows, processes, watchers, Booting, ProcessInv, ProcessOf,
     StartedIsRunning
<1>2. CASE reattach
  <2>1. PICK t \in todo :
             /\ rowPid' = [rowPid EXCEPT ![t[1]] = @ \/ ((t[2] \/ jobPID(t[1])) /\ ~t[2])]
             /\ wpc' = wpc \/ wpc' = [wpc EXCEPT ![t[1]] = "poll"]
    BY <1>2 DEF reattach
  <2>2. t[1] \in Jobs
    BY <1>t
  <2>3. /\ phase \in {"adopt1", "adopt2"}
        /\ UNCHANGED <<jstatus, proc, phase>>
    BY <1>2 DEF reattach, processes
  <2>4. \A j \in Jobs : /\ rowPid[j] => rowPid'[j]
                        /\ wpc'[j] = wpc[j] \/ wpc'[j] = "poll"
    BY <2>1, <2>2, <1>t
  <2> QED BY <2>3, <2>4, <1>f DEF ProcessInv, ProcessOf, StartedIsRunning, Booting
<1>3. CASE reattachDone
  BY <1>3, <1>f DEF reattachDone, rows, processes, watchers, Booting, ProcessInv, ProcessOf,
     StartedIsRunning
<1>4. CASE applyBackgroundCancels
  BY <1>4, <1>f, <1>t, KillFrame DEF applyBackgroundCancels, rows, watchers, scheduler
<1>5. CASE startQueuedBackground
  BY <1>5, <1>f, <1>t, RowFrame DEF startQueuedBackground, rows, watchers, Booting
<1>6. CASE examine
  <2>1. /\ UNCHANGED <<rowPid, processes, wpc>>
        /\ phase = "examine" /\ phase' \in {"tick", "examine", "claim"}
    BY <1>6 DEF examine, watchers
  <2>2. UNCHANGED jstatus \/ \E j \in Listed : jstatus' = [jstatus EXCEPT ![j] = "failed"]
    BY <1>6 DEF examine
  <2>3. \A j \in Listed : jstatus[j] # "running"
    <3> SUFFICES ASSUME NEW t \in todo PROVE jstatus[t[1]] # "running"
      BY DEF Listed
    <3> QED BY <2>1 DEF IInv, ListIsStale
  <2>4. \A j \in Jobs : /\ jstatus'[j] \in {"none", "queued"} => jstatus[j] \in {"none", "queued"}
                        /\ jstatus[j] = "running" => jstatus'[j] = "running"
    BY <2>2, <2>3, <1>t
  <2> QED BY <2>1, <2>4, <1>f, <1>t, RowFrame DEF Booting
<1>7. CASE claim
  <2>1. /\ UNCHANGED <<rowPid, processes, proc>>
        /\ phase = "claim" /\ phase' = "examine" /\ pick \in Jobs
    BY <1>7 DEF claim, IInv, RoomForPick, processes
  <2>2. CASE jstatus[pick] = "queued"
    <3>1. /\ jstatus' = [jstatus EXCEPT ![pick] = "running"]
          /\ wpc' = [wpc EXCEPT ![pick] = "start"]
      BY <1>7, <2>2 DEF claim
    <3> QED BY <2>1, <2>2, <3>1, <1>f, <1>t DEF ProcessInv, ProcessOf, StartedIsRunning, Booting
  <2>3. CASE UNCHANGED <<jstatus, wpc>>
    BY <2>1, <2>3, <1>f, <1>t, RowFrame DEF Booting
  <2> QED BY <1>7, <2>2, <2>3 DEF claim
<1> QED BY <1>1, <1>2, <1>3, <1>4, <1>5, <1>6, <1>7 DEF Scheduler

LEMMA ProcessNext ==
    ASSUME IInv, RowsBelong, ProcessInv, [Next]_vars
    PROVE  ProcessInv'
<1>t. /\ wpc \in [Jobs -> {"none", "start", "pid", "adopt", "poll", "finish", "wake", "drop"}]
      /\ jstatus \in [Jobs -> {"none", "queued", "running"} \cup Settled]
      /\ proc \in [Jobs -> {"none", "forked", "up", "wrote", "gone"}]
      /\ pidFile \in [Jobs -> BOOLEAN] /\ exitFile \in [Jobs -> {"absent", "zero", "nonzero"}]
      /\ archives \in Nat /\ TypeOK
  BY BackgroundAssumption DEF IInv, TypeOK
<1>1. ASSUME NEW b \in Bots, queueBackgroundJob(b) PROVE ProcessInv'
  <2>1. PICK j \in Jobs : jstatus[j] = "none" /\ jstatus' = [jstatus EXCEPT ![j] = "queued"]
    BY <1>1 DEF queueBackgroundJob
  <2> QED BY <1>1, <2>1, <1>t, RowFrame DEF queueBackgroundJob, watchers, scheduler, bots
<1>2. ASSUME NEW b \in Bots, archiveBotRow(b) \/ unarchiveBotRow(b) PROVE ProcessInv'
  BY <1>2, <1>t, RowFrame DEF archiveBotRow, unarchiveBotRow, rows, watchers, scheduler
<1>3. ASSUME NEW j \in Jobs, cancelBackgroundJob(j) \/ cancelFlag(j) \/ expire(j) PROVE ProcessInv'
  BY <1>3, <1>t, RowFrame DEF cancelBackgroundJob, cancelFlag, expire, rows, watchers, scheduler,
     bots
<1>4. ASSUME NEW j \in Jobs, cancelQueued(j) PROVE ProcessInv'
  BY <1>4, <1>t, RowFrame DEF cancelQueued, watchers, scheduler, bots
<1>5. ASSUME NEW j \in Jobs, cancelKill(j) PROVE ProcessInv'
  BY <1>5, <1>t, KillFrame DEF cancelKill, rows, watchers, scheduler, bots
<1>6. ASSUME NEW j \in Jobs, wrapperPid(j) \/ wrapperExitCode(j) \/ wrapperEnd(j) PROVE ProcessInv'
  <2>1. UNCHANGED <<jstatus, rowPid, wpc, phase, archives>>
    BY <1>6 DEF wrapperPid, wrapperExitCode, wrapperEnd, rows, watchers, scheduler, bots
  <2>2. CASE wrapperPid(j)
    BY <2>1, <2>2, <1>t DEF wrapperPid, ProcessInv, ProcessOf, StartedIsRunning
  <2>3. CASE wrapperExitCode(j)
    BY <2>1, <2>3, <1>t DEF wrapperExitCode, ProcessInv, ProcessOf, StartedIsRunning
  <2>4. CASE wrapperEnd(j)
    BY <2>1, <2>4, <1>t DEF wrapperEnd, ProcessInv, ProcessOf, StartedIsRunning
  <2> QED BY <1>6, <2>2, <2>3, <2>4
<1>7. CASE archiveKill
  BY <1>7, <1>t, KillFrame DEF archiveKill, rows, watchers, scheduler, bots
<1>8. CASE archiveFail
  <2>1. archives # 0
    BY <1>8 DEF archiveFail, RowsBelong, NoArchiver
  <2>2. UNCHANGED <<rowPid, processes, wpc, phase, archives>>
    BY <1>8 DEF archiveFail, watchers, scheduler, bots
  <2>3. \A j \in Jobs : jstatus'[j] \in {"none", "queued"} => jstatus[j] \in {"none", "queued"}
    BY <1>8, <1>t DEF archiveFail
  <2> QED BY <2>1, <2>2, <2>3, <1>t, RowFrame
<1>9. CASE crash
  BY <1>9, <1>t DEF crash, rows, bots, processes, ProcessInv, ProcessOf, StartedIsRunning, Booting
<1>10. CASE UNCHANGED vars
  BY <1>10, <1>t, RowFrame DEF vars, rows, bots, watchers, scheduler
<1>11. ASSUME NEW j \in Jobs, Caller(j) PROVE ProcessInv'
  BY <1>3, <1>4, <1>5, <1>11 DEF Caller
<1> QED BY <1>1, <1>2, <1>3, <1>6, <1>7, <1>8, <1>9, <1>10, <1>11, ProcessWatcher,
           ProcessScheduler DEF Next, Archiver

LEMMA ProcessAlways == Spec => []ProcessInv
<1>1. Init => ProcessInv
  BY DEF Init, ProcessInv, ProcessOf, StartedIsRunning, Booting
<1>2. IInv /\ ReportInv /\ ProcessInv /\ [Next]_vars => ProcessInv'
  BY ProcessNext DEF ReportInv
<1> QED BY <1>1, <1>2, Invariance, ReportAlways, PTL DEF Spec

\* While nothing has been archived a live job process has a running row, so that a supervisor, the
\* next reattach, a cancel and the deadline reach it: whatever the restarts, and although the pid
\* may be in the pid file only, or in neither place yet, when listen dies.
THEOREM NoneOrphaned == Spec => [](archives = 0 => NoOrphan)
<1>1. ProcessInv => (archives = 0 => NoOrphan)
  BY DEF ProcessInv, StartedIsRunning, NoOrphan
<1> QED BY <1>1, ProcessAlways, PTL
=============================================================================
