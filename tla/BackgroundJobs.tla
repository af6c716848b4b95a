--------------------------- MODULE BackgroundJobs ---------------------------
(***************************************************************************)
(* The supervisor of long-running shell jobs (background.go): queueing and *)
(* cancelling from the MCP tools, the scheduler's claim under the per-bot  *)
(* cap, the detached wrapper process and its artifacts (pid, exit.code),   *)
(* one watching goroutine per job, the two reattach passes of a restart    *)
(* (recoverAfterRestart, scheduler.Run) and archiving (store.go).          *)
(*                                                                         *)
(* The rows and the wrapper processes survive a crash of listen; the       *)
(* scheduler, the watchers and the handle map do not.  One step is one     *)
(* database write, one signal or one critical section of bgRuntime.mu,     *)
(* with the reads before it.  SIGTERM ends a wrapper at once.              *)
(***************************************************************************)
EXTENDS Naturals, FiniteSets, Sequences

CONSTANTS
    Bots,         \* sessions
    NoBot,        \* "no session yet" in an unused row
    MaxJobs,      \* bound: rows of background_jobs
    MaxPerBot,    \* maxBackgroundPerBot
    MaxCrashes,   \* bound: deaths of listen
    MaxCancels,   \* bound: calls of cancel_background that find an unfinished job
    MaxArchives   \* bound: calls of archiveBotRow

ASSUME BackgroundAssumption ==
    /\ NoBot \notin Bots
    /\ MaxJobs \in Nat /\ MaxCrashes \in Nat
    /\ MaxCancels \in Nat /\ MaxArchives \in Nat
    /\ MaxPerBot \in Nat \ {0}

Jobs == 1..MaxJobs

VARIABLES
    jstatus,     \* background_jobs.status, "none" for a row not created yet
    jbot,        \* background_jobs.bot_id
    rowPid,      \* background_jobs.pid is not 0
    cancelReq,   \* background_jobs.cancel_requested
    expired,     \* background_jobs.deadline has passed
    archived,    \* bots.archived_at is set
    archives,    \* calls of archiveBotRow so far
    proc,        \* the wrapper process of a job
    pidFile,     \* artifact pid exists
    exitFile,    \* artifact exit.code: absent, zero or not zero
    phase,       \* what the scheduler goroutine (before it, listenV3) is doing
    todo,        \* the jobs of the list it iterates over, with "its pid was known"
    pick,        \* the job it is about to claim
    wpc,         \* a job's goroutine: runBackgroundJob, then watchBackgroundJob
    verdict,     \* the status that goroutine is about to write
    killed,      \* watchBackgroundJob's killed
    handle,      \* bgRuntime.handles: absent, with a pid, with pid 0
    tool,        \* cancel_background: position, job, and whether it saw a pid
    archiver,    \* archiveBotRow: position and bot
    cancels,     \* calls of cancel_background so far
    crashes,
    told         \* history: the verdicts each job's wakes carried

rows == <<jstatus, jbot, rowPid, cancelReq, expired>>
bots == <<archived, archives>>
processes == <<proc, pidFile, exitFile>>
scheduler == <<phase, todo, pick>>
watchers == <<wpc, verdict, killed, handle>>
outside == <<tool, archiver, cancels>>
vars == <<rows, bots, processes, scheduler, watchers, outside, crashes, told>>

Settled == {"done", "failed"}
NoTool == <<"idle", 0, FALSE>>
NoArchiver == <<"idle", NoBot>>

TypeOK ==
    /\ jstatus \in [Jobs -> {"none", "queued", "running"} \cup Settled]
    /\ jbot \in [Jobs -> Bots \cup {NoBot}]
    /\ rowPid \in [Jobs -> BOOLEAN]
    /\ cancelReq \in [Jobs -> BOOLEAN]
    /\ expired \in [Jobs -> BOOLEAN]
    /\ archived \in [Bots -> BOOLEAN]
    /\ archives \in 0..MaxArchives
    /\ proc \in [Jobs -> {"none", "forked", "up", "wrote", "gone"}]
    /\ pidFile \in [Jobs -> BOOLEAN]
    /\ exitFile \in [Jobs -> {"absent", "zero", "nonzero"}]
    /\ phase \in {"list1", "adopt1", "list2", "adopt2", "tick", "examine", "claim"}
    /\ todo \in SUBSET (Jobs \X BOOLEAN)
    /\ pick \in Jobs \cup {0}
    /\ wpc \in [Jobs -> {"none", "start", "pid", "adopt", "poll", "finish", "wake", "drop"}]
    /\ verdict \in [Jobs -> Settled]
    /\ killed \in [Jobs -> BOOLEAN]
    /\ handle \in [Jobs -> {"none", "pid", "zero"}]
    /\ tool \in {"idle", "cancelQueued", "flag", "kill"} \X (Jobs \cup {0}) \X BOOLEAN
    /\ archiver \in {"idle", "find", "fail"} \X (Bots \cup {NoBot})
    /\ cancels \in 0..MaxCancels
    /\ crashes \in 0..MaxCrashes
    /\ told \in [Jobs -> Seq(Settled)]

Init ==
    /\ jstatus = [j \in Jobs |-> "none"]
    /\ jbot = [j \in Jobs |-> NoBot]
    /\ rowPid = [j \in Jobs |-> FALSE]
    /\ cancelReq = [j \in Jobs |-> FALSE]
    /\ expired = [j \in Jobs |-> FALSE]
    /\ archived = [b \in Bots |-> FALSE]
    /\ archives = 0
    /\ proc = [j \in Jobs |-> "none"]
    /\ pidFile = [j \in Jobs |-> FALSE]
    /\ exitFile = [j \in Jobs |-> "absent"]
    /\ phase = "list1"
    /\ todo = {}
    /\ pick = 0
    /\ wpc = [j \in Jobs |-> "none"]
    /\ verdict = [j \in Jobs |-> "failed"]
    /\ killed = [j \in Jobs |-> FALSE]
    /\ handle = [j \in Jobs |-> "none"]
    /\ tool = NoTool
    /\ archiver = NoArchiver
    /\ cancels = 0
    /\ crashes = 0
    /\ told = [j \in Jobs |-> <<>>]
-----------------------------------------------------------------------------
InStatus(s) == {j \in Jobs : jstatus[j] = s}
RunningOf(b) == {j \in InStatus("running") : jbot[j] = b}
Listed == {t[1] : t \in todo}
Next1(S) == CHOOSE j \in S : \A k \in S : j <= k

\* Mutant of jobPID: the pid file is not consulted.
jobPIDRowMutant(j) == rowPid[j]

\* jobPID: the row's pid, or else the pid file's.
jobPID(j) == rowPid[j] \/ pidFile[j]
processAlive(j) == proc[j] \in {"forked", "up", "wrote"}

\* killProcessGroup of every job of S.
kill(S) == proc' = [j \in Jobs |-> IF j \in S /\ processAlive(j) THEN "gone" ELSE proc[j]]
-----------------------------------------------------------------------------
(* The MCP tools of a running turn, and the wrapper process.                 *)

\* Archiving does not end the turn that is running: an archived bot can queue a job.
queueBackgroundJob(b) ==
    \E j \in Jobs :
        /\ jstatus[j] = "none"
        /\ \A k \in 1..(j - 1) : jstatus[k] # "none"
        /\ jstatus' = [jstatus EXCEPT ![j] = "queued"]
        /\ jbot' = [jbot EXCEPT ![j] = b]
        /\ UNCHANGED <<rowPid, cancelReq, expired, bots, processes, scheduler, watchers, outside,
                       crashes, told>>

\* cancelBackgroundJob reads the row and acts on what it read.
cancelBackgroundJob(j) ==
    /\ tool = NoTool /\ cancels < MaxCancels
    /\ cancels' = cancels + 1
    /\ \/ jstatus[j] = "queued" /\ tool' = <<"cancelQueued", j, FALSE>>
       \/ jstatus[j] = "running" /\ tool' = <<"flag", j, rowPid[j]>>
    /\ UNCHANGED <<rows, bots, processes, scheduler, watchers, archiver, crashes, told>>

cancelQueued(j) ==
    /\ tool[1] = "cancelQueued" /\ tool[2] = j
    /\ tool' = NoTool
    /\ jstatus' = [jstatus EXCEPT ![j] = IF @ = "queued" THEN "failed" ELSE @]
    /\ UNCHANGED <<jbot, rowPid, cancelReq, expired, bots, processes, scheduler, watchers,
                   archiver, cancels, crashes, told>>

cancelFlag(j) ==
    /\ tool[1] = "flag" /\ tool[2] = j
    /\ tool' = IF tool[3] THEN <<"kill", j, TRUE>> ELSE NoTool
    /\ cancelReq' = [cancelReq EXCEPT ![j] = TRUE]
    /\ UNCHANGED <<jstatus, jbot, rowPid, expired, bots, processes, scheduler, watchers,
                   archiver, cancels, crashes, told>>

cancelKill(j) ==
    /\ tool[1] = "kill" /\ tool[2] = j
    /\ tool' = NoTool
    /\ kill({j})
    /\ UNCHANGED <<rows, bots, pidFile, exitFile, scheduler, watchers, archiver, cancels, crashes,
                   told>>

\* backgroundWrapper: the pid file first, exit.code last, then the process ends.
wrapperPid(j) ==
    /\ proc[j] = "forked"
    /\ proc' = [proc EXCEPT ![j] = "up"]
    /\ pidFile' = [pidFile EXCEPT ![j] = TRUE]
    /\ UNCHANGED <<rows, bots, exitFile, scheduler, watchers, outside, crashes, told>>

wrapperExitCode(j) ==
    /\ proc[j] = "up"
    /\ proc' = [proc EXCEPT ![j] = "wrote"]
    /\ \E code \in {"zero", "nonzero"} : exitFile' = [exitFile EXCEPT ![j] = code]
    /\ UNCHANGED <<rows, bots, pidFile, scheduler, watchers, outside, crashes, told>>

\* The wrapper returns, or somebody outside ccc kills it before it wrote exit.code.
wrapperEnd(j) ==
    /\ proc[j] \in {"up", "wrote"}
    /\ proc' = [proc EXCEPT ![j] = "gone"]
    /\ UNCHANGED <<rows, bots, pidFile, exitFile, scheduler, watchers, outside, crashes, told>>

\* The four hours of the deadline column pass.
expire(j) ==
    /\ jstatus[j] = "running" /\ ~expired[j]
    /\ expired' = [expired EXCEPT ![j] = TRUE]
    /\ UNCHANGED <<jstatus, jbot, rowPid, cancelReq, bots, processes, scheduler, watchers,
                   outside, crashes, told>>
-----------------------------------------------------------------------------
(* The scheduler goroutine: reattachBackgroundJobs twice, then tickBackground. *)

\* Bound of the model: a restart is slower than the first line of the wrapper.
reattachList ==
    /\ phase \in {"list1", "list2"}
    /\ \A j \in Jobs : proc[j] # "forked"
    /\ phase' = IF phase = "list1" THEN "adopt1" ELSE "adopt2"
    /\ todo' = {<<j, rowPid[j]>> : j \in InStatus("running")}
    /\ UNCHANGED <<rows, bots, processes, pick, watchers, outside, crashes, told>>

\* One row of the list: complete its pid from the pid file, adopt it, start its watcher.
reattach ==
    /\ phase \in {"adopt1", "adopt2"} /\ todo # {}
    /\ \E t \in todo :
          LET j == t[1]
              known == t[2] \/ jobPID(j)
          IN /\ j = Next1(Listed)
             /\ todo' = todo \ {t}
             /\ rowPid' = [rowPid EXCEPT ![j] = @ \/ (known /\ ~t[2])]
             /\ IF handle[j] # "none"
                THEN UNCHANGED <<handle, wpc>>
                ELSE /\ handle' = [handle EXCEPT ![j] = IF known THEN "pid" ELSE "zero"]
                     /\ wpc' = [wpc EXCEPT ![j] = "poll"]
    /\ UNCHANGED <<jstatus, jbot, cancelReq, expired, bots, processes, phase, pick, verdict,
                   killed, outside, crashes, told>>

reattachDone ==
    /\ phase \in {"adopt1", "adopt2"} /\ todo = {}
    /\ phase' = IF phase = "adopt1" THEN "list2" ELSE "tick"
    /\ UNCHANGED <<rows, bots, processes, todo, pick, watchers, outside, crashes, told>>

\* The pid is the handle's when there is one, else the row's.
applyBackgroundCancels ==
    LET S == {j \in InStatus("running") : cancelReq[j] /\ (handle[j] = "pid" \/ rowPid[j])}
    IN /\ phase = "tick"
       /\ \E j \in S : processAlive(j)
       /\ kill(S)
       /\ UNCHANGED <<rows, bots, pidFile, exitFile, scheduler, watchers, outside, crashes, told>>

startQueuedBackground ==
    /\ phase = "tick" /\ InStatus("queued") # {}
    /\ phase' = "examine"
    /\ todo' = {<<j, FALSE>> : j \in InStatus("queued")}
    /\ UNCHANGED <<rows, bots, processes, pick, watchers, outside, crashes, told>>

\* Mutant of examine: one job too many under the cap.
examineCapMutant ==
    /\ phase = "examine"
    /\ IF todo = {}
       THEN phase' = "tick" /\ UNCHANGED <<jstatus, todo, pick>>
       ELSE \E j \in Listed :
             /\ j = Next1(Listed)
             /\ todo' = todo \ {<<j, FALSE>>}
             /\ ~archived[jbot[j]] /\ Cardinality(RunningOf(jbot[j])) <= MaxPerBot
             /\ phase' = "claim"
             /\ pick' = j
             /\ UNCHANGED jstatus
    /\ UNCHANGED <<jbot, rowPid, cancelReq, expired, bots, processes, watchers, outside, crashes,
                   told>>

\* The next job of the list: its bot is gone, its bot is at the cap, or it will be claimed.
\* The failing write has no condition on the status.
examine ==
    /\ phase = "examine"
    /\ \/ /\ todo = {}
          /\ phase' = "tick"
          /\ UNCHANGED <<jstatus, todo, pick>>
       \/ \E j \in Listed :
             /\ j = Next1(Listed)
             /\ todo' = todo \ {<<j, FALSE>>}
             /\ \/ /\ archived[jbot[j]]
                   /\ jstatus' = [jstatus EXCEPT ![j] = "failed"]
                   /\ UNCHANGED <<phase, pick>>
                \/ /\ ~archived[jbot[j]]
                   /\ Cardinality(RunningOf(jbot[j])) >= MaxPerBot
                   /\ UNCHANGED <<jstatus, phase, pick>>
                \/ /\ ~archived[jbot[j]]
                   /\ Cardinality(RunningOf(jbot[j])) < MaxPerBot
                   /\ phase' = "claim"
                   /\ pick' = j
                   /\ UNCHANGED jstatus
    /\ UNCHANGED <<jbot, rowPid, cancelReq, expired, bots, processes, watchers, outside, crashes,
                   told>>

\* UPDATE ... WHERE status = queued; a claimed job gets its goroutine.
claim ==
    /\ phase = "claim"
    /\ phase' = "examine"
    /\ pick' = 0
    /\ IF jstatus[pick] = "queued"
       THEN /\ jstatus' = [jstatus EXCEPT ![pick] = "running"]
            /\ wpc' = [wpc EXCEPT ![pick] = "start"]
       ELSE UNCHANGED <<jstatus, wpc>>
    /\ UNCHANGED <<jbot, rowPid, cancelReq, expired, bots, processes, todo, verdict, killed,
                   handle, outside, crashes, told>>
-----------------------------------------------------------------------------
(* runBackgroundJob and watchBackgroundJob.                                  *)

WatcherGoto(j, l) == wpc' = [wpc EXCEPT ![j] = l]

\* The wrapper starts, or something before it fails: the directory, a secret, cmd.Start.
runBackgroundJob(j) ==
    /\ wpc[j] = "start"
    /\ \/ proc' = [proc EXCEPT ![j] = "forked"] /\ WatcherGoto(j, "pid") /\ UNCHANGED verdict
       \/ verdict' = [verdict EXCEPT ![j] = "failed"] /\ WatcherGoto(j, "finish") /\ UNCHANGED proc
    /\ UNCHANGED <<rows, bots, pidFile, exitFile, scheduler, killed, handle, outside, crashes,
                   told>>

\* UPDATE ... SET pid, whatever the status is by now.
storePid(j) ==
    /\ wpc[j] = "pid"
    /\ rowPid' = [rowPid EXCEPT ![j] = TRUE]
    /\ WatcherGoto(j, "adopt")
    /\ UNCHANGED <<jstatus, jbot, cancelReq, expired, bots, processes, scheduler, verdict, killed,
                   handle, outside, crashes, told>>

adopt(j) ==
    /\ wpc[j] = "adopt"
    /\ handle' = [handle EXCEPT ![j] = "pid"]
    /\ WatcherGoto(j, IF handle[j] = "none" THEN "poll" ELSE "none")
    /\ UNCHANGED <<rows, bots, processes, scheduler, verdict, killed, outside, crashes, told>>

\* finishIfComplete and classifyBackgroundFinish on the row as it is now.
finishIfComplete(j) ==
    /\ wpc[j] = "poll"
    /\ \/ /\ jstatus[j] # "running"
          /\ WatcherGoto(j, "drop")
          /\ UNCHANGED verdict
       \/ /\ jstatus[j] = "running"
          /\ exitFile[j] # "absent" \/ ~(jobPID(j) /\ processAlive(j))
          /\ WatcherGoto(j, "finish")
          /\ verdict' = [verdict EXCEPT ![j] = IF exitFile[j] = "zero" /\ ~cancelReq[j]
                                               THEN "done" ELSE "failed"]
    /\ UNCHANGED <<rows, bots, processes, scheduler, killed, handle, outside, crashes, told>>

\* Mutant of shouldStopJob: the deadline is forgotten.
stopOnCancelMutant(j) ==
    /\ wpc[j] = "poll" /\ ~killed[j]
    /\ jstatus[j] = "running" /\ exitFile[j] = "absent" /\ jobPID(j) /\ processAlive(j)
    /\ cancelReq[j]
    /\ kill({j})
    /\ killed' = [killed EXCEPT ![j] = TRUE]
    /\ UNCHANGED <<rows, bots, pidFile, exitFile, scheduler, wpc, verdict, handle, outside,
                   crashes, told>>

\* shouldStopJob: one SIGTERM per watcher, for a cancel or a passed deadline.
shouldStopJob(j) ==
    /\ wpc[j] = "poll" /\ ~killed[j]
    /\ jstatus[j] = "running" /\ exitFile[j] = "absent" /\ jobPID(j) /\ processAlive(j)
    /\ cancelReq[j] \/ expired[j]
    /\ kill({j})
    /\ killed' = [killed EXCEPT ![j] = TRUE]
    /\ UNCHANGED <<rows, bots, pidFile, exitFile, scheduler, wpc, verdict, handle, outside,
                   crashes, told>>

\* Mutants of finishBackgroundJob: the wake does not depend on the update having settled the
\* row; the error text is written as the status.
finishAlwaysWakesMutant(j) ==
    /\ wpc[j] = "finish"
    /\ jstatus' = [jstatus EXCEPT ![j] = IF @ = "running" THEN verdict[j] ELSE @]
    /\ rowPid' = [rowPid EXCEPT ![j] = FALSE]
    /\ WatcherGoto(j, "wake")
    /\ UNCHANGED <<jbot, cancelReq, expired, bots, processes, scheduler, verdict, killed, handle,
                   outside, crashes, told>>

finishWordMutant(j) ==
    /\ wpc[j] = "finish"
    /\ jstatus' = [jstatus EXCEPT ![j] = IF cancelReq[j] THEN "cancelled" ELSE verdict[j]]
    /\ WatcherGoto(j, "wake")
    /\ UNCHANGED <<jbot, rowPid, cancelReq, expired, bots, processes, scheduler, verdict, killed,
                   handle, outside, crashes, told>>

\* UPDATE ... WHERE status = running; only the write that settled the row goes on to the wake.
finishBackgroundJob(j) ==
    /\ wpc[j] = "finish"
    /\ IF jstatus[j] = "running"
       THEN /\ jstatus' = [jstatus EXCEPT ![j] = verdict[j]]
            /\ rowPid' = [rowPid EXCEPT ![j] = FALSE]
            /\ WatcherGoto(j, "wake")
       ELSE /\ UNCHANGED <<jstatus, rowPid>>
            /\ WatcherGoto(j, "drop")
    /\ UNCHANGED <<jbot, cancelReq, expired, bots, processes, scheduler, verdict, killed, handle,
                   outside, crashes, told>>

\* Mutant of enqueueBackgroundWake: only failures wake the model.
wakeFailedMutant(j) ==
    /\ wpc[j] = "wake"
    /\ told' = [told EXCEPT ![j] = IF verdict[j] = "done" THEN @ ELSE Append(@, verdict[j])]
    /\ WatcherGoto(j, "drop")
    /\ UNCHANGED <<rows, bots, processes, scheduler, verdict, killed, handle, outside, crashes>>

enqueueBackgroundWake(j) ==
    /\ wpc[j] = "wake"
    /\ told' = [told EXCEPT ![j] = IF archived[jbot[j]] THEN @ ELSE Append(@, verdict[j])]
    /\ WatcherGoto(j, "drop")
    /\ UNCHANGED <<rows, bots, processes, scheduler, verdict, killed, handle, outside, crashes>>

drop(j) ==
    /\ wpc[j] = "drop"
    /\ handle' = [handle EXCEPT ![j] = "none"]
    /\ killed' = [killed EXCEPT ![j] = FALSE]
    /\ verdict' = [verdict EXCEPT ![j] = "failed"]
    /\ WatcherGoto(j, "none")
    /\ UNCHANGED <<rows, bots, processes, scheduler, outside, crashes, told>>
-----------------------------------------------------------------------------
(* archiveBotRow and unarchiveBotRow, as far as they touch jobs.             *)

archiveBotRow(b) ==
    /\ archiver = NoArchiver /\ ~archived[b] /\ archives < MaxArchives
    /\ archives' = archives + 1
    /\ archived' = [archived EXCEPT ![b] = TRUE]
    /\ archiver' = <<"find", b>>
    /\ UNCHANGED <<rows, processes, scheduler, watchers, tool, cancels, crashes, told>>

\* Unfinished rows whose pid is known get a SIGTERM.
archiveKill ==
    /\ archiver[1] = "find"
    /\ kill({j \in InStatus("queued") \cup InStatus("running") : jbot[j] = archiver[2] /\ rowPid[j]})
    /\ archiver' = <<"fail", archiver[2]>>
    /\ UNCHANGED <<rows, bots, pidFile, exitFile, scheduler, watchers, tool, cancels, crashes,
                   told>>

\* Mutant of archiveFail: every job of the session, settled ones too.
archiveFailAllMutant ==
    /\ archiver[1] = "fail"
    /\ archiver' = NoArchiver
    /\ jstatus' = [j \in Jobs |-> IF jbot[j] = archiver[2] THEN "failed" ELSE jstatus[j]]
    /\ UNCHANGED <<jbot, rowPid, cancelReq, expired, bots, processes, scheduler, watchers, tool,
                   cancels, crashes, told>>

archiveFail ==
    LET S == {j \in InStatus("queued") \cup InStatus("running") : jbot[j] = archiver[2]}
    IN /\ archiver[1] = "fail"
       /\ archiver' = NoArchiver
       /\ jstatus' = [j \in Jobs |-> IF j \in S THEN "failed" ELSE jstatus[j]]
       /\ cancelReq' = [j \in Jobs |-> j \in S \/ cancelReq[j]]
       /\ UNCHANGED <<jbot, rowPid, expired, bots, processes, scheduler, watchers, tool, cancels,
                      crashes, told>>

unarchiveBotRow(b) ==
    /\ archiver = NoArchiver /\ archived[b]
    /\ archived' = [archived EXCEPT ![b] = FALSE]
    /\ UNCHANGED <<rows, archives, processes, scheduler, watchers, outside, crashes, told>>

\* listen dies or is restarted; the wrappers live on.
crash ==
    /\ crashes < MaxCrashes
    /\ crashes' = crashes + 1
    /\ phase' = "list1"
    /\ todo' = {}
    /\ pick' = 0
    /\ wpc' = [j \in Jobs |-> "none"]
    /\ verdict' = [j \in Jobs |-> "failed"]
    /\ killed' = [j \in Jobs |-> FALSE]
    /\ handle' = [j \in Jobs |-> "none"]
    /\ tool' = NoTool
    /\ archiver' = NoArchiver
    /\ UNCHANGED <<rows, bots, processes, cancels, told>>
-----------------------------------------------------------------------------
Scheduler ==
    \/ reattachList \/ reattach \/ reattachDone
    \/ applyBackgroundCancels \/ startQueuedBackground \/ examine \/ claim

Watcher(j) ==
    \/ runBackgroundJob(j) \/ storePid(j) \/ adopt(j) \/ finishIfComplete(j) \/ shouldStopJob(j)
    \/ finishBackgroundJob(j) \/ enqueueBackgroundWake(j) \/ drop(j)

Caller(j) == cancelQueued(j) \/ cancelFlag(j) \/ cancelKill(j)
Archiver == archiveKill \/ archiveFail

Next ==
    \/ \E b \in Bots : queueBackgroundJob(b) \/ archiveBotRow(b) \/ unarchiveBotRow(b)
    \/ \E j \in Jobs : \/ cancelBackgroundJob(j) \/ Caller(j) \/ Watcher(j)
                       \/ wrapperPid(j) \/ wrapperExitCode(j) \/ wrapperEnd(j) \/ expire(j)
    \/ Scheduler \/ Archiver \/ crash

Spec == Init /\ [][Next]_vars

\* Goroutines with work are scheduled, time passes, and a started shell runs its first line.
\* A user command need not end, nobody need cancel it.
Fairness ==
    /\ WF_vars(Scheduler)
    /\ WF_vars(Archiver)
    /\ \A j \in Jobs : /\ WF_vars(Watcher(j)) /\ WF_vars(Caller(j))
                       /\ WF_vars(wrapperPid(j)) /\ WF_vars(expire(j))

FairSpec == Spec /\ Fairness
-----------------------------------------------------------------------------
\* maxBackgroundPerBot: no session ever has more running jobs than the cap, although the count
\* is read before the claim and jobs settle, are cancelled and archived meanwhile.
RunningCap == \A b \in Bots : Cardinality(RunningOf(b)) <= MaxPerBot

\* A settled job keeps its verdict: neither the second finisher of a race, nor archiving, nor a
\* late cancel rewrites it (finishBackgroundJob and archiveBotRow update conditionally).
VerdictIsFinal ==
    [][\A j \in Jobs : jstatus[j] \in Settled => jstatus'[j] = jstatus[j]]_vars

\* The model is woken at most once per job, restarts and double reattach included, and is told
\* the verdict the row holds (enqueueBackgroundWake runs only for the settling update).
WakeTellsVerdict == \A j \in Jobs : told[j] \in {<<>>, <<jstatus[j]>>}

\* A live job process has a running row, so that a supervisor or the next reattach finds it and
\* the cancel and the deadline reach it.
NoOrphan == \A j \in Jobs : proc[j] \in {"forked", "up"} => jstatus[j] = "running"

\* In a process that has not been restarted, what settled through its supervisor for a live
\* session has queued its wake, or is about to.
FinishIsReported ==
    crashes = 0 =>
        \A j \in Jobs :
            (jstatus[j] = "done" /\ ~archived[jbot[j]]) => told[j] # <<>> \/ wpc[j] = "wake"

\* Every job settles: claimed when its session has room, ended by its command, a cancel or the
\* deadline, finished by its watcher or by the one that reattached it.
EveryJobSettles ==
    \A j \in Jobs : (jstatus[j] \in {"queued", "running"}) ~> (jstatus[j] \in Settled)
=============================================================================
