----------------------------- MODULE TurnRunner -----------------------------
(***************************************************************************)
(* The turn queue of ccc listen: runner.go (Enqueue, kick, loop, runNext,  *)
(* foldQueue, execute, Stop), the owner-facing handlers that feed it       *)
(* (listenv3.go, hub_client.go, mcp.go resolveQuestionAnswer), archiving   *)
(* (store.go) and restart recovery (listenv3.go recoverAfterRestart).      *)
(*                                                                         *)
(* One step is one database write or one in-memory synchronisation (a      *)
(* channel operation, a critical section of Runner.mu).  Consecutive reads *)
(* with no write between them are one step.  The rows survive a crash; the *)
(* loops, the handlers, the wake channels and the active map do not.       *)
(***************************************************************************)
EXTENDS Naturals, FiniteSets

CONSTANTS
    Bots,          \* the session rows of the instance under study
    General,       \* the dispatcher's row (need not be one of Bots)
    NoBot,         \* "no bot yet" in an unused row
    Telegram,      \* the getUpdates goroutine
    Phone,         \* the hub client goroutine
    Backend,       \* scheduler, background supervisor, deliverInbox, MCP tools
    Handlers,      \* which of the three run in this instance
    OwnerStops,    \* whether the owner ever uses /stop in this instance
    MaxTurns,      \* bound: rows of the turns table
    MaxQuestions,  \* bound: rows of the questions table
    MaxAttempts,   \* engine spawns per turn (3 in execute)
    MaxCrashes     \* bound: process deaths

ASSUME TurnRunnerAssumption ==
    /\ NoBot \notin Bots
    /\ Handlers \subseteq {Telegram, Phone, Backend}
    /\ OwnerStops \in BOOLEAN
    /\ MaxTurns \in Nat /\ MaxQuestions \in Nat
    /\ MaxAttempts \in Nat \ {0} /\ MaxCrashes \in Nat

TurnIds == 1..MaxTurns
QuestionIds == 1..MaxQuestions

VARIABLES
    tstatus,      \* turns.status, "none" for a row not created yet
    tbot,         \* turns.bot_id
    tinput,       \* turns.input: the set of inputs whose text the column holds
    lastTurn,     \* the highest turns.id
    followUps,    \* inputs that are General's injected timeout notice
    bstatus,      \* bots.status
    archived,     \* bots.archived_at is set
    qbot,         \* questions.bot_id
    answers,      \* how often questions.answered_at was written
    pc,           \* where a bot's loop goroutine is; "absent" before its first kick
    head,         \* execute's t
    carry,        \* execute's combined input
    extras,       \* foldQueue's rows still to be closed as merged
    tries,        \* execute's attempt
    class,        \* execute's class
    sawQuestion,  \* execute's waiting
    wake,         \* the bot's wake channel holds its one token
    active,       \* Runner.active: no engine, or how it was interrupted
    hpc, hbot, hq,  \* a handler's position and its locals
    phase,        \* how far listenV3 has come
    interrupted,  \* recoverAfterRestart's list of running turns
    crashes,
    executed,     \* history: <<turn, input>> pairs handed to an engine
    dropped       \* history: inputs discarded by /stop or by archiving

turnRows == <<tstatus, tbot, tinput, lastTurn, followUps>>
botRows == <<bstatus, archived>>
questionRows == <<qbot, answers>>
loops == <<pc, head, carry, extras, tries, class, sawQuestion>>
signals == <<wake, active>>
handlers == <<hpc, hbot, hq>>
boot == <<phase, interrupted, crashes>>
history == <<executed, dropped>>
vars == <<turnRows, botRows, questionRows, loops, signals, handlers, boot, history>>

TurnStatus == {"none", "queued", "running", "done", "failed"}
BotStatus == {"idle", "running", "waiting", "disabled"}
LoopPc == {"absent", "select", "check", "fold", "merge", "mark", "attempt", "run",
           "end", "inject", "look", "park"}
HandlerPc == {"idle", "answer", "unpark", "enqueue", "kick", "stopDrop", "stopIdle",
              "archiveDrop"}

TypeOK ==
    /\ tstatus \in [TurnIds -> TurnStatus]
    /\ tbot \in [TurnIds -> Bots \cup {NoBot}]
    /\ tinput \in [TurnIds -> SUBSET TurnIds]
    /\ lastTurn \in 0..MaxTurns
    /\ followUps \in SUBSET TurnIds
    /\ bstatus \in [Bots -> BotStatus]
    /\ archived \in [Bots -> BOOLEAN]
    /\ qbot \in [QuestionIds -> Bots \cup {NoBot}]
    /\ answers \in [QuestionIds -> Nat]
    /\ pc \in [Bots -> LoopPc]
    /\ head \in [Bots -> TurnIds \cup {0}]
    /\ carry \in [Bots -> SUBSET TurnIds]
    /\ extras \in [Bots -> SUBSET TurnIds]
    /\ tries \in [Bots -> 0..MaxAttempts]
    /\ class \in [Bots -> {"ok", "failed", "stopped", "timeout"}]
    /\ sawQuestion \in [Bots -> BOOLEAN]
    /\ wake \in [Bots -> BOOLEAN]
    /\ active \in [Bots -> {"none", "live", "stopped", "timedOut"}]
    /\ hpc \in [Handlers -> HandlerPc]
    /\ hbot \in [Handlers -> Bots \cup {NoBot}]
    /\ hq \in [Handlers -> QuestionIds \cup {0}]
    /\ phase \in {"list", "requeue", "arm", "up"}
    /\ interrupted \in SUBSET TurnIds
    /\ crashes \in 0..MaxCrashes
    /\ executed \in SUBSET (TurnIds \X TurnIds)
    /\ dropped \in SUBSET TurnIds

\* An empty database and a process whose hub client has just been started.
Init ==
    /\ tstatus = [t \in TurnIds |-> "none"]
    /\ tbot = [t \in TurnIds |-> NoBot]
    /\ tinput = [t \in TurnIds |-> {}]
    /\ lastTurn = 0
    /\ followUps = {}
    /\ bstatus = [b \in Bots |-> "idle"]
    /\ archived = [b \in Bots |-> FALSE]
    /\ qbot = [q \in QuestionIds |-> NoBot]
    /\ answers = [q \in QuestionIds |-> 0]
    /\ pc = [b \in Bots |-> "absent"]
    /\ head = [b \in Bots |-> 0]
    /\ carry = [b \in Bots |-> {}]
    /\ extras = [b \in Bots |-> {}]
    /\ tries = [b \in Bots |-> 0]
    /\ class = [b \in Bots |-> "ok"]
    /\ sawQuestion = [b \in Bots |-> FALSE]
    /\ wake = [b \in Bots |-> FALSE]
    /\ active = [b \in Bots |-> "none"]
    /\ hpc = [h \in Handlers |-> "idle"]
    /\ hbot = [h \in Handlers |-> NoBot]
    /\ hq = [h \in Handlers |-> 0]
    /\ phase = "list"
    /\ interrupted = {}
    /\ crashes = 0
    /\ executed = {}
    /\ dropped = {}
-----------------------------------------------------------------------------
QueuedOf(b) == {t \in TurnIds : tbot[t] = b /\ tstatus[t] = "queued"}
Oldest(S) == CHOOSE t \in S : \A u \in S : t <= u
OpenQuestions(b) == {q \in QuestionIds : qbot[q] = b /\ answers[q] = 0}

\* Handlers that are on their way to creating a row: the bound leaves room for them.
Enqueuing == {h \in Handlers : hpc[h] \in {"answer", "unpark", "enqueue"}}
Room == lastTurn + Cardinality(Enqueuing) < MaxTurns

\* db.Create of a queued Turn for b: the row carries its own input.
CreateTurn(b) ==
    /\ lastTurn < MaxTurns
    /\ lastTurn' = lastTurn + 1
    /\ tstatus' = [tstatus EXCEPT ![lastTurn + 1] = "queued"]
    /\ tbot' = [tbot EXCEPT ![lastTurn + 1] = b]
    /\ tinput' = [tinput EXCEPT ![lastTurn + 1] = {lastTurn + 1}]

\* Mutant of FailQueued: the condition on the status is forgotten.
FailAllMutant(b) ==
    /\ tstatus' = [t \in TurnIds |-> IF tbot[t] = b THEN "failed" ELSE tstatus[t]]
    /\ dropped' = dropped \cup UNION {tinput[t] : t \in QueuedOf(b)}
    /\ UNCHANGED <<tbot, tinput, lastTurn, followUps, executed>>

\* UPDATE turns SET status = failed WHERE bot_id = b AND status = queued.
FailQueued(b) ==
    /\ tstatus' = [t \in TurnIds |-> IF t \in QueuedOf(b) THEN "failed" ELSE tstatus[t]]
    /\ dropped' = dropped \cup UNION {tinput[t] : t \in QueuedOf(b)}
    /\ UNCHANGED <<tbot, tinput, lastTurn, followUps, executed>>

setBotStatus(b, s) == bstatus' = [bstatus EXCEPT ![b] = s]

\* Runner.kick for every bot of S: start the loop once, fill the wake channel.
kick(S) ==
    /\ pc' = [b \in Bots |-> IF b \in S /\ pc[b] = "absent" THEN "select" ELSE pc[b]]
    /\ wake' = [b \in Bots |-> b \in S \/ wake[b]]

Goto(b, l) == pc' = [pc EXCEPT ![b] = l]
HandlerGoto(h, l) == hpc' = [hpc EXCEPT ![h] = l]
-----------------------------------------------------------------------------
(* Runner.loop, runNext and foldQueue.                                      *)

loopWake(b) ==
    /\ pc[b] = "select" /\ wake[b]
    /\ wake' = [wake EXCEPT ![b] = FALSE]
    /\ Goto(b, "check")
    /\ UNCHANGED <<turnRows, botRows, questionRows, head, carry, extras, tries, class,
                   sawQuestion, active, handlers, boot, history>>

\* The row is read before settleQueue's debounce wait; anything may happen in that wait.
runNext(b) ==
    /\ pc[b] = "check"
    /\ Goto(b, IF bstatus[b] \in {"waiting", "disabled"} \/ archived[b]
               THEN "select" ELSE "fold")
    /\ UNCHANGED <<turnRows, botRows, questionRows, head, carry, extras, tries, class,
                   sawQuestion, signals, handlers, boot, history>>

\* Mutant of foldQueue: the newest row is taken alone, the older ones wait.
foldNewestMutant(b) ==
    /\ pc[b] = "fold"
    /\ IF QueuedOf(b) = {}
       THEN Goto(b, "select") /\ UNCHANGED <<head, carry>>
       ELSE \E t \in QueuedOf(b) :
               /\ \A u \in QueuedOf(b) : u <= t
               /\ Goto(b, "merge")
               /\ head' = [head EXCEPT ![b] = t]
               /\ carry' = [carry EXCEPT ![b] = tinput[t]]
    /\ UNCHANGED <<turnRows, botRows, questionRows, extras, tries, class, sawQuestion, signals,
                   handlers, boot, history>>

foldQueue(b) ==
    /\ pc[b] = "fold"
    /\ \/ /\ QueuedOf(b) = {}
          /\ Goto(b, "select")
          /\ UNCHANGED <<head, carry, extras>>
       \/ /\ QueuedOf(b) # {}
          /\ Goto(b, "merge")
          /\ head' = [head EXCEPT ![b] = Oldest(QueuedOf(b))]
          /\ carry' = [carry EXCEPT ![b] = UNION {tinput[t] : t \in QueuedOf(b)}]
          /\ extras' = [extras EXCEPT ![b] = QueuedOf(b) \ {Oldest(QueuedOf(b))}]
    /\ UNCHANGED <<turnRows, botRows, questionRows, tries, class, sawQuestion, signals,
                   handlers, boot, history>>

\* Mutant of mergeExtra: the merged row is not closed.
mergeKeepMutant(b) ==
    /\ pc[b] = "merge" /\ extras[b] # {}
    /\ extras' = [extras EXCEPT ![b] = {}]
    /\ UNCHANGED <<turnRows, botRows, questionRows, pc, head, carry, tries, class, sawQuestion,
                   signals, handlers, boot, history>>

\* One iteration of foldQueue's loop; the write has no condition on the status.
mergeExtra(b) ==
    /\ pc[b] = "merge" /\ extras[b] # {}
    /\ tstatus' = [tstatus EXCEPT ![Oldest(extras[b])] = "done"]
    /\ extras' = [extras EXCEPT ![b] = @ \ {Oldest(extras[b])}]
    /\ UNCHANGED <<tbot, tinput, lastTurn, followUps, botRows, questionRows, pc, head, carry,
                   tries, class, sawQuestion, signals, handlers, boot, history>>
-----------------------------------------------------------------------------
(* Runner.execute.                                                          *)

\* Mutant of startTurn: the carrier runs with its own input only.
startOwnInputMutant(b) ==
    /\ pc[b] = "merge" /\ extras[b] = {}
    /\ tstatus' = [tstatus EXCEPT ![head[b]] = "running"]
    /\ executed' = executed \cup ({head[b]} \X tinput[head[b]])
    /\ Goto(b, "mark")
    /\ UNCHANGED <<tbot, tinput, lastTurn, followUps, botRows, questionRows, head, carry, extras,
                   tries, class, sawQuestion, signals, handlers, boot, dropped>>

\* The carrier becomes running and takes the combined input, whatever its status is now.
startTurn(b) ==
    /\ pc[b] = "merge" /\ extras[b] = {}
    /\ tstatus' = [tstatus EXCEPT ![head[b]] = "running"]
    /\ tinput' = [tinput EXCEPT ![head[b]] = carry[b]]
    /\ executed' = executed \cup ({head[b]} \X carry[b])
    /\ Goto(b, "mark")
    /\ UNCHANGED <<tbot, lastTurn, followUps, botRows, questionRows, head, carry, extras, tries,
                   class, sawQuestion, signals, handlers, boot, dropped>>

markRunning(b) ==
    /\ pc[b] = "mark"
    /\ setBotStatus(b, "running")
    /\ Goto(b, "attempt")
    /\ UNCHANGED <<turnRows, archived, questionRows, head, carry, extras, tries, class,
                   sawQuestion, signals, handlers, boot, history>>

\* cmd.Start succeeded and the process is in Runner.active.
spawn(b) ==
    /\ pc[b] = "attempt"
    /\ tries' = [tries EXCEPT ![b] = @ + 1]
    /\ tries[b] < MaxAttempts
    /\ active' = [active EXCEPT ![b] = "live"]
    /\ Goto(b, "run")
    /\ UNCHANGED <<turnRows, botRows, questionRows, head, carry, extras, class, sawQuestion,
                   wake, handlers, boot, history>>

\* No account to run on, or the engine could not be started for a fatal reason.
noEngine(b) ==
    /\ pc[b] = "attempt"
    /\ class' = [class EXCEPT ![b] = "failed"]
    /\ Goto(b, "end")
    /\ UNCHANGED <<turnRows, botRows, questionRows, head, carry, extras, tries, sawQuestion,
                   signals, handlers, boot, history>>

\* The process is gone: spawn takes it out of active and execute classifies the result.
\* A clean exit wins over an interrupt that raced it; a retryable failure (session_lost,
\* auth_stale, rate_limited, transient) goes round again while attempts are left.
engineExit(b) ==
    /\ pc[b] = "run"
    /\ active' = [active EXCEPT ![b] = "none"]
    /\ \/ /\ class' = [class EXCEPT ![b] = "ok"]
          /\ Goto(b, "end")
       \/ /\ active[b] = "stopped"
          /\ class' = [class EXCEPT ![b] = "stopped"]
          /\ Goto(b, "end")
       \/ /\ active[b] = "timedOut"
          /\ class' = [class EXCEPT ![b] = "timeout"]
          /\ Goto(b, "end")
       \/ /\ active[b] = "live"
          /\ class' = [class EXCEPT ![b] = "failed"]
          /\ Goto(b, "end")
       \/ /\ active[b] = "live" /\ tries[b] < MaxAttempts
          /\ class' = [class EXCEPT ![b] = "failed"]
          /\ Goto(b, "attempt")
    /\ UNCHANGED <<turnRows, botRows, questionRows, head, carry, extras, tries, sawQuestion,
                   wake, handlers, boot, history>>

\* General's 60 second timer: interruptActive(b, true).  A /stop already sent wins.
chiefTimeout(b) ==
    /\ b = General
    /\ pc[b] = "run" /\ active[b] = "live"
    /\ active' = [active EXCEPT ![b] = "timedOut"]
    /\ UNCHANGED <<turnRows, botRows, questionRows, loops, wake, handlers, boot, history>>

endTurn(b) ==
    /\ pc[b] = "end"
    /\ tstatus' = [tstatus EXCEPT ![head[b]] = IF class[b] = "ok" THEN "done" ELSE "failed"]
    /\ Goto(b, IF class[b] = "timeout" THEN "inject" ELSE "look")
    /\ UNCHANGED <<tbot, tinput, lastTurn, followUps, botRows, questionRows, head, carry, extras,
                   tries, class, sawQuestion, signals, handlers, boot, history>>

\* persistChiefTimeout: the timeout of owner work queues one notice, without a kick (the loop
\* is still inside runNext); the timeout of a notice, of machine input, or of a turn that
\* already handed off queues none.
persistChiefTimeout(b) ==
    /\ pc[b] = "inject"
    /\ \/ UNCHANGED turnRows
       \/ /\ carry[b] \cap followUps = {}
          /\ Room
          /\ CreateTurn(b)
          /\ followUps' = followUps \cup {lastTurn + 1}
    /\ Goto(b, "look")
    /\ UNCHANGED <<botRows, questionRows, head, carry, extras, tries, class, sawQuestion,
                   signals, handlers, boot, history>>

hasPendingQuestion(b) ==
    /\ pc[b] = "look"
    /\ sawQuestion' = [sawQuestion EXCEPT ![b] = OpenQuestions(b) # {}]
    /\ Goto(b, "park")
    /\ UNCHANGED <<turnRows, botRows, questionRows, head, carry, extras, tries, class, signals,
                   handlers, boot, history>>

\* Mutant of parkOrIdle: runNext does not go round, the loop waits for its channel.
parkSelectMutant(b) ==
    /\ pc[b] = "park"
    /\ setBotStatus(b, IF sawQuestion[b] THEN "waiting" ELSE "idle")
    /\ Goto(b, "select")
    /\ head' = [head EXCEPT ![b] = 0]
    /\ carry' = [carry EXCEPT ![b] = {}]
    /\ tries' = [tries EXCEPT ![b] = 0]
    /\ class' = [class EXCEPT ![b] = "ok"]
    /\ sawQuestion' = [sawQuestion EXCEPT ![b] = FALSE]
    /\ UNCHANGED <<turnRows, archived, questionRows, extras, signals, handlers, boot, history>>

\* The status written from what was read one step earlier; execute returns, runNext goes round.
parkOrIdle(b) ==
    /\ pc[b] = "park"
    /\ setBotStatus(b, IF sawQuestion[b] THEN "waiting" ELSE "idle")
    /\ Goto(b, "check")
    /\ head' = [head EXCEPT ![b] = 0]
    /\ carry' = [carry EXCEPT ![b] = {}]
    /\ tries' = [tries EXCEPT ![b] = 0]
    /\ class' = [class EXCEPT ![b] = "ok"]
    /\ sawQuestion' = [sawQuestion EXCEPT ![b] = FALSE]
    /\ UNCHANGED <<turnRows, archived, questionRows, extras, signals, handlers, boot, history>>

\* The ask_owner tool, called by the engine while its turn runs.
askOwner(b) ==
    /\ pc[b] = "run"
    /\ \E q \in QuestionIds :
          /\ qbot[q] = NoBot
          /\ \A r \in QuestionIds : r < q => qbot[r] # NoBot
          /\ qbot' = [qbot EXCEPT ![q] = b]
    /\ UNCHANGED <<turnRows, botRows, answers, loops, signals, handlers, boot, history>>
-----------------------------------------------------------------------------
(* The handlers.  listenV3 starts the hub client before recoverAfterRestart, *)
(* the scheduler after it, and polls Telegram last.                          *)

Listening(h) ==
    /\ h = Telegram => phase = "up"
    /\ h = Backend => phase \in {"arm", "up"}

Begin(h, l, b, q) ==
    /\ h \in Handlers /\ hpc[h] = "idle" /\ Listening(h)
    /\ hpc' = [hpc EXCEPT ![h] = l]
    /\ hbot' = [hbot EXCEPT ![h] = b]
    /\ hq' = [hq EXCEPT ![h] = q]

\* A DM to General: the answer when it is parked on a question, otherwise an input.
deliver ==
    /\ General \in Bots /\ Room
    /\ \/ /\ bstatus[General] = "waiting" /\ OpenQuestions(General) # {}
          /\ Begin(Telegram, "answer", General, Oldest(OpenQuestions(General)))
       \/ /\ ~(bstatus[General] = "waiting" /\ OpenQuestions(General) # {})
          /\ Begin(Telegram, "enqueue", General, 0)
    /\ UNCHANGED <<turnRows, botRows, questionRows, loops, signals, boot, history>>

\* A button tap (or a reply-to) on a question that reads as unanswered.
handleCallback ==
    /\ Room
    /\ \E b \in Bots : \E q \in OpenQuestions(b) : Begin(Telegram, "answer", b, q)
    /\ UNCHANGED <<turnRows, botRows, questionRows, loops, signals, boot, history>>

\* The phone's send: text answers the oldest open question, a file or image is queued.
rpcSend(b) ==
    /\ ~archived[b] /\ Room
    /\ \/ /\ OpenQuestions(b) # {}
          /\ Begin(Phone, "answer", b, Oldest(OpenQuestions(b)))
       \/ Begin(Phone, "enqueue", b, 0)
    /\ UNCHANGED <<turnRows, botRows, questionRows, loops, signals, boot, history>>

rpcAnswer(b) ==
    /\ ~archived[b] /\ Room
    /\ \E q \in OpenQuestions(b) : Begin(Phone, "answer", b, q)
    /\ UNCHANGED <<turnRows, botRows, questionRows, loops, signals, boot, history>>

\* resolveQuestionAnswer: three writes, each unconditional, then the kick.
answerQuestion(h) ==
    /\ hpc[h] = "answer"
    /\ answers' = [answers EXCEPT ![hq[h]] = @ + 1]
    /\ HandlerGoto(h, "unpark")
    /\ UNCHANGED <<turnRows, botRows, qbot, loops, signals, hbot, hq, boot, history>>

clearWaiting(h) ==
    /\ hpc[h] = "unpark"
    /\ setBotStatus(hbot[h], "idle")
    /\ HandlerGoto(h, "enqueue")
    /\ UNCHANGED <<turnRows, archived, questionRows, loops, signals, hbot, hq, boot, history>>

\* Mutant of Enqueue: the row is written and nobody is woken.
enqueueQuietMutant(h) ==
    /\ hpc[h] = "enqueue"
    /\ CreateTurn(hbot[h])
    /\ HandlerGoto(h, "idle")
    /\ hbot' = [hbot EXCEPT ![h] = NoBot]
    /\ UNCHANGED <<followUps, botRows, questionRows, loops, signals, hq, boot, history>>

Enqueue(h) ==
    /\ hpc[h] = "enqueue"
    /\ CreateTurn(hbot[h])
    /\ HandlerGoto(h, "kick")
    /\ UNCHANGED <<followUps, botRows, questionRows, loops, signals, hbot, hq, boot, history>>

enqueueKick(h) ==
    /\ hpc[h] = "kick"
    /\ kick({hbot[h]})
    /\ hpc' = [hpc EXCEPT ![h] = "idle"]
    /\ hbot' = [hbot EXCEPT ![h] = NoBot]
    /\ hq' = [hq EXCEPT ![h] = 0]
    /\ UNCHANGED <<turnRows, botRows, questionRows, head, carry, extras, tries, class,
                   sawQuestion, active, boot, history>>

\* A watch, schedule, job or delivered inbox row; deliverInbox does not look at archived_at.
machineInput(b) ==
    /\ Room
    /\ Begin(Backend, "enqueue", b, 0)
    /\ UNCHANGED <<turnRows, botRows, questionRows, loops, signals, boot, history>>

\* routineWorkerBot reuses a live or archived worker and makes it idle, whatever it was doing.
routineWorkerBot(b) ==
    /\ b # General /\ Room
    /\ Begin(Backend, "enqueue", b, 0)
    /\ archived' = [archived EXCEPT ![b] = FALSE]
    /\ setBotStatus(b, "idle")
    /\ UNCHANGED <<turnRows, questionRows, loops, signals, boot, history>>

\* /stop, first half of Runner.Stop: interruptActive(General, false).
Stop ==
    /\ OwnerStops /\ General \in Bots
    /\ Begin(Telegram, "stopDrop", General, 0)
    /\ active' = [active EXCEPT ![General] = IF @ = "none" THEN "none" ELSE "stopped"]
    /\ UNCHANGED <<turnRows, botRows, questionRows, loops, wake, boot, history>>

stopDropQueue(h) ==
    /\ hpc[h] = "stopDrop"
    /\ FailQueued(hbot[h])
    /\ HandlerGoto(h, "stopIdle")
    /\ UNCHANGED <<botRows, questionRows, loops, signals, hbot, hq, boot>>

\* The /stop command's own last write, after its reply was sent to Telegram.
stopSetIdle(h) ==
    /\ hpc[h] = "stopIdle"
    /\ setBotStatus(hbot[h], "idle")
    /\ hpc' = [hpc EXCEPT ![h] = "idle"]
    /\ hbot' = [hbot EXCEPT ![h] = NoBot]
    /\ UNCHANGED <<turnRows, archived, questionRows, loops, signals, hq, boot, history>>

\* archiveBotRow, from the phone or from the archive_bot tool.  A running turn is not touched.
archiveBotRow(h, b) ==
    /\ h \in {Phone, Backend} /\ b # General /\ ~archived[b]
    /\ Begin(h, "archiveDrop", b, 0)
    /\ archived' = [archived EXCEPT ![b] = TRUE]
    /\ setBotStatus(b, "disabled")
    /\ UNCHANGED <<turnRows, questionRows, loops, signals, boot, history>>

archiveDropQueue(h) ==
    /\ hpc[h] = "archiveDrop"
    /\ FailQueued(hbot[h])
    /\ hpc' = [hpc EXCEPT ![h] = "idle"]
    /\ hbot' = [hbot EXCEPT ![h] = NoBot]
    /\ UNCHANGED <<botRows, questionRows, loops, signals, hq, boot>>

unarchiveBotRow(b) ==
    /\ Phone \in Handlers /\ hpc[Phone] = "idle" /\ archived[b]
    /\ archived' = [archived EXCEPT ![b] = FALSE]
    /\ setBotStatus(b, "idle")
    /\ UNCHANGED <<turnRows, questionRows, loops, signals, handlers, boot, history>>
-----------------------------------------------------------------------------
(* Process death and recoverAfterRestart.                                    *)

crash ==
    /\ crashes < MaxCrashes
    /\ crashes' = crashes + 1
    /\ phase' = "list"
    /\ interrupted' = {}
    /\ pc' = [b \in Bots |-> "absent"]
    /\ head' = [b \in Bots |-> 0]
    /\ carry' = [b \in Bots |-> {}]
    /\ extras' = [b \in Bots |-> {}]
    /\ tries' = [b \in Bots |-> 0]
    /\ class' = [b \in Bots |-> "ok"]
    /\ sawQuestion' = [b \in Bots |-> FALSE]
    /\ wake' = [b \in Bots |-> FALSE]
    /\ active' = [b \in Bots |-> "none"]
    /\ hpc' = [h \in Handlers |-> "idle"]
    /\ hbot' = [h \in Handlers |-> NoBot]
    /\ hq' = [h \in Handlers |-> 0]
    /\ UNCHANGED <<turnRows, botRows, questionRows, history>>

\* Mutant of listInterrupted: a restart does not look for running rows.
listNothingMutant ==
    /\ phase = "list"
    /\ phase' = "requeue"
    /\ UNCHANGED <<turnRows, botRows, questionRows, loops, signals, handlers, interrupted,
                   crashes, history>>

listInterrupted ==
    /\ phase = "list"
    /\ phase' = "requeue"
    /\ interrupted' = {t \in TurnIds : tstatus[t] = "running"}
    /\ UNCHANGED <<turnRows, botRows, questionRows, loops, signals, handlers, crashes, history>>

\* Mutants of requeueInterruptedTurn: an archived session's turn is left alone; the row
\* gets the session's word for stopped.
requeueLiveMutant(t) ==
    /\ phase = "requeue" /\ t \in interrupted
    /\ interrupted' = interrupted \ {t}
    /\ tstatus' = [tstatus EXCEPT ![t] = IF @ = "running" /\ ~archived[tbot[t]]
                                         THEN "queued" ELSE @]
    /\ UNCHANGED <<tbot, tinput, lastTurn, followUps, botRows, questionRows, loops, signals,
                   handlers, phase, crashes, history>>

requeueWordMutant(t) ==
    /\ phase = "requeue" /\ t \in interrupted
    /\ interrupted' = interrupted \ {t}
    /\ tstatus' = [tstatus EXCEPT ![t] = "disabled"]
    /\ UNCHANGED <<tbot, tinput, lastTurn, followUps, botRows, questionRows, loops, signals,
                   handlers, phase, crashes, history>>

\* requeueInterruptedTurn or failInterruptedTurn: both conditional on status = running.
requeueInterruptedTurn(t) ==
    /\ phase = "requeue" /\ t \in interrupted
    /\ interrupted' = interrupted \ {t}
    /\ tstatus' = [tstatus EXCEPT ![t] = IF @ # "running" THEN @
                                         ELSE IF archived[tbot[t]] THEN "failed" ELSE "queued"]
    /\ UNCHANGED <<tbot, tinput, lastTurn, followUps, botRows, questionRows, loops, signals,
                   handlers, phase, crashes, history>>

resetBots ==
    /\ phase = "requeue" /\ interrupted = {}
    /\ phase' = "arm"
    /\ bstatus' = [b \in Bots |-> IF bstatus[b] = "running" THEN "idle" ELSE bstatus[b]]
    /\ UNCHANGED <<turnRows, archived, questionRows, loops, signals, handlers, interrupted,
                   crashes, history>>

armQueues ==
    /\ phase = "arm"
    /\ phase' = "up"
    /\ kick({b \in Bots : ~archived[b]})
    /\ UNCHANGED <<turnRows, botRows, questionRows, head, carry, extras, tries, class,
                   sawQuestion, active, handlers, interrupted, crashes, history>>
-----------------------------------------------------------------------------
Loop(b) ==
    \/ loopWake(b) \/ runNext(b) \/ foldQueue(b) \/ mergeExtra(b)
    \/ startTurn(b) \/ markRunning(b) \/ spawn(b) \/ noEngine(b) \/ engineExit(b)
    \/ endTurn(b) \/ persistChiefTimeout(b) \/ hasPendingQuestion(b) \/ parkOrIdle(b)

Finish(h) ==
    \/ answerQuestion(h) \/ clearWaiting(h) \/ Enqueue(h) \/ enqueueKick(h)
    \/ stopDropQueue(h) \/ stopSetIdle(h) \/ archiveDropQueue(h)

Owner ==
    \/ deliver \/ handleCallback \/ Stop
    \/ \E b \in Bots : rpcSend(b) \/ rpcAnswer(b) \/ unarchiveBotRow(b)

Machine ==
    \E b \in Bots :
        \/ machineInput(b) \/ routineWorkerBot(b) \/ askOwner(b) \/ chiefTimeout(b)
        \/ \E h \in Handlers : archiveBotRow(h, b)

Recovery ==
    \/ listInterrupted \/ resetBots \/ armQueues
    \/ \E t \in TurnIds : requeueInterruptedTurn(t)

Next ==
    \/ \E b \in Bots : Loop(b)
    \/ \E h \in Handlers : Finish(h)
    \/ Owner \/ Machine \/ Recovery \/ crash

Spec == Init /\ [][Next]_vars

\* Goroutines that have something to do are scheduled, and an engine process ends.  Nothing
\* is assumed of the owner, of the tools or of the machine's inputs.
Fairness ==
    /\ \A b \in Bots : WF_vars(Loop(b))
    /\ \A h \in Handlers : WF_vars(Finish(h))
    /\ WF_vars(Recovery)

FairSpec == Spec /\ Fairness
-----------------------------------------------------------------------------
Executing(b) == pc[b] \in {"mark", "attempt", "run", "end"}

\* Once recovery has passed, a turn marked running is the one its bot's loop is executing: no
\* restart, archive or /stop leaves a row running with nobody to finish it (runner.go execute,
\* listenv3.go recoverAfterRestart).
NoZombieTurn ==
    phase \in {"arm", "up"} =>
        \A t \in TurnIds : tstatus[t] = "running" =>
            \E b \in Bots : tbot[t] = b /\ Executing(b) /\ head[b] = t

\* DESIGN section 2, "At most one turn per session at a time": no session ever has two rows
\* marked running, in the middle of a recovery either.
OneRunningTurn ==
    \A t, u \in TurnIds :
        tstatus[t] = "running" /\ tstatus[u] = "running" /\ tbot[t] = tbot[u] => t = u

\* A running turn is older than everything its session has queued: inputs are taken in order,
\* and an interrupted turn is retried before what arrived while it ran (recoverAfterRestart).
RunningIsOldest ==
    \A t, u \in TurnIds :
        tstatus[t] = "running" /\ tstatus[u] = "queued" /\ tbot[t] = tbot[u] => t < u

\* No input is handed to engines under two different turns: what foldQueue merged into one
\* turn never runs again as a turn of its own, across restarts too.
ExecutedByOneTurn ==
    \A p, r \in executed : p[2] = r[2] => p[1] = r[1]

\* An input is accounted for: dropped on purpose by /stop or by archiving, handed to an engine,
\* in a queued row, or in the hands of the loop that folded its row.
Kept(i) ==
    \/ i \in dropped
    \/ \E p \in executed : p[2] = i
    \/ \E t \in TurnIds : tstatus[t] = "queued" /\ i \in tinput[t]
    \/ \E b \in Bots : i \in carry[b]

\* Nothing but the death of the process loses an input: no fold, merge, retry, answer, /stop,
\* archive or recovery step leaves an accepted input behind (foldQueue, execute, Stop).
LostOnlyInCrash ==
    [][\A i \in 1..lastTurn : Kept(i) => Kept(i)' \/ crashes' # crashes]_vars

Quiet(b) == \A h \in Handlers : hbot[h] # b

\* An idle, live session with queued input is about to be looked at: its loop is at work, its
\* wake token is there, or a handler is on its way to kick it (Runner.kick's buffered channel).
NoLostWakeup ==
    \A b \in Bots :
        (phase = "up" /\ QueuedOf(b) # {} /\ bstatus[b] = "idle" /\ ~archived[b] /\ Quiet(b))
            => wake[b] \/ pc[b] \notin {"absent", "select"}

\* What is done stays done: no /stop, archive, fold or recovery touches a finished turn.
DoneIsFinal ==
    [][\A t \in TurnIds : tstatus[t] = "done" => tstatus'[t] = "done"]_vars

\* Every queued turn is eventually taken, folded or dropped, unless its session is parked on a
\* question or archived first; through crashes, restarts and failed engines.
QueuedTurnServed ==
    \A t \in TurnIds : \A b \in Bots :
        (tstatus[t] = "queued" /\ tbot[t] = b)
            ~> (tstatus[t] # "queued" \/ bstatus[b] = "waiting" \/ archived[b])
=============================================================================
