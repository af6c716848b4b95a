----------------------------- MODULE InboxRelay -----------------------------
(***************************************************************************)
(* The inbox between sessions (botmsg.go, runner.go deliverInbox) and the  *)
(* relay of a worker's report to the owner (ensureWorkerRelayToGeneral,    *)
(* General's turn, fulfillOwnerRelay), with the idle reminder of the       *)
(* scheduler (enqueueIdleRemind), the boot pass of listenV3, and what      *)
(* becomes of a request when General runs into its cap of 60 seconds       *)
(* (persistChiefTimeout, chief.go).                                        *)
(*                                                                         *)
(* A message is a row; to deliver it is to create a queued turn and then   *)
(* to mark the row, two writes.  Three kinds of actor deliver: the loop of *)
(* the sender at the end of its turn, the boot pass and the scheduler.     *)
(* The turn path itself is what TurnRunner says of it; here a session's    *)
(* loop is cut down to the writes that touch messages.                     *)
(***************************************************************************)
EXTENDS Naturals, FiniteSets

CONSTANTS
    General,
    Workers,      \* live worker sessions
    Boot,         \* listenV3 until it polls
    Scheduler,    \* the scheduler goroutine
    None,         \* no session yet, in an unused row
    MaxTurns,     \* bound: rows of turns
    MaxInputs,    \* bound: turns queued by the owner or by a timer
    MaxMessages,  \* bound: rows of inbox
    MaxCrashes    \* bound: process deaths

Sessions == Workers \cup {General}
Actors == Sessions \cup {Boot, Scheduler}

ASSUME InboxAssumption ==
    /\ General \notin Workers
    /\ Boot \notin Sessions /\ Scheduler \notin Sessions \cup {Boot}
    /\ None \notin Sessions
    /\ MaxTurns \in Nat /\ MaxInputs \in Nat /\ MaxMessages \in Nat /\ MaxCrashes \in Nat

TurnIds == 1..MaxTurns
Messages == 1..MaxMessages
Notice == 0    \* the text "this work is too long for General", beside those of the messages

VARIABLES
    tstatus,    \* turns.status; done and failed are one here
    tbot,       \* turns.bot_id
    tmsgs,      \* the messages whose text turns.input holds, and the notice
    tuser,      \* General's turns of source user: the owner's requests
    tcreated,   \* General's turns: turns.created_at, as the number of General's messages by then
    tstarted,   \* likewise turns.started_at; both 0 once nothing reads them any more
    late,       \* turns of error_class chief_timeout
    lastTurn,   \* the highest turns.id
    inputs,     \* how many of them no message created
    mfrom, mto, \* inbox.from_bot_id, to_bot_id
    relay,      \* inbox.relay
    delivered,  \* inbox.delivered_at is set
    mturn,      \* inbox.turn_id, 0 for null
    lastMsg,    \* the highest inbox.id
    pc,         \* where an actor is
    wake,       \* a session's wake channel holds its token
    head,       \* a loop: execute's t
    carry,      \* a loop: the messages in the combined input
    extras,     \* a loop: foldQueue's rows still to be closed
    outcome,    \* a loop: what came out of the engine
    reported,   \* history: report_to_general was called in the turn a loop is running
    todo,       \* deliverInbox's pending
    item,       \* deliverInbox's m and turn, 0 between messages
    crashes,
    copies,     \* history: turns created for a message
    heard,      \* history: reports the owner got, from General or from the fallback
    raced,      \* history: messages marked when their turn had already ended
    handed,     \* history: how often ccc itself gave a request of the owner to a new session
    refused     \* history: a session that should take a request could not be started

marks == <<tuser, tcreated, tstarted, late>>
turnRows == <<tstatus, tbot, tmsgs, lastTurn, inputs, marks>>
inbox == <<mfrom, mto, relay, delivered, mturn, lastMsg>>
loops == <<head, carry, extras, outcome, reported>>
deliveries == <<todo, item>>
history == <<copies, heard, raced, handed, refused>>
vars == <<turnRows, inbox, pc, wake, loops, deliveries, crashes, history>>

Outcomes == {"spoke", "mute", "late"}

TypeOK ==
    /\ tstatus \in [TurnIds -> {"none", "queued", "running", "ended"}]
    /\ tbot \in [TurnIds -> Sessions \cup {None}]
    /\ tmsgs \in [TurnIds -> SUBSET (Messages \cup {Notice})]
    /\ tuser \subseteq TurnIds /\ late \subseteq TurnIds
    /\ tcreated \in [TurnIds -> 0..MaxMessages] /\ tstarted \in [TurnIds -> 0..MaxMessages]
    /\ lastTurn \in 0..MaxTurns
    /\ inputs \in 0..MaxInputs
    /\ mfrom \in [Messages -> Sessions \cup {None}]
    /\ mto \in [Messages -> Sessions \cup {None}]
    /\ relay \in [Messages -> BOOLEAN]
    /\ delivered \in [Messages -> BOOLEAN]
    /\ mturn \in [Messages -> TurnIds \cup {0}]
    /\ lastMsg \in 0..MaxMessages
    /\ pc \in [Actors -> {"absent", "idle", "again", "merge", "relabel", "run", "handoff", "notice",
                          "report", "list", "deliver", "mark", "requeue", "arm"}]
    /\ wake \in [Sessions -> BOOLEAN]
    /\ head \in [Sessions -> TurnIds \cup {0}]
    /\ carry \in [Sessions -> SUBSET (Messages \cup {Notice})]
    /\ extras \in [Sessions -> SUBSET TurnIds]
    /\ outcome \in [Sessions -> Outcomes]
    /\ reported \in [Sessions -> BOOLEAN]
    /\ todo \in [Actors -> SUBSET Messages]
    /\ item \in [Actors -> (Messages \cup {0}) \X (TurnIds \cup {0})]
    /\ crashes \in 0..MaxCrashes
    /\ copies \in [Messages -> Nat]
    /\ heard \in SUBSET Messages
    /\ raced \in SUBSET Messages
    /\ handed \in [TurnIds -> Nat]
    /\ refused \in BOOLEAN

Resting(a) == IF a = Boot THEN "requeue" ELSE IF a = Scheduler THEN "idle" ELSE "absent"

Init ==
    /\ tstatus = [t \in TurnIds |-> "none"]
    /\ tbot = [t \in TurnIds |-> None]
    /\ tmsgs = [t \in TurnIds |-> {}]
    /\ lastTurn = 0 /\ inputs = 0
    /\ tuser = {} /\ late = {}
    /\ tcreated = [t \in TurnIds |-> 0] /\ tstarted = [t \in TurnIds |-> 0]
    /\ mfrom = [m \in Messages |-> None]
    /\ mto = [m \in Messages |-> None]
    /\ relay = [m \in Messages |-> FALSE]
    /\ delivered = [m \in Messages |-> FALSE]
    /\ mturn = [m \in Messages |-> 0]
    /\ lastMsg = 0
    /\ pc = [a \in Actors |-> Resting(a)]
    /\ wake = [b \in Sessions |-> FALSE]
    /\ head = [b \in Sessions |-> 0]
    /\ carry = [b \in Sessions |-> {}]
    /\ extras = [b \in Sessions |-> {}]
    /\ outcome = [b \in Sessions |-> "mute"]
    /\ reported = [b \in Sessions |-> FALSE]
    /\ todo = [a \in Actors |-> {}]
    /\ item = [a \in Actors |-> <<0, 0>>]
    /\ crashes = 0
    /\ copies = [m \in Messages |-> 0]
    /\ heard = {}
    /\ raced = {}
    /\ handed = [t \in TurnIds |-> 0] /\ refused = FALSE
-----------------------------------------------------------------------------
Oldest(S) == CHOOSE x \in S : \A y \in S : x <= y
QueuedOf(b) == {t \in TurnIds : tbot[t] = b /\ tstatus[t] = "queued"}
Sent == 1..lastMsg
MessagesOf(b) == Cardinality({m \in Sent : mfrom[m] = b})
Started == pc[Boot] = "idle"

Goto(a, l) == pc' = [pc EXCEPT ![a] = l]

\* Runner.kick of b, with the step of actor a to l.
GotoAndKick(a, l, b) ==
    /\ pc' = [pc EXCEPT ![b] = IF @ = "absent" THEN "idle" ELSE @, ![a] = l]
    /\ wake' = [wake EXCEPT ![b] = TRUE]

CreateTurn(b, S) ==
    /\ lastTurn < MaxTurns
    /\ lastTurn' = lastTurn + 1
    /\ tstatus' = [tstatus EXCEPT ![lastTurn + 1] = "queued"]
    /\ tbot' = [tbot EXCEPT ![lastTurn + 1] = b]
    /\ tmsgs' = [tmsgs EXCEPT ![lastTurn + 1] = S]
    /\ tcreated' = [tcreated EXCEPT ![lastTurn + 1] = IF b = General THEN MessagesOf(b) ELSE 0]
    /\ UNCHANGED <<tstarted, late>>

\* enqueueBotMessage: a pending row that wakes its target.
enqueueBotMessage(from, to, isRelay) ==
    /\ lastMsg < MaxMessages
    /\ lastMsg' = lastMsg + 1
    /\ mfrom' = [mfrom EXCEPT ![lastMsg + 1] = from]
    /\ mto' = [mto EXCEPT ![lastMsg + 1] = to]
    /\ relay' = [relay EXCEPT ![lastMsg + 1] = isRelay]
    /\ UNCHANGED <<delivered, mturn>>
-----------------------------------------------------------------------------
(* A session's loop: runNext, foldQueue, execute.                            *)

\* Input of the owner, a watch or a schedule: Runner.Enqueue with its kick.
\* Bound: none before the boot pass is over (TurnRunner has the phone, which may be that early).
Enqueue(b) ==
    /\ Started
    /\ inputs < MaxInputs
    /\ inputs' = inputs + 1
    /\ CreateTurn(b, {})
    /\ tuser' \in {tuser} \cup (IF b = General THEN {tuser \cup {lastTurn + 1}} ELSE {})
    /\ pc' = [pc EXCEPT ![b] = IF @ = "absent" THEN "idle" ELSE @]
    /\ wake' = [wake EXCEPT ![b] = TRUE]
    /\ UNCHANGED <<inbox, loops, deliveries, crashes, history>>

\* The loop takes its token, or comes round from the turn it has just run.
foldQueue(b) ==
    /\ \/ pc[b] = "idle" /\ wake[b] /\ wake' = [wake EXCEPT ![b] = FALSE]
       \/ pc[b] = "again" /\ UNCHANGED wake
    /\ \/ /\ QueuedOf(b) = {}
          /\ Goto(b, "idle")
          /\ UNCHANGED <<head, carry, extras>>
       \/ /\ QueuedOf(b) # {}
          /\ Goto(b, "merge")
          /\ head' = [head EXCEPT ![b] = Oldest(QueuedOf(b))]
          /\ carry' = [carry EXCEPT ![b] = UNION {tmsgs[t] : t \in QueuedOf(b)}]
          /\ extras' = [extras EXCEPT ![b] = QueuedOf(b) \ {Oldest(QueuedOf(b))}]
    /\ UNCHANGED <<turnRows, inbox, outcome, reported, deliveries, crashes, history>>

\* One iteration of foldQueue's loop is two writes: the row, then its messages.
mergeExtra(b) ==
    /\ pc[b] = "merge" /\ extras[b] # {}
    /\ tstatus' = [tstatus EXCEPT ![Oldest(extras[b])] = "ended"]
    /\ tcreated' = [tcreated EXCEPT ![Oldest(extras[b])] = 0]
    /\ Goto(b, "relabel")
    /\ UNCHANGED <<wake, tbot, tmsgs, lastTurn, inputs, tuser, tstarted, late, inbox, loops,
                   deliveries, crashes, history>>

\* Mutant of relabel: the messages of a merged row keep its number.
relabelNothingMutant(b) ==
    /\ pc[b] = "relabel"
    /\ extras' = [extras EXCEPT ![b] = @ \ {Oldest(extras[b])}]
    /\ Goto(b, "merge")
    /\ UNCHANGED <<wake, turnRows, inbox, head, carry, outcome, reported, deliveries, crashes,
                   history>>

relabel(b) ==
    /\ pc[b] = "relabel"
    /\ mturn' = [m \in Messages |-> IF mturn[m] = Oldest(extras[b]) THEN head[b] ELSE mturn[m]]
    /\ extras' = [extras EXCEPT ![b] = @ \ {Oldest(extras[b])}]
    /\ Goto(b, "merge")
    /\ UNCHANGED <<wake, turnRows, mfrom, mto, relay, delivered, lastMsg, head, carry, outcome,
                   reported,
                   deliveries, crashes, history>>

startTurn(b) ==
    /\ pc[b] = "merge" /\ extras[b] = {}
    /\ tstatus' = [tstatus EXCEPT ![head[b]] = "running"]
    /\ tmsgs' = [tmsgs EXCEPT ![head[b]] = carry[b]]
    /\ tstarted' = [tstarted EXCEPT ![head[b]] = IF b = General THEN MessagesOf(b) ELSE 0]
    /\ reported' = [reported EXCEPT ![b] = FALSE]
    /\ Goto(b, "run")
    /\ UNCHANGED <<wake, tbot, lastTurn, inputs, tuser, tcreated, late, inbox, head, carry, extras,
                   outcome, deliveries, crashes, history>>

\* spawn_session or tell_session, called by General's engine.  Messages that do not wake (ccc tell
\* --no-wake) are left out, and a new session is one of Workers that has not run.
tellSession(w) ==
    /\ pc[General] = "run"
    /\ enqueueBotMessage(General, w, FALSE)
    /\ UNCHANGED <<wake, turnRows, pc, loops, deliveries, crashes, history>>

\* report_to_general, called by a worker's engine.
reportToGeneral(w) ==
    /\ pc[w] = "run"
    /\ enqueueBotMessage(w, General, TRUE)
    /\ reported' = [reported EXCEPT ![w] = TRUE]
    /\ UNCHANGED <<wake, turnRows, pc, head, carry, extras, outcome, deliveries, crashes, history>>

\* The engine is gone and the row is closed.  It "spoke" when it left a text that stands for the
\* turn, is "late" when General's 60 seconds were over, and is "mute" otherwise: no text, General's
\* turn failed or was stopped, a worker was stopped or is parked on a question.  The hand-off is
\* looked at after a time-out and after a follow-up, a turn that had the notice, that got done.
\* Bound: time-outs and process deaths are not in one behaviour.
endTurn(b) ==
    /\ pc[b] = "run"
    /\ tstatus' = [tstatus EXCEPT ![head[b]] = "ended"]
    /\ \E o \in Outcomes :
          /\ o = "late" => b = General /\ crashes = 0
          /\ outcome' = [outcome EXCEPT ![b] = o]
          /\ IF o = "late"
             THEN late' = late \cup {head[b]} /\ UNCHANGED tstarted
             ELSE tstarted' = [tstarted EXCEPT ![head[b]] = 0] /\ UNCHANGED late
          /\ \/ o = "late" /\ Goto(b, "handoff")
             \/ o # "late" /\ Notice \in carry[b] /\ Goto(b, "handoff")
             \/ o # "late" /\ (o = "spoke" => Notice \notin carry[b]) /\ Goto(b, "report")
    /\ UNCHANGED <<wake, tbot, tmsgs, lastTurn, inputs, tuser, tcreated, inbox, head, carry,
                   extras, reported, deliveries, crashes, history>>

\* The start of a turn if the row read has one, else its creation.
chiefTimeoutWindowStart(t, hasStarted) == IF hasStarted THEN tstarted[t] ELSE tcreated[t]

\* Mutant of chiefHandoffSince: a follow-up's window starts with the follow-up.
windowOfFollowUpMutant == chiefTimeoutWindowStart(head[General], FALSE)

\* The row in memory was read before it started, so its window is that of its creation; a
\* follow-up goes back to the start of the last turn before it that timed out.
chiefHandoffSince ==
    LET since == chiefTimeoutWindowStart(head[General], FALSE)
        before == {o \in late : o < head[General]}
        orig == chiefTimeoutWindowStart(CHOOSE o \in before : \A p \in before : p <= o, TRUE)
    IN IF Notice \in carry[General] /\ before # {} /\ orig < since THEN orig ELSE since

\* General has written to a session, or ccc in its name.
chiefHandedOff == MessagesOf(General) > chiefHandoffSince

\* Not for a report, a watch or a schedule.
chiefTimeoutShouldSpawn == head[General] \in tuser \/ Notice \in carry[General]

\* The owner's rows, but for one whose combined input has the notice: it does not read as his.
ownerRequests == {t \in tuser : Notice \notin tmsgs[t]}

\* The head if it is the owner's, else the latest turn of the owner, whatever became of it.
lastOwnerRequest ==
    IF head[General] \in tuser THEN head[General]
    ELSE CHOOSE t \in ownerRequests : \A u \in ownerRequests : u <= t

\* The row of a new session and its first instruction, which the end of the turn delivers.
startBackendSession == \E w \in Workers : enqueueBotMessage(General, w, FALSE)

\* ensureChiefTimeoutHandoff, and persistChiefTimeout's returns: a follow-up is not followed up,
\* and neither is what was no work of the owner or what General had handed over itself.  The
\* session may fail to start (and the bound on messages makes it fail).
ensureChiefTimeoutHandoff ==
    /\ pc[General] = "handoff"
    /\ LET due == /\ ~chiefHandedOff /\ chiefTimeoutShouldSpawn
                  /\ head[General] \in tuser \/ ownerRequests # {}
       IN \/ /\ due
             /\ startBackendSession
             /\ handed' = [handed EXCEPT ![lastOwnerRequest] = @ + 1]
             /\ UNCHANGED refused
          \/ /\ refused' = (refused \/ due)
             /\ UNCHANGED <<inbox, handed>>
    /\ Goto(General, IF Notice \in carry[General] \/ chiefHandedOff \/ ~chiefTimeoutShouldSpawn
                     THEN "report" ELSE "notice")
    /\ UNCHANGED <<wake, turnRows, loops, deliveries, crashes, copies, heard, raced>>

\* The notice is the next turn; no kick, for the loop comes round by itself.
followUp ==
    /\ pc[General] = "notice"
    /\ CreateTurn(General, {Notice})
    /\ Goto(General, "report")
    /\ UNCHANGED <<wake, inputs, tuser, inbox, loops, deliveries, crashes, history>>

hasPendingOwnerRelay(w) ==
    \E m \in Sent : mfrom[m] = w /\ mto[m] = General /\ relay[m] /\ ~delivered[m]

\* Mutants of ensureWorkerRelayToGeneral: sender and receiver swapped in the look for a pending
\* report; no report made when the worker did not call the tool.
reportSwappedMutant(w) ==
    /\ pc[w] = "report"
    /\ IF outcome[w] # "spoke"
          \/ \E m \in Sent : mfrom[m] = General /\ mto[m] = w /\ relay[m] /\ ~delivered[m]
       THEN UNCHANGED inbox
       ELSE enqueueBotMessage(w, General, TRUE)
    /\ Goto(w, "list")
    /\ UNCHANGED <<wake, turnRows, loops, deliveries, crashes, history>>

\* The bound on messages only stops a report that has no room.
ensureWorkerRelayToGeneral(w) ==
    /\ pc[w] = "report"
    /\ \/ /\ outcome[w] # "spoke" \/ hasPendingOwnerRelay(w) \/ lastMsg = MaxMessages
          /\ UNCHANGED inbox
       \/ /\ outcome[w] = "spoke" /\ ~hasPendingOwnerRelay(w)
          /\ enqueueBotMessage(w, General, TRUE)
    /\ Goto(w, "list")
    /\ UNCHANGED <<wake, turnRows, loops, deliveries, crashes, history>>

\* What the owner gets: General's own words about everything its input held (progress.finish),
\* or else the fallback about the reports labelled with this turn.
fulfillOwnerRelay ==
    /\ pc[General] = "report"
    /\ heard' = heard \cup {m \in Sent : relay[m] /\ IF outcome[General] = "spoke"
                                                    THEN m \in carry[General]
                                                    ELSE mturn[m] = head[General]}
    /\ Goto(General, "list")
    /\ UNCHANGED <<wake, turnRows, inbox, loops, deliveries, crashes, copies, raced, handed,
                   refused>>
-----------------------------------------------------------------------------
(* deliverInbox, by a loop for its own messages or by the boot pass for all; *)
(* enqueueIdleRemind runs the same two writes for the row it just made.      *)

Pending(a) == {m \in Sent : ~delivered[m] /\ a \in {Boot, mfrom[m]}}

\* Where an actor goes with S still to deliver: a loop leaves execute, listenV3 goes on.
After(a, S) == IF S # {} THEN "deliver" ELSE IF a = Boot THEN "arm"
                ELSE IF a = Scheduler THEN "idle" ELSE "again"

\* execute's locals have been used.
LeaveExecute(a) ==
    /\ head' = [b \in Sessions |-> IF b = a THEN 0 ELSE head[b]]
    /\ carry' = [b \in Sessions |-> IF b = a THEN {} ELSE carry[b]]
    /\ outcome' = [b \in Sessions |-> IF b = a THEN "mute" ELSE outcome[b]]
    /\ reported' = [b \in Sessions |-> reported[b] /\ b # a]
    /\ UNCHANGED extras

\* Mutants of deliverInbox: the filter on the sender is forgotten; the boot pass takes only what
\* the dispatcher is to read.
deliverAllMutant(a) ==
    LET S == {m \in Sent : ~delivered[m]}
    IN /\ pc[a] = "list"
       /\ todo' = [todo EXCEPT ![a] = S]
       /\ Goto(a, After(a, S))
       /\ LeaveExecute(a)
       /\ UNCHANGED <<wake, turnRows, inbox, item, crashes, history>>

deliverToGeneralMutant(a) ==
    LET S == {m \in Pending(a) : a = Boot => mto[m] = General}
    IN /\ pc[a] = "list"
       /\ todo' = [todo EXCEPT ![a] = S]
       /\ Goto(a, After(a, S))
       /\ LeaveExecute(a)
       /\ UNCHANGED <<wake, turnRows, inbox, item, crashes, history>>

deliverInbox(a) ==
    /\ pc[a] = "list"
    /\ todo' = [todo EXCEPT ![a] = Pending(a)]
    /\ Goto(a, After(a, Pending(a)))
    /\ LeaveExecute(a)
    /\ UNCHANGED <<wake, turnRows, inbox, item, crashes, history>>

\* Runner.Enqueue, which the scheduler uses, kicks at once.
deliverCreate(a) ==
    /\ pc[a] = "deliver"
    /\ LET m == Oldest(todo[a])
       IN /\ CreateTurn(mto[m], {m})
          /\ todo' = [todo EXCEPT ![a] = @ \ {m}]
          /\ item' = [item EXCEPT ![a] = <<m, lastTurn + 1>>]
          /\ copies' = [copies EXCEPT ![m] = @ + 1]
          /\ IF a = Scheduler THEN GotoAndKick(a, "mark", mto[m])
                              ELSE Goto(a, "mark") /\ UNCHANGED wake
    /\ UNCHANGED <<inputs, tuser, inbox, loops, crashes, heard, raced, handed, refused>>

\* UPDATE inbox SET delivered_at, turn_id, whatever became of the turn meanwhile; then the kick.
deliverMark(a) ==
    /\ pc[a] = "mark"
    /\ item' = [item EXCEPT ![a] = <<0, 0>>]
    /\ delivered' = [delivered EXCEPT ![item[a][1]] = TRUE]
    /\ mturn' = [mturn EXCEPT ![item[a][1]] = item[a][2]]
    /\ raced' = IF tstatus[item[a][2]] = "ended" THEN raced \cup {item[a][1]} ELSE raced
    /\ GotoAndKick(a, After(a, todo[a]), mto[item[a][1]])
    /\ UNCHANGED <<turnRows, mfrom, mto, relay, lastMsg, loops, todo, crashes, copies, heard,
                   handed, refused>>

\* remindIdleSessions: a worker that has had nothing to do for ten minutes.  Its loop is not in
\* the tail of execute, which takes seconds.  Bound: the probe of the accounts that the scheduler
\* starts with outlasts the boot pass.
enqueueIdleRemind(w) ==
    /\ pc[Scheduler] = "idle" /\ Started
    /\ pc[w] \in {"absent", "idle"}
    /\ \A t \in TurnIds : tbot[t] = w => tstatus[t] = "ended"
    /\ \A m \in Sent : mto[m] = w => delivered[m]
    /\ enqueueBotMessage(w, General, FALSE)
    /\ todo' = [todo EXCEPT ![Scheduler] = {lastMsg + 1}]
    /\ Goto(Scheduler, "deliver")
    /\ UNCHANGED <<wake, turnRows, loops, item, crashes, history>>
-----------------------------------------------------------------------------
(* Process death and the start of listenV3.                                  *)

\* What only time-outs read is dropped, for there is none after a death (the bound of endTurn).
crash ==
    /\ crashes < MaxCrashes /\ late = {}
    /\ crashes' = crashes + 1
    /\ pc' = [a \in Actors |-> Resting(a)]
    /\ wake' = [b \in Sessions |-> FALSE]
    /\ head' = [b \in Sessions |-> 0]
    /\ carry' = [b \in Sessions |-> {}]
    /\ extras' = [b \in Sessions |-> {}]
    /\ outcome' = [b \in Sessions |-> "mute"]
    /\ reported' = [b \in Sessions |-> FALSE]
    /\ todo' = [a \in Actors |-> {}]
    /\ item' = [a \in Actors |-> <<0, 0>>]
    /\ tuser' = {}
    /\ tcreated' = [t \in TurnIds |-> 0] /\ tstarted' = [t \in TurnIds |-> 0]
    /\ UNCHANGED <<tstatus, tbot, tmsgs, lastTurn, inputs, late, inbox, history>>

\* In one step: TurnRunner has recovery write by write.
recoverAfterRestart ==
    /\ pc[Boot] = "requeue"
    /\ tstatus' = [t \in TurnIds |-> IF tstatus[t] = "running" THEN "queued" ELSE tstatus[t]]
    /\ Goto(Boot, "list")
    /\ UNCHANGED <<wake, tbot, tmsgs, lastTurn, inputs, marks, inbox, loops, deliveries, crashes,
                   history>>

armQueues ==
    /\ pc[Boot] = "arm"
    /\ pc' = [a \in Actors |-> IF a = Boot \/ (a \in Sessions /\ pc[a] = "absent")
                               THEN "idle" ELSE pc[a]]
    /\ wake' = [b \in Sessions |-> TRUE]
    /\ UNCHANGED <<turnRows, inbox, loops, deliveries, crashes, history>>
-----------------------------------------------------------------------------
Deliver(a) == deliverInbox(a) \/ deliverCreate(a) \/ deliverMark(a)

Loop(b) ==
    \/ foldQueue(b) \/ mergeExtra(b) \/ relabel(b) \/ startTurn(b) \/ endTurn(b)
    \/ b = General /\ (ensureChiefTimeoutHandoff \/ followUp \/ fulfillOwnerRelay)
    \/ b # General /\ ensureWorkerRelayToGeneral(b)
    \/ Deliver(b)

Booting == recoverAfterRestart \/ Deliver(Boot) \/ armQueues

Next ==
    \/ \E b \in Sessions : Enqueue(b) \/ Loop(b)
    \/ \E w \in Workers : tellSession(w) \/ reportToGeneral(w) \/ enqueueIdleRemind(w)
    \/ Booting \/ Deliver(Scheduler) \/ crash

Spec == Init /\ [][Next]_vars

\* Goroutines with work are scheduled and an engine process ends.
Fairness ==
    /\ \A b \in Sessions : WF_vars(Loop(b))
    /\ WF_vars(Booting)
    /\ WF_vars(Deliver(Scheduler))

FairSpec == Spec /\ Fairness
-----------------------------------------------------------------------------
\* In a process that has not been restarted an instruction or a report wakes its target once,
\* whoever delivers it (deliverInbox).  A reminder may come twice: the scheduler queues it while
\* the worker is idle, and the worker may end a turn before the scheduler has marked it.
DeliveredOnce ==
    crashes = 0 => \A m \in Sent : relay[m] \/ mfrom[m] = General => copies[m] <= 1

\* One report per worker turn: what the worker reported itself is not reported again from its
\* last message (ensureWorkerRelayToGeneral, "report_to_general already queued one").
OneReportPerTurn ==
    [][\A w \in Workers :
          pc[w] = "report" /\ pc'[w] = "list" /\ reported[w] => lastMsg' = lastMsg]_vars

\* Nothing of the reports is left for General to read.
Read == pc[General] \in {"absent", "idle"} /\ QueuedOf(General) = {}

\* DESIGN 3.2: General posts a summary, and if it cannot, listen posts the fallback.  So when
\* General has worked off its queue the owner has heard every report that was marked before its
\* turn was over: the label follows the report through foldQueue's merges, whatever the turn
\* comes to.  A report marked later (raced) may go unheard.
MarkedReportHeard ==
    crashes = 0 /\ Read =>
        \A m \in Sent : relay[m] /\ delivered[m] => m \in heard \cup raced

\* A request of the owner is handed over by ccc at most once, or a second worker would do the work
\* twice.  One that ran into the cap is handed over (DESIGN 3.5): by General, with a message it has
\* sent since the request came in, or by ccc, in the time-out of the request or in that of the
\* notice, or when General is done with the notice and still has not acted.  The exception is a
\* request whose turn took in the notice of an earlier one: that turn is taken for the follow-up,
\* and what was handed over for the earlier request counts for this one.
HandedOverOnce ==
    crashes = 0 /\ Read =>
        /\ \A t \in tuser : handed[t] <= 1
        /\ \A t \in late \cap tuser :
              \/ handed[t] = 1 \/ refused
              \/ MessagesOf(General) > tcreated[t]
              \/ Notice \in tmsgs[t]

\* Every message is delivered, after a crash by the boot pass: its sender may never run again.
\* (In one formula, for the number of messages is bounded.)
EveryMessageDelivered == []<>(\A m \in Sent : delivered[m])
=============================================================================
