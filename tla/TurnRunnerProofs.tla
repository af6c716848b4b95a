-------------------------- MODULE TurnRunnerProofs --------------------------
(* Proofs about TurnRunner for every set of sessions and handlers and every  *)
(* bound.  IInv is the inductive invariant; its conjuncts beyond TypeOK say   *)
(* which rows exist, whose row a loop holds and who owns a running row.       *)
EXTENDS TurnRunner, TLAPS, WellFoundedInduction

\* Rows above lastTurn have not been created.
RowsFresh == \A t \in TurnIds : t > lastTurn => tstatus[t] = "none" /\ tbot[t] = NoBot

Holding(b) == pc[b] \in {"merge", "mark", "attempt", "run", "end"}

\* From foldQueue to the end of execute a loop holds a row of its own session that is not
\* done, and the rows it still has to merge are other rows of the same session.
LoopOwnsHead ==
    \A b \in Bots : Holding(b) =>
        /\ head[b] \in TurnIds
        /\ tbot[head[b]] = b
        /\ tstatus[head[b]] # "done"
        /\ \A t \in extras[b] : tbot[t] = b /\ t # head[b]

\* A running row is owned by its loop, or recovery has still to pass over it.
RunningOwned ==
    \A t \in TurnIds : tstatus[t] = "running" =>
        \/ phase = "list"
        \/ phase = "requeue" /\ t \in interrupted
        \/ \E b \in Bots : tbot[t] = b /\ Executing(b) /\ head[b] = t

IInv == TypeOK /\ RowsFresh /\ LoopOwnsHead /\ RunningOwned

-----------------------------------------------------------------------------
\* The oldest of a nonempty set of row ids is one of them, and no younger than any.
LEMMA OldestIn ==
    ASSUME NEW S \in SUBSET Nat, S # {}
    PROVE  Oldest(S) \in S /\ \A u \in S : Oldest(S) <= u
<1> DEFINE R == {ss \in Nat \X Nat : ss[1] < ss[2]}
<1>1. IsWellFoundedOn(R, Nat)
  BY NatLessThanWellFounded, Zenon DEF OpToRel
<1>2. PICK x \in S : \A y \in S : ~(<<y, x>> \in R)
  <2> HIDE DEF R
  <2> QED BY <1>1, WFMin, Zenon
<1>3. \A y \in S : x <= y
  <2> SUFFICES ASSUME NEW y \in S PROVE x <= y
    OBVIOUS
  <2>1. ~(<<y, x>> \in R)
    BY <1>2
  <2>2. y \in Nat /\ x \in Nat
    OBVIOUS
  <2>3. y < x => <<y, x>> \in R
    BY <2>2
  <2> HIDE DEF R
  <2> QED BY <2>1, <2>2, <2>3
<1> QED BY <1>3, Zenon DEF Oldest

\* The rows a step may pick by age are rows of the tables.
LEMMA PickedRows ==
    /\ \A b : QueuedOf(b) # {} => Oldest(QueuedOf(b)) \in QueuedOf(b)
    /\ \A b : OpenQuestions(b) # {} => Oldest(OpenQuestions(b)) \in OpenQuestions(b)
    /\ \A S \in SUBSET TurnIds : S # {} => Oldest(S) \in S
<1>1. TurnIds \in SUBSET Nat /\ QuestionIds \in SUBSET Nat
  BY TurnRunnerAssumption DEF TurnIds, QuestionIds
<1>2. \A b : QueuedOf(b) \in SUBSET TurnIds /\ OpenQuestions(b) \in SUBSET QuestionIds
  BY DEF QueuedOf, OpenQuestions
<1> QED BY <1>1, <1>2, OldestIn

LEMMA InitIInv == Init => IInv
BY TurnRunnerAssumption DEF Init, IInv, TypeOK, TurnStatus, BotStatus, LoopPc, HandlerPc,
    RowsFresh, LoopOwnsHead, Holding, RunningOwned, TurnIds
-----------------------------------------------------------------------------
(* TypeOK, one lemma per group of actions.                                   *)

LEMMA TypeLoop ==
    ASSUME TypeOK, LoopOwnsHead, NEW b \in Bots, Loop(b)
    PROVE  TypeOK'
<1> USE TurnRunnerAssumption DEF TypeOK, TurnStatus, BotStatus, LoopPc, HandlerPc, Goto,
        HandlerGoto, setBotStatus, turnRows, botRows, questionRows, loops, signals, handlers,
        boot, history
<1>1. CASE loopWake(b) BY <1>1 DEF loopWake
<1>2. CASE runNext(b) BY <1>2 DEF runNext
<1>3. CASE foldQueue(b)
  <2>1. CASE QueuedOf(b) = {} BY <1>3, <2>1 DEF foldQueue
  <2>2. CASE QueuedOf(b) # {}
    <3>1. Oldest(QueuedOf(b)) \in TurnIds /\ QueuedOf(b) \subseteq TurnIds
      BY <2>2, PickedRows DEF QueuedOf
    <3>2. UNION {tinput[t] : t \in QueuedOf(b)} \subseteq TurnIds
      BY <3>1
    <3>3. /\ head' = [head EXCEPT ![b] = Oldest(QueuedOf(b))]
          /\ carry' = [carry EXCEPT ![b] = UNION {tinput[t] : t \in QueuedOf(b)}]
          /\ extras' = [extras EXCEPT ![b] = QueuedOf(b) \ {Oldest(QueuedOf(b))}]
          /\ pc' = [pc EXCEPT ![b] = "merge"]
      BY <1>3, <2>2 DEF foldQueue
    <3>4. head' \in [Bots -> TurnIds \cup {0}] /\ pc' \in [Bots -> LoopPc]
      BY <3>1, <3>3
    <3>5. carry' \in [Bots -> SUBSET TurnIds]
      BY <3>2, <3>3
    <3>6. extras' \in [Bots -> SUBSET TurnIds]
      BY <3>1, <3>3
    <3> QED BY <1>3, <3>4, <3>5, <3>6 DEF foldQueue
  <2> QED BY <2>1, <2>2
<1>4. CASE mergeExtra(b)
  BY <1>4 DEF mergeExtra
<1>5. CASE startTurn(b)
  BY <1>5 DEF startTurn, LoopOwnsHead, Holding
<1>6. CASE markRunning(b) BY <1>6 DEF markRunning
<1>7. CASE spawn(b) BY <1>7 DEF spawn
<1>8. CASE noEngine(b) BY <1>8 DEF noEngine
<1>9. CASE engineExit(b) BY <1>9 DEF engineExit
<1>10. CASE endTurn(b) BY <1>10 DEF endTurn
<1>11. CASE persistChiefTimeout(b)
  <2>1. CASE UNCHANGED turnRows
    BY <1>11, <2>1 DEF persistChiefTimeout
  <2>2. CASE CreateTurn(b) /\ followUps' = followUps \cup {lastTurn + 1}
    <3>1. lastTurn + 1 \in TurnIds
      BY <2>2 DEF CreateTurn, TurnIds
    <3>2. UNCHANGED <<botRows, questionRows, head, carry, extras, tries, class, sawQuestion,
                      signals, handlers, boot, history>> /\ pc' = [pc EXCEPT ![b] = "look"]
      BY <1>11 DEF persistChiefTimeout
    <3>3. /\ tstatus' \in [TurnIds -> TurnStatus] /\ tbot' \in [TurnIds -> Bots \cup {NoBot}]
          /\ tinput' \in [TurnIds -> SUBSET TurnIds] /\ lastTurn' \in 0..MaxTurns
          /\ followUps' \in SUBSET TurnIds
      BY <2>2, <3>1 DEF CreateTurn
    <3> QED BY <3>2, <3>3
  <2> QED BY <1>11, <2>1, <2>2 DEF persistChiefTimeout
<1>12. CASE hasPendingQuestion(b) BY <1>12 DEF hasPendingQuestion
<1>13. CASE parkOrIdle(b) BY <1>13 DEF parkOrIdle
<1> QED BY <1>1, <1>2, <1>3, <1>4, <1>5, <1>6, <1>7, <1>8, <1>9, <1>10, <1>11, <1>12, <1>13
        DEF Loop

LEMMA TypeFinish ==
    ASSUME TypeOK, NEW h \in Handlers, Finish(h)
    PROVE  TypeOK'
<1> USE TurnRunnerAssumption DEF TypeOK, TurnStatus, BotStatus, LoopPc, HandlerPc, Goto,
        HandlerGoto, setBotStatus, turnRows, botRows, questionRows, loops, signals, handlers,
        boot, history
<1>1. CASE answerQuestion(h)
  <2>1. answers' \in [QuestionIds -> Nat]
    <3>1. CASE hq[h] = 0
      <4>1. 0 \notin QuestionIds
        BY DEF QuestionIds
      <4>2. answers' = [answers EXCEPT ![0] = @ + 1]
        BY <1>1, <3>1 DEF answerQuestion
      <4> QED BY <4>1, <4>2, Zenon
    <3>2. CASE hq[h] \in QuestionIds
      BY <1>1, <3>2 DEF answerQuestion
    <3> QED BY <3>1, <3>2
  <2> QED BY <1>1, <2>1 DEF answerQuestion
<1>2. CASE clearWaiting(h) BY <1>2 DEF clearWaiting
<1>3. CASE Enqueue(h) BY <1>3 DEF Enqueue, CreateTurn, TurnIds
<1>4. CASE enqueueKick(h) BY <1>4 DEF enqueueKick, kick
<1>5. CASE stopDropQueue(h)
  <2>1. UNION {tinput[t] : t \in QueuedOf(hbot[h])} \subseteq TurnIds
    BY DEF QueuedOf
  <2> QED BY <1>5, <2>1 DEF stopDropQueue, FailQueued
<1>6. CASE stopSetIdle(h) BY <1>6 DEF stopSetIdle
<1>7. CASE archiveDropQueue(h)
  <2>1. UNION {tinput[t] : t \in QueuedOf(hbot[h])} \subseteq TurnIds
    BY DEF QueuedOf
  <2> QED BY <1>7, <2>1 DEF archiveDropQueue, FailQueued
<1> QED BY <1>1, <1>2, <1>3, <1>4, <1>5, <1>6, <1>7 DEF Finish

LEMMA TypeRest ==
    ASSUME TypeOK, Owner \/ Machine \/ Recovery \/ crash
    PROVE  TypeOK'
<1> USE TurnRunnerAssumption DEF TypeOK, TurnStatus, BotStatus, LoopPc, HandlerPc, Begin,
        setBotStatus, turnRows, botRows, questionRows, loops, signals, handlers, boot, history
<1>q. \A b : OpenQuestions(b) \subseteq QuestionIds
  BY DEF OpenQuestions
<1>1. CASE deliver
  <2>1. OpenQuestions(General) # {} => Oldest(OpenQuestions(General)) \in QuestionIds
    BY <1>q, PickedRows
  <2>2. PICK l \in {"answer", "enqueue"}, q \in QuestionIds \cup {0} :
            Begin(Telegram, l, General, q)
    BY <1>1, <2>1 DEF deliver
  <2>3. UNCHANGED <<turnRows, botRows, questionRows, loops, signals, boot, history>>
        /\ General \in Bots
    BY <1>1 DEF deliver
  <2> QED BY <2>2, <2>3
<1>2. CASE handleCallback BY <1>2, <1>q DEF handleCallback
<1>3. CASE Stop BY <1>3 DEF Stop
<1>4. ASSUME NEW b \in Bots, rpcSend(b) PROVE TypeOK'
  <2>1. OpenQuestions(b) # {} => Oldest(OpenQuestions(b)) \in QuestionIds
    BY <1>q, PickedRows
  <2>2. PICK l \in {"answer", "enqueue"}, q \in QuestionIds \cup {0} : Begin(Phone, l, b, q)
    BY <1>4, <2>1 DEF rpcSend
  <2>3. UNCHANGED <<turnRows, botRows, questionRows, loops, signals, boot, history>>
    BY <1>4 DEF rpcSend
  <2> QED BY <2>2, <2>3
<1>5. ASSUME NEW b \in Bots, rpcAnswer(b) PROVE TypeOK'
  BY <1>5, <1>q DEF rpcAnswer
<1>6. ASSUME NEW b \in Bots, unarchiveBotRow(b) PROVE TypeOK'
  BY <1>6 DEF unarchiveBotRow
<1>7. ASSUME NEW b \in Bots, machineInput(b) PROVE TypeOK'
  BY <1>7 DEF machineInput
<1>8. ASSUME NEW b \in Bots, routineWorkerBot(b) PROVE TypeOK'
  BY <1>8 DEF routineWorkerBot
<1>9. ASSUME NEW b \in Bots, askOwner(b) PROVE TypeOK'
  BY <1>9 DEF askOwner
<1>10. ASSUME NEW b \in Bots, chiefTimeout(b) PROVE TypeOK'
  BY <1>10 DEF chiefTimeout
<1>11. ASSUME NEW b \in Bots, NEW h \in Handlers, archiveBotRow(h, b) PROVE TypeOK'
  BY <1>11 DEF archiveBotRow
<1>12. CASE listInterrupted BY <1>12 DEF listInterrupted
<1>13. CASE resetBots BY <1>13 DEF resetBots
<1>14. CASE armQueues BY <1>14 DEF armQueues, kick
<1>15. ASSUME NEW t \in TurnIds, requeueInterruptedTurn(t) PROVE TypeOK'
  BY <1>15 DEF requeueInterruptedTurn
<1>16. CASE crash BY <1>16 DEF crash
<1> QED BY <1>1, <1>2, <1>3, <1>4, <1>5, <1>6, <1>7, <1>8, <1>9, <1>10, <1>11, <1>12, <1>13,
           <1>14, <1>15, <1>16 DEF Owner, Machine, Recovery
-----------------------------------------------------------------------------
(* The other conjuncts.  Only the actions that change the status, the session *)
(* or the holder of a row need a case; the rest leave rows unchanged.         *)

RowsInv == RowsFresh /\ LoopOwnsHead /\ RunningOwned

\* What creating a row changes, for the row conjuncts.
LEMMA CreateKeepsRows ==
    ASSUME IInv, NEW c \in Bots \cup {NoBot}, CreateTurn(c),
           UNCHANGED <<head, extras, phase, interrupted>>,
           \A b \in Bots : pc'[b] # pc[b] => pc[b] = "inject" /\ pc'[b] = "look"
    PROVE  RowsInv'
<1> USE TurnRunnerAssumption DEF IInv, TypeOK, CreateTurn
<1>1. lastTurn + 1 \in TurnIds /\ lastTurn \in Nat
  BY DEF TurnIds
<1>2. tstatus[lastTurn + 1] = "none" /\ tbot[lastTurn + 1] = NoBot
  BY <1>1 DEF RowsFresh
<1>3. RowsFresh'
  BY <1>1 DEF RowsFresh, TurnIds
<1>4. \A t \in TurnIds : t # lastTurn + 1 => tbot'[t] = tbot[t] /\ tstatus'[t] = tstatus[t]
  BY <1>1
<1>5. \A b \in Bots : Holding(b)' => Holding(b) /\ head'[b] = head[b] /\ extras'[b] = extras[b]
  BY DEF Holding
<1>6. \A b \in Bots : Executing(b) => Executing(b)'
  BY DEF Executing
<1>7. LoopOwnsHead'
  <2> SUFFICES ASSUME NEW b \in Bots, Holding(b)'
               PROVE  /\ head'[b] \in TurnIds
                      /\ tbot'[head'[b]] = b
                      /\ tstatus'[head'[b]] # "done"
                      /\ \A t \in extras'[b] : tbot'[t] = b /\ t # head'[b]
    BY DEF LoopOwnsHead
  <2>1. /\ head[b] \in TurnIds /\ tbot[head[b]] = b /\ tstatus[head[b]] # "done"
        /\ \A t \in extras[b] : tbot[t] = b /\ t # head[b]
    BY <1>5 DEF LoopOwnsHead
  <2>2. head[b] # lastTurn + 1 /\ \A t \in extras[b] : t # lastTurn + 1 /\ t \in TurnIds
    BY <2>1, <1>2
  <2> QED BY <2>1, <2>2, <1>4, <1>5
<1>8. RunningOwned'
  <2> SUFFICES ASSUME NEW t \in TurnIds, tstatus'[t] = "running"
               PROVE  \/ phase' = "list" \/ (phase' = "requeue" /\ t \in interrupted')
                      \/ \E b \in Bots : tbot'[t] = b /\ Executing(b)' /\ head'[b] = t
    BY DEF RunningOwned
  <2>1. t # lastTurn + 1
    BY <1>1
  <2>2. tstatus[t] = "running" /\ tbot'[t] = tbot[t]
    BY <2>1, <1>4
  <2>3. \/ phase = "list"
        \/ phase = "requeue" /\ t \in interrupted
        \/ \E b \in Bots : tbot[t] = b /\ Executing(b) /\ head[b] = t
    BY <2>2 DEF RunningOwned
  <2>4. CASE \E b \in Bots : tbot[t] = b /\ Executing(b) /\ head[b] = t
    <3>1. PICK b \in Bots : tbot[t] = b /\ Executing(b) /\ head[b] = t
      BY <2>4
    <3>2. tbot'[t] = b /\ Executing(b)' /\ head'[b] = t
      BY <3>1, <2>2, <1>6
    <3> QED BY <3>2
  <2> QED BY <2>3, <2>4
<1> QED BY <1>3, <1>7, <1>8 DEF RowsInv

\* What a write to the statuses alone preserves: nothing becomes running or done, nothing
\* is created and no loop moves into or out of its holding section.
LEMMA StatusOnlyKeepsRows ==
    ASSUME IInv, tstatus' \in [TurnIds -> TurnStatus],
           \A t \in TurnIds : tstatus'[t] \in {"running", "done", "none"}
                                   => tstatus'[t] = tstatus[t],
           \A t \in TurnIds : tstatus[t] = "none" => tstatus'[t] = "none",
           UNCHANGED <<tbot, lastTurn, head, extras, phase, interrupted>>,
           \A b \in Bots : (Holding(b)' => Holding(b)) /\ (Executing(b) => Executing(b)')
    PROVE  RowsInv'
<1>1. RowsFresh'
  BY DEF IInv, RowsFresh
<1>2. LoopOwnsHead'
  BY DEF IInv, LoopOwnsHead, TypeOK
<1>3. RunningOwned'
  BY DEF IInv, RunningOwned
<1> QED BY <1>1, <1>2, <1>3 DEF RowsInv

\* A step that writes no row and moves no loop over the border of its holding section.
LEMMA NoRowWritten ==
    ASSUME IInv, UNCHANGED <<tstatus, tbot, lastTurn, head, extras, phase, interrupted>>,
           \A b \in Bots : (Holding(b)' => Holding(b)) /\ (Executing(b) => Executing(b)')
    PROVE  RowsInv'
BY StatusOnlyKeepsRows DEF IInv, TypeOK

LEMMA LoopRows ==
    ASSUME IInv, TypeOK', NEW b \in Bots, Loop(b)
    PROVE  RowsInv'
<1> USE DEF turnRows, questionRows, loops, boot, handlers, Goto
<1>t. tstatus \in [TurnIds -> TurnStatus] /\ pc \in [Bots -> LoopPc]
      /\ head \in [Bots -> TurnIds \cup {0}] /\ extras \in [Bots -> SUBSET TurnIds]
      /\ tbot \in [TurnIds -> Bots \cup {NoBot}]
  BY DEF IInv, TypeOK
<1>i. RowsFresh /\ LoopOwnsHead /\ RunningOwned
  BY DEF IInv
<1>m. ASSUME NEW l \in LoopPc, pc' = [pc EXCEPT ![b] = l],
             l \in {"merge", "mark", "attempt", "run", "end"} => Holding(b),
             Executing(b) => l \in {"mark", "attempt", "run", "end"}
      PROVE  \A c \in Bots : (Holding(c)' => Holding(c)) /\ (Executing(c) => Executing(c)')
  BY <1>t, <1>m DEF Holding, Executing
<1>1. CASE loopWake(b)
  BY <1>1, <1>m, NoRowWritten DEF loopWake, LoopPc, Executing
<1>2. CASE runNext(b)
  BY <1>2, <1>m, NoRowWritten DEF runNext, LoopPc, Executing
<1>3. CASE foldQueue(b)
  <2>1. CASE QueuedOf(b) = {}
    BY <1>3, <2>1, <1>m, NoRowWritten DEF foldQueue, LoopPc, Executing
  <2>2. CASE QueuedOf(b) # {}
    <3>1. /\ pc[b] = "fold"
          /\ pc' = [pc EXCEPT ![b] = "merge"]
          /\ head' = [head EXCEPT ![b] = Oldest(QueuedOf(b))]
          /\ extras' = [extras EXCEPT ![b] = QueuedOf(b) \ {Oldest(QueuedOf(b))}]
          /\ UNCHANGED <<tstatus, tbot, lastTurn, phase, interrupted>>
      BY <1>3, <2>2 DEF foldQueue
    <3>2. Oldest(QueuedOf(b)) \in TurnIds /\ tbot[Oldest(QueuedOf(b))] = b
          /\ tstatus[Oldest(QueuedOf(b))] = "queued"
      BY <2>2, PickedRows DEF QueuedOf
    <3>3. \A c \in Bots \ {b} : pc'[c] = pc[c] /\ head'[c] = head[c] /\ extras'[c] = extras[c]
      BY <3>1, <1>t
    <3>4. head'[b] = Oldest(QueuedOf(b)) /\ \A t \in extras'[b] : tbot[t] = b /\ t # head'[b]
      BY <3>1, <1>t DEF QueuedOf
    <3>5. RowsFresh'
      BY <3>1, <1>i DEF RowsFresh
    <3>6. LoopOwnsHead'
      BY <3>1, <3>2, <3>3, <3>4, <1>i DEF LoopOwnsHead, Holding
    <3>7. RunningOwned'
      <4>1. \A c \in Bots : Executing(c) => Executing(c)' /\ head'[c] = head[c]
        BY <3>1, <3>3 DEF Executing
      <4> QED BY <3>1, <4>1, <1>i DEF RunningOwned
    <3> QED BY <3>5, <3>6, <3>7 DEF RowsInv
  <2> QED BY <2>1, <2>2
<1>4. CASE mergeExtra(b)
  <2> DEFINE x == Oldest(extras[b])
  <2>1. x \in extras[b] /\ x \in TurnIds
    BY <1>4, <1>t, PickedRows DEF mergeExtra
  <2>2. Holding(b) /\ tbot[x] = b /\ x # head[b]
    BY <1>4, <2>1, <1>i DEF LoopOwnsHead, Holding, mergeExtra
  <2>3. /\ tstatus' = [tstatus EXCEPT ![x] = "done"]
        /\ extras' = [extras EXCEPT ![b] = @ \ {x}]
        /\ UNCHANGED <<tbot, lastTurn, pc, head, phase, interrupted>>
    BY <1>4 DEF mergeExtra
  <2> HIDE DEF x
  <2>4. \A c \in Bots : Holding(c) => head[c] # x
    BY <2>2, <1>i DEF LoopOwnsHead
  <2>5. \A c \in Bots : extras'[c] \subseteq extras[c]
    BY <2>3, <1>t
  <2>6. \A t \in TurnIds : t # x => tstatus'[t] = tstatus[t]
    BY <2>3, <1>t
  <2>7. RowsFresh'
    <3>1. b # NoBot
      BY TurnRunnerAssumption
    <3> QED BY <2>2, <2>3, <2>6, <3>1, <1>i DEF RowsFresh
  <2>8. LoopOwnsHead'
    BY <2>3, <2>4, <2>5, <2>6, <1>i DEF LoopOwnsHead, Holding
  <2>9. RunningOwned'
    <3>1. tstatus'[x] = "done"
      BY <2>1, <2>3, <1>t
    <3> QED BY <2>3, <2>6, <3>1, <1>i DEF RunningOwned, Executing
  <2> QED BY <2>7, <2>8, <2>9 DEF RowsInv
<1>5. CASE startTurn(b)
  <2>1. /\ pc[b] = "merge" /\ pc' = [pc EXCEPT ![b] = "mark"]
        /\ tstatus' = [tstatus EXCEPT ![head[b]] = "running"]
        /\ UNCHANGED <<tbot, lastTurn, head, extras, phase, interrupted>>
    BY <1>5 DEF startTurn
  <2>2. head[b] \in TurnIds /\ tbot[head[b]] = b /\ Holding(b)
    BY <2>1, <1>i DEF LoopOwnsHead, Holding
  <2>3. \A c \in Bots : (Holding(c)' <=> Holding(c)) /\ (Executing(c) => Executing(c)')
    BY <2>1, <1>t DEF Holding, Executing
  <2>4. Executing(b)'
    BY <2>1, <1>t DEF Executing
  <2>5. \A t \in TurnIds : t # head[b] => tstatus'[t] = tstatus[t]
    BY <2>1, <1>t
  <2>6. RowsFresh'
    <3>1. b # NoBot
      BY TurnRunnerAssumption
    <3> QED BY <2>1, <2>2, <2>5, <3>1, <1>i DEF RowsFresh
  <2>7. LoopOwnsHead'
    <3>1. tstatus'[head[b]] # "done"
      BY <2>1, <2>2, <1>t
    <3> QED BY <2>1, <2>3, <2>5, <3>1, <1>i DEF LoopOwnsHead
  <2>8. RunningOwned'
    BY <2>1, <2>2, <2>3, <2>4, <2>5, <1>i DEF RunningOwned
  <2> QED BY <2>6, <2>7, <2>8 DEF RowsInv
<1>6. CASE markRunning(b)
  BY <1>6, <1>m, NoRowWritten DEF markRunning, LoopPc, Holding
<1>7. CASE spawn(b)
  BY <1>7, <1>m, NoRowWritten DEF spawn, LoopPc, Holding
<1>8. CASE noEngine(b)
  BY <1>8, <1>m, NoRowWritten DEF noEngine, LoopPc, Holding
<1>9. CASE engineExit(b)
  <2>1. PICK l \in {"end", "attempt"} : pc' = [pc EXCEPT ![b] = l]
    BY <1>9 DEF engineExit
  <2>2. pc[b] = "run" /\ UNCHANGED <<tstatus, tbot, lastTurn, head, extras, phase, interrupted>>
    BY <1>9 DEF engineExit
  <2> QED BY <2>1, <2>2, <1>m, NoRowWritten DEF LoopPc, Holding
<1>10. CASE endTurn(b)
  <2>1. PICK l \in {"inject", "look"}, s \in {"done", "failed"} :
           /\ pc[b] = "end" /\ pc' = [pc EXCEPT ![b] = l]
           /\ tstatus' = [tstatus EXCEPT ![head[b]] = s]
           /\ UNCHANGED <<tbot, lastTurn, head, extras, phase, interrupted>>
    BY <1>10 DEF endTurn
  <2>2. head[b] \in TurnIds /\ tbot[head[b]] = b
    BY <2>1, <1>i DEF LoopOwnsHead, Holding
  <2>3. \A t \in TurnIds : t # head[b] => tstatus'[t] = tstatus[t]
    BY <2>1, <1>t
  <2>4. \A c \in Bots \ {b} : pc'[c] = pc[c]
    BY <2>1, <1>t
  <2>5. ~Holding(b)'
    BY <2>1, <1>t DEF Holding
  <2>6. RowsFresh'
    <3>1. b # NoBot
      BY TurnRunnerAssumption
    <3> QED BY <2>1, <2>2, <2>3, <3>1, <1>i DEF RowsFresh
  <2>7. LoopOwnsHead'
    <3> SUFFICES ASSUME NEW c \in Bots, Holding(c)'
                 PROVE  /\ head'[c] \in TurnIds
                        /\ tbot'[head'[c]] = c
                        /\ tstatus'[head'[c]] # "done"
                        /\ \A t \in extras'[c] : tbot'[t] = c /\ t # head'[c]
      BY DEF LoopOwnsHead
    <3>1. c # b /\ Holding(c)
      BY <2>4, <2>5 DEF Holding
    <3>2. head[c] # head[b]
      BY <3>1, <2>2, <1>i DEF LoopOwnsHead
    <3> QED BY <3>1, <3>2, <2>1, <2>3, <1>i DEF LoopOwnsHead
  <2>8. RunningOwned'
    <3> SUFFICES ASSUME NEW t \in TurnIds, tstatus'[t] = "running"
                 PROVE  \/ phase' = "list" \/ (phase' = "requeue" /\ t \in interrupted')
                        \/ \E c \in Bots : tbot'[t] = c /\ Executing(c)' /\ head'[c] = t
      BY DEF RunningOwned
    <3>1. t # head[b]
      BY <2>1, <2>2, <1>t
    <3>2. CASE \E c \in Bots : tbot[t] = c /\ Executing(c) /\ head[c] = t
      <4>1. PICK c \in Bots : tbot[t] = c /\ Executing(c) /\ head[c] = t
        BY <3>2
      <4>2. c # b
        BY <4>1, <3>1
      <4>3. Executing(c)' /\ tbot'[t] = c /\ head'[c] = t
        BY <4>1, <4>2, <2>1, <2>4 DEF Executing
      <4> QED BY <4>3
    <3> QED BY <3>1, <3>2, <2>1, <2>3, <1>i DEF RunningOwned
  <2> QED BY <2>6, <2>7, <2>8 DEF RowsInv
<1>11. CASE persistChiefTimeout(b)
  <2>1. /\ pc[b] = "inject" /\ pc' = [pc EXCEPT ![b] = "look"]
        /\ UNCHANGED <<head, extras, phase, interrupted>>
    BY <1>11 DEF persistChiefTimeout
  <2>2. CASE UNCHANGED turnRows
    BY <2>1, <2>2, <1>m, NoRowWritten DEF LoopPc, Executing
  <2>3. CASE CreateTurn(b)
    <3>1. \A c \in Bots : pc'[c] # pc[c] => pc[c] = "inject" /\ pc'[c] = "look"
      BY <2>1, <1>t
    <3> QED BY <2>1, <2>3, <3>1, CreateKeepsRows
  <2> QED BY <1>11, <2>2, <2>3 DEF persistChiefTimeout
<1>12. CASE hasPendingQuestion(b)
  BY <1>12, <1>m, NoRowWritten DEF hasPendingQuestion, LoopPc, Executing
<1>13. CASE parkOrIdle(b)
  <2>1. /\ pc[b] = "park" /\ pc' = [pc EXCEPT ![b] = "check"]
        /\ head' = [head EXCEPT ![b] = 0]
        /\ UNCHANGED <<tstatus, tbot, lastTurn, extras, phase, interrupted>>
    BY <1>13 DEF parkOrIdle
  <2>2. \A c \in Bots \ {b} : pc'[c] = pc[c] /\ head'[c] = head[c]
    BY <2>1, <1>t
  <2>3. ~Holding(b) /\ ~Holding(b)' /\ ~Executing(b)
    BY <2>1, <1>t DEF Holding, Executing
  <2>4. RowsFresh'
    BY <2>1, <1>i DEF RowsFresh
  <2>5. LoopOwnsHead'
    BY <2>1, <2>2, <2>3, <1>i DEF LoopOwnsHead, Holding
  <2>6. RunningOwned'
    <3>1. \A c \in Bots : Executing(c) => Executing(c)' /\ head'[c] = head[c]
      BY <2>2, <2>3 DEF Executing
    <3> QED BY <2>1, <3>1, <1>i DEF RunningOwned
  <2> QED BY <2>4, <2>5, <2>6 DEF RowsInv
<1> QED BY <1>1, <1>2, <1>3, <1>4, <1>5, <1>6, <1>7, <1>8, <1>9, <1>10, <1>11, <1>12, <1>13
        DEF Loop

LEMMA FinishRows ==
    ASSUME IInv, NEW h \in Handlers, Finish(h)
    PROVE  RowsInv'
<1> USE DEF turnRows, questionRows, loops, boot, HandlerGoto
<1>t. tstatus \in [TurnIds -> TurnStatus] /\ pc \in [Bots -> LoopPc]
      /\ hbot \in [Handlers -> Bots \cup {NoBot}]
  BY DEF IInv, TypeOK
<1>1. CASE answerQuestion(h)
  BY <1>1, NoRowWritten DEF answerQuestion, Holding, Executing
<1>2. CASE clearWaiting(h)
  BY <1>2, NoRowWritten DEF clearWaiting, Holding, Executing
<1>3. CASE Enqueue(h)
  BY <1>3, <1>t, CreateKeepsRows DEF Enqueue
<1>4. CASE enqueueKick(h)
  <2>1. \A c \in Bots : pc'[c] = pc[c] \/ (pc'[c] = "select" /\ pc[c] = "absent")
    BY <1>4 DEF enqueueKick, kick
  <2> QED BY <1>4, <2>1, NoRowWritten DEF enqueueKick, Holding, Executing
<1>5. ASSUME FailQueued(hbot[h]), UNCHANGED <<loops, boot>> PROVE RowsInv'
  <2>1. tstatus' = [t \in TurnIds |-> IF t \in QueuedOf(hbot[h]) THEN "failed" ELSE tstatus[t]]
    BY <1>5 DEF FailQueued
  <2>2. tstatus' \in [TurnIds -> TurnStatus]
    BY <2>1, <1>t DEF TurnStatus
  <2>3. \A t \in TurnIds : tstatus'[t] = tstatus[t]
                           \/ (tstatus[t] = "queued" /\ tstatus'[t] = "failed")
    BY <2>1 DEF QueuedOf
  <2> QED BY <1>5, <2>2, <2>3, StatusOnlyKeepsRows DEF FailQueued, Holding, Executing
<1>6. CASE stopDropQueue(h)
  BY <1>6, <1>5 DEF stopDropQueue
<1>7. CASE stopSetIdle(h)
  BY <1>7, NoRowWritten DEF stopSetIdle, Holding, Executing
<1>8. CASE archiveDropQueue(h)
  BY <1>8, <1>5 DEF archiveDropQueue
<1> QED BY <1>1, <1>2, <1>3, <1>4, <1>6, <1>7, <1>8 DEF Finish

LEMMA RestRows ==
    ASSUME IInv, Owner \/ Machine
    PROVE  RowsInv'
<1>1. UNCHANGED <<turnRows, loops, boot>>
  BY DEF Owner, Machine, deliver, handleCallback, Stop, rpcSend, rpcAnswer, unarchiveBotRow,
         machineInput, routineWorkerBot, askOwner, chiefTimeout, archiveBotRow, turnRows
<1> QED BY <1>1, NoRowWritten DEF turnRows, loops, boot, Holding, Executing

LEMMA RecoveryRows ==
    ASSUME IInv, Recovery \/ crash
    PROVE  RowsInv'
<1> USE DEF turnRows, loops, boot, RowsInv
<1>t. tstatus \in [TurnIds -> TurnStatus] /\ RowsFresh /\ LoopOwnsHead /\ RunningOwned
  BY DEF IInv, TypeOK
<1>1. CASE listInterrupted
  BY <1>1, <1>t DEF listInterrupted, RowsFresh, LoopOwnsHead, RunningOwned, Holding, Executing
<1>2. ASSUME NEW t \in TurnIds, requeueInterruptedTurn(t) PROVE RowsInv'
  <2>1. /\ phase = "requeue" /\ interrupted' = interrupted \ {t}
        /\ UNCHANGED <<tbot, lastTurn, pc, head, extras, phase>>
    BY <1>2 DEF requeueInterruptedTurn
  <2>2. \A u \in TurnIds : u # t => tstatus'[u] = tstatus[u]
    BY <1>2, <1>t DEF requeueInterruptedTurn
  <2>3. \/ tstatus'[t] \in {"failed", "queued"}
        \/ tstatus'[t] = tstatus[t] /\ tstatus[t] # "running"
    BY <1>2, <1>t DEF requeueInterruptedTurn
  <2>4. tstatus[t] = "none" => tstatus'[t] = "none"
    BY <1>2, <1>t DEF requeueInterruptedTurn
  <2>5. RowsFresh'
    BY <2>1, <2>2, <2>4, <1>t DEF RowsFresh
  <2>6. LoopOwnsHead'
    BY <2>1, <2>2, <2>3, <1>t DEF LoopOwnsHead, Holding
  <2>7. RunningOwned'
    BY <2>1, <2>2, <2>3, <1>t DEF RunningOwned, Executing
  <2> QED BY <2>5, <2>6, <2>7
<1>3. CASE resetBots
  BY <1>3, <1>t DEF resetBots, RowsFresh, LoopOwnsHead, RunningOwned, Holding, Executing
<1>4. CASE armQueues
  <2>1. \A c \in Bots : pc'[c] = pc[c] \/ (pc'[c] = "select" /\ pc[c] = "absent")
    BY <1>4 DEF armQueues, kick
  <2>2. /\ phase = "arm" /\ phase' = "up"
        /\ UNCHANGED <<tstatus, tbot, lastTurn, head, extras, interrupted>>
    BY <1>4 DEF armQueues
  <2>3. \A c \in Bots : (Holding(c)' => Holding(c)) /\ (Executing(c) => Executing(c)')
    BY <2>1 DEF Holding, Executing
  <2>4. RowsFresh' /\ LoopOwnsHead'
    BY <2>2, <2>3, <1>t DEF RowsFresh, LoopOwnsHead
  <2>5. RunningOwned'
    BY <2>2, <2>3, <1>t DEF RunningOwned
  <2> QED BY <2>4, <2>5
<1>5. CASE crash
  BY <1>5, <1>t DEF crash, RowsFresh, LoopOwnsHead, RunningOwned, Holding, questionRows
<1> QED BY <1>1, <1>2, <1>3, <1>4, <1>5 DEF Recovery

LEMMA NextIInv == IInv /\ [Next]_vars => IInv'
<1> SUFFICES ASSUME IInv, [Next]_vars PROVE IInv'
  OBVIOUS
<1>1. ASSUME NEW b \in Bots, Loop(b) PROVE IInv'
  <2>1. TypeOK'
    BY <1>1, TypeLoop DEF IInv
  <2> QED BY <1>1, <2>1, LoopRows DEF IInv, RowsInv
<1>2. ASSUME NEW h \in Handlers, Finish(h) PROVE IInv'
  BY <1>2, TypeFinish, FinishRows DEF IInv, RowsInv
<1>3. CASE Owner \/ Machine
  BY <1>3, TypeRest, RestRows DEF IInv, RowsInv
<1>4. CASE Recovery \/ crash
  BY <1>4, TypeRest, RecoveryRows DEF IInv, RowsInv
<1>5. CASE UNCHANGED vars
  <2>1. TypeOK'
    BY <1>5 DEF IInv, TypeOK, vars, turnRows, botRows, questionRows, loops, signals, handlers,
                boot, history
  <2>2. RowsInv'
    BY <1>5, NoRowWritten DEF vars, turnRows, loops, boot, Holding, Executing
  <2> QED BY <2>1, <2>2 DEF IInv, RowsInv
<1> QED BY <1>1, <1>2, <1>3, <1>4, <1>5 DEF Next

LEMMA InductiveInvariant == Spec => []IInv
BY InitIInv, NextIInv, PTL DEF Spec
-----------------------------------------------------------------------------
(* The theorems.                                                             *)

\* Every variable keeps its type, for every set of sessions and handlers and every bound: in
\* particular a loop only ever writes rows that exist (runner.go foldQueue, execute).
THEOREM TypeCorrect == Spec => []TypeOK
<1>1. IInv => TypeOK
  BY DEF IInv
<1> QED BY <1>1, InductiveInvariant, PTL

\* After recovery a running row is always the one its own session's loop executes: however
\* crashes, archiving, /stop and the handlers interleave, no row is left running for good.
THEOREM NoZombie == Spec => []NoZombieTurn
<1>1. IInv => NoZombieTurn
  BY DEF IInv, RunningOwned, NoZombieTurn
<1> QED BY <1>1, InductiveInvariant, PTL

\* What is done stays done.  The writes of execute and foldQueue carry no condition on the
\* status; they respect it because a loop never holds a row that is done.
THEOREM DoneFinal == Spec => DoneIsFinal
<1> DEFINE DoneStays == \A t \in TurnIds : tstatus[t] = "done" => tstatus'[t] = "done"
<1>1. IInv /\ [Next]_vars => [DoneStays]_vars
  <2> SUFFICES ASSUME IInv, Next, NEW t \in TurnIds, tstatus[t] = "done"
               PROVE  tstatus'[t] = "done"
    OBVIOUS
  <2>t. tstatus \in [TurnIds -> TurnStatus] /\ LoopOwnsHead
        /\ extras \in [Bots -> SUBSET TurnIds]
    BY DEF IInv, TypeOK
  <2>1. ASSUME NEW b \in Bots, Loop(b) PROVE tstatus'[t] = "done"
    <3>1. CASE startTurn(b)
      <4>1. t # head[b]
        BY <3>1, <2>t DEF startTurn, LoopOwnsHead, Holding
      <4> QED BY <3>1, <4>1, <2>t DEF startTurn
    <3>2. CASE endTurn(b)
      <4>1. t # head[b]
        BY <3>2, <2>t DEF endTurn, LoopOwnsHead, Holding
      <4> QED BY <3>2, <4>1, <2>t DEF endTurn
    <3>3. CASE mergeExtra(b)
      BY <3>3, <2>t DEF mergeExtra
    <3>4. CASE persistChiefTimeout(b)
      <4>1. CASE UNCHANGED turnRows
        BY <4>1 DEF turnRows
      <4>2. CASE CreateTurn(b)
        BY <4>2, <2>t DEF CreateTurn, IInv, RowsFresh, TypeOK
      <4> QED BY <3>4, <4>1, <4>2 DEF persistChiefTimeout
    <3>5. CASE ~(startTurn(b) \/ endTurn(b) \/ mergeExtra(b) \/ persistChiefTimeout(b))
      BY <2>1, <3>5 DEF Loop, loopWake, runNext, foldQueue, markRunning, spawn, noEngine,
         engineExit, hasPendingQuestion, parkOrIdle, turnRows
    <3> QED BY <3>1, <3>2, <3>3, <3>4, <3>5
  <2>2. ASSUME NEW h \in Handlers, Finish(h) PROVE tstatus'[t] = "done"
    <3>1. CASE Enqueue(h)
      BY <3>1, <2>t DEF Enqueue, CreateTurn, IInv, RowsFresh, TypeOK
    <3>2. CASE stopDropQueue(h) \/ archiveDropQueue(h)
      BY <3>2 DEF stopDropQueue, archiveDropQueue, FailQueued, QueuedOf
    <3>3. CASE ~(Enqueue(h) \/ stopDropQueue(h) \/ archiveDropQueue(h))
      BY <2>2, <3>3 DEF Finish, answerQuestion, clearWaiting, enqueueKick, stopSetIdle, turnRows
    <3> QED BY <3>1, <3>2, <3>3
  <2>3. CASE Owner \/ Machine
    BY <2>3 DEF Owner, Machine, deliver, handleCallback, Stop, rpcSend, rpcAnswer,
         unarchiveBotRow, machineInput, routineWorkerBot, askOwner, chiefTimeout, archiveBotRow,
         turnRows
  <2>4. CASE Recovery \/ crash
    BY <2>4, <2>t DEF Recovery, crash, listInterrupted, requeueInterruptedTurn, resetBots,
         armQueues, turnRows
  <2> QED BY <2>1, <2>2, <2>3, <2>4 DEF Next
<1> QED BY <1>1, InductiveInvariant, PTL DEF Spec, DoneIsFinal
-----------------------------------------------------------------------------
(* Inputs: nothing but a crash loses one.                                    *)

\* What a loop carries from foldQueue to the end of execute: nothing before the fold, the inputs
\* of the rows it folded until startTurn, and inputs that were handed to an engine after it.
CarryOf(b) ==
    /\ pc[b] \in {"absent", "select", "check", "fold"} => carry[b] = {}
    /\ pc[b] = "merge" =>
          tinput[head[b]] \subseteq carry[b] /\ \A t \in extras[b] : tinput[t] \subseteq carry[b]
    /\ Executing(b) => tinput[head[b]] = carry[b]
    /\ Executing(b) \/ pc[b] \in {"inject", "look", "park"} =>
          \A i \in carry[b] : \E p \in executed : p[2] = i

CarryKept == \A b \in Bots : CarryOf(b)

\* A step that leaves what a loop carries, and the inputs of the rows it holds.
LEMMA CarryFrame ==
    ASSUME NEW c \in Bots, CarryOf(c), pc'[c] \in LoopPc, pc[c] \in LoopPc,
           carry'[c] = carry[c], head'[c] = head[c], extras'[c] \subseteq extras[c],
           executed \subseteq executed',
           Holding(c) => tinput'[head[c]] = tinput[head[c]]
                         /\ \A t \in extras[c] : tinput'[t] = tinput[t],
           \/ pc'[c] = pc[c]
           \/ {pc[c], pc'[c]} \subseteq {"absent", "select", "check", "fold"}
           \/ /\ pc[c] \in {"mark", "attempt", "run", "end", "inject", "look", "park"}
              /\ pc'[c] \in {"attempt", "run", "end", "inject", "look", "park"}
              /\ Executing(c)' => Executing(c)
    PROVE  CarryOf(c)'
<1>1. pc'[c] \in {"absent", "select", "check", "fold"} => carry'[c] = {}
  BY DEF CarryOf, LoopPc
<1>2. pc'[c] = "merge" => tinput'[head'[c]] \subseteq carry'[c]
                          /\ \A t \in extras'[c] : tinput'[t] \subseteq carry'[c]
  BY DEF CarryOf, Holding
<1>3. Executing(c)' => tinput'[head'[c]] = carry'[c]
  BY DEF CarryOf, Executing, Holding
<1>4. Executing(c)' \/ pc'[c] \in {"inject", "look", "park"} =>
          \A i \in carry'[c] : \E p \in executed' : p[2] = i
  BY DEF CarryOf, Executing
<1> QED BY <1>1, <1>2, <1>3, <1>4 DEF CarryOf

\* Creating a row touches no row that a loop holds.
LEMMA CreatedIsNotHeld ==
    ASSUME IInv, NEW b \in Bots \cup {NoBot}, CreateTurn(b), NEW c \in Bots, Holding(c)
    PROVE  tinput'[head[c]] = tinput[head[c]] /\ \A t \in extras[c] : tinput'[t] = tinput[t]
<1>1. lastTurn + 1 \in TurnIds /\ tbot[lastTurn + 1] = NoBot /\ c # NoBot
  BY TurnRunnerAssumption DEF IInv, TypeOK, CreateTurn, RowsFresh, TurnIds
<1>2. head[c] \in TurnIds /\ head[c] # lastTurn + 1
      /\ \A t \in extras[c] : t \in TurnIds /\ t # lastTurn + 1
  BY <1>1 DEF IInv, TypeOK, LoopOwnsHead
<1> QED BY <1>2 DEF CreateTurn, IInv, TypeOK

LEMMA CarryLoop ==
    ASSUME IInv, TypeOK', CarryKept, NEW b \in Bots, Loop(b)
    PROVE  CarryKept'
<1> USE DEF turnRows, loops, history, Goto
<1>t. /\ tinput \in [TurnIds -> SUBSET TurnIds] /\ executed \in SUBSET (TurnIds \X TurnIds)
      /\ pc \in [Bots -> LoopPc] /\ pc' \in [Bots -> LoopPc]
      /\ head \in [Bots -> TurnIds \cup {0}]
      /\ carry \in [Bots -> SUBSET TurnIds] /\ extras \in [Bots -> SUBSET TurnIds]
      /\ LoopOwnsHead
  BY DEF IInv, TypeOK
<1>o. ASSUME UNCHANGED <<tinput, executed>>,
             \A c \in Bots \ {b} : /\ pc'[c] = pc[c] /\ head'[c] = head[c]
                                   /\ carry'[c] = carry[c] /\ extras'[c] = extras[c],
             CarryOf(b)'
      PROVE  CarryKept'
  <2> SUFFICES ASSUME NEW c \in Bots, c # b PROVE CarryOf(c)'
    BY <1>o DEF CarryKept
  <2> QED BY <1>o, <1>t, CarryFrame DEF CarryKept
<1>m. ASSUME UNCHANGED <<tinput, executed, head, carry, extras>>, NEW l \in LoopPc,
             pc' = [pc EXCEPT ![b] = l],
             \/ {pc[b], l} \subseteq {"absent", "select", "check", "fold"}
             \/ /\ pc[b] \in {"mark", "attempt", "run", "end", "inject", "look", "park"}
                /\ l \in {"attempt", "run", "end", "inject", "look", "park"}
                /\ l \in {"attempt", "run", "end"} =>
                        pc[b] \in {"mark", "attempt", "run", "end"}
      PROVE  CarryKept'
  <2>1. CarryOf(b)'
    BY <1>m, <1>t, CarryFrame DEF CarryKept, Executing
  <2> QED BY <1>m, <1>t, <1>o, <2>1
<1>1. CASE loopWake(b) BY <1>1, <1>m DEF loopWake, LoopPc
<1>2. CASE runNext(b) BY <1>2, <1>m DEF runNext, LoopPc
<1>3. CASE foldQueue(b)
  <2>1. CASE QueuedOf(b) = {} BY <1>3, <2>1, <1>m DEF foldQueue, LoopPc
  <2>2. CASE QueuedOf(b) # {}
    <3>1. /\ pc' = [pc EXCEPT ![b] = "merge"]
          /\ head' = [head EXCEPT ![b] = Oldest(QueuedOf(b))]
          /\ carry' = [carry EXCEPT ![b] = UNION {tinput[t] : t \in QueuedOf(b)}]
          /\ extras' = [extras EXCEPT ![b] = QueuedOf(b) \ {Oldest(QueuedOf(b))}]
          /\ UNCHANGED <<tinput, executed>>
      BY <1>3, <2>2 DEF foldQueue
    <3>2. Oldest(QueuedOf(b)) \in QueuedOf(b)
      BY <2>2, PickedRows
    <3>3. /\ pc'[b] = "merge" /\ head'[b] \in QueuedOf(b) /\ extras'[b] \subseteq QueuedOf(b)
          /\ carry'[b] = UNION {tinput[t] : t \in QueuedOf(b)}
      BY <3>1, <3>2, <1>t
    <3>4. \A t \in QueuedOf(b) : tinput'[t] \subseteq carry'[b]
      BY <3>1, <3>3
    <3>5. CarryOf(b)'
      BY <3>3, <3>4 DEF CarryOf, Executing
    <3>6. \A c \in Bots \ {b} : /\ pc'[c] = pc[c] /\ head'[c] = head[c]
                                /\ carry'[c] = carry[c] /\ extras'[c] = extras[c]
      BY <3>1, <1>t
    <3> QED BY <3>1, <3>5, <3>6, <1>o
  <2> QED BY <2>1, <2>2
<1>4. CASE mergeExtra(b)
  <2>1. /\ UNCHANGED <<tinput, executed, pc, head, carry>>
        /\ extras' = [extras EXCEPT ![b] = @ \ {Oldest(extras[b])}]
    BY <1>4 DEF mergeExtra
  <2>2. CarryOf(b)'
    BY <2>1, <1>t, CarryFrame DEF CarryKept
  <2> QED BY <2>1, <2>2, <1>t, <1>o
<1>5. CASE startTurn(b)
  <2>1. /\ pc[b] = "merge" /\ pc' = [pc EXCEPT ![b] = "mark"]
        /\ tinput' = [tinput EXCEPT ![head[b]] = carry[b]]
        /\ executed' = executed \cup ({head[b]} \X carry[b])
        /\ UNCHANGED <<head, carry, extras>>
    BY <1>5 DEF startTurn
  <2>2. head[b] \in TurnIds /\ tbot[head[b]] = b
    BY <2>1, <1>t DEF LoopOwnsHead, Holding
  <2>3. tinput'[head[b]] = carry[b] /\ pc'[b] = "mark"
    BY <2>1, <2>2, <1>t
  <2>4. \A i \in carry[b] : <<head[b], i>> \in executed' /\ <<head[b], i>>[2] = i
    BY <2>1
  <2>5. CarryOf(b)'
    <3>1. \A i \in carry[b] : \E p \in executed' : p[2] = i
      BY <2>4, Zenon
    <3> QED BY <2>1, <2>3, <3>1 DEF CarryOf, Executing
  <2>6. ASSUME NEW c \in Bots, c # b PROVE CarryOf(c)'
    <3>1. Holding(c) => head[c] # head[b] /\ \A t \in extras[c] : t # head[b]
      BY <2>2, <2>6, <1>t DEF LoopOwnsHead
    <3>2. Holding(c) => tinput'[head[c]] = tinput[head[c]]
                        /\ \A t \in extras[c] : tinput'[t] = tinput[t]
      BY <2>1, <3>1, <1>t DEF LoopOwnsHead
    <3>3. pc'[c] = pc[c] /\ executed \subseteq executed'
      BY <2>1, <2>6, <1>t
    <3> QED BY <2>1, <3>2, <3>3, <1>t, CarryFrame DEF CarryKept
  <2> QED BY <2>5, <2>6 DEF CarryKept
<1>6. CASE markRunning(b) BY <1>6, <1>m DEF markRunning, LoopPc
<1>7. CASE spawn(b) BY <1>7, <1>m DEF spawn, LoopPc
<1>8. CASE noEngine(b) BY <1>8, <1>m DEF noEngine, LoopPc
<1>9. CASE engineExit(b)
  <2>1. PICK l \in {"end", "attempt"} : pc' = [pc EXCEPT ![b] = l]
    BY <1>9 DEF engineExit
  <2> QED BY <1>9, <2>1, <1>m DEF engineExit, LoopPc
<1>10. CASE endTurn(b) BY <1>10, <1>m DEF endTurn, LoopPc
<1>11. CASE persistChiefTimeout(b)
  <2>1. /\ pc[b] = "inject" /\ pc' = [pc EXCEPT ![b] = "look"]
        /\ UNCHANGED <<executed, head, carry, extras>>
    BY <1>11 DEF persistChiefTimeout
  <2>2. CASE UNCHANGED turnRows
    BY <2>1, <2>2, <1>m DEF LoopPc
  <2>3. CASE CreateTurn(b)
    <3> SUFFICES ASSUME NEW c \in Bots PROVE CarryOf(c)'
      BY DEF CarryKept
    <3>1. Holding(c) => tinput'[head[c]] = tinput[head[c]]
                        /\ \A t \in extras[c] : tinput'[t] = tinput[t]
      BY <2>3, CreatedIsNotHeld
    <3>2. pc'[c] = pc[c] \/ (pc[c] = "inject" /\ pc'[c] = "look")
      BY <2>1, <1>t
    <3> QED BY <2>1, <3>1, <3>2, <1>t, CarryFrame DEF CarryKept, Executing
  <2> QED BY <1>11, <2>2, <2>3 DEF persistChiefTimeout
<1>12. CASE hasPendingQuestion(b) BY <1>12, <1>m DEF hasPendingQuestion, LoopPc
<1>13. CASE parkOrIdle(b)
  <2>1. /\ pc' = [pc EXCEPT ![b] = "check"] /\ head' = [head EXCEPT ![b] = 0]
        /\ carry' = [carry EXCEPT ![b] = {}]
        /\ UNCHANGED <<tinput, executed, extras>>
    BY <1>13 DEF parkOrIdle
  <2>2. pc'[b] = "check" /\ carry'[b] = {}
    BY <2>1, <1>t
  <2>3. CarryOf(b)'
    BY <2>2 DEF CarryOf, Executing
  <2>4. \A c \in Bots \ {b} : /\ pc'[c] = pc[c] /\ head'[c] = head[c]
                              /\ carry'[c] = carry[c] /\ extras'[c] = extras[c]
    BY <2>1, <1>t
  <2> QED BY <2>1, <2>3, <2>4, <1>o
<1> QED BY <1>1, <1>2, <1>3, <1>4, <1>5, <1>6, <1>7, <1>8, <1>9, <1>10, <1>11, <1>12, <1>13
        DEF Loop

LEMMA CarryRest ==
    ASSUME IInv, TypeOK', CarryKept,
           (\E h \in Handlers : Finish(h)) \/ Owner \/ Machine \/ Recovery \/ crash
    PROVE  CarryKept'
<1> SUFFICES ASSUME NEW c \in Bots PROVE CarryOf(c)'
  BY DEF CarryKept
<1> USE DEF turnRows, loops, history
<1>t. pc[c] \in LoopPc /\ pc'[c] \in LoopPc /\ extras \in [Bots -> SUBSET TurnIds]
  BY DEF IInv, TypeOK
<1>f. ASSUME UNCHANGED <<tinput, executed, head, carry, extras>>,
             \/ pc'[c] = pc[c]
             \/ pc'[c] = "select" /\ pc[c] = "absent"
      PROVE  CarryOf(c)'
  BY <1>f, <1>t, CarryFrame DEF CarryKept, Executing
<1>1. ASSUME NEW h \in Handlers, Finish(h) PROVE CarryOf(c)'
  <2>1. CASE Enqueue(h)
    <3>1. hbot[h] \in Bots \cup {NoBot} /\ CreateTurn(hbot[h])
      BY <2>1 DEF IInv, TypeOK, Enqueue
    <3>2. Holding(c) => tinput'[head[c]] = tinput[head[c]]
                        /\ \A t \in extras[c] : tinput'[t] = tinput[t]
      BY <3>1, CreatedIsNotHeld
    <3> QED BY <2>1, <3>2, <1>t, CarryFrame DEF Enqueue, CarryKept
  <2>2. CASE enqueueKick(h)
    BY <2>2, <1>f DEF enqueueKick, kick
  <2>3. CASE stopDropQueue(h) \/ archiveDropQueue(h)
    BY <2>3, <1>f DEF stopDropQueue, archiveDropQueue, FailQueued
  <2>4. CASE answerQuestion(h) \/ clearWaiting(h) \/ stopSetIdle(h)
    BY <2>4, <1>f DEF answerQuestion, clearWaiting, stopSetIdle
  <2> QED BY <1>1, <2>1, <2>2, <2>3, <2>4 DEF Finish
<1>2. CASE Owner \/ Machine
  BY <1>2, <1>f DEF Owner, Machine, deliver, handleCallback, Stop, rpcSend, rpcAnswer,
     unarchiveBotRow, machineInput, routineWorkerBot, askOwner, chiefTimeout, archiveBotRow
<1>3. CASE Recovery
  BY <1>3, <1>f DEF Recovery, listInterrupted, requeueInterruptedTurn, resetBots, armQueues, kick
<1>4. CASE crash
  <2>1. pc'[c] = "absent" /\ carry'[c] = {}
    BY <1>4 DEF crash
  <2> QED BY <2>1 DEF CarryOf, Executing
<1> QED BY <1>1, <1>2, <1>3, <1>4

LEMMA CarryAlways == Spec => []CarryKept
<1>1. Init => CarryKept
  BY DEF Init, CarryKept, CarryOf, Executing
<1>2. IInv /\ IInv' /\ CarryKept /\ [Next]_vars => CarryKept'
  <2> SUFFICES ASSUME IInv, IInv', CarryKept, [Next]_vars PROVE CarryKept'
    OBVIOUS
  <2>1. CASE Next
    BY <2>1, CarryLoop, CarryRest DEF Next, IInv
  <2>2. CASE UNCHANGED vars
    BY <2>2 DEF vars, turnRows, loops, history, CarryKept, CarryOf, Executing
  <2> QED BY <2>1, <2>2
<1> QED BY <1>1, <1>2, InductiveInvariant, PTL DEF Spec

\* What was handed to an engine or dropped stays so, and a loop lets go of what it carries only
\* at the end of execute, or in a crash.
LEMMA HistoryGrows ==
    ASSUME IInv, CarryKept, Next
    PROVE  /\ executed \subseteq executed' /\ dropped \subseteq dropped'
           /\ crashes' = crashes => \A b \in Bots : \A i \in carry[b] :
                  i \in carry'[b] \/ \E p \in executed' : p[2] = i
<1> USE DEF history, loops, boot
<1>1. ASSUME NEW b \in Bots, Loop(b)
      PROVE  /\ executed \subseteq executed' /\ dropped \subseteq dropped'
             /\ \A c \in Bots : \A i \in carry[c] :
                    i \in carry'[c] \/ \E p \in executed' : p[2] = i
  <2>1. CASE foldQueue(b)
    <3>1. carry[b] = {}
      BY <2>1 DEF foldQueue, CarryKept, CarryOf
    <3>2. \A c \in Bots : c # b => carry'[c] = carry[c]
      BY <2>1 DEF foldQueue, IInv, TypeOK
    <3> QED BY <2>1, <3>1, <3>2 DEF foldQueue
  <2>2. CASE parkOrIdle(b)
    <3>1. \A i \in carry[b] : \E p \in executed : p[2] = i
      BY <2>2 DEF parkOrIdle, CarryKept, CarryOf
    <3>2. \A c \in Bots : c # b => carry'[c] = carry[c]
      BY <2>2 DEF parkOrIdle, IInv, TypeOK
    <3> QED BY <2>2, <3>1, <3>2 DEF parkOrIdle
  <2>3. CASE startTurn(b)
    BY <2>3 DEF startTurn
  <2>4. CASE ~(foldQueue(b) \/ parkOrIdle(b) \/ startTurn(b))
    BY <1>1, <2>4 DEF Loop, loopWake, runNext, mergeExtra, markRunning, spawn, noEngine,
       engineExit, endTurn, persistChiefTimeout, hasPendingQuestion
  <2> QED BY <2>1, <2>2, <2>3, <2>4
<1>2. ASSUME NEW h \in Handlers, Finish(h)
      PROVE  UNCHANGED <<carry, executed>> /\ dropped \subseteq dropped'
  BY <1>2 DEF Finish, answerQuestion, clearWaiting, Enqueue, enqueueKick, stopDropQueue,
     stopSetIdle, archiveDropQueue, FailQueued
<1>3. CASE Owner \/ Machine
  <2>1. UNCHANGED <<carry, executed, dropped>>
    BY <1>3 DEF Owner, Machine, deliver, handleCallback, Stop, rpcSend, rpcAnswer,
       unarchiveBotRow, machineInput, routineWorkerBot, askOwner, chiefTimeout, archiveBotRow
  <2> QED BY <2>1
<1>4. CASE Recovery
  <2>1. UNCHANGED <<carry, executed, dropped>>
    BY <1>4 DEF Recovery, listInterrupted, requeueInterruptedTurn, resetBots, armQueues
  <2> QED BY <2>1
<1>5. CASE crash
  BY <1>5 DEF crash, IInv, TypeOK
<1> QED BY <1>1, <1>2, <1>3, <1>4, <1>5 DEF Next

\* An input in a queued row stays in it, or goes to a loop, to an engine or to /stop and
\* archiving: what a write takes out of the queue was folded, carried out or dropped.
LEMMA QueuedIsKept ==
    ASSUME IInv, CarryKept, Next, NEW t \in TurnIds, tstatus[t] = "queued", NEW i \in tinput[t]
    PROVE  Kept(i)'
<1>t. /\ tinput \in [TurnIds -> SUBSET TurnIds] /\ tstatus \in [TurnIds -> TurnStatus]
      /\ head \in [Bots -> TurnIds \cup {0}] /\ carry \in [Bots -> SUBSET TurnIds]
      /\ extras \in [Bots -> SUBSET TurnIds] /\ LoopOwnsHead
  BY DEF IInv, TypeOK
<1> USE DEF turnRows, loops, history
<1>s. ASSUME tstatus'[t] = "queued", tinput'[t] = tinput[t] PROVE Kept(i)'
  BY <1>s DEF Kept
<1>c. ASSUME NEW b \in Bots \cup {NoBot}, CreateTurn(b) PROVE Kept(i)'
  <2>1. t # lastTurn + 1
    BY TurnRunnerAssumption DEF IInv, TypeOK, RowsFresh
  <2> QED BY <1>c, <1>s, <1>t, <2>1 DEF CreateTurn
<1>f. ASSUME NEW b, FailQueued(b) PROVE Kept(i)'
  <2>1. CASE t \in QueuedOf(b)
    BY <1>f, <2>1 DEF FailQueued, Kept
  <2>2. CASE t \notin QueuedOf(b)
    BY <1>f, <1>s, <2>2 DEF FailQueued
  <2> QED BY <2>1, <2>2
<1>1. ASSUME NEW b \in Bots, Loop(b) PROVE Kept(i)'
  <2>1. CASE mergeExtra(b)
    <3>1. CASE t = Oldest(extras[b])
      <4>1. t \in extras[b]
        BY <3>1, <2>1, <1>t, PickedRows DEF mergeExtra
      <4>2. i \in carry'[b]
        BY <4>1, <2>1 DEF mergeExtra, CarryKept, CarryOf
      <4> QED BY <4>2 DEF Kept
    <3>2. CASE t # Oldest(extras[b])
      BY <2>1, <3>2, <1>s, <1>t DEF mergeExtra
    <3> QED BY <3>1, <3>2
  <2>2. CASE startTurn(b)
    <3>1. CASE t = head[b]
      <4>1. i \in carry'[b]
        BY <3>1, <2>2 DEF startTurn, CarryKept, CarryOf
      <4> QED BY <4>1 DEF Kept
    <3>2. CASE t # head[b]
      BY <2>2, <3>2, <1>s, <1>t DEF startTurn
    <3> QED BY <3>1, <3>2
  <2>3. CASE endTurn(b)
    <3>1. CASE t = head[b]
      <4>1. i \in carry[b]
        BY <3>1, <2>3 DEF endTurn, CarryKept, CarryOf, Executing
      <4>2. i \in carry'[b]
        BY <4>1, <2>3 DEF endTurn
      <4> QED BY <4>2 DEF Kept
    <3>2. CASE t # head[b]
      BY <2>3, <3>2, <1>s, <1>t DEF endTurn
    <3> QED BY <3>1, <3>2
  <2>4. CASE persistChiefTimeout(b)
    BY <2>4, <1>c, <1>s DEF persistChiefTimeout
  <2>5. CASE ~(mergeExtra(b) \/ startTurn(b) \/ endTurn(b) \/ persistChiefTimeout(b))
    <3>1. UNCHANGED <<tstatus, tinput>>
      BY <1>1, <2>5 DEF Loop, loopWake, runNext, foldQueue, markRunning, spawn, noEngine,
         engineExit, hasPendingQuestion, parkOrIdle
    <3> QED BY <3>1, <1>s
  <2> QED BY <2>1, <2>2, <2>3, <2>4, <2>5
<1>2. ASSUME NEW h \in Handlers, Finish(h) PROVE Kept(i)'
  <2>1. CASE Enqueue(h)
    BY <2>1, <1>c DEF Enqueue, IInv, TypeOK
  <2>2. CASE stopDropQueue(h) \/ archiveDropQueue(h)
    BY <2>2, <1>f DEF stopDropQueue, archiveDropQueue
  <2>3. CASE answerQuestion(h) \/ clearWaiting(h) \/ enqueueKick(h) \/ stopSetIdle(h)
    BY <2>3, <1>s DEF answerQuestion, clearWaiting, enqueueKick, stopSetIdle
  <2> QED BY <1>2, <2>1, <2>2, <2>3 DEF Finish
<1>3. CASE Owner \/ Machine
  BY <1>3, <1>s DEF Owner, Machine, deliver, handleCallback, Stop, rpcSend, rpcAnswer,
     unarchiveBotRow, machineInput, routineWorkerBot, askOwner, chiefTimeout, archiveBotRow
<1>4. CASE Recovery \/ crash
  BY <1>4, <1>s, <1>t DEF Recovery, crash, listInterrupted, requeueInterruptedTurn, resetBots,
     armQueues
<1> QED BY <1>1, <1>2, <1>3, <1>4 DEF Next

\* No fold, merge, retry, answer, /stop, archive or recovery step loses an accepted input, with
\* the phone live during recovery too: only the death of the process does, between the merge of
\* a row and the store of its text in the carrier.
THEOREM OnlyCrashLoses == Spec => LostOnlyInCrash
<1> DEFINE Stays == \A i \in 1..lastTurn : Kept(i) => Kept(i)' \/ crashes' # crashes
<1>1. IInv /\ CarryKept /\ [Next]_vars => [Stays]_vars
  <2> SUFFICES ASSUME IInv, CarryKept, Next, NEW i \in 1..lastTurn, Kept(i), crashes' = crashes
               PROVE  Kept(i)'
    OBVIOUS
  <2>1. CASE i \in dropped \/ \E p \in executed : p[2] = i
    BY <2>1, HistoryGrows DEF Kept
  <2>2. CASE \E t \in TurnIds : tstatus[t] = "queued" /\ i \in tinput[t]
    BY <2>2, QueuedIsKept
  <2>3. CASE \E b \in Bots : i \in carry[b]
    BY <2>3, HistoryGrows DEF Kept
  <2> QED BY <2>1, <2>2, <2>3 DEF Kept
<1> QED BY <1>1, InductiveInvariant, CarryAlways, PTL DEF Spec, LostOnlyInCrash
-----------------------------------------------------------------------------
(* Wake-ups, where nobody uses /stop and no session is unarchived from the   *)
(* phone: these two set a session idle and do not kick it.                   *)

AlwaysKicked == ~OwnerStops /\ (Phone \notin Handlers \/ Bots \subseteq {General})

\* A handler at rest has no session, and none is in a /stop.
HandlersQuiet ==
    \A h \in Handlers : /\ hpc[h] = "idle" => hbot[h] = NoBot
                        /\ hpc[h] \notin {"stopDrop", "stopIdle"}

\* The phone has nothing to unarchive.
PhoneFindsNone == Phone \in Handlers => \A b \in Bots : ~archived[b]

\* NoLostWakeup for one session.
WakeOf(b) ==
    (phase = "up" /\ QueuedOf(b) # {} /\ bstatus[b] = "idle" /\ ~archived[b] /\ Quiet(b))
        => wake[b] \/ pc[b] \notin {"absent", "select"}

WakeInv == HandlersQuiet /\ PhoneFindsNone /\ \A b \in Bots : WakeOf(b)

\* A step that puts nothing into c's queue, wakes nobody's attention to it and does not send its
\* loop to wait.
LEMMA WakeFrame ==
    ASSUME NEW c \in Bots, WakeOf(c), wake[c] => wake'[c],
           pc'[c] = pc[c] \/ pc'[c] \notin {"absent", "select"},
           phase' = "up" => phase = "up",
           QueuedOf(c)' \subseteq QueuedOf(c),
           bstatus'[c] = "idle" => bstatus[c] = "idle",
           ~archived'[c] => ~archived[c],
           Quiet(c)' => Quiet(c)
    PROVE  WakeOf(c)'
BY DEF WakeOf

LEMMA WakeLoop ==
    ASSUME IInv, IInv', WakeInv, NEW b \in Bots, Loop(b)
    PROVE  WakeInv'
<1> USE DEF turnRows, botRows, questionRows, loops, signals, handlers, boot, history, Goto,
            setBotStatus
<1>t. /\ pc \in [Bots -> LoopPc] /\ wake \in [Bots -> BOOLEAN] /\ bstatus \in [Bots -> BotStatus]
      /\ tstatus \in [TurnIds -> TurnStatus] /\ tbot \in [TurnIds -> Bots \cup {NoBot}]
  BY DEF IInv, TypeOK
<1>1. UNCHANGED <<handlers, phase, archived>>
  BY DEF Loop, loopWake, runNext, foldQueue, mergeExtra, startTurn, markRunning, spawn, noEngine,
     engineExit, endTurn, persistChiefTimeout, hasPendingQuestion, parkOrIdle
<1>2. HandlersQuiet' /\ PhoneFindsNone'
  BY <1>1 DEF WakeInv, HandlersQuiet, PhoneFindsNone
<1>3. \A c : Quiet(c)' <=> Quiet(c)
  BY <1>1 DEF Quiet
<1>4. \A c \in Bots \ {b} : pc'[c] = pc[c] /\ wake'[c] = wake[c] /\ bstatus'[c] = bstatus[c]
  BY <1>t DEF Loop, loopWake, runNext, foldQueue, mergeExtra, startTurn, markRunning, spawn,
     noEngine, engineExit, endTurn, persistChiefTimeout, hasPendingQuestion, parkOrIdle
<1>5. \A c \in Bots \ {b} : QueuedOf(c)' \subseteq QueuedOf(c)
  <2>1. CASE persistChiefTimeout(b)
    <3>1. CASE UNCHANGED turnRows
      BY <3>1 DEF QueuedOf
    <3>2. CASE CreateTurn(b)
      BY <3>2, <1>t DEF CreateTurn, QueuedOf
    <3> QED BY <2>1, <3>1, <3>2 DEF persistChiefTimeout
  <2>2. CASE mergeExtra(b) \/ startTurn(b) \/ endTurn(b)
    BY <2>2, <1>t DEF mergeExtra, startTurn, endTurn, QueuedOf
  <2>3. CASE ~(persistChiefTimeout(b) \/ mergeExtra(b) \/ startTurn(b) \/ endTurn(b))
    BY <2>3 DEF Loop, loopWake, runNext, foldQueue, markRunning, spawn, noEngine, engineExit,
       hasPendingQuestion, parkOrIdle, QueuedOf
  <2> QED BY <2>1, <2>2, <2>3
<1>6. \A c \in Bots \ {b} : WakeOf(c)'
  BY <1>1, <1>3, <1>4, <1>5, WakeFrame DEF WakeInv
<1>7. WakeOf(b)'
  <2>1. CASE runNext(b)
    <3>1. pc'[b] = "select" => bstatus'[b] # "idle" \/ archived'[b]
      BY <2>1, <1>t DEF runNext
    <3>2. pc'[b] \in {"select", "fold"}
      BY <2>1, <1>t DEF runNext
    <3> QED BY <3>1, <3>2 DEF WakeOf
  <2>2. CASE foldQueue(b)
    <3>1. CASE QueuedOf(b) = {}
      <4>1. QueuedOf(b)' = {}
        BY <2>2, <3>1 DEF foldQueue, QueuedOf
      <4> QED BY <4>1 DEF WakeOf
    <3>2. CASE QueuedOf(b) # {}
      <4>1. pc'[b] = "merge"
        BY <2>2, <3>2, <1>t DEF foldQueue
      <4> QED BY <4>1 DEF WakeOf
    <3> QED BY <3>1, <3>2
  <2>3. CASE ~(runNext(b) \/ foldQueue(b))
    <3>1. pc'[b] \notin {"absent", "select"}
      BY <2>3, <1>t DEF Loop, loopWake, mergeExtra, startTurn, markRunning, spawn, noEngine,
         engineExit, endTurn, persistChiefTimeout, hasPendingQuestion, parkOrIdle
    <3> QED BY <3>1 DEF WakeOf
  <2> QED BY <2>1, <2>2, <2>3
<1> QED BY <1>2, <1>6, <1>7 DEF WakeInv

LEMMA WakeFinish ==
    ASSUME AlwaysKicked, IInv, WakeInv, NEW h \in Handlers, Finish(h)
    PROVE  WakeInv'
<1> USE DEF turnRows, botRows, questionRows, loops, signals, boot, HandlerGoto, setBotStatus
<1>t. /\ hpc \in [Handlers -> HandlerPc] /\ hbot \in [Handlers -> Bots \cup {NoBot}]
      /\ tstatus \in [TurnIds -> TurnStatus] /\ tbot \in [TurnIds -> Bots \cup {NoBot}]
      /\ bstatus \in [Bots -> BotStatus] /\ wake \in [Bots -> BOOLEAN]
  BY DEF IInv, TypeOK
<1>q. \A c : hbot[h] = c => ~Quiet(c)
  BY DEF Quiet
<1>h. ASSUME NEW l \in HandlerPc, hpc' = [hpc EXCEPT ![h] = l], l \notin {"stopDrop", "stopIdle"},
             \/ hpc[h] # "idle" /\ l # "idle" /\ hbot' = hbot
             \/ hbot' = [hbot EXCEPT ![h] = NoBot],
             UNCHANGED archived
      PROVE  HandlersQuiet' /\ PhoneFindsNone'
  BY <1>h, <1>t DEF WakeInv, HandlersQuiet, PhoneFindsNone
<1>1. CASE answerQuestion(h)
  <2>1. HandlersQuiet' /\ PhoneFindsNone'
    BY <1>1, <1>h DEF answerQuestion, HandlerPc
  <2>2. \A c \in Bots : WakeOf(c)'
    BY <1>1 DEF answerQuestion, WakeInv, WakeOf, QueuedOf, Quiet
  <2> QED BY <2>1, <2>2 DEF WakeInv
<1>2. CASE clearWaiting(h)
  <2>1. HandlersQuiet' /\ PhoneFindsNone'
    BY <1>2, <1>h DEF clearWaiting, HandlerPc
  <2>2. ASSUME NEW c \in Bots PROVE WakeOf(c)'
    <3>1. CASE hbot[h] = c
      BY <1>2, <3>1 DEF clearWaiting, WakeOf, Quiet
    <3>2. CASE hbot[h] # c
      BY <1>2, <3>2, <1>t DEF clearWaiting, WakeInv, WakeOf, QueuedOf, Quiet
    <3> QED BY <3>1, <3>2
  <2> QED BY <2>1, <2>2 DEF WakeInv
<1>3. CASE Enqueue(h)
  <2>1. HandlersQuiet' /\ PhoneFindsNone'
    BY <1>3, <1>h DEF Enqueue, HandlerPc
  <2>2. ASSUME NEW c \in Bots PROVE WakeOf(c)'
    <3>1. CASE hbot[h] = c
      BY <1>3, <3>1 DEF Enqueue, WakeOf, Quiet
    <3>2. CASE hbot[h] # c
      <4>1. QueuedOf(c)' \subseteq QueuedOf(c)
        BY <1>3, <3>2, <1>t DEF Enqueue, CreateTurn, QueuedOf
      <4>2. Quiet(c)' <=> Quiet(c)
        BY <1>3 DEF Enqueue, Quiet
      <4> QED BY <1>3, <4>1, <4>2, WakeFrame DEF Enqueue, WakeInv
    <3> QED BY <3>1, <3>2
  <2> QED BY <2>1, <2>2 DEF WakeInv
<1>4. CASE enqueueKick(h)
  <2>1. HandlersQuiet' /\ PhoneFindsNone'
    BY <1>4, <1>h DEF enqueueKick, HandlerPc
  <2>2. ASSUME NEW c \in Bots PROVE WakeOf(c)'
    <3>1. CASE hbot[h] = c
      BY <1>4, <3>1 DEF enqueueKick, kick, WakeOf
    <3>2. CASE hbot[h] # c
      <4>1. pc'[c] = pc[c] /\ wake'[c] = wake[c]
        BY <1>4, <3>2 DEF enqueueKick, kick, IInv, TypeOK
      <4>2. Quiet(c)' => Quiet(c)
        BY <1>4, <3>2, <1>t DEF enqueueKick, Quiet
      <4>3. QueuedOf(c)' = QueuedOf(c)
        BY <1>4 DEF enqueueKick, QueuedOf
      <4> QED BY <1>4, <4>1, <4>2, <4>3, WakeFrame DEF enqueueKick, WakeInv
    <3> QED BY <3>1, <3>2
  <2> QED BY <2>1, <2>2 DEF WakeInv
<1>5. CASE archiveDropQueue(h)
  <2>1. HandlersQuiet' /\ PhoneFindsNone'
    BY <1>5, <1>h DEF archiveDropQueue, HandlerPc
  <2>2. \A t \in TurnIds : tstatus'[t] = IF t \in QueuedOf(hbot[h]) THEN "failed" ELSE tstatus[t]
    BY <1>5 DEF archiveDropQueue, FailQueued
  <2>3. ASSUME NEW c \in Bots PROVE WakeOf(c)'
    <3>1. CASE hbot[h] = c
      <4>1. QueuedOf(c)' = {}
        BY <1>5, <3>1, <2>2 DEF archiveDropQueue, FailQueued, QueuedOf
      <4> QED BY <4>1 DEF WakeOf
    <3>2. CASE hbot[h] # c
      <4>1. QueuedOf(c)' \subseteq QueuedOf(c)
        BY <1>5, <2>2 DEF archiveDropQueue, FailQueued, QueuedOf
      <4>2. Quiet(c)' => Quiet(c)
        BY <1>5, <3>2, <1>t DEF archiveDropQueue, Quiet
      <4> QED BY <1>5, <4>1, <4>2, WakeFrame DEF archiveDropQueue, WakeInv
    <3> QED BY <3>1, <3>2
  <2> QED BY <2>1, <2>3 DEF WakeInv
<1>6. ~stopDropQueue(h) /\ ~stopSetIdle(h)
  BY DEF stopDropQueue, stopSetIdle, WakeInv, HandlersQuiet
<1> QED BY <1>1, <1>2, <1>3, <1>4, <1>5, <1>6 DEF Finish

\* A handler that begins takes a session under its care and leaves none.
LEMMA WakeBegin ==
    ASSUME IInv, WakeInv, NEW h, NEW l \in HandlerPc \ {"idle", "stopDrop", "stopIdle"},
           NEW b \in Bots, NEW q, Begin(h, l, b, q),
           UNCHANGED <<turnRows, loops, signals, boot>>,
           \A c \in Bots \ {b} : bstatus'[c] = bstatus[c] /\ archived'[c] = archived[c],
           PhoneFindsNone'
    PROVE  WakeInv'
<1>1. /\ h \in Handlers /\ hpc[h] = "idle" /\ hpc' = [hpc EXCEPT ![h] = l]
      /\ hbot' = [hbot EXCEPT ![h] = b]
  BY DEF Begin
<1>2. HandlersQuiet'
  BY <1>1 DEF WakeInv, HandlersQuiet, IInv, TypeOK
<1>3. ~Quiet(b)'
  BY <1>1 DEF Quiet, IInv, TypeOK
<1>4. ASSUME NEW c \in Bots, c # b PROVE WakeOf(c)'
  <2>1. hbot[h] = NoBot
    BY <1>1 DEF WakeInv, HandlersQuiet
  <2>2. Quiet(c)' => Quiet(c)
    BY <1>1, <2>1, TurnRunnerAssumption DEF Quiet, IInv, TypeOK
  <2>3. QueuedOf(c)' = QueuedOf(c)
    BY DEF QueuedOf, turnRows
  <2> QED BY <1>4, <2>2, <2>3, WakeFrame DEF WakeInv, loops, signals, boot
<1> QED BY <1>2, <1>3, <1>4 DEF WakeInv, WakeOf

LEMMA WakeRest ==
    ASSUME AlwaysKicked, IInv, WakeInv, Owner \/ Machine \/ Recovery \/ crash
    PROVE  WakeInv'
<1> USE DEF turnRows, botRows, questionRows, loops, signals, boot, handlers, setBotStatus
<1>p. UNCHANGED archived => PhoneFindsNone'
  BY DEF WakeInv, PhoneFindsNone
<1>1. CASE deliver
  <2>1. PICK l, q : l \in {"answer", "enqueue"} /\ Begin(Telegram, l, General, q)
    BY <1>1 DEF deliver
  <2> QED BY <1>1, <1>p, <2>1, WakeBegin DEF deliver, HandlerPc
<1>2. CASE handleCallback
  <2>1. PICK b, q : b \in Bots /\ Begin(Telegram, "answer", b, q)
    BY <1>2 DEF handleCallback
  <2> QED BY <1>2, <1>p, <2>1, WakeBegin DEF handleCallback, HandlerPc
<1>3. ~Stop
  BY DEF Stop, AlwaysKicked
<1>4. ASSUME NEW b \in Bots, rpcSend(b) \/ rpcAnswer(b) PROVE WakeInv'
  <2>1. PICK l, q : l \in {"answer", "enqueue"} /\ Begin(Phone, l, b, q)
    BY <1>4 DEF rpcSend, rpcAnswer
  <2> QED BY <1>4, <1>p, <2>1, WakeBegin DEF rpcSend, rpcAnswer, HandlerPc
<1>5. ASSUME NEW b \in Bots PROVE ~unarchiveBotRow(b)
  BY DEF unarchiveBotRow, WakeInv, PhoneFindsNone
<1>6. ASSUME NEW b \in Bots, machineInput(b) PROVE WakeInv'
  <2>1. Begin(Backend, "enqueue", b, 0)
    BY <1>6 DEF machineInput
  <2> QED BY <1>6, <1>p, <2>1, WakeBegin DEF machineInput, HandlerPc
<1>7. ASSUME NEW b \in Bots, routineWorkerBot(b) PROVE WakeInv'
  <2>1. /\ Begin(Backend, "enqueue", b, 0)
        /\ archived' = [archived EXCEPT ![b] = FALSE] /\ bstatus' = [bstatus EXCEPT ![b] = "idle"]
        /\ UNCHANGED <<turnRows, loops, signals, boot>>
    BY <1>7 DEF routineWorkerBot
  <2>2. \A c \in Bots \ {b} : bstatus'[c] = bstatus[c] /\ archived'[c] = archived[c]
    BY <2>1 DEF IInv, TypeOK
  <2>3. PhoneFindsNone'
    BY <2>1 DEF WakeInv, PhoneFindsNone, IInv, TypeOK
  <2> QED BY <2>1, <2>2, <2>3, WakeBegin DEF HandlerPc
<1>8. ASSUME NEW b \in Bots, askOwner(b) PROVE WakeInv'
  BY <1>8 DEF askOwner, WakeInv, HandlersQuiet, PhoneFindsNone, WakeOf, QueuedOf, Quiet
<1>9. ASSUME NEW b \in Bots, chiefTimeout(b) PROVE WakeInv'
  BY <1>9 DEF chiefTimeout, WakeInv, HandlersQuiet, PhoneFindsNone, WakeOf, QueuedOf, Quiet
<1>10. ASSUME NEW b \in Bots, NEW h \in Handlers, archiveBotRow(h, b) PROVE WakeInv'
  <2>1. /\ Begin(h, "archiveDrop", b, 0) /\ b # General
        /\ archived' = [archived EXCEPT ![b] = TRUE] /\ bstatus' = [bstatus EXCEPT ![b] = "disabled"]
        /\ UNCHANGED <<turnRows, loops, signals, boot>>
    BY <1>10 DEF archiveBotRow
  <2>2. \A c \in Bots \ {b} : bstatus'[c] = bstatus[c] /\ archived'[c] = archived[c]
    BY <2>1 DEF IInv, TypeOK
  <2>3. Phone \notin Handlers
    BY <2>1 DEF AlwaysKicked
  <2> QED BY <2>1, <2>2, <2>3, WakeBegin DEF HandlerPc, PhoneFindsNone
<1>11. CASE listInterrupted \/ resetBots \/ crash
  <2>1. phase' # "up" /\ UNCHANGED archived
    BY <1>11 DEF listInterrupted, resetBots, crash
  <2>2. HandlersQuiet'
    <3>1. CASE crash
      BY <3>1 DEF crash, HandlersQuiet
    <3>2. CASE listInterrupted \/ resetBots
      BY <3>2 DEF listInterrupted, resetBots, WakeInv, HandlersQuiet
    <3> QED BY <1>11, <3>1, <3>2
  <2> QED BY <1>p, <2>1, <2>2 DEF WakeInv, WakeOf
<1>12. ASSUME NEW t \in TurnIds, requeueInterruptedTurn(t) PROVE WakeInv'
  <2>1. phase' # "up" /\ UNCHANGED <<archived, handlers>>
    BY <1>12 DEF requeueInterruptedTurn
  <2> QED BY <2>1 DEF WakeInv, WakeOf, HandlersQuiet, PhoneFindsNone
<1>13. CASE armQueues
  <2>1. UNCHANGED <<archived, handlers>>
    BY <1>13 DEF armQueues
  <2>2. \A c \in Bots : ~archived'[c] => wake'[c]
    BY <1>13 DEF armQueues, kick
  <2> QED BY <2>1, <2>2 DEF WakeInv, WakeOf, HandlersQuiet, PhoneFindsNone
<1> QED BY <1>1, <1>2, <1>3, <1>4, <1>5, <1>6, <1>7, <1>8, <1>9, <1>10, <1>11, <1>12, <1>13
        DEF Owner, Machine, Recovery

\* An idle, live session with queued input has its token, or its loop is at work, or a handler
\* is on its way to kick it: wherever the loop's looks at the row and at the queue fall between
\* a handler's writes.  /stop and unarchiving are left out: they set a session idle and leave
\* its queue to the next kick.
THEOREM NoWakeupIsLost ==
    ASSUME ~OwnerStops, Phone \notin Handlers \/ Bots \subseteq {General}
    PROVE  Spec => []NoLostWakeup
<1>1. Init => WakeInv
  BY DEF Init, WakeInv, HandlersQuiet, PhoneFindsNone, WakeOf
<1>2. IInv /\ IInv' /\ WakeInv /\ [Next]_vars => WakeInv'
  <2> SUFFICES ASSUME IInv, IInv', WakeInv, [Next]_vars PROVE WakeInv'
    OBVIOUS
  <2>1. CASE Next
    BY <2>1, WakeLoop, WakeFinish, WakeRest DEF Next, AlwaysKicked
  <2>2. CASE UNCHANGED vars
    BY <2>2 DEF vars, turnRows, botRows, loops, signals, handlers, boot, WakeInv, HandlersQuiet,
       PhoneFindsNone, WakeOf, QueuedOf, Quiet
  <2> QED BY <2>1, <2>2
<1>3. WakeInv => NoLostWakeup
  BY DEF WakeInv, WakeOf, NoLostWakeup
<1> QED BY <1>1, <1>2, <1>3, InductiveInvariant, PTL DEF Spec
-----------------------------------------------------------------------------
(* Order, where the phone does not run: it listens before recovery.          *)

WasRun(t) == \E p \in executed : p[1] = t
Live(t) == tstatus[t] \in {"queued", "running"}
Closed(t) == tstatus[t] \in {"done", "failed"}

\* Nothing is at work until recovery has listed and requeued the running rows.
RecoveryFirst ==
    phase \in {"list", "requeue"} =>
        (\A b \in Bots : pc[b] = "absent") /\ (\A h \in Handlers : hpc[h] = "idle")

\* A row that was created holds its own input, and inputs of its own session only.
InputsOfRow ==
    \A t \in TurnIds :
        /\ t > lastTurn => tinput[t] = {}
        /\ t <= lastTurn => t \in tinput[t] /\ tstatus[t] # "none"
        /\ \A i \in tinput[t] : i <= lastTurn /\ tbot[i] = tbot[t]

\* What a row handed to an engine it still holds, and a running row handed something.
ExecutedIsHeld ==
    /\ \A p \in executed : p[2] \in tinput[p[1]]
    /\ \A t \in TurnIds : tstatus[t] = "running" => WasRun(t)

\* A row that ran and is queued or running is the oldest of its session that is either: a new
\* one is younger, and of those left by a crash there was only one.
RunIsOldest ==
    \A t, u \in TurnIds : Live(t) /\ WasRun(t) /\ Live(u) /\ tbot[t] = tbot[u] => t <= u

\* An input that ran under one row is in no other row that may still run.
SharedIsClosed ==
    \A p \in executed : \A t \in TurnIds : p[2] \in tinput[t] /\ t # p[1] => Closed(t)

\* Between the fold and startTurn: the carrier is the oldest, and the only one that may have run;
\* what it is about to run did not run under another row, and is in no other one that is not
\* closed or about to be.
MergeIsOldest ==
    \A b \in Bots : pc[b] = "merge" =>
        \A u \in TurnIds : Live(u) /\ tbot[u] = b => head[b] <= u /\ (WasRun(u) => u = head[b])

MergeIsAlone ==
    \A b \in Bots : pc[b] = "merge" =>
        \A i \in carry[b] :
            /\ i <= lastTurn /\ tbot[i] = b
            /\ \A p \in executed : p[2] = i => p[1] = head[b]
            /\ \A t \in TurnIds : i \in tinput[t] /\ t # head[b] => t \in extras[b] \/ Closed(t)

OrderInv ==
    /\ InputsOfRow /\ ExecutedIsHeld /\ RunIsOldest /\ SharedIsClosed
    /\ MergeIsOldest /\ MergeIsAlone /\ ExecutedByOneTurn

LEMMA RecoveryIsFirst ==
    ASSUME Phone \notin Handlers, IInv, RecoveryFirst, [Next]_vars
    PROVE  RecoveryFirst'
<1> SUFFICES ASSUME phase' \in {"list", "requeue"}
             PROVE  (\A b \in Bots : pc'[b] = "absent") /\ (\A h \in Handlers : hpc'[h] = "idle")
  BY DEF RecoveryFirst
<1> USE DEF boot, loops, handlers
<1>1. ASSUME NEW b \in Bots, Loop(b) PROVE FALSE
  <2>1. pc[b] # "absent" /\ UNCHANGED phase
    BY <1>1 DEF Loop, loopWake, runNext, foldQueue, mergeExtra, startTurn, markRunning, spawn,
       noEngine, engineExit, endTurn, persistChiefTimeout, hasPendingQuestion, parkOrIdle
  <2> QED BY <2>1 DEF RecoveryFirst
<1>2. ASSUME NEW h \in Handlers, Finish(h) PROVE FALSE
  <2>1. hpc[h] # "idle" /\ UNCHANGED phase
    BY <1>2 DEF Finish, answerQuestion, clearWaiting, Enqueue, enqueueKick, stopDropQueue,
       stopSetIdle, archiveDropQueue
  <2> QED BY <2>1 DEF RecoveryFirst
<1>3. CASE Owner \/ Machine
  <2>1. UNCHANGED <<pc, phase>>
    BY <1>3 DEF Owner, Machine, deliver, handleCallback, Stop, rpcSend, rpcAnswer,
       unarchiveBotRow, machineInput, routineWorkerBot, askOwner, chiefTimeout, archiveBotRow
  <2>2. UNCHANGED hpc \/ \E h \in Handlers : Listening(h)
    BY <1>3 DEF Owner, Machine, deliver, handleCallback, Stop, rpcSend, rpcAnswer, Begin,
       unarchiveBotRow, machineInput, routineWorkerBot, askOwner, chiefTimeout, archiveBotRow
  <2>3. \A h \in Handlers : Listening(h) => phase \in {"arm", "up"}
    BY TurnRunnerAssumption DEF Listening
  <2> QED BY <2>1, <2>2, <2>3 DEF RecoveryFirst
<1>4. CASE Recovery
  BY <1>4 DEF Recovery, listInterrupted, requeueInterruptedTurn, resetBots, armQueues,
     RecoveryFirst
<1>5. CASE crash BY <1>5 DEF crash
<1>6. CASE UNCHANGED vars BY <1>6 DEF vars, RecoveryFirst
<1> QED BY <1>1, <1>2, <1>3, <1>4, <1>5, <1>6 DEF Next

\* The numbers of rows, and the holder of a running row where recovery comes first.
LEMMA RowNumbers ==
    IInv => /\ lastTurn \in 0..MaxTurns /\ \A t \in TurnIds : t \in Nat
            /\ \A t \in TurnIds : tbot[t] # NoBot => t <= lastTurn
BY TurnRunnerAssumption DEF IInv, TypeOK, RowsFresh, TurnIds

LEMMA NoneRunsBesides ==
    ASSUME IInv, RecoveryFirst, NEW b \in Bots, pc[b] \notin {"absent", "mark", "attempt", "run", "end"},
           NEW t \in TurnIds, tbot[t] = b
    PROVE  tstatus[t] # "running"
BY DEF IInv, RunningOwned, RecoveryFirst, Executing

\* A step that creates no row, hands nothing to an engine and folds nothing: it may close rows
\* and requeue a running one.
LEMMA OrderFrame ==
    ASSUME IInv, OrderInv, UNCHANGED <<tbot, tinput, lastTurn, executed>>,
           \A t \in TurnIds :
               \/ tstatus'[t] = tstatus[t]
               \/ tstatus[t] # "none" /\ Closed(t)'
               \/ tstatus[t] = "running" /\ tstatus'[t] = "queued",
           \A b \in Bots : pc'[b] = "merge" =>
               /\ pc[b] = "merge" /\ head'[b] = head[b] /\ carry'[b] = carry[b]
               /\ \A t \in extras[b] : t \in extras'[b] \/ Closed(t)'
    PROVE  OrderInv'
<1>1. \A t \in TurnIds : /\ Live(t)' => Live(t)
                         /\ Closed(t) => Closed(t)'
                         /\ tstatus'[t] = "running" => tstatus[t] = "running"
                         /\ tstatus[t] # "none" => tstatus'[t] # "none"
  BY DEF Live, Closed
<1>2. \A t : WasRun(t)' <=> WasRun(t)
  BY DEF WasRun
<1>3. InputsOfRow'
  BY <1>1 DEF OrderInv, InputsOfRow
<1>4. ExecutedIsHeld'
  BY <1>1, <1>2 DEF OrderInv, ExecutedIsHeld
<1>5. RunIsOldest'
  BY <1>1, <1>2 DEF OrderInv, RunIsOldest
<1>6. SharedIsClosed'
  BY <1>1 DEF OrderInv, SharedIsClosed
<1>7. MergeIsOldest'
  BY <1>1, <1>2 DEF OrderInv, MergeIsOldest
<1>8. MergeIsAlone'
  <2> SUFFICES ASSUME NEW b \in Bots, pc'[b] = "merge", NEW i \in carry'[b]
               PROVE  /\ i <= lastTurn' /\ tbot'[i] = b
                      /\ \A p \in executed' : p[2] = i => p[1] = head'[b]
                      /\ \A t \in TurnIds : i \in tinput'[t] /\ t # head'[b]
                              => t \in extras'[b] \/ Closed(t)'
    BY DEF MergeIsAlone
  <2>1. pc[b] = "merge" /\ head'[b] = head[b] /\ i \in carry[b]
    OBVIOUS
  <2>2. /\ i <= lastTurn /\ tbot[i] = b
        /\ \A p \in executed : p[2] = i => p[1] = head[b]
        /\ \A t \in TurnIds : i \in tinput[t] /\ t # head[b] => t \in extras[b] \/ Closed(t)
    BY <2>1 DEF OrderInv, MergeIsAlone
  <2> QED BY <1>1, <2>1, <2>2
<1>9. ExecutedByOneTurn'
  BY DEF OrderInv, ExecutedByOneTurn
<1> QED BY <1>3, <1>4, <1>5, <1>6, <1>7, <1>8, <1>9 DEF OrderInv

\* A new row is younger than all, and its input is new.
LEMMA OrderCreate ==
    ASSUME IInv, OrderInv, NEW c \in Bots \cup {NoBot}, CreateTurn(c),
           UNCHANGED <<executed, head, carry, extras>>,
           \A b \in Bots : pc'[b] = "merge" => pc[b] = "merge"
    PROVE  OrderInv'
<1> DEFINE n == lastTurn + 1
<1>t. /\ tinput \in [TurnIds -> SUBSET TurnIds] /\ executed \in SUBSET (TurnIds \X TurnIds)
      /\ tstatus \in [TurnIds -> TurnStatus] /\ tbot \in [TurnIds -> Bots \cup {NoBot}]
      /\ carry \in [Bots -> SUBSET TurnIds] /\ lastTurn \in Nat
  BY DEF IInv, TypeOK
<1>1. n \in TurnIds /\ \A t \in TurnIds : t \in Nat
  BY <1>t, TurnRunnerAssumption DEF CreateTurn, TurnIds
<1>2. /\ lastTurn' = n
      /\ tstatus'[n] = "queued" /\ tbot'[n] = c /\ tinput'[n] = {n}
      /\ \A t \in TurnIds : t # n => /\ tstatus'[t] = tstatus[t] /\ tbot'[t] = tbot[t]
                                     /\ tinput'[t] = tinput[t]
  BY <1>1, <1>t DEF CreateTurn
<1>i. /\ InputsOfRow /\ ExecutedIsHeld /\ RunIsOldest /\ SharedIsClosed
      /\ MergeIsOldest /\ MergeIsAlone /\ ExecutedByOneTurn
  BY DEF OrderInv
<1>3. \A t \in TurnIds : tinput[t] # {} => t <= lastTurn
  BY <1>1, <1>t, <1>i DEF InputsOfRow
<1>4. \A p \in executed : p[1] \in TurnIds /\ p[2] \in TurnIds /\ p[1] <= lastTurn /\ p[2] <= lastTurn
  <2> SUFFICES ASSUME NEW p \in executed
               PROVE  p[1] \in TurnIds /\ p[2] \in TurnIds /\ p[1] <= lastTurn /\ p[2] <= lastTurn
    OBVIOUS
  <2>1. p[1] \in TurnIds /\ p[2] \in TurnIds
    BY <1>t
  <2>2. p[2] \in tinput[p[1]]
    BY <1>i DEF ExecutedIsHeld
  <2> QED BY <2>1, <2>2, <1>3, <1>i DEF InputsOfRow
<1>5. \A t : WasRun(t)' <=> WasRun(t)
  BY DEF WasRun
<1>6. ~WasRun(n)
  BY <1>4, <1>t DEF WasRun
<1>n. \A t \in TurnIds : /\ t > n => t > lastTurn
                         /\ t <= n /\ t # n => t <= lastTurn
                         /\ t <= lastTurn => t <= n /\ t # n
  BY <1>t, <1>1 DEF n
<1> HIDE DEF n
<1>7. \A t \in TurnIds : t <= lastTurn => t # n
  BY <1>n
<1>8. InputsOfRow'
  <2> SUFFICES ASSUME NEW t \in TurnIds
               PROVE  /\ t > lastTurn' => tinput'[t] = {}
                      /\ t <= lastTurn' => t \in tinput'[t] /\ tstatus'[t] # "none"
                      /\ \A i \in tinput'[t] : i <= lastTurn' /\ tbot'[i] = tbot'[t]
    BY DEF InputsOfRow
  <2>1. CASE t = n
    BY <2>1, <1>2, <1>1
  <2>2. CASE t # n
    <3>1. t > n => t > lastTurn
      BY <1>n
    <3>2. t <= n => t <= lastTurn
      BY <2>2, <1>n
    <3>3. \A i \in tinput[t] : i \in TurnIds /\ i <= lastTurn /\ i # n /\ i <= n
      BY <1>7, <1>i, <1>t, <1>n, <1>1 DEF InputsOfRow
    <3> QED BY <2>2, <3>1, <3>2, <3>3, <1>2, <1>i DEF InputsOfRow
  <2> QED BY <2>1, <2>2
<1>9. ExecutedIsHeld'
  <2>1. \A p \in executed : p[2] \in tinput'[p[1]]
    BY <1>2, <1>4, <1>7, <1>i DEF ExecutedIsHeld
  <2>2. \A t \in TurnIds : tstatus'[t] = "running" => WasRun(t)'
    BY <1>2, <1>5, <1>i DEF ExecutedIsHeld
  <2> QED BY <2>1, <2>2 DEF ExecutedIsHeld
<1>10. RunIsOldest'
  <2> SUFFICES ASSUME NEW t \in TurnIds, NEW u \in TurnIds, Live(t)', WasRun(t)', Live(u)',
                      tbot'[t] = tbot'[u]
               PROVE  t <= u
    BY DEF RunIsOldest
  <2>1. WasRun(t) /\ t # n /\ t <= lastTurn
    BY <1>4, <1>5, <1>6 DEF WasRun
  <2>2. CASE u = n
    BY <2>1, <2>2, <1>n
  <2>3. CASE u # n
    BY <2>1, <2>3, <1>2, <1>i DEF RunIsOldest, Live
  <2> QED BY <2>2, <2>3
<1>11. SharedIsClosed'
  <2> SUFFICES ASSUME NEW p \in executed, NEW t \in TurnIds, p[2] \in tinput'[t], t # p[1]
               PROVE  Closed(t)'
    BY DEF SharedIsClosed
  <2>1. t # n
    BY <1>2, <1>4, <1>7
  <2> QED BY <2>1, <1>2, <1>i DEF SharedIsClosed, Closed
<1>12. MergeIsOldest'
  <2> SUFFICES ASSUME NEW b \in Bots, pc[b] = "merge", NEW u \in TurnIds, Live(u)', tbot'[u] = b
               PROVE  head[b] <= u /\ (WasRun(u)' => u = head[b])
    BY DEF MergeIsOldest
  <2>1. CASE u = n
    <3>1. head[b] \in TurnIds /\ tbot[head[b]] = b /\ b # NoBot
      BY TurnRunnerAssumption DEF IInv, LoopOwnsHead, Holding
    <3>2. head[b] <= lastTurn
      BY <3>1, RowNumbers
    <3> QED BY <2>1, <3>1, <3>2, <1>5, <1>6, <1>n, <1>1, <1>t
  <2>2. CASE u # n
    BY <2>2, <1>2, <1>5, <1>i DEF MergeIsOldest, Live
  <2> QED BY <2>1, <2>2
<1>13. MergeIsAlone'
  <2> SUFFICES ASSUME NEW b \in Bots, pc[b] = "merge", NEW i \in carry[b]
               PROVE  /\ i <= lastTurn' /\ tbot'[i] = b
                      /\ \A p \in executed : p[2] = i => p[1] = head[b]
                      /\ \A t \in TurnIds : i \in tinput'[t] /\ t # head[b]
                              => t \in extras[b] \/ Closed(t)'
    BY DEF MergeIsAlone
  <2>1. i \in TurnIds /\ i <= lastTurn /\ tbot[i] = b
    BY <1>i, <1>t DEF MergeIsAlone
  <2>2. i # n /\ i <= n
    BY <2>1, <1>n
  <2>3. \A t \in TurnIds : i \in tinput'[t] => t # n
    BY <2>2, <1>2
  <2> QED BY <2>1, <2>2, <2>3, <1>2, <1>i DEF MergeIsAlone, Closed
<1>14. ExecutedByOneTurn'
  BY <1>i DEF ExecutedByOneTurn
<1> QED BY <1>8, <1>9, <1>10, <1>11, <1>12, <1>13, <1>14 DEF OrderInv

\* The fold takes the oldest row, which is the only one of its queue that may have run before,
\* and every row that shares an input with one of the queue is in the fold or closed.
LEMMA OrderFold ==
    ASSUME IInv, RecoveryFirst, OrderInv, NEW b \in Bots, foldQueue(b)
    PROVE  OrderInv'
<1>t. /\ tinput \in [TurnIds -> SUBSET TurnIds] /\ tstatus \in [TurnIds -> TurnStatus]
      /\ pc \in [Bots -> LoopPc] /\ head \in [Bots -> TurnIds \cup {0}]
      /\ carry \in [Bots -> SUBSET TurnIds] /\ extras \in [Bots -> SUBSET TurnIds]
  BY DEF IInv, TypeOK
<1>1. UNCHANGED <<tstatus, tbot, tinput, lastTurn, executed>> /\ pc[b] = "fold"
  BY DEF foldQueue, turnRows, history
<1>2. CASE QueuedOf(b) = {}
  <2>1. /\ pc' = [pc EXCEPT ![b] = "select"] /\ UNCHANGED <<head, carry, extras>>
    BY <1>2 DEF foldQueue, Goto
  <2> QED BY <1>1, <2>1, <1>t, OrderFrame
<1>3. CASE QueuedOf(b) # {}
  <2> DEFINE o == Oldest(QueuedOf(b))
  <2>1. o \in QueuedOf(b) /\ \A u \in QueuedOf(b) : o <= u
    <3>1. QueuedOf(b) \in SUBSET Nat
      BY TurnRunnerAssumption DEF QueuedOf, TurnIds
    <3> QED BY <1>3, <3>1, OldestIn
  <2>2. /\ pc' = [pc EXCEPT ![b] = "merge"]
        /\ head' = [head EXCEPT ![b] = o]
        /\ carry' = [carry EXCEPT ![b] = UNION {tinput[t] : t \in QueuedOf(b)}]
        /\ extras' = [extras EXCEPT ![b] = QueuedOf(b) \ {o}]
    BY <1>3 DEF foldQueue, Goto
  <2> HIDE DEF o
  <2>3. /\ head'[b] = o /\ extras'[b] = QueuedOf(b) \ {o}
        /\ carry'[b] = UNION {tinput[t] : t \in QueuedOf(b)}
        /\ \A c \in Bots \ {b} : /\ pc'[c] = pc[c] /\ head'[c] = head[c]
                                 /\ carry'[c] = carry[c] /\ extras'[c] = extras[c]
    BY <2>2, <1>t
  <2>i. /\ InputsOfRow /\ ExecutedIsHeld /\ RunIsOldest /\ SharedIsClosed
        /\ MergeIsOldest /\ MergeIsAlone /\ ExecutedByOneTurn
    BY DEF OrderInv
  <2>4. \A t \in TurnIds : tbot[t] = b /\ Live(t) => t \in QueuedOf(b)
    BY <1>1, NoneRunsBesides DEF Live, QueuedOf
  <2>5. \A t \in QueuedOf(b) : t \in TurnIds /\ Live(t) /\ ~Closed(t) /\ tbot[t] = b /\ t \in Nat
    BY RowNumbers DEF QueuedOf, Live, Closed, IInv
  <2>6. \A t \in QueuedOf(b) : WasRun(t) => t = o
    <3> SUFFICES ASSUME NEW t \in QueuedOf(b), WasRun(t) PROVE t = o
      OBVIOUS
    <3>1. t <= o
      BY <2>1, <2>5, <2>i DEF RunIsOldest
    <3>2. o <= t /\ o \in Nat /\ t \in Nat
      BY <2>1, <2>5
    <3> QED BY <3>1, <3>2
  <2>7. InputsOfRow' /\ ExecutedIsHeld' /\ RunIsOldest' /\ SharedIsClosed' /\ ExecutedByOneTurn'
    BY <1>1, <2>i DEF InputsOfRow, ExecutedIsHeld, RunIsOldest, SharedIsClosed,
       ExecutedByOneTurn, Live, Closed, WasRun
  <2>8. MergeIsOldest'
    <3> SUFFICES ASSUME NEW c \in Bots, pc'[c] = "merge", NEW u \in TurnIds, Live(u), tbot[u] = c
                 PROVE  head'[c] <= u /\ (WasRun(u) => u = head'[c])
      BY <1>1 DEF MergeIsOldest, Live, WasRun
    <3>1. CASE c = b
      BY <3>1, <2>1, <2>3, <2>4, <2>6
    <3>2. CASE c # b
      BY <3>2, <2>3, <2>i DEF MergeIsOldest
    <3> QED BY <3>1, <3>2
  <2>9. MergeIsAlone'
    <3> SUFFICES ASSUME NEW c \in Bots, pc'[c] = "merge", NEW i \in carry'[c]
                 PROVE  /\ i <= lastTurn /\ tbot[i] = c
                        /\ \A p \in executed : p[2] = i => p[1] = head'[c]
                        /\ \A t \in TurnIds : i \in tinput[t] /\ t # head'[c]
                                => t \in extras'[c] \/ Closed(t)
      BY <1>1 DEF MergeIsAlone, Closed
    <3>1. CASE c = b
      <4>1. PICK q \in QueuedOf(b) : i \in tinput[q]
        BY <3>1, <2>3
      <4>2. q \in TurnIds /\ Live(q) /\ ~Closed(q) /\ tbot[q] = b
        BY <2>5
      <4>3. i <= lastTurn /\ tbot[i] = b
        BY <4>1, <4>2, <2>i DEF InputsOfRow
      <4>4. \A p \in executed : p[2] = i => p[1] = q
        BY <4>1, <4>2, <2>i DEF SharedIsClosed
      <4>5. \A p \in executed : p[2] = i => p[1] = o
        BY <4>4, <2>6 DEF WasRun
      <4>6. \A t \in TurnIds : i \in tinput[t] => tbot[t] = b /\ (Live(t) \/ Closed(t))
        <5> SUFFICES ASSUME NEW t \in TurnIds, i \in tinput[t]
                     PROVE  tbot[t] = b /\ (Live(t) \/ Closed(t))
          OBVIOUS
        <5>1. tbot[t] = b
          BY <4>3, <2>i DEF InputsOfRow
        <5>2. t <= lastTurn
          BY <5>1, RowNumbers, TurnRunnerAssumption
        <5>3. tstatus[t] # "none"
          BY <5>2, <2>i DEF InputsOfRow
        <5> QED BY <5>1, <5>3, <1>t DEF TurnStatus, Live, Closed
      <4>7. \A t \in TurnIds : i \in tinput[t] /\ t # o => t \in extras'[b] \/ Closed(t)
        BY <4>6, <2>3, <2>4
      <4> QED BY <3>1, <2>3, <4>3, <4>5, <4>7
    <3>2. CASE c # b
      BY <3>2, <2>3, <2>i DEF MergeIsAlone
    <3> QED BY <3>1, <3>2
  <2> QED BY <2>7, <2>8, <2>9 DEF OrderInv
<1> QED BY <1>2, <1>3

\* The carrier becomes running with all that was folded.  Whatever its status is by then, no
\* other row of its session ran and is still open, and no open row shares an input with it.
LEMMA OrderStart ==
    ASSUME IInv, CarryKept, OrderInv, NEW b \in Bots, startTurn(b)
    PROVE  OrderInv'
<1> DEFINE h == head[b]
<1>t. /\ tinput \in [TurnIds -> SUBSET TurnIds] /\ tstatus \in [TurnIds -> TurnStatus]
      /\ pc \in [Bots -> LoopPc] /\ carry \in [Bots -> SUBSET TurnIds]
      /\ executed \in SUBSET (TurnIds \X TurnIds)
  BY DEF IInv, TypeOK
<1>i. /\ InputsOfRow /\ ExecutedIsHeld /\ RunIsOldest /\ SharedIsClosed
      /\ MergeIsOldest /\ MergeIsAlone /\ ExecutedByOneTurn
  BY DEF OrderInv
<1>1. /\ pc[b] = "merge" /\ extras[b] = {} /\ pc' = [pc EXCEPT ![b] = "mark"]
      /\ tstatus' = [tstatus EXCEPT ![h] = "running"]
      /\ tinput' = [tinput EXCEPT ![h] = carry[b]]
      /\ executed' = executed \cup ({h} \X carry[b])
      /\ UNCHANGED <<tbot, lastTurn, head, carry, extras>>
  BY DEF startTurn, Goto, loops
<1>2. h \in TurnIds /\ tbot[h] = b /\ h <= lastTurn /\ b # NoBot
  <2>1. h \in TurnIds /\ tbot[h] = b
    BY <1>1 DEF IInv, LoopOwnsHead, Holding
  <2> QED BY <2>1, RowNumbers, TurnRunnerAssumption
<1> HIDE DEF h
<1>3. /\ tstatus'[h] = "running" /\ tinput'[h] = carry[b]
      /\ \A t \in TurnIds : t # h => tstatus'[t] = tstatus[t] /\ tinput'[t] = tinput[t]
  BY <1>1, <1>2, <1>t
<1>4. h \in carry[b]
  <2>1. tinput[h] \subseteq carry[b]
    BY <1>1 DEF CarryKept, CarryOf, h
  <2> QED BY <2>1, <1>2, <1>i DEF InputsOfRow
<1>5. /\ \A p \in executed' : p \in executed \/ (p[1] = h /\ p[2] \in carry[b])
      /\ \A p \in executed : p \in executed'
      /\ <<h, h>> \in executed' /\ <<h, h>>[1] = h
  BY <1>1, <1>4
<1>6. \A t : WasRun(t)' <=> WasRun(t) \/ t = h
  <2>1. \A t : WasRun(t)' => WasRun(t) \/ t = h
    BY <1>5 DEF WasRun
  <2>2. \A t : WasRun(t) => WasRun(t)'
    BY <1>5 DEF WasRun
  <2>3. \E p \in executed' : p[1] = h
    <3>1. <<h, h>> \in executed' /\ <<h, h>>[1] = h
      BY <1>5
    <3> QED BY <3>1, Zenon
  <2>4. \A t : t = h => WasRun(t)'
    BY <2>3 DEF WasRun
  <2> QED BY <2>1, <2>2, <2>4
<1>7. \A i \in carry[b] :
          /\ i <= lastTurn /\ tbot[i] = b
          /\ \A p \in executed : p[2] = i => p[1] = h
          /\ \A t \in TurnIds : i \in tinput[t] /\ t # h => Closed(t)
  BY <1>1, <1>i DEF MergeIsAlone, h
<1>8. \A u \in TurnIds : Live(u) /\ tbot[u] = b => h <= u /\ (WasRun(u) => u = h)
  BY <1>1, <1>i DEF MergeIsOldest, h
<1>9. InputsOfRow'
  <2> SUFFICES ASSUME NEW t \in TurnIds
               PROVE  /\ t > lastTurn => tinput'[t] = {}
                      /\ t <= lastTurn => t \in tinput'[t] /\ tstatus'[t] # "none"
                      /\ \A i \in tinput'[t] : i <= lastTurn /\ tbot[i] = tbot[t]
    BY <1>1 DEF InputsOfRow
  <2>1. CASE t = h
    <3>1. ~(h > lastTurn)
      BY <1>2, RowNumbers
    <3> QED BY <2>1, <3>1, <1>2, <1>3, <1>4, <1>7
  <2>2. CASE t # h
    BY <2>2, <1>3, <1>i DEF InputsOfRow
  <2> QED BY <2>1, <2>2
<1>10. ExecutedIsHeld'
  <2>1. ASSUME NEW p \in executed' PROVE p[2] \in tinput'[p[1]]
    <3>1. CASE p \in executed
      <4>1. p[1] \in TurnIds /\ p[2] \in tinput[p[1]]
        BY <3>1, <1>t, <1>i DEF ExecutedIsHeld
      <4>2. CASE p[1] = h
        BY <4>1, <4>2, <1>1, <1>3 DEF CarryKept, CarryOf, h
      <4>3. CASE p[1] # h
        BY <4>1, <4>3, <1>3
      <4> QED BY <4>2, <4>3
    <3>2. CASE p[1] = h /\ p[2] \in carry[b]
      BY <3>2, <1>3
    <3> QED BY <2>1, <3>1, <3>2, <1>5
  <2>2. ASSUME NEW t \in TurnIds, tstatus'[t] = "running" PROVE WasRun(t)'
    BY <2>2, <1>3, <1>6, <1>i DEF ExecutedIsHeld
  <2> QED BY <2>1, <2>2 DEF ExecutedIsHeld
<1>11. RunIsOldest'
  <2> SUFFICES ASSUME NEW t \in TurnIds, NEW u \in TurnIds, Live(t)', WasRun(t)', Live(u)',
                      tbot[t] = tbot[u]
               PROVE  t <= u
    BY <1>1 DEF RunIsOldest
  <2>1. CASE t # h /\ u # h
    BY <2>1, <1>3, <1>6, <1>i DEF RunIsOldest, Live
  <2>2. CASE t # h /\ u = h
    BY <2>2, <1>2, <1>3, <1>6, <1>8 DEF Live
  <2>3. CASE t = h /\ u # h
    BY <2>3, <1>2, <1>3, <1>8 DEF Live
  <2>4. CASE t = h /\ u = h
    BY <2>4, RowNumbers
  <2> QED BY <2>1, <2>2, <2>3, <2>4
<1>12. SharedIsClosed'
  <2> SUFFICES ASSUME NEW p \in executed', NEW t \in TurnIds, p[2] \in tinput'[t], t # p[1]
               PROVE  Closed(t)'
    BY DEF SharedIsClosed
  <2>1. CASE p \in executed
    <3>1. CASE t = h
      BY <2>1, <3>1, <1>3, <1>7
    <3>2. CASE t # h
      BY <2>1, <3>2, <1>3, <1>i DEF SharedIsClosed, Closed
    <3> QED BY <3>1, <3>2
  <2>2. CASE p[1] = h /\ p[2] \in carry[b]
    BY <2>2, <1>3, <1>7 DEF Closed
  <2> QED BY <2>1, <2>2, <1>5
<1>13. \A c \in Bots : pc'[c] = "merge" => c # b /\ pc[c] = "merge" /\ head[c] # h
  <2> SUFFICES ASSUME NEW c \in Bots, pc'[c] = "merge"
               PROVE  c # b /\ pc[c] = "merge" /\ head[c] # h
    OBVIOUS
  <2>1. c # b /\ pc[c] = "merge"
    BY <1>1, <1>t
  <2> QED BY <2>1, <1>2 DEF IInv, LoopOwnsHead, Holding
<1>14. MergeIsOldest'
  <2> SUFFICES ASSUME NEW c \in Bots, pc'[c] = "merge", NEW u \in TurnIds, Live(u)', tbot[u] = c
               PROVE  head[c] <= u /\ (WasRun(u)' => u = head[c])
    BY <1>1 DEF MergeIsOldest
  <2>1. u # h
    BY <1>2, <1>13
  <2> QED BY <2>1, <1>3, <1>6, <1>13, <1>i DEF MergeIsOldest, Live
<1>15. MergeIsAlone'
  <2> SUFFICES ASSUME NEW c \in Bots, pc'[c] = "merge", NEW i \in carry[c]
               PROVE  /\ i <= lastTurn /\ tbot[i] = c
                      /\ \A p \in executed' : p[2] = i => p[1] = head[c]
                      /\ \A t \in TurnIds : i \in tinput'[t] /\ t # head[c]
                              => t \in extras[c] \/ Closed(t)'
    BY <1>1 DEF MergeIsAlone
  <2>1. /\ i <= lastTurn /\ tbot[i] = c
        /\ \A p \in executed : p[2] = i => p[1] = head[c]
        /\ \A t \in TurnIds : i \in tinput[t] /\ t # head[c] => t \in extras[c] \/ Closed(t)
    BY <1>13, <1>i DEF MergeIsAlone
  <2>2. i \notin carry[b]
    BY <2>1, <1>7, <1>13
  <2>3. \A p \in executed' : p[2] = i => p[1] = head[c]
    BY <2>1, <2>2, <1>5
  <2>4. \A t \in TurnIds : i \in tinput'[t] /\ t # head[c] => t \in extras[c] \/ Closed(t)'
    BY <2>1, <2>2, <1>3 DEF Closed
  <2> QED BY <2>1, <2>3, <2>4
<1>16. ExecutedByOneTurn'
  <2> SUFFICES ASSUME NEW p \in executed', NEW r \in executed', p[2] = r[2] PROVE p[1] = r[1]
    BY DEF ExecutedByOneTurn
  <2>1. CASE p \in executed /\ r \in executed
    BY <2>1, <1>i DEF ExecutedByOneTurn
  <2>2. CASE p \in executed /\ r[1] = h /\ r[2] \in carry[b]
    BY <2>2, <1>7
  <2>3. CASE r \in executed /\ p[1] = h /\ p[2] \in carry[b]
    BY <2>3, <1>7
  <2> QED BY <2>1, <2>2, <2>3, <1>5
<1> QED BY <1>9, <1>10, <1>11, <1>12, <1>14, <1>15, <1>16 DEF OrderInv

LEMMA OrderLoop ==
    ASSUME IInv, RecoveryFirst, CarryKept, OrderInv, NEW b \in Bots, Loop(b)
    PROVE  OrderInv'
<1> USE DEF turnRows, loops, history, Goto
<1>t. /\ tstatus \in [TurnIds -> TurnStatus] /\ pc \in [Bots -> LoopPc]
      /\ head \in [Bots -> TurnIds \cup {0}] /\ carry \in [Bots -> SUBSET TurnIds]
      /\ extras \in [Bots -> SUBSET TurnIds] /\ LoopOwnsHead
  BY DEF IInv, TypeOK
<1>1. CASE foldQueue(b) BY <1>1, OrderFold
<1>2. CASE startTurn(b) BY <1>2, OrderStart
<1>3. CASE mergeExtra(b)
  <2> DEFINE x == Oldest(extras[b])
  <2>1. x \in extras[b] /\ x \in TurnIds /\ tbot[x] = b
    <3>1. x \in extras[b] /\ x \in TurnIds
      BY <1>3, <1>t, PickedRows DEF mergeExtra
    <3> QED BY <1>3, <1>t, <3>1 DEF mergeExtra, LoopOwnsHead, Holding
  <2>2. /\ tstatus' = [tstatus EXCEPT ![x] = "done"]
        /\ extras' = [extras EXCEPT ![b] = @ \ {x}]
        /\ UNCHANGED <<tbot, tinput, lastTurn, executed, pc, head, carry>>
    BY <1>3 DEF mergeExtra
  <2> HIDE DEF x
  <2>3. tstatus[x] # "none"
    <3>1. x <= lastTurn
      BY <2>1, RowNumbers, TurnRunnerAssumption
    <3> QED BY <2>1, <3>1 DEF OrderInv, InputsOfRow
  <2>4. tstatus'[x] = "done" /\ \A t \in TurnIds : t # x => tstatus'[t] = tstatus[t]
    BY <2>1, <2>2, <1>t
  <2>5. \A t \in TurnIds : tstatus'[t] = tstatus[t] \/ (tstatus[t] # "none" /\ Closed(t)')
    BY <2>3, <2>4 DEF Closed
  <2>6. \A c \in Bots : \A t \in extras[c] : t \in extras'[c] \/ Closed(t)'
    BY <2>2, <2>4, <1>t DEF Closed
  <2> QED BY <2>2, <2>5, <2>6, OrderFrame
<1>4. CASE endTurn(b)
  <2>1. /\ tstatus' \in {[tstatus EXCEPT ![head[b]] = s] : s \in {"done", "failed"}}
        /\ \E l \in {"inject", "look"} : pc' = [pc EXCEPT ![b] = l]
        /\ UNCHANGED <<tbot, tinput, lastTurn, executed, head, carry, extras>>
    BY <1>4 DEF endTurn
  <2>2. head[b] \in TurnIds /\ tbot[head[b]] = b
    BY <1>4, <1>t DEF endTurn, LoopOwnsHead, Holding
  <2>3. tstatus[head[b]] # "none"
    <3>1. head[b] <= lastTurn
      BY <2>2, RowNumbers, TurnRunnerAssumption
    <3> QED BY <2>2, <3>1 DEF OrderInv, InputsOfRow
  <2>4. \A t \in TurnIds : tstatus'[t] = tstatus[t] \/ (tstatus[t] # "none" /\ Closed(t)')
    BY <2>1, <2>2, <2>3, <1>t DEF Closed
  <2>5. \A c \in Bots : pc'[c] = "merge" => pc[c] = "merge"
    BY <2>1, <1>t
  <2> QED BY <2>1, <2>4, <2>5, OrderFrame
<1>5. CASE persistChiefTimeout(b)
  <2>1. /\ pc' = [pc EXCEPT ![b] = "look"]
        /\ UNCHANGED <<executed, head, carry, extras>>
    BY <1>5 DEF persistChiefTimeout
  <2>2. \A c \in Bots : pc'[c] = "merge" => pc[c] = "merge"
    BY <2>1, <1>t
  <2>3. CASE UNCHANGED turnRows
    BY <2>1, <2>2, <2>3, OrderFrame
  <2>4. CASE CreateTurn(b)
    BY <2>1, <2>2, <2>4, OrderCreate
  <2> QED BY <1>5, <2>3, <2>4 DEF persistChiefTimeout
<1>6. CASE parkOrIdle(b)
  <2>1. /\ pc' = [pc EXCEPT ![b] = "check"] /\ UNCHANGED <<tstatus, tbot, tinput, lastTurn,
                                                         executed, extras>>
        /\ head' = [head EXCEPT ![b] = 0] /\ carry' = [carry EXCEPT ![b] = {}]
    BY <1>6 DEF parkOrIdle
  <2>2. \A c \in Bots : pc'[c] = "merge" =>
            pc[c] = "merge" /\ head'[c] = head[c] /\ carry'[c] = carry[c]
    BY <2>1, <1>t
  <2> QED BY <2>1, <2>2, OrderFrame
<1>7. CASE loopWake(b) \/ runNext(b) \/ markRunning(b) \/ spawn(b) \/ noEngine(b)
           \/ engineExit(b) \/ hasPendingQuestion(b)
  <2>1. /\ UNCHANGED <<tstatus, tbot, tinput, lastTurn, executed, head, carry, extras>>
        /\ \E l \in LoopPc \ {"merge"} : pc' = [pc EXCEPT ![b] = l]
    BY <1>7 DEF loopWake, runNext, markRunning, spawn, noEngine, engineExit, hasPendingQuestion,
       LoopPc
  <2>2. \A c \in Bots : pc'[c] = "merge" => pc[c] = "merge"
    BY <2>1, <1>t
  <2> QED BY <2>1, <2>2, OrderFrame
<1> QED BY <1>1, <1>2, <1>3, <1>4, <1>5, <1>6, <1>7 DEF Loop

LEMMA OrderRest ==
    ASSUME IInv, OrderInv,
           (\E h \in Handlers : Finish(h)) \/ Owner \/ Machine \/ Recovery \/ crash
    PROVE  OrderInv'
<1> USE DEF turnRows, loops, history
<1>t. tstatus \in [TurnIds -> TurnStatus]
  BY DEF IInv, TypeOK
<1>f. ASSUME UNCHANGED <<tbot, tinput, lastTurn, executed, head, carry, extras>>,
             \A t \in TurnIds : \/ tstatus'[t] = tstatus[t]
                                \/ tstatus[t] # "none" /\ Closed(t)'
                                \/ tstatus[t] = "running" /\ tstatus'[t] = "queued",
             \A c \in Bots : pc'[c] = "merge" => pc[c] = "merge"
      PROVE  OrderInv'
  BY <1>f, OrderFrame
<1>d. ASSUME NEW c, FailQueued(c), UNCHANGED loops PROVE OrderInv'
  BY <1>d, <1>f DEF FailQueued, QueuedOf, Closed
<1>1. ASSUME NEW h \in Handlers, Finish(h) PROVE OrderInv'
  <2>1. CASE Enqueue(h)
    BY <2>1, OrderCreate DEF Enqueue, IInv, TypeOK
  <2>2. CASE enqueueKick(h)
    BY <2>2, <1>f DEF enqueueKick, kick
  <2>3. CASE stopDropQueue(h) \/ archiveDropQueue(h)
    BY <2>3, <1>d DEF stopDropQueue, archiveDropQueue
  <2>4. CASE answerQuestion(h) \/ clearWaiting(h) \/ stopSetIdle(h)
    BY <2>4, <1>f DEF answerQuestion, clearWaiting, stopSetIdle
  <2> QED BY <1>1, <2>1, <2>2, <2>3, <2>4 DEF Finish
<1>2. CASE Owner \/ Machine
  BY <1>2, <1>f DEF Owner, Machine, deliver, handleCallback, Stop, rpcSend, rpcAnswer,
     unarchiveBotRow, machineInput, routineWorkerBot, askOwner, chiefTimeout, archiveBotRow
<1>3. CASE Recovery
  <2>1. CASE listInterrupted \/ resetBots \/ armQueues
    BY <2>1, <1>f DEF listInterrupted, resetBots, armQueues, kick
  <2>2. ASSUME NEW t \in TurnIds, requeueInterruptedTurn(t) PROVE OrderInv'
    <3>1. UNCHANGED <<tbot, tinput, lastTurn, executed, pc, head, carry, extras>>
      BY <2>2 DEF requeueInterruptedTurn
    <3>2. \A u \in TurnIds : \/ tstatus'[u] = tstatus[u]
                             \/ tstatus[u] = "running" /\ tstatus'[u] \in {"queued", "failed"}
      BY <2>2, <1>t DEF requeueInterruptedTurn
    <3>3. \A u \in TurnIds : \/ tstatus'[u] = tstatus[u]
                             \/ tstatus[u] # "none" /\ Closed(u)'
                             \/ tstatus[u] = "running" /\ tstatus'[u] = "queued"
      BY <3>2 DEF Closed
    <3> QED BY <3>1, <3>3, <1>f
  <2> QED BY <1>3, <2>1, <2>2 DEF Recovery
<1>4. CASE crash
  <2>1. /\ UNCHANGED <<tstatus, tbot, tinput, lastTurn, executed>>
        /\ \A c \in Bots : pc'[c] # "merge"
    BY <1>4 DEF crash
  <2> QED BY <2>1, OrderFrame
<1> QED BY <1>1, <1>2, <1>3, <1>4

LEMMA OrderAlways ==
    ASSUME Phone \notin Handlers
    PROVE  Spec => [](IInv /\ OrderInv)
<1>1. Init => RecoveryFirst /\ OrderInv
  <2> SUFFICES ASSUME Init PROVE RecoveryFirst /\ OrderInv
    OBVIOUS
  <2>1. \A t \in TurnIds : t > 0 /\ ~(t <= 0)
    BY TurnRunnerAssumption DEF TurnIds
  <2> QED BY <2>1 DEF Init, RecoveryFirst, OrderInv, InputsOfRow, ExecutedIsHeld, RunIsOldest,
        SharedIsClosed, MergeIsOldest, MergeIsAlone, ExecutedByOneTurn, Live
<1>2. IInv /\ RecoveryFirst /\ [Next]_vars => RecoveryFirst'
  BY RecoveryIsFirst
<1>3. IInv /\ RecoveryFirst /\ CarryKept /\ OrderInv /\ [Next]_vars => OrderInv'
  <2> SUFFICES ASSUME IInv, RecoveryFirst, CarryKept, OrderInv, [Next]_vars PROVE OrderInv'
    OBVIOUS
  <2>1. CASE Next
    BY <2>1, OrderLoop, OrderRest DEF Next
  <2>2. CASE UNCHANGED vars
    BY <2>2, OrderFrame DEF vars, turnRows, loops, history
  <2> QED BY <2>1, <2>2
<1> QED BY <1>1, <1>2, <1>3, InductiveInvariant, CarryAlways, PTL DEF Spec

\* Without the phone no session has two rows marked running, in the middle of a recovery either:
\* a running row ran, and of the rows that ran only the oldest of a session may still be open.
THEOREM OneRuns ==
    ASSUME Phone \notin Handlers
    PROVE  Spec => []OneRunningTurn
<1>1. IInv /\ OrderInv => OneRunningTurn
  <2> SUFFICES ASSUME IInv, OrderInv, NEW t \in TurnIds, NEW u \in TurnIds,
                      tstatus[t] = "running", tstatus[u] = "running", tbot[t] = tbot[u]
               PROVE  t = u
    BY DEF OneRunningTurn
  <2>1. t <= u /\ u <= t
    BY DEF OrderInv, ExecutedIsHeld, RunIsOldest, Live
  <2> QED BY <2>1, RowNumbers
<1> QED BY <1>1, OrderAlways, PTL

\* Without the phone a running row is older than everything its session has queued: an
\* interrupted turn is retried before what came in while it ran.
THEOREM RunningFirst ==
    ASSUME Phone \notin Handlers
    PROVE  Spec => []RunningIsOldest
<1>1. IInv /\ OrderInv => RunningIsOldest
  <2> SUFFICES ASSUME IInv, OrderInv, NEW t \in TurnIds, NEW u \in TurnIds,
                      tstatus[t] = "running", tstatus[u] = "queued", tbot[t] = tbot[u]
               PROVE  t < u
    BY DEF RunningIsOldest
  <2>1. t <= u /\ t # u
    BY DEF OrderInv, ExecutedIsHeld, RunIsOldest, Live
  <2> QED BY <2>1, RowNumbers
<1> QED BY <1>1, OrderAlways, PTL

\* Without the phone an input that was handed to an engine under one row never runs under another:
\* the rows that were merged are closed before the carrier starts, and the carrier keeps their
\* inputs through every retry and restart.
THEOREM RunsUnderOneTurn ==
    ASSUME Phone \notin Handlers
    PROVE  Spec => []ExecutedByOneTurn
<1>1. OrderInv => ExecutedByOneTurn
  BY DEF OrderInv
<1> QED BY <1>1, OrderAlways, PTL
=============================================================================
