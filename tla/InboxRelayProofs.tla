--------------------------- MODULE InboxRelayProofs ---------------------------
(***************************************************************************)
(* What InboxRelay keeps for any number of workers, turns, messages and    *)
(* crashes: types, no message delivered twice, no report made twice, no    *)
(* marked report unheard and no request handed over twice or not at all.   *)
(*                                                                         *)
(* Each property is the tip of a layer of the inductive invariant:         *)
(* TypeInv (rows and locals), DeliveryInv (whose message an actor may      *)
(* hold), ReportInv (a called report_to_general is still pending),         *)
(* LabelInv (the label of a report leads to the turn that has its text)    *)
(* and HandoffInv (what the counters of the hand-off window say).          *)
(***************************************************************************)
EXTENDS InboxRelay, FiniteSetTheorems, WellFoundedInduction, TLAPS

-----------------------------------------------------------------------------
(* The invariants.                                                           *)

Executing == {"merge", "relabel", "run", "handoff", "notice", "report", "list"}

\* Rows are numbered in the order of their creation, and an unused row is blank.
RowsInOrder ==
    \A t \in TurnIds :
        IF t <= lastTurn THEN tstatus[t] # "none" /\ tbot[t] \in Sessions
                         ELSE tstatus[t] = "none" /\ t \notin tuser \cup late /\ handed[t] = 0

InboxInOrder ==
    \A m \in Messages :
        IF m \in Sent
        THEN /\ mfrom[m] \in Sessions /\ mto[m] \in Sessions
             /\ relay[m] => mfrom[m] \in Workers /\ mto[m] = General
        ELSE ~relay[m] /\ ~delivered[m] /\ copies[m] = 0

PlacesOf(a) ==
    IF a = Boot THEN {"requeue", "list", "deliver", "mark", "arm", "idle"}
    ELSE IF a = Scheduler THEN {"idle", "deliver", "mark"}
    ELSE {"absent", "idle", "again", "merge", "relabel", "run", "report", "list", "deliver", "mark"}
            \cup (IF a = General THEN {"handoff", "notice"} ELSE {})

PlacesOfActors == \A a \in Actors : pc[a] \in PlacesOf(a)

\* The notice is for General.
NoticeIsGenerals ==
    /\ \A t \in TurnIds : Notice \in tmsgs[t] => tbot[t] = General
    /\ \A w \in Workers : Notice \notin carry[w]

\* A loop's locals are rows of its own session.
LocalsOfLoop ==
    \A b \in Sessions :
        /\ pc[b] \in Executing =>
              head[b] \in TurnIds /\ head[b] <= lastTurn /\ tbot[head[b]] = b
        /\ extras[b] # {} => pc[b] \in {"merge", "relabel"}
        /\ pc[b] = "relabel" => extras[b] # {}
        /\ \A t \in extras[b] : t <= lastTurn /\ tbot[t] = b /\ head[b] < t

\* A loop delivers what its session sent, the scheduler the reminder it made.
Delivers(a, m) ==
    /\ a \in Sessions => mfrom[m] = a
    /\ a = Scheduler => ~relay[m] /\ mfrom[m] \in Workers

DeliveryOf(a) ==
    /\ todo[a] \subseteq Sent
    /\ todo[a] # {} => pc[a] \in {"deliver", "mark"}
    /\ pc[a] = "deliver" => todo[a] # {}
    /\ IF pc[a] = "mark"
       THEN /\ item[a][1] \in Sent /\ item[a][1] \notin todo[a]
            /\ item[a][2] \in TurnIds /\ item[a][2] <= lastTurn
            /\ Delivers(a, item[a][1])
       ELSE item[a] = <<0, 0>>
    /\ \A m \in todo[a] : Delivers(a, m)

LocalsOfDelivery == \A a \in Actors : DeliveryOf(a)

TypeInv ==
    /\ TypeOK /\ RowsInOrder /\ InboxInOrder /\ PlacesOfActors /\ NoticeIsGenerals
    /\ LocalsOfLoop /\ LocalsOfDelivery

\* Before the boot pass has armed the queues of a first start there is nothing at all.
NothingBeforeBoot ==
    pc[Boot] # "idle" =>
        /\ lastTurn = 0 /\ lastMsg = 0
        /\ pc[Boot] \in {"requeue", "list", "arm"} /\ pc[Scheduler] = "idle"
        /\ \A b \in Sessions : pc[b] = "absent"

\* What an instruction's or a report's one delivery has come to.
Covered(m) == relay[m] \/ mfrom[m] = General

CopiesCounted ==
    \A m \in Sent : Covered(m) =>
        /\ copies[m] \in {0, 1}
        /\ copies[m] = 1 => delivered[m] \/ item[mfrom[m]][1] = m
        /\ m \in todo[mfrom[m]] => copies[m] = 0

DeliveryInv == crashes = 0 => NothingBeforeBoot /\ CopiesCounted

\* Until the boot pass has listed the inbox, nobody else is at work.
QuietBeforeList ==
    pc[Boot] \in {"requeue", "list"} =>
        pc[Scheduler] = "idle" /\ \A b \in Sessions : pc[b] = "absent"

\* A report made in this turn is pending and nobody else is about to mark it.
ReportIsPending ==
    \A w \in Workers : reported[w] /\ pc[w] \in {"run", "report"} =>
        \E m \in Sent : /\ mfrom[m] = w /\ mto[m] = General /\ relay[m] /\ ~delivered[m]
                        /\ m \notin todo[Boot] /\ item[Boot][1] # m

ReportInv == QuietBeforeList /\ ReportIsPending

\* General's rows while its loop has them.
InFold(t) == pc[General] \in {"merge", "relabel"} /\ t \in extras[General] \cup {head[General]}

FoldedRows ==
    /\ pc[General] \in {"merge", "relabel"} => tstatus[head[General]] = "queued"
    /\ pc[General] = "run" => tstatus[head[General]] = "running"
    /\ pc[General] = "relabel" => tstatus[Oldest(extras[General])] = "ended"
    /\ \A t \in TurnIds : tbot[t] = General /\ tstatus[t] = "running" =>
          pc[General] = "run" /\ t = head[General]

\* Turn t has or is to have the text of message m in its input.
Held(m, t) ==
    /\ t \in TurnIds /\ t <= lastTurn /\ tbot[t] = General
    /\ tstatus[t] = "queued" => IF InFold(t) THEN m \in carry[General] ELSE m \in tmsgs[t]
    /\ tstatus[t] = "running" => m \in carry[General]

\* The turn of a label has ended, and its end is still to reach the owner or the label the head.
Ending(m, t) ==
    /\ m \in carry[General]
    /\ \/ pc[General] = "relabel" /\ t = Oldest(extras[General])
       \/ pc[General] \in {"handoff", "notice", "report"} /\ t = head[General]

LabelsLead ==
    \A m \in Sent : relay[m] /\ delivered[m] /\ m \notin heard \cup raced =>
        /\ Held(m, mturn[m])
        /\ tstatus[mturn[m]] = "ended" => Ending(m, mturn[m])

ItemsLead ==
    \A a \in Actors : pc[a] = "mark" /\ relay[item[a][1]] => Held(item[a][1], item[a][2])

LabelInv == crashes = 0 => FoldedRows /\ LabelsLead /\ ItemsLead

\* General's messages so far.
Written == MessagesOf(General)

CountersBehind ==
    /\ Written <= lastMsg
    /\ \A t \in TurnIds : tcreated[t] <= Written /\ tstarted[t] <= Written

\* The head is the oldest of General's rows; what timed out is older still.
HeadIsOldest ==
    /\ pc[General] \in {"merge", "relabel", "run", "handoff", "notice"} =>
          \A t \in QueuedOf(General) : head[General] <= t
    /\ \A o \in late :
          /\ tbot[o] = General /\ tstatus[o] = "ended"
          /\ \A t \in QueuedOf(General) : o < t
          /\ pc[General] \in {"merge", "relabel", "run"} => o < head[General]
          /\ pc[General] \in {"handoff", "notice"} => o <= head[General]

HeadHoldsCarry ==
    /\ pc[General] \in {"run", "handoff", "notice"} =>
          tmsgs[head[General]] = carry[General]
    /\ pc[General] \in {"handoff", "notice"} =>
          Notice \in carry[General] \/ head[General] \in late
    /\ pc[General] = "notice" => Notice \notin carry[General] /\ head[General] \in tuser

NoticeQueued == \E t \in QueuedOf(General) : ~InFold(t) /\ Notice \in tmsgs[t]

\* There is one notice at a time: none is queued while a turn that may make one goes on.
OneNotice ==
    pc[General] \in {"merge", "relabel", "run", "handoff", "notice"} => ~NoticeQueued

\* Some turn still has to look at the request o because of a notice.
NoticeLives ==
    \/ pc[General] = "notice" \/ NoticeQueued
    \/ Notice \in carry[General] /\ pc[General] \in {"merge", "relabel", "run", "handoff"}

\* The last time-out but for the turn the notice is in: General had written nothing by its end,
\* or has written since its start.
Asked(o) ==
    /\ o \in tuser /\ Notice \notin tmsgs[o]
    /\ \A p \in late : p <= o \/ (pc[General] = "handoff" /\ p = head[General])
    /\ Written <= tcreated[o] \/ Written > tstarted[o]
    /\ pc[General] = "handoff" => o < head[General]

NoticeIsOfLate == NoticeLives => \E o \in late : Asked(o)

\* What ccc handed over was queued before General's last message.
HandedIsCounted ==
    \A v \in TurnIds :
        /\ handed[v] \in {0, 1}
        /\ handed[v] = 1 => \A u \in tuser : u <= v => tcreated[u] < Written

LateIsHanded ==
    \A t \in late \cap tuser :
        \/ handed[t] = 1 \/ refused \/ Written > tcreated[t] \/ Notice \in tmsgs[t]
        \/ pc[General] = "handoff" /\ t = head[General]

NoticeInv == HeadIsOldest /\ HeadHoldsCarry /\ OneNotice /\ NoticeIsOfLate

HandoffInv == crashes = 0 => CountersBehind /\ NoticeInv /\ HandedIsCounted /\ LateIsHanded
-----------------------------------------------------------------------------
(* Choices and counts.                                                       *)

\* Oldest picks the least of some numbers.
LEMMA OldestIsLeast ==
    ASSUME NEW S \in SUBSET Nat, S # {}
    PROVE  Oldest(S) \in S /\ \A y \in S : Oldest(S) <= y
<1> DEFINE R == OpToRel(<, Nat)
<1>1. PICK x \in S : \A y \in S : <<y, x>> \notin R
  <2> HIDE DEF R
  <2>1. IsWellFoundedOn(R, Nat)
    BY NatLessThanWellFounded DEF R
  <2> QED BY <2>1, WFMin
<1>2. \A y \in S : ~(y < x)
  BY <1>1 DEF OpToRel
<1>3. \A y \in S : x <= y
  <2> TAKE y \in S
  <2>1. x \in Nat /\ y \in Nat /\ ~(y < x)
    BY <1>2
  <2> QED BY <2>1
<1> QED BY <1>3 DEF Oldest

\* Some rows have a latest one.
LEMMA SomeIsLatest ==
    ASSUME NEW S \in SUBSET TurnIds, S # {}
    PROVE  \E x \in S : \A y \in S : y <= x
<1> DEFINE T == {n \in Nat : \A s \in S : s <= n}
<1>1. T \in SUBSET Nat /\ T # {}
  <2>1. MaxTurns \in T
    BY InboxAssumption DEF TurnIds
  <2> QED BY <2>1
<1>2. Oldest(T) \in T /\ \A n \in T : Oldest(T) <= n
  <2> HIDE DEF T
  <2> QED BY <1>1, OldestIsLeast
<1> DEFINE m == Oldest(T)
<1>3. m \in S
  <2> SUFFICES ASSUME m \notin S PROVE FALSE
    OBVIOUS
  <2>1. m \in Nat /\ \A s \in S : s <= m
    BY <1>2
  <2>2. PICK s \in S : TRUE
    OBVIOUS
  <2>3. \A x \in S : x \in Nat /\ x >= 1 /\ x <= m - 1
    <3> HIDE DEF m
    <3> QED BY <2>1 DEF TurnIds
  <2>4. m - 1 \in Nat
    <3>1. s \in Nat /\ s >= 1 /\ s <= m - 1
      BY <2>3
    <3> HIDE DEF m
    <3> QED BY <2>1, <3>1
  <2>5. m - 1 \in T
    BY <2>3, <2>4
  <2>6. m <= m - 1
    BY <1>2, <2>5
  <2> HIDE DEF m
  <2> QED BY <2>1, <2>6
<1> QED BY <1>2, <1>3

\* The messages of a session are some of those there are.
LEMMA CountIsBounded ==
    ASSUME lastMsg \in 0..MaxMessages, NEW b
    PROVE  /\ IsFiniteSet({m \in Sent : mfrom[m] = b})
           /\ MessagesOf(b) \in Nat /\ MessagesOf(b) <= lastMsg
           /\ MessagesOf(b) \in 0..MaxMessages
<1>1. lastMsg \in Int /\ lastMsg >= 0 /\ lastMsg <= MaxMessages
  BY InboxAssumption
<1>2. IsFiniteSet(Sent) /\ Cardinality(Sent) = lastMsg
  <2>1. IsFiniteSet(1..lastMsg) /\ Cardinality(1..lastMsg) = IF 1 > lastMsg THEN 0 ELSE lastMsg - 1 + 1
    BY <1>1, FS_Interval
  <2> QED BY <1>1, <2>1 DEF Sent
<1> DEFINE S == {m \in Sent : mfrom[m] = b}
<1>3. IsFiniteSet(S) /\ Cardinality(S) <= Cardinality(Sent)
  <2>1. S \in SUBSET Sent
    OBVIOUS
  <2> HIDE DEF S
  <2> QED BY <1>2, <2>1, FS_Subset
<1>4. Cardinality(S) \in Nat
  <2> HIDE DEF S
  <2> QED BY <1>3, FS_CardinalityType
<1>5. MessagesOf(b) = Cardinality(S)
  BY DEF MessagesOf
<1> HIDE DEF S
<1> QED BY <1>1, <1>2, <1>3, <1>4, <1>5, InboxAssumption DEF S

\* A new message is one more of its sender's.
LEMMA CountGrows ==
    ASSUME TypeOK, NEW f, NEW t, NEW r, enqueueBotMessage(f, t, r), NEW b
    PROVE  MessagesOf(b)' = IF f = b THEN MessagesOf(b) + 1 ELSE MessagesOf(b)
<1> DEFINE S == {m \in Sent : mfrom[m] = b}
           P == {m \in 1..(lastMsg + 1) : mfrom'[m] = b}
<1>1. lastMsg \in 0..MaxMessages /\ lastMsg' = lastMsg + 1 /\ lastMsg + 1 \in Messages
  BY InboxAssumption DEF TypeOK, enqueueBotMessage, Messages
<1>2. \A m \in Messages : mfrom'[m] = IF m = lastMsg + 1 THEN f ELSE mfrom[m]
  BY DEF TypeOK, enqueueBotMessage
<1>3. Sent \subseteq Messages /\ lastMsg + 1 \notin Sent /\ 1..(lastMsg + 1) = Sent \cup {lastMsg + 1}
  BY <1>1, InboxAssumption DEF Sent, Messages
<1>4. P = IF f = b THEN S \cup {lastMsg + 1} ELSE S
  <2>1. \A m \in Sent : m # lastMsg + 1 /\ m \in Messages
    BY <1>3
  <2>2. \A m \in Sent : mfrom'[m] = mfrom[m]
    BY <1>2, <2>1
  <2>3. mfrom'[lastMsg + 1] = f
    BY <1>1, <1>2
  <2> QED BY <1>3, <2>2, <2>3
<1>5. IsFiniteSet(S) /\ Cardinality(S) = MessagesOf(b) /\ lastMsg + 1 \notin S
  BY <1>1, <1>3, CountIsBounded DEF MessagesOf
<1>6. Cardinality(S \cup {lastMsg + 1}) = Cardinality(S) + 1
  <2> HIDE DEF S, P
  <2> QED BY <1>5, FS_AddElement
<1>7. MessagesOf(b)' = Cardinality(P)
  BY <1>1 DEF MessagesOf, Sent
<1> HIDE DEF S, P
<1> QED BY <1>4, <1>5, <1>6, <1>7

LEMMA CountStands ==
    ASSUME UNCHANGED <<mfrom, lastMsg>>, NEW b
    PROVE  MessagesOf(b)' = MessagesOf(b)
BY DEF MessagesOf, Sent
-----------------------------------------------------------------------------
(* Types and locals.                                                         *)

LEMMA Kinds ==
    /\ General \in Sessions /\ Workers \subseteq Sessions /\ Sessions = Workers \cup {General}
    /\ General \notin Workers /\ None \notin Sessions
    /\ Sessions \subseteq Actors /\ Boot \in Actors /\ Scheduler \in Actors
    /\ Boot \notin Sessions /\ Scheduler \notin Sessions /\ Boot # Scheduler
    /\ \A a \in Actors : a \in Sessions \/ a = Boot \/ a = Scheduler
BY InboxAssumption DEF Sessions, Actors

\* What a new row of turns and a new row of inbox change.
LEMMA TurnCreated ==
    ASSUME TypeInv, NEW b \in Sessions, NEW S \in SUBSET (Messages \cup {Notice}), CreateTurn(b, S)
    PROVE  /\ lastTurn \in Nat /\ lastTurn + 1 \in TurnIds /\ lastTurn' = lastTurn + 1
           /\ lastTurn' \in 0..MaxTurns
           /\ tstatus' \in [TurnIds -> {"none", "queued", "running", "ended"}]
           /\ tbot' \in [TurnIds -> Sessions \cup {None}]
           /\ tmsgs' \in [TurnIds -> SUBSET (Messages \cup {Notice})]
           /\ tcreated' \in [TurnIds -> 0..MaxMessages]
           /\ tstatus'[lastTurn + 1] = "queued" /\ tbot'[lastTurn + 1] = b
           /\ tmsgs'[lastTurn + 1] = S
           /\ tcreated'[lastTurn + 1] = IF b = General THEN MessagesOf(General) ELSE 0
           /\ \A t \in TurnIds : t # lastTurn + 1 =>
                 /\ tstatus'[t] = tstatus[t] /\ tbot'[t] = tbot[t] /\ tmsgs'[t] = tmsgs[t]
                 /\ tcreated'[t] = tcreated[t]
           /\ UNCHANGED <<tstarted, late>>
<1>1. lastTurn \in Nat /\ lastTurn + 1 \in TurnIds /\ lastTurn' = lastTurn + 1
      /\ lastTurn' \in 0..MaxTurns
  BY InboxAssumption DEF TypeInv, TypeOK, CreateTurn, TurnIds
<1>2. MessagesOf(b) \in 0..MaxMessages /\ 0 \in 0..MaxMessages
  <2>1. lastMsg \in 0..MaxMessages
    BY DEF TypeInv, TypeOK
  <2>2. MessagesOf(b) \in 0..MaxMessages
    BY <2>1, CountIsBounded
  <2> QED BY <2>2, InboxAssumption
<1> QED BY <1>1, <1>2 DEF TypeInv, TypeOK, CreateTurn

LEMMA MessageAdded ==
    ASSUME TypeInv, NEW f \in Sessions, NEW t \in Sessions, NEW r \in BOOLEAN,
           enqueueBotMessage(f, t, r)
    PROVE  /\ lastMsg \in Nat /\ lastMsg + 1 \in Messages /\ lastMsg' = lastMsg + 1
           /\ lastMsg' \in 0..MaxMessages
           /\ mfrom' \in [Messages -> Sessions \cup {None}]
           /\ mto' \in [Messages -> Sessions \cup {None}]
           /\ relay' \in [Messages -> BOOLEAN]
           /\ mfrom'[lastMsg + 1] = f /\ mto'[lastMsg + 1] = t /\ relay'[lastMsg + 1] = r
           /\ Sent' = Sent \cup {lastMsg + 1} /\ lastMsg + 1 \notin Sent /\ Sent \subseteq Messages
           /\ \A m \in Messages : m # lastMsg + 1 =>
                 mfrom'[m] = mfrom[m] /\ mto'[m] = mto[m] /\ relay'[m] = relay[m]
           /\ ~delivered[lastMsg + 1] /\ copies[lastMsg + 1] = 0
           /\ UNCHANGED <<delivered, mturn>>
<1>1. /\ lastMsg \in Nat /\ lastMsg + 1 \in Messages /\ lastMsg' = lastMsg + 1
      /\ lastMsg' \in 0..MaxMessages
      /\ Sent' = Sent \cup {lastMsg + 1} /\ lastMsg + 1 \notin Sent /\ Sent \subseteq Messages
  BY InboxAssumption DEF TypeInv, TypeOK, enqueueBotMessage, Messages, Sent
<1>2. ~delivered[lastMsg + 1] /\ copies[lastMsg + 1] = 0
  BY <1>1 DEF TypeInv, InboxInOrder
<1> QED BY <1>1, <1>2 DEF TypeInv, TypeOK, enqueueBotMessage

LEMMA TypesAtStart == Init => TypeInv
<1> SUFFICES ASSUME Init PROVE TypeInv
  OBVIOUS
<1> USE InboxAssumption
<1>1. TypeOK
  <2>1. /\ pc \in [Actors -> {"absent", "idle", "requeue"}] /\ "mute" \in Outcomes
        /\ item \in [Actors -> (Messages \cup {0}) \X (TurnIds \cup {0})]
        /\ todo \in [Actors -> SUBSET Messages]
    BY DEF Init, Resting, Outcomes
  <2>2. /\ 0 \in 0..MaxMessages /\ 0 \in 0..MaxTurns /\ 0 \in 0..MaxInputs /\ 0 \in 0..MaxCrashes
        /\ 0 \in Nat
    OBVIOUS
  <2> QED BY <2>1, <2>2 DEF Init, TypeOK
<1>2. RowsInOrder
  BY DEF Init, RowsInOrder, TurnIds
<1>3. InboxInOrder
  BY DEF Init, InboxInOrder, Sent
<1>4. PlacesOfActors
  BY Kinds DEF Init, PlacesOfActors, PlacesOf, Resting
<1>5. LocalsOfLoop /\ LocalsOfDelivery
  BY Kinds DEF Init, LocalsOfLoop, LocalsOfDelivery, DeliveryOf, Resting, Executing
<1>6. NoticeIsGenerals
  BY Kinds DEF Init, NoticeIsGenerals
<1> QED BY <1>1, <1>2, <1>3, <1>4, <1>5, <1>6 DEF TypeInv

\* The rows of a session that are queued, and the loop's choice among them.
LEMMA QueuedRows ==
    ASSUME TypeInv, NEW b
    PROVE  /\ QueuedOf(b) \in SUBSET Nat /\ QueuedOf(b) \subseteq TurnIds
           /\ \A t \in QueuedOf(b) : t <= lastTurn /\ tbot[t] = b /\ tstatus[t] = "queued"
           /\ QueuedOf(b) # {} => /\ Oldest(QueuedOf(b)) \in QueuedOf(b)
                                  /\ \A t \in QueuedOf(b) : Oldest(QueuedOf(b)) <= t
<1>1. QueuedOf(b) \in SUBSET Nat /\ QueuedOf(b) \subseteq TurnIds
  BY DEF QueuedOf, TurnIds
<1>2. \A t \in QueuedOf(b) : t <= lastTurn /\ tbot[t] = b /\ tstatus[t] = "queued"
  BY DEF QueuedOf, TypeInv, RowsInOrder
<1> QED BY <1>1, <1>2, OldestIsLeast

LEMMA OldestExtra ==
    ASSUME TypeInv, NEW b \in Sessions, extras[b] # {}
    PROVE  /\ Oldest(extras[b]) \in extras[b] /\ Oldest(extras[b]) \in TurnIds
           /\ \A t \in extras[b] : Oldest(extras[b]) <= t
<1>1. extras[b] \in SUBSET TurnIds /\ TurnIds \subseteq Nat
  BY DEF TypeInv, TypeOK, TurnIds
<1> QED BY <1>1, OldestIsLeast

LEMMA OldestTodo ==
    ASSUME TypeInv, NEW a \in Actors, pc[a] = "deliver"
    PROVE  /\ Oldest(todo[a]) \in todo[a] /\ Oldest(todo[a]) \in Sent
           /\ Oldest(todo[a]) \in Messages
           /\ mto[Oldest(todo[a])] \in Sessions /\ mfrom[Oldest(todo[a])] \in Sessions
           /\ Delivers(a, Oldest(todo[a]))
<1>1. todo[a] \in SUBSET Messages /\ todo[a] # {} /\ Messages \subseteq Nat /\ todo[a] \subseteq Sent
  BY DEF TypeInv, TypeOK, LocalsOfDelivery, DeliveryOf, Messages
<1>2. Oldest(todo[a]) \in todo[a]
  BY <1>1, OldestIsLeast
<1> QED BY <1>1, <1>2 DEF TypeInv, InboxInOrder, LocalsOfDelivery, DeliveryOf

LEMMA TypesOfLoop ==
    ASSUME TypeInv, NEW b \in Sessions,
           \/ Enqueue(b) \/ foldQueue(b) \/ mergeExtra(b) \/ relabel(b) \/ startTurn(b) \/ endTurn(b)
    PROVE  TypeOK'
<1> USE InboxAssumption, Kinds
    DEF TypeInv, TypeOK, marks, turnRows, inbox, loops, deliveries, history, Goto
<1>1. CASE Enqueue(b)
  <2>1. inputs' \in 0..MaxInputs
    BY <1>1 DEF Enqueue
  <2>2. CreateTurn(b, {}) /\ {} \in SUBSET (Messages \cup {Notice})
    BY <1>1 DEF Enqueue
  <2>3. tuser' \subseteq TurnIds
    BY <1>1, <2>2, TurnCreated DEF Enqueue
  <2>4. pc' = [pc EXCEPT ![b] = IF @ = "absent" THEN "idle" ELSE @]
        /\ wake' = [wake EXCEPT ![b] = TRUE]
        /\ UNCHANGED <<inbox, loops, deliveries, crashes, history>>
    BY <1>1 DEF Enqueue
  <2> QED BY <2>1, <2>2, <2>3, <2>4, TurnCreated
<1>2. CASE foldQueue(b)
  <2>1. QueuedOf(b) # {} => Oldest(QueuedOf(b)) \in TurnIds
    BY QueuedRows
  <2>2. UNION {tmsgs[t] : t \in QueuedOf(b)} \in SUBSET (Messages \cup {Notice})
    BY DEF QueuedOf
  <2>3. QueuedOf(b) \subseteq TurnIds
    BY QueuedRows
  <2>4. wake' \in [Sessions -> BOOLEAN]
    BY <1>2 DEF foldQueue
  <2>5. CASE QueuedOf(b) = {}
    <3>1. pc' = [pc EXCEPT ![b] = "idle"] /\ UNCHANGED <<head, carry, extras>>
      BY <1>2, <2>5 DEF foldQueue
    <3> QED BY <1>2, <2>4, <3>1 DEF foldQueue
  <2>6. CASE QueuedOf(b) # {}
    <3> DEFINE o == Oldest(QueuedOf(b))
               c == UNION {tmsgs[t] : t \in QueuedOf(b)}
               x == QueuedOf(b) \ {o}
    <3>1. /\ pc' = [pc EXCEPT ![b] = "merge"]
          /\ head' = [head EXCEPT ![b] = o] /\ carry' = [carry EXCEPT ![b] = c]
          /\ extras' = [extras EXCEPT ![b] = x]
      BY <1>2, <2>6 DEF foldQueue
    <3>2. o \in TurnIds /\ c \in SUBSET (Messages \cup {Notice}) /\ x \in SUBSET TurnIds
      BY <2>1, <2>2, <2>3, <2>6
    <3> HIDE DEF o, c, x
    <3> QED BY <1>2, <2>4, <3>1, <3>2 DEF foldQueue
  <2> QED BY <2>5, <2>6
<1>3. CASE mergeExtra(b)
  <2>1. Oldest(extras[b]) \in TurnIds
    BY <1>3, OldestExtra DEF mergeExtra
  <2> QED BY <1>3, <2>1 DEF mergeExtra
<1>4. CASE relabel(b)
  <2>1. head[b] \in TurnIds \cup {0}
    OBVIOUS
  <2> QED BY <1>4, <2>1 DEF relabel
<1>5. CASE startTurn(b)
  <2>1. MessagesOf(b) \in 0..MaxMessages
    BY CountIsBounded
  <2>2. tstarted' \in [TurnIds -> 0..MaxMessages]
    <3> DEFINE n == IF b = General THEN MessagesOf(b) ELSE 0
    <3>1. tstarted' = [tstarted EXCEPT ![head[b]] = n]
      BY <1>5 DEF startTurn
    <3>2. n \in 0..MaxMessages
      BY <2>1
    <3> HIDE DEF n
    <3> QED BY <3>1, <3>2
  <2>3. tmsgs' \in [TurnIds -> SUBSET (Messages \cup {Notice})]
    BY <1>5 DEF startTurn
  <2> QED BY <1>5, <2>2, <2>3 DEF startTurn
<1>6. CASE endTurn(b)
  <2>1. head[b] \in TurnIds
    BY <1>6 DEF endTurn, LocalsOfLoop, Executing
  <2>2. late' \subseteq TurnIds /\ tstarted' \in [TurnIds -> 0..MaxMessages]
    BY <1>6, <2>1 DEF endTurn
  <2>3. PICK o \in Outcomes : outcome' = [outcome EXCEPT ![b] = o]
    BY <1>6 DEF endTurn
  <2>4. /\ pc' = [pc EXCEPT ![b] = "handoff"] \/ pc' = [pc EXCEPT ![b] = "report"]
        /\ tstatus' = [tstatus EXCEPT ![head[b]] = "ended"]
        /\ UNCHANGED <<wake, tbot, tmsgs, lastTurn, inputs, tuser, tcreated, inbox, head, carry,
                       extras, reported, deliveries, crashes, history>>
    BY <1>6 DEF endTurn
  <2>5. outcome' \in [Sessions -> Outcomes]
    BY <2>3
  <2> QED BY <2>2, <2>4, <2>5
<1> QED BY <1>1, <1>2, <1>3, <1>4, <1>5, <1>6

\* A step that adds at most one message and moves one actor.
LEMMA TypesOfMessages ==
    ASSUME TypeInv,
           \/ \E w \in Workers : \/ tellSession(w) \/ reportToGeneral(w) \/ enqueueIdleRemind(w)
                                 \/ ensureWorkerRelayToGeneral(w)
           \/ ensureChiefTimeoutHandoff
    PROVE  TypeOK'
<1> USE InboxAssumption, Kinds
    DEF TypeInv, TypeOK, marks, turnRows, inbox, loops, deliveries, history, Goto
<1>1. ASSUME NEW w \in Workers, tellSession(w) PROVE TypeOK'
  <2>1. enqueueBotMessage(General, w, FALSE)
    BY <1>1 DEF tellSession
  <2>2. /\ lastMsg + 1 \in Messages /\ lastMsg' \in 0..MaxMessages
        /\ mfrom' \in [Messages -> Sessions \cup {None}] /\ mto' \in [Messages -> Sessions \cup {None}]
        /\ relay' \in [Messages -> BOOLEAN] /\ UNCHANGED <<delivered, mturn>>
    BY <2>1, MessageAdded
  <2>3. UNCHANGED <<turnRows, wake, pc, loops, deliveries, crashes, history>>
    BY <1>1 DEF tellSession
  <2> QED BY <2>2, <2>3
<1>2. ASSUME NEW w \in Workers, reportToGeneral(w) PROVE TypeOK'
  <2>1. enqueueBotMessage(w, General, TRUE)
    BY <1>2 DEF reportToGeneral
  <2>2. /\ lastMsg + 1 \in Messages /\ lastMsg' \in 0..MaxMessages
        /\ mfrom' \in [Messages -> Sessions \cup {None}] /\ mto' \in [Messages -> Sessions \cup {None}]
        /\ relay' \in [Messages -> BOOLEAN] /\ UNCHANGED <<delivered, mturn>>
    BY <2>1, MessageAdded
  <2>3. /\ reported' \in [Sessions -> BOOLEAN]
        /\ UNCHANGED <<turnRows, wake, pc, head, carry, extras, outcome, deliveries, crashes, history>>
    BY <1>2 DEF reportToGeneral
  <2> QED BY <2>2, <2>3
<1>3. ASSUME NEW w \in Workers, enqueueIdleRemind(w) PROVE TypeOK'
  <2>1. enqueueBotMessage(w, General, FALSE)
    BY <1>3 DEF enqueueIdleRemind
  <2>2. /\ lastMsg + 1 \in Messages /\ lastMsg' \in 0..MaxMessages
        /\ mfrom' \in [Messages -> Sessions \cup {None}] /\ mto' \in [Messages -> Sessions \cup {None}]
        /\ relay' \in [Messages -> BOOLEAN] /\ UNCHANGED <<delivered, mturn>>
    BY <2>1, MessageAdded
  <2>3. /\ todo' \in [Actors -> SUBSET Messages] /\ pc' = [pc EXCEPT ![Scheduler] = "deliver"]
        /\ UNCHANGED <<turnRows, wake, loops, item, crashes, history>>
    BY <1>3, <2>2 DEF enqueueIdleRemind
  <2> QED BY <2>2, <2>3
<1>4. ASSUME NEW w \in Workers, ensureWorkerRelayToGeneral(w) PROVE TypeOK'
  <2>1. CASE UNCHANGED inbox
    BY <1>4, <2>1 DEF ensureWorkerRelayToGeneral
  <2>2. CASE enqueueBotMessage(w, General, TRUE)
    BY <1>4, <2>2, MessageAdded DEF ensureWorkerRelayToGeneral
  <2> QED BY <1>4, <2>1, <2>2 DEF ensureWorkerRelayToGeneral
<1>5. CASE ensureChiefTimeoutHandoff
  <2>1. CASE UNCHANGED <<inbox, handed>> /\ refused' \in BOOLEAN
    BY <1>5, <2>1 DEF ensureChiefTimeoutHandoff
  <2>2. CASE /\ startBackendSession /\ UNCHANGED refused
             /\ handed' = [handed EXCEPT ![lastOwnerRequest] = @ + 1]
    <3>1. PICK w \in Workers : enqueueBotMessage(General, w, FALSE)
      BY <2>2 DEF startBackendSession
    <3>2. handed' \in [TurnIds -> Nat]
      <4> DEFINE v == lastOwnerRequest
      <4>1. handed' = [handed EXCEPT ![v] = @ + 1] /\ handed \in [TurnIds -> Nat]
        BY <2>2
      <4> HIDE DEF v
      <4>2. v \in TurnIds => handed[v] + 1 \in Nat
        BY <4>1
      <4> QED BY <4>1, <4>2
    <3> QED BY <1>5, <2>2, <3>1, <3>2, MessageAdded DEF ensureChiefTimeoutHandoff
  <2> QED BY <1>5, <2>1, <2>2 DEF ensureChiefTimeoutHandoff
<1> QED BY <1>1, <1>2, <1>3, <1>4, <1>5

LEMMA TypesOfDelivery ==
    ASSUME TypeInv, NEW a \in Actors, deliverInbox(a) \/ deliverCreate(a) \/ deliverMark(a)
    PROVE  TypeOK'
<1> USE InboxAssumption, Kinds
    DEF TypeInv, TypeOK, marks, turnRows, inbox, loops, deliveries, history, Goto
<1>1. CASE deliverInbox(a)
  <2>1. Pending(a) \in SUBSET Messages
    BY DEF Pending, Sent, Messages
  <2>2. /\ head' \in [Sessions -> TurnIds \cup {0}]
        /\ carry' \in [Sessions -> SUBSET (Messages \cup {Notice})]
        /\ outcome' \in [Sessions -> Outcomes]
        /\ reported' \in [Sessions -> BOOLEAN] /\ UNCHANGED extras
    BY <1>1 DEF deliverInbox, LeaveExecute, Outcomes
  <2>3. After(a, Pending(a)) \in {"deliver", "arm", "idle", "again"}
    BY DEF After
  <2> QED BY <1>1, <2>1, <2>2, <2>3 DEF deliverInbox
<1>2. CASE deliverCreate(a)
  <2> DEFINE m == Oldest(todo[a])
  <2>1. m \in Messages /\ mto[m] \in Sessions /\ {m} \in SUBSET (Messages \cup {Notice})
    BY <1>2, OldestTodo DEF deliverCreate
  <2>2. CreateTurn(mto[m], {m})
    BY <1>2 DEF deliverCreate
  <2>3. lastTurn + 1 \in TurnIds
    BY <2>1, <2>2, TurnCreated
  <2>4. /\ todo' \in [Actors -> SUBSET Messages]
        /\ item' \in [Actors -> (Messages \cup {0}) \X (TurnIds \cup {0})]
        /\ copies' \in [Messages -> Nat]
    BY <1>2, <2>1, <2>3 DEF deliverCreate
  <2>5. \/ pc' = [pc EXCEPT ![a] = "mark"] /\ UNCHANGED wake
        \/ /\ pc' = [pc EXCEPT ![mto[m]] = IF @ = "absent" THEN "idle" ELSE @, ![a] = "mark"]
           /\ wake' = [wake EXCEPT ![mto[m]] = TRUE]
    BY <1>2 DEF deliverCreate, GotoAndKick
  <2>6. UNCHANGED <<inputs, tuser, inbox, loops, crashes, heard, raced, handed, refused>>
    BY <1>2 DEF deliverCreate
  <2>7. /\ wake' \in [Sessions -> BOOLEAN]
        /\ pc' \in [Actors -> {"absent", "idle", "again", "merge", "relabel", "run", "handoff",
                               "notice", "report", "list", "deliver", "mark", "requeue", "arm"}]
    <3> HIDE DEF m
    <3>1. CASE pc' = [pc EXCEPT ![a] = "mark"] /\ UNCHANGED wake
      BY <3>1
    <3>2. CASE /\ pc' = [pc EXCEPT ![mto[m]] = IF @ = "absent" THEN "idle" ELSE @, ![a] = "mark"]
               /\ wake' = [wake EXCEPT ![mto[m]] = TRUE]
      BY <2>1, <3>2
    <3> QED BY <2>5, <3>1, <3>2
  <2>8. /\ lastTurn' \in 0..MaxTurns
        /\ tstatus' \in [TurnIds -> {"none", "queued", "running", "ended"}]
        /\ tbot' \in [TurnIds -> Sessions \cup {None}]
        /\ tmsgs' \in [TurnIds -> SUBSET (Messages \cup {Notice})]
        /\ tcreated' \in [TurnIds -> 0..MaxMessages] /\ UNCHANGED <<tstarted, late>>
    <3> HIDE DEF m
    <3> QED BY <2>1, <2>2, TurnCreated
  <2> HIDE DEF m
  <2> QED BY <2>4, <2>6, <2>7, <2>8
<1>3. CASE deliverMark(a)
  <2>1. /\ item[a][1] \in Messages /\ item[a][2] \in TurnIds /\ mto[item[a][1]] \in Sessions
    <3>1. item[a][1] \in Sent /\ Sent \subseteq Messages /\ item[a][2] \in TurnIds
      BY <1>3 DEF deliverMark, LocalsOfDelivery, DeliveryOf, Sent, Messages
    <3> QED BY <3>1 DEF InboxInOrder
  <2>2. After(a, todo[a]) \in {"deliver", "arm", "idle", "again"}
    BY DEF After
  <2>3. /\ pc' \in [Actors -> {"absent", "idle", "again", "merge", "relabel", "run", "handoff",
                               "notice", "report", "list", "deliver", "mark", "requeue", "arm"}]
        /\ wake' \in [Sessions -> BOOLEAN]
    BY <1>3, <2>1, <2>2 DEF deliverMark, GotoAndKick
  <2>4. /\ item' \in [Actors -> (Messages \cup {0}) \X (TurnIds \cup {0})]
        /\ delivered' \in [Messages -> BOOLEAN] /\ mturn' \in [Messages -> TurnIds \cup {0}]
        /\ raced' \in SUBSET Messages
    BY <1>3, <2>1 DEF deliverMark
  <2> QED BY <1>3, <2>3, <2>4 DEF deliverMark
<1> QED BY <1>1, <1>2, <1>3

LEMMA TypesOfRest ==
    ASSUME TypeInv, followUp \/ fulfillOwnerRelay \/ recoverAfterRestart \/ armQueues \/ crash
    PROVE  TypeOK'
<1> USE InboxAssumption, Kinds
    DEF TypeInv, TypeOK, marks, turnRows, inbox, loops, deliveries, history, Goto
<1>1. CASE followUp
  <2>1. CreateTurn(General, {Notice}) /\ {Notice} \in SUBSET (Messages \cup {Notice})
    BY <1>1 DEF followUp
  <2> QED BY <1>1, <2>1, TurnCreated DEF followUp
<1>2. CASE fulfillOwnerRelay
  <2>1. Sent \subseteq Messages
    BY DEF Sent, Messages
  <2>2. heard' \in SUBSET Messages
    BY <1>2, <2>1 DEF fulfillOwnerRelay
  <2> QED BY <1>2, <2>2 DEF fulfillOwnerRelay
<1>3. CASE recoverAfterRestart
  BY <1>3 DEF recoverAfterRestart
<1>4. CASE armQueues
  BY <1>4 DEF armQueues
<1>5. CASE crash
  <2>1. crashes' \in 0..MaxCrashes
    BY <1>5 DEF crash
  <2>2. /\ pc' \in [Actors -> {"absent", "idle", "requeue"}] /\ outcome' \in [Sessions -> Outcomes]
        /\ item' \in [Actors -> (Messages \cup {0}) \X (TurnIds \cup {0})]
        /\ todo' \in [Actors -> SUBSET Messages]
    BY <1>5 DEF crash, Resting, Outcomes
  <2>3. /\ tcreated' \in [TurnIds -> 0..MaxMessages] /\ tstarted' \in [TurnIds -> 0..MaxMessages]
        /\ tuser' \subseteq TurnIds
    BY <1>5 DEF crash
  <2>4. /\ wake' \in [Sessions -> BOOLEAN] /\ head' \in [Sessions -> TurnIds \cup {0}]
        /\ carry' \in [Sessions -> SUBSET (Messages \cup {Notice})]
        /\ extras' \in [Sessions -> SUBSET TurnIds] /\ reported' \in [Sessions -> BOOLEAN]
    BY <1>5 DEF crash
  <2> QED BY <1>5, <2>1, <2>2, <2>3, <2>4 DEF crash
<1> QED BY <1>1, <1>2, <1>3, <1>4, <1>5
-----------------------------------------------------------------------------
\* The steps, sorted by who makes them.
LEMMA StepCases ==
    ASSUME Next
    PROVE  \/ \E b \in Sessions : \/ Enqueue(b) \/ foldQueue(b) \/ mergeExtra(b) \/ relabel(b)
                                  \/ startTurn(b) \/ endTurn(b)
           \/ \E w \in Workers : \/ tellSession(w) \/ reportToGeneral(w) \/ enqueueIdleRemind(w)
                                 \/ ensureWorkerRelayToGeneral(w)
           \/ \E a \in Actors : deliverInbox(a) \/ deliverCreate(a) \/ deliverMark(a)
           \/ ensureChiefTimeoutHandoff \/ followUp \/ fulfillOwnerRelay
           \/ recoverAfterRestart \/ armQueues \/ crash
<1>1. ASSUME NEW b \in Sessions, Loop(b)
      PROVE  \/ \E c \in Sessions : \/ foldQueue(c) \/ mergeExtra(c) \/ relabel(c)
                                    \/ startTurn(c) \/ endTurn(c)
             \/ \E w \in Workers : ensureWorkerRelayToGeneral(w)
             \/ \E a \in Actors : deliverInbox(a) \/ deliverCreate(a) \/ deliverMark(a)
             \/ ensureChiefTimeoutHandoff \/ followUp \/ fulfillOwnerRelay
  BY <1>1, Kinds DEF Loop, Deliver
<1>2. CASE Booting \/ Deliver(Scheduler) \/ crash
  BY <1>2, Kinds DEF Booting, Deliver
<1> QED BY <1>1, <1>2 DEF Next

LEMMA TypesKept ==
    ASSUME TypeInv, Next
    PROVE  TypeOK'
BY StepCases, TypesOfLoop, TypesOfMessages, TypesOfDelivery, TypesOfRest

\* What the hand-off picks is a row of the owner's.
LEMMA OwnerRequestIsRow ==
    ASSUME TypeInv, head[General] \in tuser \/ ownerRequests # {}
    PROVE  /\ lastOwnerRequest \in tuser /\ lastOwnerRequest \in TurnIds
           /\ lastOwnerRequest <= lastTurn
           /\ head[General] \in tuser => lastOwnerRequest = head[General]
           /\ head[General] \notin tuser =>
                 \A t \in ownerRequests : t <= lastOwnerRequest
<1>1. tuser \subseteq TurnIds /\ ownerRequests \subseteq tuser
  BY DEF TypeInv, TypeOK, ownerRequests
<1>2. \A t \in tuser : t <= lastTurn
  BY <1>1 DEF TypeInv, RowsInOrder
<1>3. CASE head[General] \in tuser
  BY <1>1, <1>2, <1>3 DEF lastOwnerRequest
<1>4. CASE head[General] \notin tuser
  <2>1. ownerRequests \in SUBSET TurnIds /\ ownerRequests # {}
    BY <1>1, <1>4
  <2>2. \E x \in ownerRequests : \A y \in ownerRequests : y <= x
    BY <2>1, SomeIsLatest
  <2>3. /\ lastOwnerRequest \in ownerRequests
        /\ \A y \in ownerRequests : y <= lastOwnerRequest
    BY <1>4, <2>2 DEF lastOwnerRequest
  <2> QED BY <1>1, <1>2, <1>4, <2>3
<1> QED BY <1>3, <1>4

LEMMA RowsFrame ==
    ASSUME TypeInv, UNCHANGED <<lastTurn, tbot>>,
           \A t \in TurnIds : tstatus'[t] = "none" <=> tstatus[t] = "none",
           \A t \in TurnIds : t > lastTurn => t \notin tuser' \cup late' /\ handed'[t] = 0
    PROVE  RowsInOrder'
BY DEF TypeInv, TypeOK, RowsInOrder, TurnIds

LEMMA RowsGrow ==
    ASSUME TypeInv, NEW b \in Sessions, NEW S \in SUBSET (Messages \cup {Notice}), CreateTurn(b, S),
           tuser' \subseteq tuser \cup {lastTurn + 1}, UNCHANGED handed
    PROVE  RowsInOrder'
<1>1. /\ lastTurn \in Nat /\ lastTurn + 1 \in TurnIds /\ lastTurn' = lastTurn + 1
      /\ tstatus'[lastTurn + 1] = "queued" /\ tbot'[lastTurn + 1] = b /\ late' = late
      /\ \A t \in TurnIds : t # lastTurn + 1 => tstatus'[t] = tstatus[t] /\ tbot'[t] = tbot[t]
  BY TurnCreated
<1> QED BY <1>1 DEF TypeInv, RowsInOrder, TurnIds

LEMMA RowsKept ==
    ASSUME TypeInv, Next
    PROVE  RowsInOrder'
<1> USE DEF turnRows, marks, inbox, loops, deliveries, history
<1>1. ASSUME NEW b \in Sessions, Enqueue(b) PROVE RowsInOrder'
  <2>1. CreateTurn(b, {}) /\ tuser' \subseteq tuser \cup {lastTurn + 1} /\ UNCHANGED handed
    BY <1>1 DEF Enqueue
  <2> QED BY <2>1, RowsGrow
<1>2. ASSUME NEW b \in Sessions, foldQueue(b) \/ relabel(b) PROVE RowsInOrder'
  BY <1>2, RowsFrame DEF foldQueue, relabel, TypeInv, RowsInOrder
<1>3. ASSUME NEW b \in Sessions, mergeExtra(b) PROVE RowsInOrder'
  <2>1. Oldest(extras[b]) \in TurnIds /\ Oldest(extras[b]) <= lastTurn
    BY <1>3, OldestExtra DEF mergeExtra, TypeInv, LocalsOfLoop
  <2> QED BY <1>3, <2>1, RowsFrame DEF mergeExtra, TypeInv, TypeOK, RowsInOrder
<1>4. ASSUME NEW b \in Sessions, startTurn(b) \/ endTurn(b) PROVE RowsInOrder'
  <2>1. head[b] \in TurnIds /\ head[b] <= lastTurn
    BY <1>4 DEF startTurn, endTurn, TypeInv, LocalsOfLoop, Executing
  <2>2. /\ UNCHANGED <<lastTurn, tbot, tuser, handed>> /\ late' \subseteq late \cup {head[b]}
        /\ \E s \in {"running", "ended"} : tstatus' = [tstatus EXCEPT ![head[b]] = s]
    BY <1>4 DEF startTurn, endTurn
  <2>3. \A t \in TurnIds : tstatus'[t] = "none" <=> tstatus[t] = "none"
    BY <2>1, <2>2 DEF TypeInv, TypeOK, RowsInOrder
  <2>4. \A t \in TurnIds : t > lastTurn => t # head[b]
    BY <2>1 DEF TurnIds, TypeInv, TypeOK
  <2> QED BY <2>2, <2>3, <2>4, RowsFrame DEF TypeInv, RowsInOrder, TurnIds, TypeOK
<1>5. ASSUME NEW w \in Workers,
             tellSession(w) \/ reportToGeneral(w) \/ enqueueIdleRemind(w)
                \/ ensureWorkerRelayToGeneral(w)
      PROVE  RowsInOrder'
  <2>1. UNCHANGED <<turnRows, handed>>
    BY <1>5 DEF tellSession, reportToGeneral, enqueueIdleRemind, ensureWorkerRelayToGeneral
  <2> QED BY <2>1 DEF TypeInv, RowsInOrder
<1>6. ASSUME NEW a \in Actors, deliverInbox(a) \/ deliverMark(a) PROVE RowsInOrder'
  <2>1. UNCHANGED <<turnRows, handed>>
    BY <1>6 DEF deliverInbox, deliverMark
  <2> QED BY <2>1 DEF TypeInv, RowsInOrder
<1>7. ASSUME NEW a \in Actors, deliverCreate(a) PROVE RowsInOrder'
  <2> DEFINE m == Oldest(todo[a])
  <2>1. CreateTurn(mto[m], {m}) /\ UNCHANGED <<tuser, handed>>
    BY <1>7 DEF deliverCreate
  <2>2. mto[m] \in Sessions /\ {m} \in SUBSET (Messages \cup {Notice})
    BY <1>7, OldestTodo DEF deliverCreate
  <2> HIDE DEF m
  <2> QED BY <2>1, <2>2, RowsGrow
<1>8. CASE ensureChiefTimeoutHandoff
  <2>1. UNCHANGED turnRows
    BY <1>8 DEF ensureChiefTimeoutHandoff
  <2>2. \A t \in TurnIds : t > lastTurn => handed'[t] = 0
    <3>1. CASE UNCHANGED handed
      BY <3>1 DEF TypeInv, RowsInOrder, TypeOK, TurnIds
    <3>2. CASE /\ handed' = [handed EXCEPT ![lastOwnerRequest] = @ + 1]
               /\ head[General] \in tuser \/ ownerRequests # {}
      <4>1. lastOwnerRequest \in TurnIds /\ lastOwnerRequest <= lastTurn
        BY <3>2, OwnerRequestIsRow
      <4>2. ASSUME NEW t \in TurnIds, t > lastTurn PROVE handed'[t] = 0
        <5>1. t # lastOwnerRequest
          BY <4>1, <4>2 DEF TurnIds, TypeInv, TypeOK
        <5>2. handed'[t] = handed[t]
          BY <3>2, <5>1 DEF TypeInv, TypeOK
        <5> QED BY <4>2, <5>2 DEF TypeInv, RowsInOrder, TypeOK, TurnIds
      <4> QED BY <4>2
    <3> QED BY <1>8, <3>1, <3>2 DEF ensureChiefTimeoutHandoff
  <2> QED BY <2>1, <2>2, RowsFrame DEF TypeInv, RowsInOrder, TypeOK, TurnIds
<1>9. CASE followUp
  <2>1. CreateTurn(General, {Notice}) /\ UNCHANGED <<tuser, handed>>
    BY <1>9 DEF followUp
  <2> QED BY <2>1, RowsGrow, Kinds
<1>10. CASE fulfillOwnerRelay \/ armQueues
  <2>1. UNCHANGED <<turnRows, handed>>
    BY <1>10 DEF fulfillOwnerRelay, armQueues
  <2> QED BY <2>1 DEF TypeInv, RowsInOrder
<1>11. CASE recoverAfterRestart \/ crash
  <2>1. UNCHANGED <<lastTurn, tbot, late, handed>> /\ tuser' \subseteq tuser
    BY <1>11 DEF recoverAfterRestart, crash
  <2>2. \A t \in TurnIds : tstatus'[t] = "none" <=> tstatus[t] = "none"
    BY <1>11 DEF recoverAfterRestart, crash, TypeInv, TypeOK
  <2>3. \A t \in TurnIds : t > lastTurn => t \notin tuser \cup late /\ handed[t] = 0
    BY DEF TypeInv, RowsInOrder, TypeOK, TurnIds
  <2> QED BY <2>1, <2>2, <2>3, RowsFrame
<1> QED BY StepCases, <1>1, <1>2, <1>3, <1>4, <1>5, <1>6, <1>7, <1>8, <1>9, <1>10, <1>11

LEMMA InboxFrame ==
    ASSUME TypeInv, UNCHANGED <<mfrom, mto, relay, lastMsg>>,
           \A m \in Messages : m \notin Sent => delivered'[m] = delivered[m] /\ copies'[m] = copies[m]
    PROVE  InboxInOrder'
BY DEF TypeInv, InboxInOrder, Sent

LEMMA InboxGrows ==
    ASSUME TypeInv, NEW f \in Sessions, NEW t \in Sessions, NEW r \in BOOLEAN,
           enqueueBotMessage(f, t, r), r => f \in Workers /\ t = General, UNCHANGED copies
    PROVE  InboxInOrder'
<1> SUFFICES ASSUME NEW m \in Messages
             PROVE  IF m \in Sent'
                    THEN /\ mfrom'[m] \in Sessions /\ mto'[m] \in Sessions
                         /\ relay'[m] => mfrom'[m] \in Workers /\ mto'[m] = General
                    ELSE ~relay'[m] /\ ~delivered'[m] /\ copies'[m] = 0
  BY DEF InboxInOrder
<1>1. CASE m = lastMsg + 1
  BY <1>1, MessageAdded
<1>2. CASE m # lastMsg + 1
  <2>1. /\ mfrom'[m] = mfrom[m] /\ mto'[m] = mto[m] /\ relay'[m] = relay[m]
        /\ Sent' = Sent \cup {lastMsg + 1} /\ delivered' = delivered
    BY <1>2, MessageAdded
  <2> QED BY <1>2, <2>1 DEF TypeInv, InboxInOrder
<1> QED BY <1>1, <1>2

\* The only steps that write messages, and what they add.
LEMMA MessageSteps ==
    ASSUME TypeInv, Next
    PROVE  \/ UNCHANGED <<mfrom, mto, relay, lastMsg>>
           \/ \E f \in Sessions, t \in Sessions, r \in BOOLEAN :
                 /\ enqueueBotMessage(f, t, r) /\ (r => f \in Workers /\ t = General)
                 /\ UNCHANGED <<copies, heard, raced, turnRows, crashes, item>>
<1> USE Kinds DEF inbox, history, deliveries
<1>1. ASSUME NEW w \in Workers, tellSession(w)
      PROVE  enqueueBotMessage(General, w, FALSE)
             /\ UNCHANGED <<copies, heard, raced, turnRows, crashes, item>>
  BY <1>1 DEF tellSession
<1>2. ASSUME NEW w \in Workers, reportToGeneral(w)
      PROVE  enqueueBotMessage(w, General, TRUE)
             /\ UNCHANGED <<copies, heard, raced, turnRows, crashes, item>>
  BY <1>2 DEF reportToGeneral
<1>3. ASSUME NEW w \in Workers, enqueueIdleRemind(w)
      PROVE  enqueueBotMessage(w, General, FALSE)
             /\ UNCHANGED <<copies, heard, raced, turnRows, crashes, item>>
  BY <1>3 DEF enqueueIdleRemind
<1>4. ASSUME NEW w \in Workers, ensureWorkerRelayToGeneral(w)
      PROVE  \/ UNCHANGED inbox
             \/ /\ enqueueBotMessage(w, General, TRUE)
                /\ UNCHANGED <<copies, heard, raced, turnRows, crashes, item>>
  BY <1>4 DEF ensureWorkerRelayToGeneral
<1>5. CASE ensureChiefTimeoutHandoff
  <2>1. CASE UNCHANGED inbox
    BY <2>1
  <2>2. CASE startBackendSession
    <3>1. PICK w \in Workers : enqueueBotMessage(General, w, FALSE)
      BY <2>2 DEF startBackendSession
    <3>2. UNCHANGED <<copies, heard, raced, turnRows, crashes, item>>
      BY <1>5 DEF ensureChiefTimeoutHandoff
    <3> QED BY <3>1, <3>2
  <2> QED BY <1>5, <2>1, <2>2 DEF ensureChiefTimeoutHandoff
<1>6. ASSUME NEW b \in Sessions,
             \/ Enqueue(b) \/ foldQueue(b) \/ mergeExtra(b) \/ relabel(b) \/ startTurn(b) \/ endTurn(b)
      PROVE  UNCHANGED <<mfrom, mto, relay, lastMsg>>
  BY <1>6 DEF Enqueue, foldQueue, mergeExtra, relabel, startTurn, endTurn
<1>7. ASSUME NEW a \in Actors, deliverInbox(a) \/ deliverCreate(a) \/ deliverMark(a)
      PROVE  UNCHANGED <<mfrom, mto, relay, lastMsg>>
  BY <1>7 DEF deliverInbox, deliverCreate, deliverMark
<1>8. CASE followUp \/ fulfillOwnerRelay \/ recoverAfterRestart \/ armQueues \/ crash
  BY <1>8 DEF followUp, fulfillOwnerRelay, recoverAfterRestart, armQueues, crash
<1> QED BY StepCases, <1>1, <1>2, <1>3, <1>4, <1>5, <1>6, <1>7, <1>8

\* The only steps that deliver.
LEMMA DeliverySteps ==
    ASSUME Next
    PROVE  \/ UNCHANGED <<delivered, copies, raced>>
           \/ \E a \in Actors : deliverCreate(a) \/ deliverMark(a)
<1> USE DEF inbox, history
<1>1. ASSUME NEW b \in Sessions,
             \/ Enqueue(b) \/ foldQueue(b) \/ mergeExtra(b) \/ relabel(b) \/ startTurn(b) \/ endTurn(b)
      PROVE  UNCHANGED <<delivered, copies, raced>>
  BY <1>1 DEF Enqueue, foldQueue, mergeExtra, relabel, startTurn, endTurn
<1>2. ASSUME NEW w \in Workers,
             \/ tellSession(w) \/ reportToGeneral(w) \/ enqueueIdleRemind(w)
             \/ ensureWorkerRelayToGeneral(w)
      PROVE  UNCHANGED <<delivered, copies, raced>>
  BY <1>2 DEF tellSession, reportToGeneral, enqueueIdleRemind, ensureWorkerRelayToGeneral,
              enqueueBotMessage
<1>3. ASSUME NEW a \in Actors, deliverInbox(a) PROVE UNCHANGED <<delivered, copies, raced>>
  BY <1>3 DEF deliverInbox
<1>4. CASE \/ ensureChiefTimeoutHandoff \/ followUp \/ fulfillOwnerRelay
           \/ recoverAfterRestart \/ armQueues \/ crash
  BY <1>4 DEF ensureChiefTimeoutHandoff, followUp, fulfillOwnerRelay, recoverAfterRestart,
              armQueues, crash, startBackendSession, enqueueBotMessage
<1> QED BY StepCases, <1>1, <1>2, <1>3, <1>4

LEMMA InboxKept ==
    ASSUME TypeInv, Next
    PROVE  InboxInOrder'
<1>1. CASE \E f \in Sessions, t \in Sessions, r \in BOOLEAN :
              /\ enqueueBotMessage(f, t, r) /\ (r => f \in Workers /\ t = General)
              /\ UNCHANGED copies
  BY <1>1, InboxGrows
<1>2. CASE UNCHANGED <<mfrom, mto, relay, lastMsg>>
  <2> USE Kinds DEF inbox, history
  <2>1. ASSUME NEW a \in Actors, deliverCreate(a)
        PROVE  /\ Oldest(todo[a]) \in Sent /\ delivered' = delivered
               /\ copies' = [copies EXCEPT ![Oldest(todo[a])] = @ + 1]
    BY <2>1, OldestTodo DEF deliverCreate
  <2>2. ASSUME NEW a \in Actors, deliverMark(a)
        PROVE  /\ item[a][1] \in Sent /\ copies' = copies
               /\ delivered' = [delivered EXCEPT ![item[a][1]] = TRUE]
    BY <2>2 DEF deliverMark, TypeInv, LocalsOfDelivery, DeliveryOf
  <2>3. \A m \in Messages : m \notin Sent => delivered'[m] = delivered[m] /\ copies'[m] = copies[m]
    BY <2>1, <2>2, DeliverySteps DEF TypeInv, TypeOK
  <2> QED BY <1>2, <2>3, InboxFrame
<1> QED BY <1>1, <1>2, MessageSteps

LEMMA Moved ==
    ASSUME TypeInv, NEW a \in Actors, NEW l \in PlacesOf(a), pc' = [pc EXCEPT ![a] = l]
    PROVE  PlacesOfActors'
BY DEF TypeInv, TypeOK, PlacesOfActors

LEMMA MovedAndKicked ==
    ASSUME TypeInv, NEW a \in Actors, NEW l \in PlacesOf(a), NEW s \in Sessions,
           pc' = [pc EXCEPT ![s] = IF @ = "absent" THEN "idle" ELSE @, ![a] = l]
    PROVE  PlacesOfActors'
<1>1. "idle" \in PlacesOf(s) /\ s \in Actors
  BY Kinds DEF PlacesOf
<1> QED BY <1>1 DEF TypeInv, TypeOK, PlacesOfActors

LEMMA PlacesKept ==
    ASSUME TypeInv, Next
    PROVE  PlacesOfActors'
<1> USE Kinds DEF Goto
<1>0. \A b \in Sessions : {"idle", "again", "merge", "relabel", "run", "report", "list", "deliver",
                           "mark"} \subseteq PlacesOf(b)
  BY DEF PlacesOf
<1>1. ASSUME NEW b \in Sessions, Enqueue(b) PROVE PlacesOfActors'
  <2>1. "idle" \in PlacesOf(b)
    BY <1>0
  <2>2. pc' = [pc EXCEPT ![b] = IF @ = "absent" THEN "idle" ELSE @]
    BY <1>1 DEF Enqueue
  <2> QED BY <2>1, <2>2 DEF TypeInv, TypeOK, PlacesOfActors
<1>2. ASSUME NEW b \in Sessions, foldQueue(b) \/ mergeExtra(b) \/ relabel(b) \/ startTurn(b)
      PROVE  PlacesOfActors'
  <2>1. \E l \in {"idle", "merge", "relabel", "run"} : pc' = [pc EXCEPT ![b] = l]
    BY <1>2 DEF foldQueue, mergeExtra, relabel, startTurn
  <2> QED BY <1>0, <2>1, Moved
<1>3. ASSUME NEW b \in Sessions, endTurn(b) PROVE PlacesOfActors'
  <2>1. CASE pc' = [pc EXCEPT ![b] = "report"]
    BY <1>0, <2>1, Moved
  <2>2. CASE pc' = [pc EXCEPT ![b] = "handoff"]
    <3>1. b = General
      BY <1>3, <2>2 DEF endTurn, TypeInv, TypeOK, NoticeIsGenerals
    <3>2. "handoff" \in PlacesOf(b)
      BY <3>1 DEF PlacesOf
    <3> QED BY <2>2, <3>2, Moved
  <2> QED BY <1>3, <2>1, <2>2 DEF endTurn
<1>4. ASSUME NEW w \in Workers,
             tellSession(w) \/ reportToGeneral(w) \/ enqueueIdleRemind(w)
                \/ ensureWorkerRelayToGeneral(w)
      PROVE  PlacesOfActors'
  <2>1. \/ UNCHANGED pc \/ pc' = [pc EXCEPT ![Scheduler] = "deliver"]
        \/ pc' = [pc EXCEPT ![w] = "list"]
    BY <1>4 DEF tellSession, reportToGeneral, enqueueIdleRemind, ensureWorkerRelayToGeneral
  <2>2. "deliver" \in PlacesOf(Scheduler) /\ "list" \in PlacesOf(w)
    BY DEF PlacesOf
  <2>3. CASE UNCHANGED pc
    BY <2>3 DEF TypeInv, PlacesOfActors
  <2> QED BY <2>1, <2>2, <2>3, Moved
<1>5. \A a \in Actors, S \in SUBSET Messages : After(a, S) \in PlacesOf(a) /\ "mark" \in PlacesOf(a)
  BY DEF After, PlacesOf
<1>6. ASSUME NEW a \in Actors, deliverInbox(a) PROVE PlacesOfActors'
  <2>1. Pending(a) \in SUBSET Messages
    BY InboxAssumption DEF Pending, Sent, Messages, TypeInv, TypeOK
  <2>2. pc' = [pc EXCEPT ![a] = After(a, Pending(a))]
    BY <1>6 DEF deliverInbox
  <2> QED BY <1>5, <2>1, <2>2, Moved
<1>7. ASSUME NEW a \in Actors, deliverCreate(a) PROVE PlacesOfActors'
  <2>1. mto[Oldest(todo[a])] \in Sessions
    BY <1>7, OldestTodo DEF deliverCreate
  <2>2. \/ pc' = [pc EXCEPT ![mto[Oldest(todo[a])]] = IF @ = "absent" THEN "idle" ELSE @, ![a] = "mark"]
        \/ pc' = [pc EXCEPT ![a] = "mark"]
    BY <1>7 DEF deliverCreate, GotoAndKick
  <2> QED BY <1>5, <2>1, <2>2, Moved, MovedAndKicked
<1>8. ASSUME NEW a \in Actors, deliverMark(a) PROVE PlacesOfActors'
  <2>1. mto[item[a][1]] \in Sessions /\ todo[a] \in SUBSET Messages
    BY <1>8 DEF deliverMark, TypeInv, TypeOK, LocalsOfDelivery, DeliveryOf, InboxInOrder, Sent, Messages
  <2>2. pc' = [pc EXCEPT ![mto[item[a][1]]] = IF @ = "absent" THEN "idle" ELSE @,
                         ![a] = After(a, todo[a])]
    BY <1>8 DEF deliverMark, GotoAndKick
  <2> QED BY <1>5, <2>1, <2>2, MovedAndKicked
<1>9. CASE ensureChiefTimeoutHandoff \/ followUp \/ fulfillOwnerRelay
  <2>1. \E l \in {"notice", "report", "list"} : pc' = [pc EXCEPT ![General] = l]
    BY <1>9 DEF ensureChiefTimeoutHandoff, followUp, fulfillOwnerRelay
  <2>2. {"notice", "report", "list"} \subseteq PlacesOf(General)
    BY DEF PlacesOf
  <2> QED BY <2>1, <2>2, Moved
<1>10. CASE recoverAfterRestart
  <2>1. pc' = [pc EXCEPT ![Boot] = "list"] /\ "list" \in PlacesOf(Boot)
    BY <1>10 DEF recoverAfterRestart, PlacesOf
  <2> QED BY <2>1, Moved
<1>11. CASE armQueues \/ crash
  <2>1. ASSUME NEW a \in Actors PROVE pc'[a] \in PlacesOf(a)
    <3>1. "idle" \in PlacesOf(a) /\ Resting(a) \in PlacesOf(a)
      BY DEF PlacesOf, Resting
    <3> QED BY <1>11, <3>1 DEF armQueues, crash, TypeInv, PlacesOfActors
  <2> QED BY <2>1 DEF PlacesOfActors
<1> QED BY StepCases, <1>1, <1>2, <1>3, <1>4, <1>6, <1>7, <1>8, <1>9, <1>10, <1>11

LEMMA NoticesKept ==
    ASSUME TypeInv, Next
    PROVE  NoticeIsGenerals'
<1> USE Kinds DEF turnRows, loops
<1>1. ASSUME NEW b \in Sessions, NEW S \in SUBSET (Messages \cup {Notice}), CreateTurn(b, S),
             Notice \in S => b = General, UNCHANGED carry
      PROVE  NoticeIsGenerals'
  <2>1. ASSUME NEW t \in TurnIds, Notice \in tmsgs'[t] PROVE tbot'[t] = General
    <3>1. CASE t = lastTurn + 1
      BY <1>1, <2>1, <3>1, TurnCreated
    <3>2. CASE t # lastTurn + 1
      <4>1. tmsgs'[t] = tmsgs[t] /\ tbot'[t] = tbot[t]
        BY <1>1, <3>2, TurnCreated
      <4> QED BY <2>1, <4>1 DEF TypeInv, NoticeIsGenerals
    <3> QED BY <3>1, <3>2
  <2> QED BY <1>1, <2>1 DEF TypeInv, NoticeIsGenerals
<1>2. ASSUME NEW b \in Sessions, Enqueue(b) PROVE NoticeIsGenerals'
  BY <1>1, <1>2 DEF Enqueue
<1>3. ASSUME NEW b \in Sessions, foldQueue(b) PROVE NoticeIsGenerals'
  <2>1. UNCHANGED <<tmsgs, tbot>>
    BY <1>3 DEF foldQueue
  <2>2. CASE UNCHANGED carry
    BY <2>1, <2>2 DEF TypeInv, NoticeIsGenerals
  <2>3. CASE carry' = [carry EXCEPT ![b] = UNION {tmsgs[t] : t \in QueuedOf(b)}]
    <3>1. b \in Workers => Notice \notin UNION {tmsgs[t] : t \in QueuedOf(b)}
      BY DEF TypeInv, NoticeIsGenerals, QueuedOf
    <3> QED BY <2>1, <2>3, <3>1 DEF TypeInv, TypeOK, NoticeIsGenerals
  <2> QED BY <1>3, <2>2, <2>3 DEF foldQueue
<1>4. ASSUME NEW b \in Sessions, startTurn(b) PROVE NoticeIsGenerals'
  <2>1. /\ tmsgs' = [tmsgs EXCEPT ![head[b]] = carry[b]] /\ UNCHANGED <<tbot, carry>>
        /\ tbot[head[b]] = b
    BY <1>4 DEF startTurn, TypeInv, LocalsOfLoop, Executing
  <2> QED BY <2>1 DEF TypeInv, TypeOK, NoticeIsGenerals
<1>5. ASSUME NEW a \in Actors, deliverCreate(a) PROVE NoticeIsGenerals'
  <2> DEFINE m == Oldest(todo[a])
  <2>1. CreateTurn(mto[m], {m}) /\ UNCHANGED carry
    BY <1>5 DEF deliverCreate
  <2>2. m \in Messages /\ mto[m] \in Sessions
    BY <1>5, OldestTodo DEF deliverCreate
  <2>3. {m} \in SUBSET (Messages \cup {Notice}) /\ Notice \notin {m}
    BY <2>2 DEF Messages, Notice
  <2> HIDE DEF m
  <2> QED BY <1>1, <2>1, <2>2, <2>3
<1>6. CASE followUp
  BY <1>1, <1>6 DEF followUp
<1>7. ASSUME NEW a \in Actors, deliverInbox(a) PROVE NoticeIsGenerals'
  BY <1>7 DEF deliverInbox, LeaveExecute, TypeInv, TypeOK, NoticeIsGenerals
<1>8. CASE crash
  BY <1>8 DEF crash, TypeInv, NoticeIsGenerals
<1>9. CASE UNCHANGED <<tmsgs, tbot, carry>>
  BY <1>9 DEF TypeInv, NoticeIsGenerals
<1>10. ASSUME NEW b \in Sessions, mergeExtra(b) \/ relabel(b) \/ endTurn(b) PROVE NoticeIsGenerals'
  BY <1>9, <1>10 DEF mergeExtra, relabel, endTurn
<1>11. ASSUME NEW w \in Workers,
              tellSession(w) \/ reportToGeneral(w) \/ enqueueIdleRemind(w)
                 \/ ensureWorkerRelayToGeneral(w)
       PROVE  NoticeIsGenerals'
  BY <1>9, <1>11 DEF tellSession, reportToGeneral, enqueueIdleRemind, ensureWorkerRelayToGeneral
<1>12. ASSUME NEW a \in Actors, deliverMark(a) PROVE NoticeIsGenerals'
  BY <1>9, <1>12 DEF deliverMark
<1>13. CASE ensureChiefTimeoutHandoff \/ fulfillOwnerRelay \/ recoverAfterRestart \/ armQueues
  BY <1>9, <1>13 DEF ensureChiefTimeoutHandoff, fulfillOwnerRelay, recoverAfterRestart, armQueues
<1> QED BY StepCases, <1>2, <1>3, <1>4, <1>5, <1>6, <1>7, <1>8, <1>10, <1>11, <1>12, <1>13

\* A step after which the loops hold the rows they held, no more.
LEMMA LoopFrame ==
    ASSUME TypeInv, UNCHANGED <<head, extras>>, lastTurn' \in Nat, lastTurn <= lastTurn',
           \A t \in TurnIds : t <= lastTurn => tbot'[t] = tbot[t],
           \A b \in Sessions : /\ pc'[b] \in Executing => pc[b] \in Executing
                               /\ pc[b] \in {"merge", "relabel"} => pc'[b] \in {"merge", "relabel"}
                               /\ pc'[b] = "relabel" => extras[b] # {}
    PROVE  LocalsOfLoop'
<1>1. ASSUME NEW b \in Sessions, pc'[b] \in Executing
      PROVE  head[b] \in TurnIds /\ head[b] <= lastTurn' /\ tbot'[head[b]] = b
  <2>1. head[b] \in TurnIds /\ head[b] <= lastTurn /\ tbot[head[b]] = b
    BY <1>1 DEF TypeInv, LocalsOfLoop
  <2> QED BY <2>1 DEF TurnIds, TypeInv, TypeOK
<1>2. ASSUME NEW b \in Sessions, NEW t \in extras[b]
      PROVE  t <= lastTurn' /\ tbot'[t] = b /\ head[b] < t
  <2>1. t \in TurnIds /\ t <= lastTurn /\ tbot[t] = b /\ head[b] < t
    BY DEF TypeInv, TypeOK, LocalsOfLoop
  <2> QED BY <2>1 DEF TurnIds, TypeInv, TypeOK
<1> QED BY <1>1, <1>2 DEF TypeInv, LocalsOfLoop

LEMMA LoopKept ==
    ASSUME TypeInv, Next
    PROVE  LocalsOfLoop'
<1> USE Kinds DEF turnRows, loops, Goto
<1>0. lastTurn \in Nat /\ lastTurn <= lastTurn
  BY DEF TypeInv, TypeOK
<1>1. ASSUME NEW b \in Sessions, NEW S \in SUBSET (Messages \cup {Notice}), CreateTurn(b, S)
      PROVE  /\ lastTurn' \in Nat /\ lastTurn <= lastTurn'
             /\ \A t \in TurnIds : t <= lastTurn => tbot'[t] = tbot[t]
  <2>1. lastTurn \in Nat /\ lastTurn' = lastTurn + 1
        /\ \A t \in TurnIds : t # lastTurn + 1 => tbot'[t] = tbot[t]
    BY <1>1, TurnCreated
  <2> QED BY <2>1
<1>2. ASSUME NEW b \in Sessions, Enqueue(b) PROVE LocalsOfLoop'
  <2>1. CreateTurn(b, {}) /\ UNCHANGED <<head, extras>>
        /\ pc' = [pc EXCEPT ![b] = IF @ = "absent" THEN "idle" ELSE @]
    BY <1>2 DEF Enqueue
  <2>2. \A c \in Sessions : pc'[c] = pc[c] \/ (pc[c] = "absent" /\ pc'[c] = "idle")
    BY <2>1 DEF TypeInv, TypeOK
  <2> QED BY <1>1, <2>1, <2>2, LoopFrame DEF Executing, TypeInv, LocalsOfLoop
<1>3. ASSUME NEW b \in Sessions, foldQueue(b) PROVE LocalsOfLoop'
  <2>1. UNCHANGED <<lastTurn, tbot>> /\ pc[b] \in {"idle", "again"}
    BY <1>3 DEF foldQueue
  <2>2. CASE pc' = [pc EXCEPT ![b] = "idle"] /\ UNCHANGED <<head, extras>>
    <3>1. \A c \in Sessions : pc'[c] = pc[c] \/ (c = b /\ pc'[c] = "idle")
      BY <2>2 DEF TypeInv, TypeOK
    <3> QED BY <1>0, <2>1, <2>2, <3>1, LoopFrame DEF Executing, TypeInv, LocalsOfLoop
  <2>3. CASE /\ pc' = [pc EXCEPT ![b] = "merge"] /\ QueuedOf(b) # {}
             /\ head' = [head EXCEPT ![b] = Oldest(QueuedOf(b))]
             /\ extras' = [extras EXCEPT ![b] = QueuedOf(b) \ {Oldest(QueuedOf(b))}]
    <3> DEFINE o == Oldest(QueuedOf(b))
               x == QueuedOf(b) \ {o}
    <3>1. /\ o \in TurnIds /\ o <= lastTurn /\ tbot[o] = b
          /\ \A t \in x : t \in TurnIds /\ t <= lastTurn /\ tbot[t] = b /\ o < t
      <4>1. QueuedOf(b) \subseteq TurnIds /\ o \in QueuedOf(b) /\ \A t \in QueuedOf(b) : o <= t
        BY <2>3, QueuedRows
      <4>2. \A t \in QueuedOf(b) : t \in Nat /\ t <= lastTurn /\ tbot[t] = b
        BY QueuedRows
      <4> QED BY <4>1, <4>2
    <3>2. /\ head' = [head EXCEPT ![b] = o] /\ extras' = [extras EXCEPT ![b] = x]
          /\ pc' = [pc EXCEPT ![b] = "merge"]
      BY <2>3
    <3> HIDE DEF o, x
    <3>3. ASSUME NEW c \in Sessions
          PROVE  /\ pc'[c] \in Executing => head'[c] \in TurnIds /\ head'[c] <= lastTurn /\ tbot[head'[c]] = c
                 /\ extras'[c] # {} => pc'[c] \in {"merge", "relabel"}
                 /\ pc'[c] = "relabel" => extras'[c] # {}
                 /\ \A t \in extras'[c] : t <= lastTurn /\ tbot[t] = c /\ head'[c] < t
      <4>1. CASE c = b
        BY <3>1, <3>2, <4>1 DEF TypeInv, TypeOK
      <4>2. CASE c # b
        <5>1. pc'[c] = pc[c] /\ head'[c] = head[c] /\ extras'[c] = extras[c]
          BY <3>2, <4>2 DEF TypeInv, TypeOK
        <5> QED BY <5>1 DEF TypeInv, LocalsOfLoop
      <4> QED BY <4>1, <4>2
    <3> QED BY <2>1, <3>3 DEF LocalsOfLoop
  <2> QED BY <1>3, <2>2, <2>3 DEF foldQueue
<1>4. ASSUME NEW b \in Sessions, mergeExtra(b) \/ startTurn(b) \/ endTurn(b) PROVE LocalsOfLoop'
  <2>1. UNCHANGED <<lastTurn, tbot, head, extras>>
    BY <1>4 DEF mergeExtra, startTurn, endTurn
  <2>2. \/ pc[b] = "merge" /\ extras[b] # {} /\ pc' = [pc EXCEPT ![b] = "relabel"]
        \/ pc[b] = "merge" /\ extras[b] = {} /\ pc' = [pc EXCEPT ![b] = "run"]
        \/ pc[b] = "run" /\ pc' = [pc EXCEPT ![b] = "handoff"]
        \/ pc[b] = "run" /\ pc' = [pc EXCEPT ![b] = "report"]
    BY <1>4 DEF mergeExtra, startTurn, endTurn
  <2>3. \A c \in Sessions : c # b => pc'[c] = pc[c]
    BY <2>2 DEF TypeInv, TypeOK
  <2>4. \/ pc[b] = "merge" /\ extras[b] # {} /\ pc'[b] = "relabel"
        \/ pc[b] = "merge" /\ extras[b] = {} /\ pc'[b] = "run"
        \/ pc[b] = "run" /\ pc'[b] \in {"handoff", "report"}
    BY <2>2 DEF TypeInv, TypeOK
  <2> QED BY <2>1, <2>3, <2>4 DEF TypeInv, LocalsOfLoop, Executing
<1>5. ASSUME NEW b \in Sessions, relabel(b) PROVE LocalsOfLoop'
  <2>1. /\ UNCHANGED <<lastTurn, tbot, head>> /\ pc[b] = "relabel" /\ pc' = [pc EXCEPT ![b] = "merge"]
        /\ extras' = [extras EXCEPT ![b] = @ \ {Oldest(extras[b])}]
    BY <1>5 DEF relabel
  <2>2. \A c \in Sessions : /\ extras'[c] \subseteq extras[c]
                            /\ c # b => pc'[c] = pc[c] /\ extras'[c] = extras[c]
    BY <2>1 DEF TypeInv, TypeOK
  <2>3. pc'[b] = "merge"
    BY <2>1 DEF TypeInv, TypeOK
  <2> QED BY <2>1, <2>2, <2>3 DEF TypeInv, LocalsOfLoop, Executing
<1>6. ASSUME NEW w \in Workers,
             tellSession(w) \/ reportToGeneral(w) \/ enqueueIdleRemind(w)
                \/ ensureWorkerRelayToGeneral(w)
      PROVE  LocalsOfLoop'
  <2>1. UNCHANGED <<lastTurn, tbot, head, extras>>
    BY <1>6 DEF tellSession, reportToGeneral, enqueueIdleRemind, ensureWorkerRelayToGeneral
  <2>2. \/ UNCHANGED pc \/ pc' = [pc EXCEPT ![Scheduler] = "deliver"]
        \/ pc[w] = "report" /\ pc' = [pc EXCEPT ![w] = "list"]
    BY <1>6 DEF tellSession, reportToGeneral, enqueueIdleRemind, ensureWorkerRelayToGeneral
  <2>3. \A c \in Sessions : pc'[c] = pc[c] \/ (pc[c] = "report" /\ pc'[c] = "list")
    BY <2>2 DEF TypeInv, TypeOK
  <2> QED BY <1>0, <2>1, <2>3, LoopFrame DEF Executing, TypeInv, LocalsOfLoop
<1>7. ASSUME NEW a \in Actors, deliverInbox(a) PROVE LocalsOfLoop'
  <2>1. /\ UNCHANGED <<lastTurn, tbot, extras>> /\ pc[a] = "list"
        /\ pc' = [pc EXCEPT ![a] = After(a, Pending(a))]
        /\ head' = [b \in Sessions |-> IF b = a THEN 0 ELSE head[b]]
    BY <1>7 DEF deliverInbox, LeaveExecute
  <2>2. \A c \in Sessions : c # a => pc'[c] = pc[c] /\ head'[c] = head[c]
    BY <2>1 DEF TypeInv, TypeOK
  <2>3. a \in Sessions => pc'[a] \in {"deliver", "again"}
    BY <2>1 DEF TypeInv, TypeOK, After
  <2>4. a \in Sessions => extras[a] = {}
    BY <2>1 DEF TypeInv, LocalsOfLoop
  <2> QED BY <2>1, <2>2, <2>3, <2>4 DEF TypeInv, LocalsOfLoop, Executing
<1>8. ASSUME NEW a \in Actors, deliverCreate(a) PROVE LocalsOfLoop'
  <2> DEFINE m == Oldest(todo[a])
  <2>1. CreateTurn(mto[m], {m}) /\ UNCHANGED <<head, extras>> /\ pc[a] = "deliver"
        /\ \/ pc' = [pc EXCEPT ![mto[m]] = IF @ = "absent" THEN "idle" ELSE @, ![a] = "mark"]
           \/ pc' = [pc EXCEPT ![a] = "mark"]
    BY <1>8 DEF deliverCreate, GotoAndKick
  <2>2. mto[m] \in Sessions /\ {m} \in SUBSET (Messages \cup {Notice})
    BY <1>8, OldestTodo DEF deliverCreate
  <2> HIDE DEF m
  <2>3. \A c \in Sessions : \/ pc'[c] = pc[c] \/ (pc[c] = "absent" /\ pc'[c] = "idle")
                            \/ (pc[c] = "deliver" /\ pc'[c] = "mark")
    BY <2>1, <2>2 DEF TypeInv, TypeOK
  <2> QED BY <1>1, <2>1, <2>2, <2>3, LoopFrame DEF Executing, TypeInv, LocalsOfLoop
<1>9. ASSUME NEW a \in Actors, deliverMark(a) PROVE LocalsOfLoop'
  <2>1. UNCHANGED <<lastTurn, tbot, head, extras>> /\ pc[a] = "mark"
        /\ pc' = [pc EXCEPT ![mto[item[a][1]]] = IF @ = "absent" THEN "idle" ELSE @,
                            ![a] = After(a, todo[a])]
    BY <1>9 DEF deliverMark, GotoAndKick
  <2>2. mto[item[a][1]] \in Sessions
    BY <1>9, InboxAssumption DEF deliverMark, TypeInv, TypeOK, LocalsOfDelivery, DeliveryOf, InboxInOrder, Sent, Messages
  <2>3. \A c \in Sessions : \/ pc'[c] = pc[c] \/ (pc[c] = "absent" /\ pc'[c] = "idle")
                            \/ (pc[c] = "mark" /\ pc'[c] \in {"deliver", "again"})
    BY <2>1, <2>2 DEF TypeInv, TypeOK, After
  <2>4. \A c \in Sessions : /\ pc'[c] \in Executing => pc[c] \in Executing
                            /\ pc[c] \in {"merge", "relabel"} => pc'[c] \in {"merge", "relabel"}
                            /\ pc'[c] = "relabel" => extras[c] # {}
    BY <2>3 DEF Executing, TypeInv, LocalsOfLoop
  <2> QED BY <1>0, <2>1, <2>4, LoopFrame
<1>10. CASE ensureChiefTimeoutHandoff \/ followUp \/ fulfillOwnerRelay
  <2>1. UNCHANGED <<head, extras>> /\ pc[General] \in {"handoff", "notice", "report"}
        /\ \E l \in {"notice", "report", "list"} : pc' = [pc EXCEPT ![General] = l]
    BY <1>10 DEF ensureChiefTimeoutHandoff, followUp, fulfillOwnerRelay
  <2>2. /\ lastTurn' \in Nat /\ lastTurn <= lastTurn'
        /\ \A t \in TurnIds : t <= lastTurn => tbot'[t] = tbot[t]
    <3>1. UNCHANGED <<lastTurn, tbot>> \/ CreateTurn(General, {Notice})
      BY <1>10 DEF ensureChiefTimeoutHandoff, followUp, fulfillOwnerRelay
    <3> QED BY <1>0, <1>1, <3>1
  <2>3. \A c \in Sessions : c # General => pc'[c] = pc[c]
    BY <2>1 DEF TypeInv, TypeOK
  <2>4. pc'[General] \in {"notice", "report", "list"}
    BY <2>1 DEF TypeInv, TypeOK
  <2> QED BY <2>1, <2>2, <2>3, <2>4, LoopFrame DEF Executing, TypeInv, LocalsOfLoop
<1>11. CASE recoverAfterRestart \/ armQueues
  <2>1. UNCHANGED <<lastTurn, tbot, head, extras>>
    BY <1>11 DEF recoverAfterRestart, armQueues
  <2>2. \A c \in Sessions : pc'[c] = pc[c] \/ (pc[c] = "absent" /\ pc'[c] = "idle")
    BY <1>11 DEF recoverAfterRestart, armQueues, TypeInv, TypeOK
  <2> QED BY <1>0, <2>1, <2>2, LoopFrame DEF Executing, TypeInv, LocalsOfLoop
<1>12. CASE crash
  <2>1. \A c \in Sessions : pc'[c] = "absent" /\ extras'[c] = {}
    BY <1>12 DEF crash, Resting
  <2> QED BY <2>1 DEF LocalsOfLoop, Executing
<1> QED BY StepCases, <1>2, <1>3, <1>4, <1>5, <1>6, <1>7, <1>8, <1>9, <1>10, <1>11, <1>12

\* Rows and messages stay as they are created, but for the columns that steps write.
LEMMA MessagesStay ==
    ASSUME TypeInv, Next
    PROVE  /\ Sent \subseteq Sent' /\ Sent \subseteq Messages
           /\ \A m \in Sent : mfrom'[m] = mfrom[m] /\ mto'[m] = mto[m] /\ relay'[m] = relay[m]
<1>0. Sent \subseteq Messages
  BY InboxAssumption DEF TypeInv, TypeOK, Sent, Messages
<1>1. CASE UNCHANGED <<mfrom, mto, relay, lastMsg>>
  BY <1>0, <1>1 DEF Sent
<1>2. ASSUME NEW f \in Sessions, NEW t \in Sessions, NEW r \in BOOLEAN, enqueueBotMessage(f, t, r)
      PROVE  /\ Sent \subseteq Sent'
             /\ \A m \in Sent : mfrom'[m] = mfrom[m] /\ mto'[m] = mto[m] /\ relay'[m] = relay[m]
  <2>1. /\ Sent' = Sent \cup {lastMsg + 1} /\ lastMsg + 1 \notin Sent
        /\ \A m \in Messages : m # lastMsg + 1 =>
                 mfrom'[m] = mfrom[m] /\ mto'[m] = mto[m] /\ relay'[m] = relay[m]
    BY <1>2, MessageAdded
  <2> QED BY <1>0, <2>1
<1> QED BY <1>0, <1>1, <1>2, MessageSteps

LEMMA TurnsStay ==
    ASSUME TypeInv, Next
    PROVE  lastTurn \in Nat /\ lastTurn' \in Nat /\ lastTurn <= lastTurn'
<1> USE DEF turnRows
<1>0. lastTurn \in Nat
  BY DEF TypeInv, TypeOK
<1>1. ASSUME NEW b \in Sessions,
             \/ Enqueue(b) \/ foldQueue(b) \/ mergeExtra(b) \/ relabel(b) \/ startTurn(b) \/ endTurn(b)
      PROVE  lastTurn' \in {lastTurn, lastTurn + 1}
  BY <1>1 DEF Enqueue, CreateTurn, foldQueue, mergeExtra, relabel, startTurn, endTurn
<1>2. ASSUME NEW w \in Workers,
             \/ tellSession(w) \/ reportToGeneral(w) \/ enqueueIdleRemind(w)
             \/ ensureWorkerRelayToGeneral(w)
      PROVE  lastTurn' = lastTurn
  BY <1>2 DEF tellSession, reportToGeneral, enqueueIdleRemind, ensureWorkerRelayToGeneral
<1>3. ASSUME NEW a \in Actors, deliverInbox(a) \/ deliverCreate(a) \/ deliverMark(a)
      PROVE  lastTurn' \in {lastTurn, lastTurn + 1}
  BY <1>3 DEF deliverInbox, deliverCreate, CreateTurn, deliverMark
<1>4. CASE \/ ensureChiefTimeoutHandoff \/ followUp \/ fulfillOwnerRelay
           \/ recoverAfterRestart \/ armQueues \/ crash
  BY <1>0, <1>4 DEF ensureChiefTimeoutHandoff, followUp, CreateTurn, fulfillOwnerRelay, recoverAfterRestart,
              armQueues, crash
<1> QED BY <1>0, StepCases, <1>1, <1>2, <1>3, <1>4

\* An actor that neither lists nor delivers holds what it held.
LEMMA DeliveryFrame ==
    ASSUME TypeInv, Next, NEW a \in Actors, todo'[a] = todo[a], item'[a] = item[a],
           \/ pc'[a] = pc[a]
           \/ pc[a] \notin {"deliver", "mark"} /\ pc'[a] \notin {"deliver", "mark"}
    PROVE  DeliveryOf(a)'
<1>1. DeliveryOf(a)
  BY DEF TypeInv, LocalsOfDelivery
<1>2. /\ Sent \subseteq Sent'
      /\ \A m \in Sent : Delivers(a, m) => Delivers(a, m)'
  BY MessagesStay DEF Delivers
<1>3. lastTurn \in Nat /\ lastTurn' \in Nat /\ lastTurn <= lastTurn'
  BY TurnsStay
<1>4. ASSUME pc'[a] = "mark"
      PROVE  /\ item'[a][1] \in Sent' /\ item'[a][1] \notin todo'[a]
             /\ item'[a][2] \in TurnIds /\ item'[a][2] <= lastTurn'
             /\ Delivers(a, item[a][1])'
  <2>1. /\ item[a][1] \in Sent /\ item[a][1] \notin todo[a]
        /\ item[a][2] \in TurnIds /\ item[a][2] <= lastTurn
        /\ Delivers(a, item[a][1])
    BY <1>1, <1>4 DEF DeliveryOf
  <2>2. item[a][2] <= lastTurn'
    BY <1>3, <2>1 DEF TurnIds
  <2>3. Delivers(a, item[a][1])'
    <3>1. ASSUME NEW m \in Sent, Delivers(a, m) PROVE Delivers(a, m)'
      BY <1>2, <3>1
    <3>2. Delivers(a, item[a][1]) /\ item[a][1] \in Sent
      BY <2>1
    <3>3. item'[a][1] = item[a][1]
      OBVIOUS
    <3>4. /\ mfrom'[item[a][1]] = mfrom[item[a][1]] /\ relay'[item[a][1]] = relay[item[a][1]]
      BY <3>2, MessagesStay
    <3> QED BY <3>2, <3>3, <3>4 DEF Delivers
  <2> QED BY <1>2, <2>1, <2>2, <2>3
<1>5. pc'[a] # "mark" => item'[a] = <<0, 0>>
  BY <1>1 DEF DeliveryOf
<1>6. /\ todo'[a] \subseteq Sent' /\ \A m \in todo'[a] : Delivers(a, m)'
      /\ todo'[a] # {} => pc'[a] \in {"deliver", "mark"}
      /\ pc'[a] = "deliver" => todo'[a] # {}
  BY <1>1, <1>2 DEF DeliveryOf
<1> QED BY <1>4, <1>5, <1>6 DEF DeliveryOf

LEMMA DeliveryKept ==
    ASSUME TypeInv, Next
    PROVE  LocalsOfDelivery'
<1> USE Kinds DEF deliveries, loops, Goto
<1>1. ASSUME UNCHANGED <<todo, item>>,
             \A c \in Actors :
                \/ pc'[c] = pc[c]
                \/ pc[c] \notin {"deliver", "mark"} /\ pc'[c] \notin {"deliver", "mark"}
      PROVE  LocalsOfDelivery'
  <2>1. ASSUME NEW c \in Actors PROVE DeliveryOf(c)'
    BY <1>1, DeliveryFrame
  <2> QED BY <2>1 DEF LocalsOfDelivery
<1>2. ASSUME NEW b \in Sessions,
             \/ Enqueue(b) \/ foldQueue(b) \/ mergeExtra(b) \/ relabel(b) \/ startTurn(b) \/ endTurn(b)
      PROVE  LocalsOfDelivery'
  <2>1. UNCHANGED <<todo, item>>
    BY <1>2 DEF Enqueue, foldQueue, mergeExtra, relabel, startTurn, endTurn
  <2>2. \/ pc' = [pc EXCEPT ![b] = IF @ = "absent" THEN "idle" ELSE @]
        \/ /\ pc[b] \in {"idle", "again", "merge", "relabel", "run"}
           /\ \E l \in {"idle", "merge", "relabel", "run", "handoff", "report"} : pc' = [pc EXCEPT ![b] = l]
    BY <1>2 DEF Enqueue, foldQueue, mergeExtra, relabel, startTurn, endTurn
  <2>3. \A c \in Actors : \/ pc'[c] = pc[c]
                          \/ pc[c] \notin {"deliver", "mark"} /\ pc'[c] \notin {"deliver", "mark"}
    BY <2>2 DEF TypeInv, TypeOK
  <2> QED BY <1>1, <2>1, <2>3
<1>3. ASSUME NEW w \in Workers, tellSession(w) \/ reportToGeneral(w) \/ ensureWorkerRelayToGeneral(w)
      PROVE  LocalsOfDelivery'
  <2>1. UNCHANGED <<todo, item>>
    BY <1>3 DEF tellSession, reportToGeneral, ensureWorkerRelayToGeneral
  <2>2. UNCHANGED pc \/ (pc[w] = "report" /\ pc' = [pc EXCEPT ![w] = "list"])
    BY <1>3 DEF tellSession, reportToGeneral, ensureWorkerRelayToGeneral
  <2>3. \A c \in Actors : \/ pc'[c] = pc[c]
                          \/ pc[c] \notin {"deliver", "mark"} /\ pc'[c] \notin {"deliver", "mark"}
    BY <2>2 DEF TypeInv, TypeOK
  <2> QED BY <1>1, <2>1, <2>3
<1>4. ASSUME NEW w \in Workers, enqueueIdleRemind(w) PROVE LocalsOfDelivery'
  <2>1. /\ pc[Scheduler] = "idle" /\ pc' = [pc EXCEPT ![Scheduler] = "deliver"]
        /\ todo' = [todo EXCEPT ![Scheduler] = {lastMsg + 1}] /\ item' = item
        /\ enqueueBotMessage(w, General, FALSE)
    BY <1>4 DEF enqueueIdleRemind
  <2>2. ASSUME NEW c \in Actors, c # Scheduler PROVE DeliveryOf(c)'
    <3>1. todo'[c] = todo[c] /\ pc'[c] = pc[c] /\ item'[c] = item[c]
      BY <2>1, <2>2 DEF TypeInv, TypeOK
    <3> QED BY <3>1, DeliveryFrame
  <2>3. DeliveryOf(Scheduler)'
    <3>1. /\ lastMsg + 1 \in Sent' /\ mfrom'[lastMsg + 1] = w /\ relay'[lastMsg + 1] = FALSE
      BY <2>1, MessageAdded
    <3>2. todo'[Scheduler] = {lastMsg + 1} /\ pc'[Scheduler] = "deliver" /\ item'[Scheduler] = <<0, 0>>
      BY <2>1 DEF TypeInv, TypeOK, LocalsOfDelivery, DeliveryOf
    <3> QED BY <3>1, <3>2 DEF DeliveryOf, Delivers
  <2> QED BY <2>2, <2>3 DEF LocalsOfDelivery
<1>5. ASSUME NEW a \in Actors, deliverInbox(a) PROVE LocalsOfDelivery'
  <2>1. /\ pc[a] = "list" /\ pc' = [pc EXCEPT ![a] = After(a, Pending(a))]
        /\ todo' = [todo EXCEPT ![a] = Pending(a)] /\ item' = item
        /\ UNCHANGED <<mfrom, relay, lastMsg>>
    BY <1>5 DEF deliverInbox, inbox
  <2>2. ASSUME NEW c \in Actors, c # a PROVE DeliveryOf(c)'
    <3>1. todo'[c] = todo[c] /\ pc'[c] = pc[c] /\ item'[c] = item[c]
      BY <2>1, <2>2 DEF TypeInv, TypeOK
    <3> QED BY <3>1, DeliveryFrame
  <2>3. DeliveryOf(a)'
    <3>1. /\ todo'[a] = Pending(a) /\ pc'[a] = After(a, Pending(a)) /\ item'[a] = <<0, 0>>
      BY <2>1 DEF TypeInv, TypeOK, LocalsOfDelivery, DeliveryOf
    <3>2. a # Scheduler
      BY <2>1 DEF TypeInv, PlacesOfActors, PlacesOf
    <3>3. Sent' = Sent
      BY <2>1 DEF Sent
    <3>4. \A m \in Pending(a) : m \in Sent /\ (a \in Sessions => mfrom'[m] = a)
      BY <2>1 DEF Pending
    <3>5. \A m \in Pending(a) : Delivers(a, m)'
      BY <3>2, <3>4 DEF Delivers
    <3>6. pc'[a] # "mark" /\ (pc'[a] = "deliver" <=> Pending(a) # {})
      BY <3>1 DEF After
    <3> HIDE DEF deliveries
    <3> QED BY <3>1, <3>3, <3>4, <3>5, <3>6 DEF DeliveryOf
  <2> QED BY <2>2, <2>3 DEF LocalsOfDelivery
<1>6. ASSUME NEW a \in Actors, deliverCreate(a) PROVE LocalsOfDelivery'
  <2> DEFINE m == Oldest(todo[a])
  <2>1. /\ CreateTurn(mto[m], {m}) /\ pc[a] = "deliver"
        /\ todo' = [todo EXCEPT ![a] = @ \ {m}] /\ item' = [item EXCEPT ![a] = <<m, lastTurn + 1>>]
        /\ \/ pc' = [pc EXCEPT ![mto[m]] = IF @ = "absent" THEN "idle" ELSE @, ![a] = "mark"]
           \/ pc' = [pc EXCEPT ![a] = "mark"]
        /\ UNCHANGED <<mfrom, relay, lastMsg>>
    BY <1>6 DEF deliverCreate, GotoAndKick, inbox
  <2>2. /\ m \in todo[a] /\ m \in Sent /\ Delivers(a, m) /\ mto[m] \in Sessions
        /\ {m} \in SUBSET (Messages \cup {Notice})
    BY <1>6, OldestTodo DEF deliverCreate
  <2> HIDE DEF m
  <2>3. ASSUME NEW c \in Actors, c # a PROVE DeliveryOf(c)'
    <3>1. /\ todo'[c] = todo[c] /\ item'[c] = item[c]
          /\ pc'[c] = pc[c] \/ (pc[c] = "absent" /\ pc'[c] = "idle")
      BY <2>1, <2>2, <2>3 DEF TypeInv, TypeOK
    <3> QED BY <3>1, DeliveryFrame
  <2>4. DeliveryOf(a)'
    <3>1. todo'[a] = todo[a] \ {m} /\ pc'[a] = "mark" /\ item'[a] = <<m, lastTurn + 1>>
      BY <2>1, <2>2 DEF TypeInv, TypeOK
    <3>2. lastTurn + 1 \in TurnIds /\ lastTurn + 1 <= lastTurn'
      BY <2>1, <2>2, TurnCreated, TurnsStay
    <3>3. Sent' = Sent /\ todo[a] \subseteq Sent /\ \A n \in todo[a] : Delivers(a, n)'
      BY <2>1 DEF Sent, TypeInv, LocalsOfDelivery, DeliveryOf, Delivers
    <3>4. item'[a][1] = m /\ item'[a][2] = lastTurn + 1
      BY <3>1
    <3>5. Delivers(a, item[a][1])'
      BY <2>1, <2>2, <3>4 DEF Delivers
    <3> QED BY <2>2, <3>1, <3>2, <3>3, <3>4, <3>5 DEF DeliveryOf
  <2> QED BY <2>3, <2>4 DEF LocalsOfDelivery
<1>7. ASSUME NEW a \in Actors, deliverMark(a) PROVE LocalsOfDelivery'
  <2>1. /\ pc[a] = "mark" /\ todo' = todo /\ item' = [item EXCEPT ![a] = <<0, 0>>]
        /\ pc' = [pc EXCEPT ![mto[item[a][1]]] = IF @ = "absent" THEN "idle" ELSE @,
                            ![a] = After(a, todo[a])]
        /\ UNCHANGED <<mfrom, relay, lastMsg>>
    BY <1>7 DEF deliverMark, GotoAndKick
  <2>2. mto[item[a][1]] \in Sessions
    BY <2>1, InboxAssumption
       DEF TypeInv, TypeOK, LocalsOfDelivery, DeliveryOf, InboxInOrder, Sent, Messages
  <2>3. ASSUME NEW c \in Actors, c # a PROVE DeliveryOf(c)'
    <3>1. /\ todo'[c] = todo[c] /\ item'[c] = item[c]
          /\ pc'[c] = pc[c] \/ (pc[c] = "absent" /\ pc'[c] = "idle")
      BY <2>1, <2>2, <2>3 DEF TypeInv, TypeOK
    <3> QED BY <3>1, DeliveryFrame
  <2>4. DeliveryOf(a)'
    <3>1. pc'[a] = After(a, todo[a]) /\ item'[a] = <<0, 0>>
      BY <2>1, <2>2 DEF TypeInv, TypeOK
    <3>2. Sent' = Sent /\ todo[a] \subseteq Sent /\ \A n \in todo[a] : Delivers(a, n)'
      BY <2>1 DEF Sent, TypeInv, LocalsOfDelivery, DeliveryOf, Delivers
    <3>3. pc'[a] # "mark" /\ (pc'[a] = "deliver" <=> todo[a] # {})
      BY <3>1 DEF After
    <3> QED BY <2>1, <3>1, <3>2, <3>3 DEF DeliveryOf
  <2> QED BY <2>3, <2>4 DEF LocalsOfDelivery
<1>8. CASE ensureChiefTimeoutHandoff \/ followUp \/ fulfillOwnerRelay \/ recoverAfterRestart \/ armQueues
  <2>1. UNCHANGED <<todo, item>>
    BY <1>8 DEF ensureChiefTimeoutHandoff, followUp, fulfillOwnerRelay, recoverAfterRestart, armQueues
  <2>2. \/ /\ pc[General] \in {"handoff", "notice", "report"}
           /\ \E l \in {"notice", "report", "list"} : pc' = [pc EXCEPT ![General] = l]
        \/ pc[Boot] = "requeue" /\ pc' = [pc EXCEPT ![Boot] = "list"]
        \/ pc[Boot] = "arm" /\ pc' = [a \in Actors |-> IF a = Boot \/ (a \in Sessions /\ pc[a] = "absent")
                                                       THEN "idle" ELSE pc[a]]
    BY <1>8 DEF ensureChiefTimeoutHandoff, followUp, fulfillOwnerRelay, recoverAfterRestart, armQueues
  <2>3. \A c \in Actors : \/ pc'[c] = pc[c]
                          \/ pc[c] \notin {"deliver", "mark"} /\ pc'[c] \notin {"deliver", "mark"}
    BY <2>2 DEF TypeInv, TypeOK
  <2> QED BY <1>1, <2>1, <2>3
<1>9. CASE crash
  <2>1. ASSUME NEW c \in Actors
        PROVE  todo'[c] = {} /\ item'[c] = <<0, 0>> /\ pc'[c] \notin {"deliver", "mark"}
    BY <1>9 DEF crash, Resting
  <2> QED BY <2>1 DEF LocalsOfDelivery, DeliveryOf
<1> QED BY StepCases, <1>2, <1>3, <1>4, <1>5, <1>6, <1>7, <1>8, <1>9

LEMMA TypeInvKept ==
    ASSUME TypeInv, [Next]_vars
    PROVE  TypeInv'
<1>1. CASE Next
  <2>1. TypeOK' /\ RowsInOrder' /\ InboxInOrder' /\ PlacesOfActors'
    BY <1>1, TypesKept, RowsKept, InboxKept, PlacesKept
  <2>2. NoticeIsGenerals' /\ LocalsOfLoop' /\ LocalsOfDelivery'
    BY <1>1, NoticesKept, LoopKept, DeliveryKept
  <2> QED BY <2>1, <2>2 DEF TypeInv
<1>2. CASE UNCHANGED vars
  <2> USE DEF vars, turnRows, marks, inbox, loops, deliveries, history
  <2>1. TypeOK'
    BY <1>2 DEF TypeInv, TypeOK
  <2>2. RowsInOrder' /\ InboxInOrder' /\ PlacesOfActors' /\ NoticeIsGenerals'
    BY <1>2 DEF TypeInv, RowsInOrder, InboxInOrder, PlacesOfActors, NoticeIsGenerals, Sent
  <2>3. LocalsOfLoop' /\ LocalsOfDelivery'
    BY <1>2 DEF TypeInv, LocalsOfLoop, LocalsOfDelivery, DeliveryOf, Delivers, Sent
  <2> QED BY <2>1, <2>2, <2>3 DEF TypeInv
<1> QED BY <1>1, <1>2

LEMMA TypeInvAlways == Spec => []TypeInv
BY TypesAtStart, TypeInvKept, PTL DEF Spec

\* The columns, locals and histories of the inbox keep their types: a label is a row of turns or
\* null, what an actor holds is a message that was sent, a loop's place is one of execute's.
THEOREM TypeCorrect == Spec => []TypeOK
<1>1. TypeInv => TypeOK
  BY DEF TypeInv
<1> QED BY <1>1, TypeInvAlways, PTL
-----------------------------------------------------------------------------
(* No message is delivered twice.                                            *)

LEMMA NoCrash ==
    ASSUME TypeInv, Next, crashes' = 0
    PROVE  crashes = 0 /\ ~crash
<1>1. crashes \in Nat
  BY InboxAssumption DEF TypeInv, TypeOK
<1>2. ~crash
  BY <1>1 DEF crash
<1>3. ASSUME NEW b \in Sessions,
             \/ Enqueue(b) \/ foldQueue(b) \/ mergeExtra(b) \/ relabel(b) \/ startTurn(b) \/ endTurn(b)
      PROVE  crashes' = crashes
  BY <1>3 DEF Enqueue, foldQueue, mergeExtra, relabel, startTurn, endTurn
<1>4. ASSUME NEW w \in Workers,
             \/ tellSession(w) \/ reportToGeneral(w) \/ enqueueIdleRemind(w)
             \/ ensureWorkerRelayToGeneral(w)
      PROVE  crashes' = crashes
  BY <1>4 DEF tellSession, reportToGeneral, enqueueIdleRemind, ensureWorkerRelayToGeneral
<1>5. ASSUME NEW a \in Actors, deliverInbox(a) \/ deliverCreate(a) \/ deliverMark(a)
      PROVE  crashes' = crashes
  BY <1>5 DEF deliverInbox, deliverCreate, deliverMark
<1>6. CASE \/ ensureChiefTimeoutHandoff \/ followUp \/ fulfillOwnerRelay
           \/ recoverAfterRestart \/ armQueues
  BY <1>2, <1>6 DEF ensureChiefTimeoutHandoff, followUp, fulfillOwnerRelay, recoverAfterRestart, armQueues
<1> QED BY StepCases, <1>2, <1>3, <1>4, <1>5, <1>6

\* Before the queues are armed, only the boot pass takes a step, and it has nothing to deliver.
LEMMA BootIsFirst ==
    ASSUME TypeInv, NothingBeforeBoot, Next, ~crash, pc[Boot] # "idle"
    PROVE  recoverAfterRestart \/ (deliverInbox(Boot) /\ Pending(Boot) = {}) \/ armQueues
<1> USE Kinds DEF NothingBeforeBoot
<1>1. ASSUME NEW b \in Sessions,
             \/ Enqueue(b) \/ foldQueue(b) \/ mergeExtra(b) \/ relabel(b) \/ startTurn(b) \/ endTurn(b)
      PROVE  FALSE
  BY <1>1 DEF Enqueue, Started, foldQueue, mergeExtra, relabel, startTurn, endTurn
<1>2. ASSUME NEW w \in Workers,
             \/ tellSession(w) \/ reportToGeneral(w) \/ enqueueIdleRemind(w)
             \/ ensureWorkerRelayToGeneral(w)
      PROVE  FALSE
  BY <1>2 DEF tellSession, reportToGeneral, enqueueIdleRemind, Started, ensureWorkerRelayToGeneral
<1>3. CASE ensureChiefTimeoutHandoff \/ followUp \/ fulfillOwnerRelay
  BY <1>3 DEF ensureChiefTimeoutHandoff, followUp, fulfillOwnerRelay
<1>4. ASSUME NEW a \in Actors, deliverInbox(a) \/ deliverCreate(a) \/ deliverMark(a)
      PROVE  a = Boot /\ deliverInbox(a)
  BY <1>4 DEF deliverInbox, deliverCreate, deliverMark
<1>5. Pending(Boot) = {}
  BY DEF Pending, Sent
<1> QED BY StepCases, <1>1, <1>2, <1>3, <1>4, <1>5

\* Only the boot pass and a process death move listenV3.
LEMMA BootMoves ==
    ASSUME TypeInv, Next
    PROVE  \/ pc'[Boot] = pc[Boot]
           \/ recoverAfterRestart \/ armQueues \/ crash
           \/ deliverInbox(Boot) \/ deliverCreate(Boot) \/ deliverMark(Boot)
<1> USE Kinds DEF Goto, GotoAndKick
<1>1. ASSUME NEW b \in Sessions,
             \/ Enqueue(b) \/ foldQueue(b) \/ mergeExtra(b) \/ relabel(b) \/ startTurn(b) \/ endTurn(b)
      PROVE  pc'[Boot] = pc[Boot]
  <2>1. \/ pc' = [pc EXCEPT ![b] = IF @ = "absent" THEN "idle" ELSE @]
        \/ \E l \in {"idle", "merge", "relabel", "run", "handoff", "report"} : pc' = [pc EXCEPT ![b] = l]
    BY <1>1 DEF Enqueue, foldQueue, mergeExtra, relabel, startTurn, endTurn
  <2> QED BY <2>1 DEF TypeInv, TypeOK
<1>2. ASSUME NEW w \in Workers,
             \/ tellSession(w) \/ reportToGeneral(w) \/ enqueueIdleRemind(w)
             \/ ensureWorkerRelayToGeneral(w)
      PROVE  pc'[Boot] = pc[Boot]
  <2>1. UNCHANGED pc \/ \E a \in Actors \ {Boot}, l \in {"deliver", "list"} : pc' = [pc EXCEPT ![a] = l]
    BY <1>2 DEF tellSession, reportToGeneral, enqueueIdleRemind, ensureWorkerRelayToGeneral
  <2> QED BY <2>1 DEF TypeInv, TypeOK
<1>3. CASE ensureChiefTimeoutHandoff \/ followUp \/ fulfillOwnerRelay
  <2>1. \E l \in {"notice", "report", "list"} : pc' = [pc EXCEPT ![General] = l]
    BY <1>3 DEF ensureChiefTimeoutHandoff, followUp, fulfillOwnerRelay
  <2> QED BY <2>1 DEF TypeInv, TypeOK
<1>4. ASSUME NEW a \in Actors, deliverInbox(a), a # Boot PROVE pc'[Boot] = pc[Boot]
  <2>1. a # Boot /\ pc' = [pc EXCEPT ![a] = After(a, Pending(a))]
    BY <1>4 DEF deliverInbox
  <2> QED BY <2>1 DEF TypeInv, TypeOK
<1>5. ASSUME NEW a \in Actors, deliverCreate(a), a # Boot PROVE pc'[Boot] = pc[Boot]
  <2> DEFINE m == Oldest(todo[a])
  <2>1. /\ a # Boot
        /\ \/ pc' = [pc EXCEPT ![mto[m]] = IF @ = "absent" THEN "idle" ELSE @, ![a] = "mark"]
           \/ pc' = [pc EXCEPT ![a] = "mark"]
    BY <1>5 DEF deliverCreate
  <2>2. mto[m] \in Sessions
    BY <1>5, OldestTodo DEF deliverCreate
  <2> HIDE DEF m
  <2> QED BY <2>1, <2>2 DEF TypeInv, TypeOK
<1>6. ASSUME NEW a \in Actors, deliverMark(a), a # Boot PROVE pc'[Boot] = pc[Boot]
  <2>1. a # Boot /\ pc' = [pc EXCEPT ![mto[item[a][1]]] = IF @ = "absent" THEN "idle" ELSE @,
                                     ![a] = After(a, todo[a])]
    BY <1>6 DEF deliverMark
  <2>2. mto[item[a][1]] \in Sessions
    BY <1>6, InboxAssumption
       DEF deliverMark, TypeInv, TypeOK, LocalsOfDelivery, DeliveryOf, InboxInOrder, Sent, Messages
  <2> QED BY <2>1, <2>2 DEF TypeInv, TypeOK
<1> QED BY StepCases, <1>1, <1>2, <1>3, <1>4, <1>5, <1>6

LEMMA BootStays ==
    ASSUME TypeInv, Next, ~crash, pc[Boot] = "idle"
    PROVE  pc'[Boot] = "idle"
BY BootMoves DEF recoverAfterRestart, armQueues, deliverInbox, deliverCreate, deliverMark

LEMMA NothingKept ==
    ASSUME TypeInv, NothingBeforeBoot, Next, ~crash
    PROVE  NothingBeforeBoot'
<1> USE Kinds DEF turnRows, inbox, Goto
<1>1. CASE pc[Boot] = "idle"
  BY <1>1, BootStays DEF NothingBeforeBoot
<1>2. CASE pc[Boot] # "idle"
  <2>1. CASE recoverAfterRestart
    BY <1>2, <2>1 DEF recoverAfterRestart, NothingBeforeBoot, TypeInv, TypeOK
  <2>2. CASE deliverInbox(Boot) /\ Pending(Boot) = {}
    <3>1. /\ pc' = [pc EXCEPT ![Boot] = "arm"] /\ UNCHANGED <<lastTurn, lastMsg>>
      BY <2>2 DEF deliverInbox, After
    <3> QED BY <1>2, <3>1 DEF NothingBeforeBoot, TypeInv, TypeOK
  <2>3. CASE armQueues
    BY <2>3 DEF armQueues, NothingBeforeBoot
  <2> QED BY <1>2, <2>1, <2>2, <2>3, BootIsFirst
<1> QED BY <1>1, <1>2

LEMMA CopiesFrame ==
    ASSUME TypeInv, CopiesCounted, Next,
           \A m \in Sent' : m \notin Sent => copies'[m] = 0,
           \A m \in Sent : Covered(m) =>
                /\ copies'[m] = copies[m] /\ (delivered[m] => delivered'[m])
                /\ item'[mfrom[m]][1] = item[mfrom[m]][1] \/ item[mfrom[m]][1] # m \/ delivered'[m]
                /\ m \in todo'[mfrom[m]] => m \in todo[mfrom[m]] \/ copies[m] = 0
    PROVE  CopiesCounted'
<1> SUFFICES ASSUME NEW m \in Sent', Covered(m)'
             PROVE  /\ copies'[m] \in {0, 1}
                    /\ copies'[m] = 1 => delivered'[m] \/ item'[mfrom'[m]][1] = m
                    /\ m \in todo'[mfrom'[m]] => copies'[m] = 0
  BY DEF CopiesCounted
<1>1. CASE m \notin Sent
  BY <1>1
<1>2. CASE m \in Sent
  <2>1. mfrom'[m] = mfrom[m] /\ relay'[m] = relay[m]
    BY <1>2, MessagesStay
  <2>2. Covered(m)
    BY <2>1 DEF Covered
  <2> QED BY <1>2, <2>1, <2>2 DEF CopiesCounted
<1> QED BY <1>1, <1>2

LEMMA CopiesKept ==
    ASSUME TypeInv, NothingBeforeBoot, CopiesCounted, Next, ~crash
    PROVE  CopiesCounted'
<1> USE Kinds DEF deliveries, inbox, history
<1>0. Sent \subseteq Messages /\ \A m \in Sent : mfrom[m] \in Sessions
  BY MessagesStay DEF TypeInv, InboxInOrder
<1>1. ASSUME UNCHANGED <<mfrom, relay, lastMsg, delivered, copies, todo, item>>
      PROVE  CopiesCounted'
  BY <1>1 DEF CopiesCounted, Covered, Sent
<1>2. ASSUME NEW f \in Sessions, NEW t \in Sessions, NEW r \in BOOLEAN, enqueueBotMessage(f, t, r),
             UNCHANGED <<item, copies>>, \A b \in Sessions : todo'[b] = todo[b]
      PROVE  CopiesCounted'
  <2>1. /\ UNCHANGED delivered /\ copies[lastMsg + 1] = 0 /\ Sent' = Sent \cup {lastMsg + 1}
    BY <1>2, MessageAdded
  <2> QED BY <1>0, <1>2, <2>1, CopiesFrame
<1>3. ASSUME NEW b \in Sessions,
             \/ Enqueue(b) \/ foldQueue(b) \/ mergeExtra(b) \/ relabel(b) \/ startTurn(b) \/ endTurn(b)
      PROVE  CopiesCounted'
  BY <1>1, <1>3 DEF Enqueue, foldQueue, mergeExtra, relabel, startTurn, endTurn
<1>4. ASSUME NEW w \in Workers, tellSession(w) PROVE CopiesCounted'
  BY <1>2, <1>4 DEF tellSession
<1>5. ASSUME NEW w \in Workers, reportToGeneral(w) PROVE CopiesCounted'
  BY <1>2, <1>5 DEF reportToGeneral
<1>6. ASSUME NEW w \in Workers, enqueueIdleRemind(w) PROVE CopiesCounted'
  <2>1. /\ enqueueBotMessage(w, General, FALSE) /\ UNCHANGED <<item, copies>>
        /\ todo' = [todo EXCEPT ![Scheduler] = {lastMsg + 1}]
    BY <1>6 DEF enqueueIdleRemind
  <2>2. \A b \in Sessions : todo'[b] = todo[b]
    BY <2>1 DEF TypeInv, TypeOK
  <2> QED BY <1>2, <2>1, <2>2
<1>7. ASSUME NEW w \in Workers, ensureWorkerRelayToGeneral(w) PROVE CopiesCounted'
  <2>1. UNCHANGED <<item, copies, todo>> /\ (UNCHANGED inbox \/ enqueueBotMessage(w, General, TRUE))
    BY <1>7 DEF ensureWorkerRelayToGeneral
  <2> QED BY <1>1, <1>2, <2>1
<1>8. CASE ensureChiefTimeoutHandoff
  <2>1. UNCHANGED <<item, copies, todo>> /\ (UNCHANGED inbox \/ startBackendSession)
    BY <1>8 DEF ensureChiefTimeoutHandoff
  <2> QED BY <1>1, <1>2, <2>1 DEF startBackendSession
<1>9. CASE followUp \/ fulfillOwnerRelay \/ recoverAfterRestart \/ armQueues
  BY <1>1, <1>9 DEF followUp, fulfillOwnerRelay, recoverAfterRestart, armQueues
<1>10. ASSUME NEW a \in Actors, deliverInbox(a) PROVE CopiesCounted'
  <2>1. /\ todo' = [todo EXCEPT ![a] = Pending(a)] /\ pc[a] = "list"
        /\ UNCHANGED <<mfrom, relay, lastMsg, delivered, copies, item>>
    BY <1>10 DEF deliverInbox
  <2>2. CASE a = Boot
    BY <2>1, <2>2 DEF NothingBeforeBoot, CopiesCounted, Sent
  <2>3. CASE a \in Sessions
    <3>1. item[a] = <<0, 0>>
      BY <2>1 DEF TypeInv, LocalsOfDelivery, DeliveryOf
    <3>2. ASSUME NEW m \in Sent, Covered(m), m \in todo'[mfrom[m]]
          PROVE  m \in todo[mfrom[m]] \/ copies[m] = 0
      <4>1. CASE mfrom[m] = a
        <5>1. ~delivered[m] /\ m # 0
          BY <2>1, <2>3, <3>2, <4>1 DEF Pending, TypeInv, TypeOK, Sent
        <5> QED BY <3>1, <3>2, <4>1, <5>1 DEF CopiesCounted
      <4>2. CASE mfrom[m] # a
        BY <1>0, <2>1, <3>2, <4>2 DEF TypeInv, TypeOK
      <4> QED BY <4>1, <4>2
    <3>3. Sent' = Sent
      BY <2>1 DEF Sent
    <3> QED BY <2>1, <3>2, <3>3, CopiesFrame
  <2>4. CASE a = Scheduler
    BY <2>1, <2>4 DEF TypeInv, PlacesOfActors, PlacesOf
  <2> QED BY <2>2, <2>3, <2>4
<1>11. ASSUME NEW a \in Actors, deliverCreate(a) PROVE CopiesCounted'
  <2> DEFINE n == Oldest(todo[a])
  <2>1. /\ todo' = [todo EXCEPT ![a] = @ \ {n}] /\ item' = [item EXCEPT ![a] = <<n, lastTurn + 1>>]
        /\ copies' = [copies EXCEPT ![n] = @ + 1] /\ pc[a] = "deliver"
        /\ UNCHANGED <<mfrom, relay, lastMsg, delivered>>
    BY <1>11 DEF deliverCreate
  <2>2. n \in todo[a] /\ n \in Sent /\ Delivers(a, n) /\ item[a] = <<0, 0>> /\ a # Boot
    BY <2>1, OldestTodo DEF TypeInv, LocalsOfDelivery, DeliveryOf, NothingBeforeBoot
  <2> HIDE DEF n
  <2> SUFFICES ASSUME NEW m \in Sent, Covered(m)
               PROVE  /\ copies'[m] \in {0, 1}
                      /\ copies'[m] = 1 => delivered'[m] \/ item'[mfrom[m]][1] = m
                      /\ m \in todo'[mfrom[m]] => copies'[m] = 0
    BY <2>1 DEF CopiesCounted, Sent, Covered
  <2>3. /\ copies[m] \in {0, 1} /\ mfrom[m] \in Sessions /\ m # 0
        /\ copies[m] = 1 => delivered[m] \/ item[mfrom[m]][1] = m
        /\ m \in todo[mfrom[m]] => copies[m] = 0
    BY <1>0 DEF CopiesCounted, Sent
  <2>4. CASE m = n
    <3>1. a \in Sessions /\ mfrom[m] = a
      BY <2>2, <2>4 DEF Delivers, Covered
    <3>2. copies[m] = 0 /\ copies'[m] = 1
      BY <1>0, <2>1, <2>2, <2>3, <2>4, <3>1 DEF TypeInv, TypeOK
    <3>3. item'[a][1] = m /\ m \notin todo'[a]
      BY <2>1, <2>4 DEF TypeInv, TypeOK
    <3> QED BY <3>1, <3>2, <3>3
  <2>5. CASE m # n
    <3>1. copies'[m] = copies[m] /\ todo'[mfrom[m]] \subseteq todo[mfrom[m]]
      BY <1>0, <2>1, <2>3, <2>5 DEF TypeInv, TypeOK
    <3>2. item[mfrom[m]][1] = m => item'[mfrom[m]] = item[mfrom[m]]
      BY <2>1, <2>2, <2>3 DEF TypeInv, TypeOK
    <3> QED BY <2>1, <2>3, <3>1, <3>2
  <2> QED BY <2>4, <2>5
<1>12. ASSUME NEW a \in Actors, deliverMark(a) PROVE CopiesCounted'
  <2>1. /\ item' = [item EXCEPT ![a] = <<0, 0>>] /\ delivered' = [delivered EXCEPT ![item[a][1]] = TRUE]
        /\ UNCHANGED <<mfrom, relay, lastMsg, copies, todo>>
    BY <1>12 DEF deliverMark
  <2>2. ASSUME NEW m \in Sent
        PROVE  /\ delivered[m] => delivered'[m]
               /\ item'[mfrom[m]][1] = item[mfrom[m]][1] \/ item[mfrom[m]][1] # m \/ delivered'[m]
    BY <1>0, <2>1 DEF TypeInv, TypeOK
  <2>3. Sent' = Sent
    BY <2>1 DEF Sent
  <2> QED BY <2>1, <2>2, <2>3, CopiesFrame
<1> QED BY StepCases, <1>3, <1>4, <1>5, <1>6, <1>7, <1>8, <1>9, <1>10, <1>11, <1>12

LEMMA DeliveryInvKept ==
    ASSUME TypeInv, DeliveryInv, [Next]_vars
    PROVE  DeliveryInv'
<1>1. CASE Next
  BY <1>1, NoCrash, NothingKept, CopiesKept DEF DeliveryInv
<1>2. CASE UNCHANGED vars
  BY <1>2 DEF vars, turnRows, inbox, deliveries, history, DeliveryInv, NothingBeforeBoot, CopiesCounted,
              Covered, Sent
<1> QED BY <1>1, <1>2

LEMMA DeliveryInvAlways == Spec => []DeliveryInv
<1>1. Init => DeliveryInv
  BY Kinds DEF Init, Resting, DeliveryInv, NothingBeforeBoot, CopiesCounted, Sent
<1> QED BY <1>1, TypeInvAlways, DeliveryInvKept, PTL DEF Spec

\* A process that has not been restarted makes one turn for an instruction or a report, whatever
\* the loops, the boot pass and the scheduler deliver at the same time.
THEOREM NoneDeliveredTwice == Spec => []DeliveredOnce
<1>1. DeliveryInv => DeliveredOnce
  BY DEF DeliveryInv, CopiesCounted, Covered, DeliveredOnce
<1> QED BY <1>1, DeliveryInvAlways, PTL
-----------------------------------------------------------------------------
(* One report per turn.                                                      *)

LEMMA QuietKept ==
    ASSUME TypeInv, QuietBeforeList, Next
    PROVE  QuietBeforeList'
<1> USE Kinds DEF Goto
<1>1. CASE crash
  BY <1>1 DEF crash, QuietBeforeList, Resting
<1>2. CASE recoverAfterRestart
  <2>1. pc[Boot] = "requeue" /\ pc' = [pc EXCEPT ![Boot] = "list"]
    BY <1>2 DEF recoverAfterRestart
  <2> QED BY <2>1 DEF QuietBeforeList, TypeInv, TypeOK
<1>3. CASE armQueues
  BY <1>3 DEF armQueues, QuietBeforeList
<1>4. CASE deliverInbox(Boot)
  <2>1. pc'[Boot] \in {"deliver", "arm"}
    BY <1>4 DEF deliverInbox, After, TypeInv, TypeOK
  <2> QED BY <2>1 DEF QuietBeforeList
<1>5. CASE deliverCreate(Boot)
  <2>1. pc'[Boot] = "mark"
    BY <1>5 DEF deliverCreate, TypeInv, TypeOK
  <2> QED BY <2>1 DEF QuietBeforeList
<1>6. CASE deliverMark(Boot)
  <2>1. pc'[Boot] \in {"deliver", "arm"}
    BY <1>6 DEF deliverMark, GotoAndKick, After, TypeInv, TypeOK
  <2> QED BY <2>1 DEF QuietBeforeList
<1>7. CASE pc'[Boot] = pc[Boot] /\ pc[Boot] \notin {"requeue", "list"}
  BY <1>7 DEF QuietBeforeList
<1>8. ASSUME pc[Boot] \in {"requeue", "list"}
      PROVE  recoverAfterRestart \/ deliverInbox(Boot) \/ crash
  <2> USE <1>8 DEF QuietBeforeList
  <2>1. ASSUME NEW b \in Sessions,
               \/ Enqueue(b) \/ foldQueue(b) \/ mergeExtra(b) \/ relabel(b) \/ startTurn(b) \/ endTurn(b)
        PROVE  FALSE
    BY <2>1 DEF Enqueue, Started, foldQueue, mergeExtra, relabel, startTurn, endTurn
  <2>2. ASSUME NEW w \in Workers,
               \/ tellSession(w) \/ reportToGeneral(w) \/ enqueueIdleRemind(w)
               \/ ensureWorkerRelayToGeneral(w)
        PROVE  FALSE
    BY <2>2 DEF tellSession, reportToGeneral, enqueueIdleRemind, Started, ensureWorkerRelayToGeneral
  <2>3. CASE ensureChiefTimeoutHandoff \/ followUp \/ fulfillOwnerRelay \/ armQueues
    BY <2>3 DEF ensureChiefTimeoutHandoff, followUp, fulfillOwnerRelay, armQueues
  <2>4. ASSUME NEW a \in Actors, deliverInbox(a) \/ deliverCreate(a) \/ deliverMark(a)
        PROVE  a = Boot /\ deliverInbox(a)
    BY <2>4 DEF deliverInbox, deliverCreate, deliverMark
  <2> QED BY StepCases, <2>1, <2>2, <2>3, <2>4
<1> QED BY BootMoves, <1>1, <1>2, <1>3, <1>4, <1>5, <1>6, <1>7, <1>8

LEMMA ReportStays ==
    ASSUME TypeInv, ReportIsPending, Next, NEW w \in Workers,
           reported[w], pc[w] \in {"run", "report"},
           todo'[Boot] \subseteq todo[Boot],
           item'[Boot] = item[Boot] \/ item'[Boot][1] \in todo[Boot] \cup {0},
           \A m \in Sent : \/ delivered'[m] = delivered[m] \/ ~relay[m]
                           \/ m = item[Boot][1] \/ pc[mfrom[m]] = "mark"
    PROVE  \E m \in Sent' : /\ mfrom'[m] = w /\ mto'[m] = General /\ relay'[m] /\ ~delivered'[m]
                            /\ m \notin todo'[Boot] /\ item'[Boot][1] # m
<1>1. PICK m \in Sent : /\ mfrom[m] = w /\ mto[m] = General /\ relay[m] /\ ~delivered[m]
                        /\ m \notin todo[Boot] /\ item[Boot][1] # m
  BY DEF ReportIsPending
<1>2. m \in Sent' /\ mfrom'[m] = w /\ mto'[m] = General /\ relay'[m]
  BY <1>1, MessagesStay
<1>3. m # 0
  BY DEF Sent, TypeInv, TypeOK
<1> QED BY <1>1, <1>2, <1>3

LEMMA PendingKept ==
    ASSUME TypeInv, QuietBeforeList, ReportIsPending, Next
    PROVE  ReportIsPending'
<1> USE Kinds DEF deliveries, inbox, loops, Goto
<1>1. ASSUME UNCHANGED <<todo, item, delivered>>,
             \A w \in Workers : reported'[w] /\ pc'[w] \in {"run", "report"} =>
                                    reported[w] /\ pc[w] \in {"run", "report"}
      PROVE  ReportIsPending'
  <2> SUFFICES ASSUME NEW w \in Workers, reported'[w], pc'[w] \in {"run", "report"}
               PROVE  \E m \in Sent' :
                         /\ mfrom'[m] = w /\ mto'[m] = General /\ relay'[m] /\ ~delivered'[m]
                         /\ m \notin todo'[Boot] /\ item'[Boot][1] # m
    BY DEF ReportIsPending
  <2> QED BY <1>1, ReportStays
<1>2. ASSUME NEW b \in Sessions, Enqueue(b) \/ foldQueue(b) \/ mergeExtra(b) \/ relabel(b)
      PROVE  ReportIsPending'
  <2>1. UNCHANGED <<todo, item, delivered, reported>>
    BY <1>2 DEF Enqueue, foldQueue, mergeExtra, relabel
  <2>2. \/ pc' = [pc EXCEPT ![b] = IF @ = "absent" THEN "idle" ELSE @]
        \/ \E l \in {"idle", "merge", "relabel"} : pc' = [pc EXCEPT ![b] = l]
    BY <1>2 DEF Enqueue, foldQueue, mergeExtra, relabel
  <2>3. \A w \in Workers : pc'[w] \in {"run", "report"} => pc[w] = pc'[w]
    BY <2>2 DEF TypeInv, TypeOK
  <2> QED BY <1>1, <2>1, <2>3
<1>3. ASSUME NEW b \in Sessions, startTurn(b) PROVE ReportIsPending'
  <2>1. /\ UNCHANGED <<todo, item, delivered>> /\ reported' = [reported EXCEPT ![b] = FALSE]
        /\ pc' = [pc EXCEPT ![b] = "run"]
    BY <1>3 DEF startTurn
  <2>2. \A w \in Workers : reported'[w] => reported[w] /\ pc'[w] = pc[w]
    BY <2>1 DEF TypeInv, TypeOK
  <2> QED BY <1>1, <2>1, <2>2
<1>4. ASSUME NEW b \in Sessions, endTurn(b) PROVE ReportIsPending'
  <2>1. /\ UNCHANGED <<todo, item, delivered, reported>> /\ pc[b] = "run"
        /\ \E l \in {"handoff", "report"} : pc' = [pc EXCEPT ![b] = l]
    BY <1>4 DEF endTurn
  <2>2. \A w \in Workers : pc'[w] \in {"run", "report"} => pc[w] \in {"run", "report"}
    BY <2>1 DEF TypeInv, TypeOK
  <2> QED BY <1>1, <2>1, <2>2
<1>5. ASSUME NEW w \in Workers, tellSession(w) PROVE ReportIsPending'
  <2>1. UNCHANGED <<todo, item, delivered, reported, pc>>
    BY <1>5 DEF tellSession, enqueueBotMessage
  <2> QED BY <1>1, <2>1
<1>6. ASSUME NEW v \in Workers, reportToGeneral(v) PROVE ReportIsPending'
  <2>1. /\ enqueueBotMessage(v, General, TRUE) /\ reported' = [reported EXCEPT ![v] = TRUE]
        /\ UNCHANGED <<todo, item, delivered, pc>>
    BY <1>6 DEF reportToGeneral, enqueueBotMessage
  <2> SUFFICES ASSUME NEW w \in Workers, reported'[w], pc'[w] \in {"run", "report"}
               PROVE  \E m \in Sent' :
                         /\ mfrom'[m] = w /\ mto'[m] = General /\ relay'[m] /\ ~delivered'[m]
                         /\ m \notin todo'[Boot] /\ item'[Boot][1] # m
    BY DEF ReportIsPending
  <2>2. CASE w = v
    <3>1. /\ mfrom'[lastMsg + 1] = v /\ mto'[lastMsg + 1] = General /\ relay'[lastMsg + 1]
          /\ Sent' = Sent \cup {lastMsg + 1} /\ lastMsg + 1 \notin Sent /\ ~delivered[lastMsg + 1]
          /\ lastMsg + 1 \in Messages
      BY <2>1, MessageAdded
    <3>2. todo[Boot] \subseteq Sent /\ (item[Boot][1] \in Sent \/ item[Boot][1] = 0)
      BY DEF TypeInv, LocalsOfDelivery, DeliveryOf
    <3>3. lastMsg + 1 # 0
      BY DEF TypeInv, TypeOK
    <3> QED BY <2>1, <2>2, <3>1, <3>2, <3>3
  <2>3. CASE w # v
    <3>1. reported[w]
      BY <2>1, <2>3 DEF TypeInv, TypeOK
    <3> QED BY <2>1, <3>1, ReportStays
  <2> QED BY <2>2, <2>3
<1>7. ASSUME NEW v \in Workers, ensureWorkerRelayToGeneral(v) PROVE ReportIsPending'
  <2>1. UNCHANGED <<todo, item, delivered, reported>> /\ pc' = [pc EXCEPT ![v] = "list"]
    BY <1>7 DEF ensureWorkerRelayToGeneral, enqueueBotMessage
  <2>2. \A w \in Workers : pc'[w] \in {"run", "report"} => pc[w] = pc'[w]
    BY <2>1 DEF TypeInv, TypeOK
  <2> QED BY <1>1, <2>1, <2>2
<1>8. CASE ensureChiefTimeoutHandoff \/ followUp \/ fulfillOwnerRelay
  <2>1. UNCHANGED <<todo, item, delivered, reported>>
        /\ \E l \in {"notice", "report", "list"} : pc' = [pc EXCEPT ![General] = l]
    BY <1>8 DEF ensureChiefTimeoutHandoff, followUp, fulfillOwnerRelay, startBackendSession,
                enqueueBotMessage
  <2>2. \A w \in Workers : pc'[w] = pc[w]
    BY <2>1 DEF TypeInv, TypeOK
  <2> QED BY <1>1, <2>1, <2>2
<1>9. CASE recoverAfterRestart \/ armQueues
  <2>1. UNCHANGED <<todo, item, delivered, reported>>
    BY <1>9 DEF recoverAfterRestart, armQueues
  <2>2. \A w \in Workers : pc'[w] \in {"run", "report"} => pc[w] = pc'[w]
    BY <1>9 DEF recoverAfterRestart, armQueues, TypeInv, TypeOK
  <2> QED BY <1>1, <2>1, <2>2
<1>10. CASE crash
  <2>1. \A w \in Workers : ~reported'[w]
    BY <1>10 DEF crash
  <2> QED BY <2>1 DEF ReportIsPending
<1>11. ASSUME NEW v \in Workers, enqueueIdleRemind(v) PROVE ReportIsPending'
  <2>1. /\ UNCHANGED <<item, delivered, reported>> /\ pc' = [pc EXCEPT ![Scheduler] = "deliver"]
        /\ todo' = [todo EXCEPT ![Scheduler] = {lastMsg + 1}]
    BY <1>11 DEF enqueueIdleRemind, enqueueBotMessage
  <2>2. todo'[Boot] = todo[Boot] /\ \A w \in Workers : pc'[w] = pc[w]
    BY <2>1 DEF TypeInv, TypeOK
  <2> SUFFICES ASSUME NEW w \in Workers, reported'[w], pc'[w] \in {"run", "report"}
               PROVE  \E m \in Sent' :
                         /\ mfrom'[m] = w /\ mto'[m] = General /\ relay'[m] /\ ~delivered'[m]
                         /\ m \notin todo'[Boot] /\ item'[Boot][1] # m
    BY DEF ReportIsPending
  <2> QED BY <2>1, <2>2, ReportStays
<1>12. ASSUME NEW a \in Actors, deliverInbox(a) PROVE ReportIsPending'
  <2>1. /\ UNCHANGED <<item, delivered>> /\ pc[a] = "list" /\ pc' = [pc EXCEPT ![a] = After(a, Pending(a))]
        /\ todo' = [todo EXCEPT ![a] = Pending(a)]
        /\ \A b \in Sessions : reported'[b] => reported[b]
    BY <1>12 DEF deliverInbox, LeaveExecute
  <2> SUFFICES ASSUME NEW w \in Workers, reported'[w], pc'[w] \in {"run", "report"}
               PROVE  \E m \in Sent' :
                         /\ mfrom'[m] = w /\ mto'[m] = General /\ relay'[m] /\ ~delivered'[m]
                         /\ m \notin todo'[Boot] /\ item'[Boot][1] # m
    BY DEF ReportIsPending
  <2>2. pc'[w] = pc[w]
    BY <2>1 DEF TypeInv, TypeOK, After
  <2>3. a # Boot
    BY <2>1, <2>2 DEF QuietBeforeList
  <2>4. todo'[Boot] = todo[Boot]
    BY <2>1, <2>3 DEF TypeInv, TypeOK
  <2> QED BY <2>1, <2>2, <2>4, ReportStays
<1>13. ASSUME NEW a \in Actors, deliverCreate(a) PROVE ReportIsPending'
  <2> DEFINE n == Oldest(todo[a])
  <2>1. /\ UNCHANGED <<delivered, reported>> /\ pc[a] = "deliver"
        /\ todo' = [todo EXCEPT ![a] = @ \ {n}] /\ item' = [item EXCEPT ![a] = <<n, lastTurn + 1>>]
        /\ \/ pc' = [pc EXCEPT ![mto[n]] = IF @ = "absent" THEN "idle" ELSE @, ![a] = "mark"]
           \/ pc' = [pc EXCEPT ![a] = "mark"]
    BY <1>13 DEF deliverCreate, GotoAndKick
  <2>2. n \in todo[a] /\ mto[n] \in Sessions
    BY <2>1, OldestTodo
  <2> HIDE DEF n
  <2>3. /\ todo'[Boot] \subseteq todo[Boot]
        /\ item'[Boot] = item[Boot] \/ item'[Boot][1] \in todo[Boot]
    BY <2>1, <2>2 DEF TypeInv, TypeOK
  <2>4. \A w \in Workers : pc'[w] \in {"run", "report"} => pc[w] = pc'[w]
    BY <2>1, <2>2 DEF TypeInv, TypeOK
  <2> SUFFICES ASSUME NEW w \in Workers, reported'[w], pc'[w] \in {"run", "report"}
               PROVE  \E m \in Sent' :
                         /\ mfrom'[m] = w /\ mto'[m] = General /\ relay'[m] /\ ~delivered'[m]
                         /\ m \notin todo'[Boot] /\ item'[Boot][1] # m
    BY DEF ReportIsPending
  <2> QED BY <2>1, <2>3, <2>4, ReportStays
<1>14. ASSUME NEW a \in Actors, deliverMark(a) PROVE ReportIsPending'
  <2>1. /\ UNCHANGED <<todo, reported>> /\ pc[a] = "mark"
        /\ item' = [item EXCEPT ![a] = <<0, 0>>] /\ delivered' = [delivered EXCEPT ![item[a][1]] = TRUE]
        /\ pc' = [pc EXCEPT ![mto[item[a][1]]] = IF @ = "absent" THEN "idle" ELSE @,
                            ![a] = After(a, todo[a])]
    BY <1>14 DEF deliverMark, GotoAndKick
  <2>2. item[a][1] \in Sent /\ Sent \subseteq Messages /\ Delivers(a, item[a][1])
        /\ mto[item[a][1]] \in Sessions
    BY <2>1, MessagesStay DEF TypeInv, LocalsOfDelivery, DeliveryOf, InboxInOrder
  <2>3. item'[Boot] = item[Boot] \/ item'[Boot][1] = 0
    BY <2>1 DEF TypeInv, TypeOK
  <2>4. \A w \in Workers : pc'[w] \in {"run", "report"} => pc[w] = pc'[w]
    BY <2>1, <2>2 DEF TypeInv, TypeOK, After
  <2>5. ASSUME NEW m \in Sent
        PROVE  \/ delivered'[m] = delivered[m] \/ ~relay[m]
               \/ m = item[Boot][1] \/ pc[mfrom[m]] = "mark"
    <3>1. m # item[a][1] => delivered'[m] = delivered[m]
      BY <2>1, <2>2 DEF TypeInv, TypeOK
    <3>2. ASSUME m = item[a][1], relay[m], a # Boot PROVE pc[mfrom[m]] = "mark"
      BY <2>1, <2>2, <3>2 DEF Delivers
    <3> QED BY <3>1, <3>2
  <2> SUFFICES ASSUME NEW w \in Workers, reported'[w], pc'[w] \in {"run", "report"}
               PROVE  \E m \in Sent' :
                         /\ mfrom'[m] = w /\ mto'[m] = General /\ relay'[m] /\ ~delivered'[m]
                         /\ m \notin todo'[Boot] /\ item'[Boot][1] # m
    BY DEF ReportIsPending
  <2> QED BY <2>1, <2>3, <2>4, <2>5, ReportStays
<1> QED BY StepCases, <1>2, <1>3, <1>4, <1>5, <1>6, <1>7, <1>8, <1>9, <1>10, <1>11, <1>12, <1>13, <1>14

LEMMA ReportInvAlways == Spec => []ReportInv
<1>1. Init => ReportInv
  BY Kinds DEF Init, Resting, ReportInv, QuietBeforeList, ReportIsPending
<1>2. ASSUME TypeInv, ReportInv, [Next]_vars PROVE ReportInv'
  <2>1. CASE Next
    BY <1>2, <2>1, QuietKept, PendingKept DEF ReportInv
  <2>2. CASE UNCHANGED vars
    BY <1>2, <2>2 DEF vars, inbox, loops, deliveries, ReportInv, QuietBeforeList, ReportIsPending, Sent
  <2> QED BY <1>2, <2>1, <2>2
<1> QED BY <1>1, <1>2, TypeInvAlways, PTL DEF Spec

\* A worker that called report_to_general in its turn gets no second report from the end of the
\* turn: the look for a pending one finds it, for nobody can have delivered it in between.
THEOREM NoSecondReport == Spec => OneReportPerTurn
<1> DEFINE Once == \A w \in Workers :
                      pc[w] = "report" /\ pc'[w] = "list" /\ reported[w] => lastMsg' = lastMsg
<1>1. ASSUME TypeInv, ReportInv, [Next]_vars PROVE [Once]_vars
  <2> SUFFICES ASSUME Next, NEW w \in Workers, pc[w] = "report", pc'[w] = "list", reported[w]
               PROVE  lastMsg' = lastMsg
    BY <1>1
  <2> USE <1>1, Kinds DEF inbox, Goto
  <2>1. hasPendingOwnerRelay(w)
    BY DEF ReportInv, ReportIsPending, hasPendingOwnerRelay
  <2>2. ASSUME NEW v \in Workers, ensureWorkerRelayToGeneral(v) PROVE lastMsg' = lastMsg
    <3>1. pc' = [pc EXCEPT ![v] = "list"]
          /\ (UNCHANGED inbox \/ ~hasPendingOwnerRelay(v))
      BY <2>2 DEF ensureWorkerRelayToGeneral
    <3>2. v = w
      BY <3>1 DEF TypeInv, TypeOK
    <3> QED BY <2>1, <3>1, <3>2
  <2>3. ASSUME NEW v \in Workers, tellSession(v) \/ reportToGeneral(v) \/ enqueueIdleRemind(v)
        PROVE  FALSE
    <3>1. UNCHANGED pc \/ pc' = [pc EXCEPT ![Scheduler] = "deliver"]
      BY <2>3 DEF tellSession, reportToGeneral, enqueueIdleRemind
    <3> QED BY <3>1 DEF TypeInv, TypeOK
  <2>4. ASSUME NEW b \in Sessions,
               \/ Enqueue(b) \/ foldQueue(b) \/ mergeExtra(b) \/ relabel(b) \/ startTurn(b) \/ endTurn(b)
        PROVE  lastMsg' = lastMsg
    BY <2>4 DEF Enqueue, foldQueue, mergeExtra, relabel, startTurn, endTurn
  <2>5. ASSUME NEW a \in Actors, deliverInbox(a) \/ deliverCreate(a) \/ deliverMark(a)
        PROVE  lastMsg' = lastMsg
    BY <2>5 DEF deliverInbox, deliverCreate, deliverMark
  <2>6. CASE ensureChiefTimeoutHandoff
    <3>1. \E l \in {"notice", "report"} : pc' = [pc EXCEPT ![General] = l]
      BY <2>6 DEF ensureChiefTimeoutHandoff
    <3> QED BY <3>1 DEF TypeInv, TypeOK
  <2>7. CASE followUp \/ fulfillOwnerRelay \/ recoverAfterRestart \/ armQueues \/ crash
    BY <2>7 DEF followUp, fulfillOwnerRelay, recoverAfterRestart, armQueues, crash
  <2> QED BY StepCases, <2>2, <2>3, <2>4, <2>5, <2>6, <2>7
<1> QED BY <1>1, TypeInvAlways, ReportInvAlways, PTL DEF Spec, OneReportPerTurn
-----------------------------------------------------------------------------
(* No report that was marked goes unheard.                                   *)

\* General's loop keeps its locals, and moves at most among the places before a turn has begun or
\* among those after it has ended.
GeneralStands ==
    /\ head'[General] = head[General] /\ carry'[General] = carry[General]
    /\ extras'[General] = extras[General]
    /\ \/ pc'[General] = pc[General]
       \/ {pc[General], pc'[General]} \subseteq {"absent", "idle", "again", "list", "deliver", "mark"}
       \/ {pc[General], pc'[General]} \subseteq {"handoff", "notice", "report"}

\* General's rows are as they were, and new rows are queued.
RowsStand ==
    /\ late' = late
    /\ \A t \in TurnIds :
          IF t <= lastTurn
          THEN /\ tbot'[t] = tbot[t] /\ (t \in tuser' <=> t \in tuser)
               /\ tbot[t] = General =>
                     /\ tstatus'[t] = tstatus[t] /\ tmsgs'[t] = tmsgs[t]
                     /\ tcreated'[t] = tcreated[t] /\ tstarted'[t] = tstarted[t]
          ELSE tstatus'[t] \in {"none", "queued"}

LEMMA UnchangedRowsStand ==
    ASSUME TypeInv, UNCHANGED turnRows
    PROVE  RowsStand
<1>1. \A t \in TurnIds : ~(t <= lastTurn) => tstatus[t] = "none"
  BY DEF TypeInv, RowsInOrder
<1> QED BY <1>1 DEF RowsStand, turnRows, marks

LEMMA RowCreated ==
    ASSUME TypeInv, NEW b \in Sessions, NEW S \in SUBSET (Messages \cup {Notice}), CreateTurn(b, S),
           tuser' = tuser \/ tuser' = tuser \cup {lastTurn + 1}
    PROVE  RowsStand
<1>1. /\ lastTurn \in Nat /\ UNCHANGED <<tstarted, late>> /\ tstatus'[lastTurn + 1] = "queued"
      /\ \A t \in TurnIds : t # lastTurn + 1 =>
                 /\ tstatus'[t] = tstatus[t] /\ tbot'[t] = tbot[t] /\ tmsgs'[t] = tmsgs[t]
                 /\ tcreated'[t] = tcreated[t]
  BY TurnCreated
<1>2. \A t \in TurnIds : ~(t <= lastTurn) => tstatus[t] = "none"
  BY DEF TypeInv, RowsInOrder
<1>3. \A t \in TurnIds : t <= lastTurn => t # lastTurn + 1
  BY <1>1 DEF TurnIds
<1> QED BY <1>1, <1>2, <1>3 DEF RowsStand

\* Another session's row is none of General's.
LEMMA OtherRow ==
    ASSUME TypeInv, NEW r \in TurnIds, r <= lastTurn, tbot[r] # General,
           UNCHANGED <<tbot, tuser, late>>,
           \A t \in TurnIds : t # r => /\ tstatus'[t] = tstatus[t] /\ tmsgs'[t] = tmsgs[t]
                                       /\ tcreated'[t] = tcreated[t] /\ tstarted'[t] = tstarted[t]
    PROVE  RowsStand
<1>1. \A t \in TurnIds : ~(t <= lastTurn) => tstatus[t] = "none"
  BY DEF TypeInv, RowsInOrder
<1> QED BY <1>1 DEF RowsStand

\* All steps but those of General's own turns leave them alone.
LEMMA GeneralSteps ==
    ASSUME TypeInv, NothingBeforeBoot, Next, ~crash
    PROVE  \/ GeneralStands /\ RowsStand
           \/ foldQueue(General) \/ mergeExtra(General) \/ relabel(General) \/ startTurn(General)
           \/ endTurn(General) \/ fulfillOwnerRelay \/ deliverInbox(General)
<1> USE Kinds DEF loops, turnRows, marks, Goto
<1>1. ASSUME NEW b \in Sessions, Enqueue(b) PROVE GeneralStands /\ RowsStand
  <2>1. /\ CreateTurn(b, {}) /\ (tuser' = tuser \/ tuser' = tuser \cup {lastTurn + 1})
        /\ UNCHANGED <<head, carry, extras>>
        /\ pc' = [pc EXCEPT ![b] = IF @ = "absent" THEN "idle" ELSE @]
    BY <1>1 DEF Enqueue
  <2>2. GeneralStands
    BY <2>1 DEF TypeInv, TypeOK, GeneralStands
  <2>3. {} \in SUBSET (Messages \cup {Notice})
    OBVIOUS
  <2> QED BY <2>1, <2>2, <2>3, RowCreated
<1>2. ASSUME NEW b \in Sessions, b # General, foldQueue(b) PROVE GeneralStands /\ RowsStand
  <2>1. UNCHANGED turnRows
    BY <1>2 DEF foldQueue
  <2>2. GeneralStands
    <3>1. \/ UNCHANGED <<head, carry, extras>>
          \/ /\ head' = [head EXCEPT ![b] = Oldest(QueuedOf(b))]
             /\ carry' = [carry EXCEPT ![b] = UNION {tmsgs[t] : t \in QueuedOf(b)}]
             /\ extras' = [extras EXCEPT ![b] = QueuedOf(b) \ {Oldest(QueuedOf(b))}]
      BY <1>2 DEF foldQueue
    <3>2. \E l \in {"idle", "merge"} : pc' = [pc EXCEPT ![b] = l]
      BY <1>2 DEF foldQueue
    <3> QED BY <1>2, <3>1, <3>2 DEF TypeInv, TypeOK, GeneralStands
  <2> QED BY <2>1, <2>2, UnchangedRowsStand
<1>3. ASSUME NEW b \in Sessions, b # General, mergeExtra(b) PROVE GeneralStands /\ RowsStand
  <2> DEFINE x == Oldest(extras[b])
  <2>1. x \in TurnIds /\ x <= lastTurn /\ tbot[x] = b
    BY <1>3, OldestExtra DEF mergeExtra, TypeInv, LocalsOfLoop
  <2>2. /\ tstatus' = [tstatus EXCEPT ![x] = "ended"] /\ tcreated' = [tcreated EXCEPT ![x] = 0]
        /\ UNCHANGED <<tbot, tmsgs, tuser, tstarted, late, head, carry, extras>>
        /\ pc' = [pc EXCEPT ![b] = "relabel"]
    BY <1>3 DEF mergeExtra
  <2> HIDE DEF x
  <2>3. GeneralStands
    BY <1>3, <2>2 DEF TypeInv, TypeOK, GeneralStands
  <2>4. \A t \in TurnIds : t # x => tstatus'[t] = tstatus[t] /\ tcreated'[t] = tcreated[t]
    BY <2>2 DEF TypeInv, TypeOK
  <2> QED BY <1>3, <2>1, <2>2, <2>3, <2>4, OtherRow
<1>4. ASSUME NEW b \in Sessions, b # General, relabel(b) PROVE GeneralStands /\ RowsStand
  <2>1. /\ UNCHANGED <<turnRows, head, carry>> /\ pc' = [pc EXCEPT ![b] = "merge"]
        /\ extras' = [extras EXCEPT ![b] = @ \ {Oldest(extras[b])}]
    BY <1>4 DEF relabel
  <2>2. GeneralStands
    BY <1>4, <2>1 DEF TypeInv, TypeOK, GeneralStands
  <2> QED BY <2>1, <2>2, UnchangedRowsStand
<1>5. ASSUME NEW b \in Sessions, b # General, startTurn(b) PROVE GeneralStands /\ RowsStand
  <2>1. head[b] \in TurnIds /\ head[b] <= lastTurn /\ tbot[head[b]] = b
    BY <1>5 DEF startTurn, TypeInv, LocalsOfLoop, Executing
  <2>2. /\ tstatus' = [tstatus EXCEPT ![head[b]] = "running"]
        /\ tmsgs' = [tmsgs EXCEPT ![head[b]] = carry[b]] /\ tstarted' = [tstarted EXCEPT ![head[b]] = 0]
        /\ UNCHANGED <<tbot, tuser, tcreated, late, head, carry, extras>>
        /\ pc' = [pc EXCEPT ![b] = "run"]
    BY <1>5 DEF startTurn
  <2>3. GeneralStands
    BY <1>5, <2>2 DEF TypeInv, TypeOK, GeneralStands
  <2>4. \A t \in TurnIds : t # head[b] => /\ tstatus'[t] = tstatus[t] /\ tmsgs'[t] = tmsgs[t]
                                          /\ tstarted'[t] = tstarted[t]
    BY <2>2 DEF TypeInv, TypeOK
  <2> QED BY <1>5, <2>1, <2>2, <2>3, <2>4, OtherRow
<1>6. ASSUME NEW b \in Sessions, b # General, endTurn(b) PROVE GeneralStands /\ RowsStand
  <2>1. head[b] \in TurnIds /\ head[b] <= lastTurn /\ tbot[head[b]] = b
    BY <1>6 DEF endTurn, TypeInv, LocalsOfLoop, Executing
  <2>2. /\ tstatus' = [tstatus EXCEPT ![head[b]] = "ended"]
        /\ tstarted' = [tstarted EXCEPT ![head[b]] = 0]
        /\ UNCHANGED <<tbot, tmsgs, tuser, tcreated, late, head, carry, extras>>
        /\ \E l \in {"handoff", "report"} : pc' = [pc EXCEPT ![b] = l]
    BY <1>6 DEF endTurn
  <2>3. GeneralStands
    BY <1>6, <2>2 DEF TypeInv, TypeOK, GeneralStands
  <2>4. \A t \in TurnIds : t # head[b] => tstatus'[t] = tstatus[t] /\ tstarted'[t] = tstarted[t]
    BY <2>2 DEF TypeInv, TypeOK
  <2> QED BY <1>6, <2>1, <2>2, <2>3, <2>4, OtherRow
<1>7. ASSUME NEW w \in Workers,
             \/ tellSession(w) \/ reportToGeneral(w) \/ enqueueIdleRemind(w)
             \/ ensureWorkerRelayToGeneral(w)
      PROVE  GeneralStands /\ RowsStand
  <2>1. UNCHANGED <<turnRows, head, carry, extras>>
    BY <1>7 DEF tellSession, reportToGeneral, enqueueIdleRemind, ensureWorkerRelayToGeneral
  <2>2. UNCHANGED pc \/ \E a \in Actors \ {General}, l \in {"deliver", "list"} : pc' = [pc EXCEPT ![a] = l]
    BY <1>7 DEF tellSession, reportToGeneral, enqueueIdleRemind, ensureWorkerRelayToGeneral
  <2>3. GeneralStands
    BY <2>1, <2>2 DEF TypeInv, TypeOK, GeneralStands
  <2> QED BY <2>1, <2>3, UnchangedRowsStand
<1>8. CASE ensureChiefTimeoutHandoff \/ followUp
  <2>1. /\ pc[General] \in {"handoff", "notice"} /\ UNCHANGED <<head, carry, extras>>
        /\ \E l \in {"notice", "report"} : pc' = [pc EXCEPT ![General] = l]
    BY <1>8 DEF ensureChiefTimeoutHandoff, followUp
  <2>2. GeneralStands
    BY <2>1 DEF TypeInv, TypeOK, GeneralStands
  <2>3. ASSUME followUp PROVE RowsStand
    BY <2>3, RowCreated DEF followUp
  <2> QED BY <1>8, <2>2, <2>3, UnchangedRowsStand DEF ensureChiefTimeoutHandoff
<1>9. ASSUME NEW a \in Actors, a # General, deliverInbox(a) PROVE GeneralStands /\ RowsStand
  <2>1. /\ UNCHANGED <<turnRows, extras>> /\ pc' = [pc EXCEPT ![a] = After(a, Pending(a))]
        /\ head' = [b \in Sessions |-> IF b = a THEN 0 ELSE head[b]]
        /\ carry' = [b \in Sessions |-> IF b = a THEN {} ELSE carry[b]]
    BY <1>9 DEF deliverInbox, LeaveExecute
  <2>2. GeneralStands
    BY <1>9, <2>1 DEF TypeInv, TypeOK, GeneralStands
  <2> QED BY <2>1, <2>2, UnchangedRowsStand
<1>10. ASSUME NEW a \in Actors, deliverCreate(a) PROVE GeneralStands /\ RowsStand
  <2> DEFINE m == Oldest(todo[a])
  <2>1. /\ CreateTurn(mto[m], {m}) /\ pc[a] = "deliver" /\ UNCHANGED <<tuser, head, carry, extras>>
        /\ \/ pc' = [pc EXCEPT ![mto[m]] = IF @ = "absent" THEN "idle" ELSE @, ![a] = "mark"]
           \/ pc' = [pc EXCEPT ![a] = "mark"]
    BY <1>10 DEF deliverCreate, GotoAndKick
  <2>2. mto[m] \in Sessions /\ {m} \in SUBSET (Messages \cup {Notice})
    BY <1>10, OldestTodo DEF deliverCreate
  <2> HIDE DEF m
  <2>3. \/ pc'[General] = pc[General] \/ (pc[General] = "absent" /\ pc'[General] = "idle")
        \/ (pc[General] = "deliver" /\ pc'[General] = "mark")
    BY <2>1, <2>2 DEF TypeInv, TypeOK
  <2>4. GeneralStands
    BY <2>1, <2>3 DEF GeneralStands
  <2> QED BY <2>1, <2>2, <2>4, RowCreated
<1>11. ASSUME NEW a \in Actors, deliverMark(a) PROVE GeneralStands /\ RowsStand
  <2>1. /\ pc[a] = "mark" /\ UNCHANGED <<turnRows, head, carry, extras>>
        /\ pc' = [pc EXCEPT ![mto[item[a][1]]] = IF @ = "absent" THEN "idle" ELSE @,
                            ![a] = After(a, todo[a])]
    BY <1>11 DEF deliverMark, GotoAndKick
  <2>2. mto[item[a][1]] \in Sessions
    BY <2>1, InboxAssumption
       DEF TypeInv, TypeOK, LocalsOfDelivery, DeliveryOf, InboxInOrder, Sent, Messages
  <2>3. \/ pc'[General] = pc[General] \/ (pc[General] = "absent" /\ pc'[General] = "idle")
        \/ (pc[General] = "mark" /\ pc'[General] \in {"deliver", "again"})
    BY <2>1, <2>2 DEF TypeInv, TypeOK, After
  <2>4. GeneralStands
    BY <2>1, <2>3 DEF GeneralStands
  <2> QED BY <2>1, <2>4, UnchangedRowsStand
<1>12. CASE recoverAfterRestart
  <2>1. /\ pc[Boot] = "requeue" /\ pc' = [pc EXCEPT ![Boot] = "list"]
        /\ tstatus' = [t \in TurnIds |-> IF tstatus[t] = "running" THEN "queued" ELSE tstatus[t]]
        /\ UNCHANGED <<tbot, tmsgs, lastTurn, inputs, marks, head, carry, extras>>
    BY <1>12 DEF recoverAfterRestart
  <2>2. tstatus' = tstatus
    <3>1. \A t \in TurnIds : tstatus[t] = "none"
      BY <2>1 DEF NothingBeforeBoot, TypeInv, RowsInOrder, TurnIds
    <3>2. tstatus' = [t \in TurnIds |-> tstatus[t]]
      BY <2>1, <3>1
    <3> QED BY <3>2 DEF TypeInv, TypeOK
  <2>3. GeneralStands
    BY <2>1 DEF TypeInv, TypeOK, GeneralStands
  <2> QED BY <2>1, <2>2, <2>3, UnchangedRowsStand
<1>13. CASE armQueues
  <2>1. UNCHANGED <<turnRows, head, carry, extras>>
        /\ (pc'[General] = pc[General] \/ (pc[General] = "absent" /\ pc'[General] = "idle"))
    BY <1>13 DEF armQueues
  <2>2. GeneralStands
    BY <2>1 DEF GeneralStands
  <2> QED BY <2>1, <2>2, UnchangedRowsStand
<1> QED BY StepCases, <1>1, <1>2, <1>3, <1>4, <1>5, <1>6, <1>7, <1>8, <1>9, <1>10, <1>11, <1>12, <1>13

LEMMA NothingRuns ==
    ASSUME TypeInv, FoldedRows, NEW t \in TurnIds, tbot[t] = General, pc[General] # "run"
    PROVE  tstatus[t] # "running"
BY DEF FoldedRows

\* A step that leaves General's turns alone keeps what its rows hold.
LEMMA HeldStands ==
    ASSUME TypeInv, FoldedRows, Next, GeneralStands, RowsStand
    PROVE  /\ FoldedRows'
           /\ \A m \in Sent, t \in TurnIds : Held(m, t) => Held(m, t)'
           /\ \A m \in Sent, t \in TurnIds :
                Held(m, t) /\ (tstatus[t] = "ended" => Ending(m, t)) =>
                    (tstatus'[t] = "ended" => Ending(m, t)')
<1> USE Kinds
<1>0. lastTurn \in Nat /\ lastTurn' \in Nat /\ lastTurn <= lastTurn'
  BY TurnsStay
<1>1. /\ pc'[General] \in {"merge", "relabel"} <=> pc[General] \in {"merge", "relabel"}
      /\ pc'[General] = "relabel" <=> pc[General] = "relabel"
      /\ pc'[General] = "run" <=> pc[General] = "run"
      /\ pc'[General] \in {"handoff", "notice", "report"} <=>
            pc[General] \in {"handoff", "notice", "report"}
  BY DEF GeneralStands
<1>2. \A t : InFold(t)' <=> InFold(t)
  BY <1>1 DEF InFold, GeneralStands
<1>3. \A t \in TurnIds : t <= lastTurn =>
          /\ tbot'[t] = tbot[t]
          /\ tbot[t] = General => tstatus'[t] = tstatus[t] /\ tmsgs'[t] = tmsgs[t]
  BY DEF RowsStand
<1>4. carry'[General] = carry[General] /\ head'[General] = head[General]
      /\ extras'[General] = extras[General]
  BY DEF GeneralStands
<1>5. FoldedRows'
  <2>1. pc[General] \in {"merge", "relabel", "run"} =>
            head[General] \in TurnIds /\ head[General] <= lastTurn /\ tbot[head[General]] = General
    BY DEF TypeInv, LocalsOfLoop, Executing
  <2>2. pc[General] = "relabel" =>
            /\ Oldest(extras[General]) \in TurnIds /\ Oldest(extras[General]) <= lastTurn
            /\ tbot[Oldest(extras[General])] = General
    BY OldestExtra DEF TypeInv, LocalsOfLoop
  <2>3. Oldest(extras[General])' = Oldest(extras[General])
    BY <1>4 DEF Oldest
  <2>4. ASSUME NEW t \in TurnIds, tbot'[t] = General, tstatus'[t] = "running"
        PROVE  pc[General] = "run" /\ t = head[General]
    <3>1. t <= lastTurn
      BY <2>4 DEF RowsStand
    <3> QED BY <1>3, <2>4, <3>1 DEF FoldedRows
  <2> QED BY <1>1, <1>3, <1>4, <2>1, <2>2, <2>3, <2>4 DEF FoldedRows
<1>6. ASSUME NEW m \in Sent, NEW t \in TurnIds, Held(m, t)
      PROVE  /\ Held(m, t)' /\ tstatus'[t] = tstatus[t]
             /\ Ending(m, t) => Ending(m, t)'
  <2>1. t <= lastTurn /\ tbot[t] = General
    BY <1>6 DEF Held
  <2>2. tstatus'[t] = tstatus[t] /\ tbot'[t] = General /\ tmsgs'[t] = tmsgs[t] /\ t <= lastTurn'
    BY <1>0, <1>3, <2>1 DEF TurnIds
  <2>3. Held(m, t)'
    BY <1>2, <1>4, <1>6, <2>2 DEF Held
  <2>4. Ending(m, t) => Ending(m, t)'
    BY <1>1, <1>4 DEF Ending, Oldest
  <2> QED BY <2>2, <2>3, <2>4
<1> QED BY <1>5, <1>6

\* What is held stays held when General's own turns go on.
LEMMA FoldHeld ==
    ASSUME TypeInv, FoldedRows, Next, foldQueue(General)
    PROVE  /\ FoldedRows'
           /\ \A m \in Sent, t \in TurnIds : Held(m, t) => Held(m, t)'
<1> USE Kinds DEF turnRows, Goto
<1>1. UNCHANGED <<tstatus, tbot, tmsgs, lastTurn>> /\ pc[General] \in {"idle", "again"}
  BY DEF foldQueue
<1>2. CASE pc' = [pc EXCEPT ![General] = "idle"]
  <2>1. pc'[General] = "idle"
    BY <1>2 DEF TypeInv, TypeOK
  <2> QED BY <1>1, <2>1 DEF FoldedRows, Held, InFold
<1>3. CASE /\ QueuedOf(General) # {} /\ pc' = [pc EXCEPT ![General] = "merge"]
           /\ head' = [head EXCEPT ![General] = Oldest(QueuedOf(General))]
           /\ carry' = [carry EXCEPT ![General] = UNION {tmsgs[t] : t \in QueuedOf(General)}]
           /\ extras' = [extras EXCEPT ![General] = QueuedOf(General) \ {Oldest(QueuedOf(General))}]
  <2> DEFINE q == QueuedOf(General)
             o == Oldest(q)
  <2>1. o \in q /\ \A t \in q : t \in TurnIds /\ tbot[t] = General /\ tstatus[t] = "queued"
    BY <1>3, QueuedRows
  <2>2. /\ pc'[General] = "merge" /\ head'[General] = o /\ extras'[General] = q \ {o}
        /\ carry'[General] = UNION {tmsgs[t] : t \in q}
    BY <1>3 DEF TypeInv, TypeOK
  <2>3. \A t \in TurnIds : tbot[t] = General /\ tstatus[t] = "queued" => t \in q
    BY DEF QueuedOf
  <2> HIDE DEF o, q
  <2>4. FoldedRows'
    BY <1>1, <2>1, <2>2 DEF FoldedRows
  <2>5. ASSUME NEW m \in Sent, NEW t \in TurnIds, Held(m, t) PROVE Held(m, t)'
    <3>1. tstatus[t] # "running" /\ tbot[t] = General /\ t <= lastTurn
      BY <1>1, <2>5, NothingRuns DEF Held
    <3>2. tstatus[t] = "queued" => m \in tmsgs[t] /\ t \in q
      BY <1>1, <2>3, <2>5, <3>1 DEF Held, InFold
    <3>3. tstatus[t] = "queued" => m \in carry'[General]
      BY <2>2, <3>2
    <3>4. tstatus[t] = "queued" => t \in extras'[General] \cup {head'[General]}
      BY <2>2, <3>2
    <3> QED BY <1>1, <2>2, <3>1, <3>3, <3>4 DEF Held, InFold
  <2> QED BY <2>4, <2>5
<1> QED BY <1>2, <1>3 DEF foldQueue

LEMMA MergeHeld ==
    ASSUME TypeInv, FoldedRows, Next, mergeExtra(General)
    PROVE  /\ FoldedRows'
           /\ \A m \in Sent, t \in TurnIds : Held(m, t) => Held(m, t)'
           /\ \A m \in Sent, t \in TurnIds :
                Held(m, t) /\ (tstatus[t] = "ended" => Ending(m, t)) =>
                    (tstatus'[t] = "ended" => Ending(m, t)')
<1> USE Kinds DEF turnRows, loops, Goto
<1> DEFINE x == Oldest(extras[General])
<1>1. /\ pc[General] = "merge" /\ pc' = [pc EXCEPT ![General] = "relabel"]
      /\ tstatus' = [tstatus EXCEPT ![x] = "ended"]
      /\ UNCHANGED <<tbot, tmsgs, lastTurn, head, carry, extras>>
  BY DEF mergeExtra
<1>2. x \in extras[General] /\ x \in TurnIds /\ head[General] < x
  BY OldestExtra DEF mergeExtra, TypeInv, LocalsOfLoop
<1>3. Oldest(extras[General])' = x
  BY <1>1 DEF Oldest
<1> HIDE DEF x
<1>4. /\ pc'[General] = "relabel" /\ tstatus'[x] = "ended"
      /\ \A t \in TurnIds : t # x => tstatus'[t] = tstatus[t]
  BY <1>1, <1>2 DEF TypeInv, TypeOK
<1>5. head[General] \in TurnIds /\ head[General] # x
  BY <1>1, <1>2 DEF TypeInv, LocalsOfLoop, Executing, TurnIds
<1>6. FoldedRows'
  BY <1>1, <1>3, <1>4, <1>5 DEF FoldedRows
<1>7. \A t : InFold(t)' <=> InFold(t)
  BY <1>1, <1>4 DEF InFold
<1>8. ASSUME NEW m \in Sent, NEW t \in TurnIds, Held(m, t) PROVE Held(m, t)'
  <2>1. CASE t = x
    BY <1>1, <1>4, <1>8, <2>1 DEF Held
  <2>2. CASE t # x
    BY <1>1, <1>4, <1>7, <1>8, <2>2 DEF Held
  <2> QED BY <2>1, <2>2
<1>9. ASSUME NEW m \in Sent, NEW t \in TurnIds, Held(m, t),
             tstatus[t] = "ended" => Ending(m, t), tstatus'[t] = "ended"
      PROVE  Ending(m, t)'
  <2>1. t = x
    BY <1>1, <1>4, <1>9 DEF Ending
  <2>2. tstatus[t] \in {"queued", "ended"}
    <3>1. tstatus[t] # "none" /\ tstatus[t] # "running"
      BY <1>1, <1>9, NothingRuns DEF Held, TypeInv, RowsInOrder
    <3> QED BY <3>1 DEF TypeInv, TypeOK
  <2>3. InFold(x)
    BY <1>1, <1>2 DEF InFold
  <2>4. m \in carry[General]
    BY <1>9, <2>1, <2>2, <2>3 DEF Held, Ending
  <2> QED BY <1>1, <1>3, <1>4, <2>1, <2>4 DEF Ending
<1> QED BY <1>6, <1>8, <1>9

LEMMA StartHeld ==
    ASSUME TypeInv, FoldedRows, Next, startTurn(General)
    PROVE  /\ FoldedRows'
           /\ \A m \in Sent, t \in TurnIds : Held(m, t) => Held(m, t)'
           /\ \A t \in TurnIds : tstatus'[t] = "ended" => tstatus[t] = "ended"
<1> USE Kinds DEF turnRows, loops, Goto
<1> DEFINE h == head[General]
<1>1. /\ pc[General] = "merge" /\ extras[General] = {} /\ pc' = [pc EXCEPT ![General] = "run"]
      /\ tstatus' = [tstatus EXCEPT ![h] = "running"]
      /\ tmsgs' = [tmsgs EXCEPT ![h] = carry[General]]
      /\ UNCHANGED <<tbot, lastTurn, head, carry, extras>>
  BY DEF startTurn
<1>2. h \in TurnIds /\ tbot[h] = General /\ tstatus[h] = "queued" /\ InFold(h)
  BY <1>1 DEF TypeInv, LocalsOfLoop, Executing, FoldedRows, InFold
<1>3. head'[General] = h /\ carry'[General] = carry[General]
  BY <1>1
<1>4. \A t : InFold(t) <=> t = h
  BY <1>1 DEF InFold
<1> HIDE DEF h
<1>5. /\ pc'[General] = "run" /\ tstatus'[h] = "running" /\ tmsgs'[h] = carry[General]
      /\ \A t \in TurnIds : t # h => tstatus'[t] = tstatus[t] /\ tmsgs'[t] = tmsgs[t]
  BY <1>1, <1>2 DEF TypeInv, TypeOK
<1>6. FoldedRows'
  BY <1>1, <1>2, <1>3, <1>5, NothingRuns DEF FoldedRows
<1>7. ASSUME NEW m \in Sent, NEW t \in TurnIds, Held(m, t) PROVE Held(m, t)'
  <2>1. CASE t = h
    <3>1. m \in carry[General]
      BY <1>2, <1>7, <2>1 DEF Held
    <3> QED BY <1>1, <1>3, <1>5, <1>7, <2>1, <3>1 DEF Held
  <2>2. CASE t # h
    <3>1. ~InFold(t) /\ ~InFold(t)'
      BY <1>4, <1>5, <2>2 DEF InFold
    <3> QED BY <1>1, <1>3, <1>5, <1>7, <2>2, <3>1 DEF Held
  <2> QED BY <2>1, <2>2
<1> QED BY <1>5, <1>6, <1>7

LEMMA EndHeld ==
    ASSUME TypeInv, FoldedRows, Next, endTurn(General)
    PROVE  /\ FoldedRows'
           /\ \A m \in Sent, t \in TurnIds : Held(m, t) => Held(m, t)'
           /\ \A m \in Sent, t \in TurnIds :
                Held(m, t) /\ (tstatus[t] = "ended" => Ending(m, t)) =>
                    (tstatus'[t] = "ended" => Ending(m, t)')
<1> USE Kinds DEF turnRows, loops, Goto
<1> DEFINE h == head[General]
<1>1. /\ pc[General] = "run" /\ \E l \in {"handoff", "report"} : pc' = [pc EXCEPT ![General] = l]
      /\ tstatus' = [tstatus EXCEPT ![h] = "ended"]
      /\ UNCHANGED <<tbot, tmsgs, lastTurn, head, carry, extras>>
  BY DEF endTurn
<1>2. h \in TurnIds /\ tbot[h] = General /\ tstatus[h] = "running"
  BY <1>1 DEF TypeInv, LocalsOfLoop, Executing, FoldedRows
<1>3. head'[General] = h /\ carry'[General] = carry[General]
  BY <1>1
<1>4. \A t \in TurnIds : tbot[t] = General /\ tstatus[t] = "running" => t = h
  BY DEF FoldedRows
<1> HIDE DEF h
<1>5. /\ pc'[General] \in {"handoff", "report"} /\ tstatus'[h] = "ended"
      /\ \A t \in TurnIds : t # h => tstatus'[t] = tstatus[t]
  BY <1>1, <1>2 DEF TypeInv, TypeOK
<1>6. FoldedRows'
  BY <1>1, <1>4, <1>5 DEF FoldedRows
<1>7. ASSUME NEW m \in Sent, NEW t \in TurnIds, Held(m, t) PROVE Held(m, t)'
  <2>1. ~InFold(t) /\ ~InFold(t)'
    BY <1>1, <1>5 DEF InFold
  <2> QED BY <1>1, <1>3, <1>5, <1>7, <2>1 DEF Held
<1>8. ASSUME NEW m \in Sent, NEW t \in TurnIds, Held(m, t),
             tstatus[t] = "ended" => Ending(m, t), tstatus'[t] = "ended"
      PROVE  Ending(m, t)'
  <2>1. t = h
    BY <1>1, <1>5, <1>8 DEF Ending
  <2>2. m \in carry[General]
    BY <1>2, <1>8, <2>1 DEF Held
  <2> QED BY <1>3, <1>5, <2>1, <2>2 DEF Ending
<1> QED BY <1>6, <1>7, <1>8

LEMMA RelabelHeld ==
    ASSUME TypeInv, FoldedRows, Next, relabel(General)
    PROVE  /\ FoldedRows'
           /\ \A m \in Sent, t \in TurnIds : Held(m, t) => Held(m, t)'
           /\ \A m \in Sent : m \in carry[General] => Held(m, head[General])'
           /\ tstatus' = tstatus /\ tstatus[head[General]] = "queued"
<1> USE Kinds DEF turnRows, loops, Goto
<1> DEFINE x == Oldest(extras[General])
<1>1. /\ pc[General] = "relabel" /\ pc' = [pc EXCEPT ![General] = "merge"]
      /\ extras' = [extras EXCEPT ![General] = @ \ {x}]
      /\ UNCHANGED <<tstatus, tbot, tmsgs, lastTurn, head, carry>>
  BY DEF relabel
<1>2. tstatus[x] = "ended" /\ tstatus[head[General]] = "queued"
  BY <1>1 DEF FoldedRows
<1>3. head[General] \in TurnIds /\ head[General] <= lastTurn /\ tbot[head[General]] = General
  BY <1>1 DEF TypeInv, LocalsOfLoop, Executing
<1> HIDE DEF x
<1>4. pc'[General] = "merge" /\ extras'[General] = extras[General] \ {x}
  BY <1>1 DEF TypeInv, TypeOK
<1>5. FoldedRows'
  BY <1>1, <1>2, <1>4 DEF FoldedRows
<1>6. ASSUME NEW m \in Sent, NEW t \in TurnIds, Held(m, t) PROVE Held(m, t)'
  <2>1. tstatus[t] = "queued" => (InFold(t)' <=> InFold(t))
    BY <1>1, <1>2, <1>4 DEF InFold
  <2> QED BY <1>1, <1>6, <2>1 DEF Held
<1>7. ASSUME NEW m \in Sent, m \in carry[General] PROVE Held(m, head[General])'
  BY <1>1, <1>2, <1>3, <1>4, <1>7 DEF Held, InFold
<1> QED BY <1>1, <1>2, <1>5, <1>6, <1>7

LEMMA LeaveHeld ==
    ASSUME TypeInv, FoldedRows, Next, fulfillOwnerRelay \/ deliverInbox(General)
    PROVE  /\ FoldedRows'
           /\ \A m \in Sent, t \in TurnIds : Held(m, t) => Held(m, t)'
           /\ tstatus' = tstatus
<1> USE Kinds DEF turnRows, loops, Goto
<1>1. /\ pc[General] \in {"report", "list"} /\ UNCHANGED <<tstatus, tbot, tmsgs, lastTurn>>
      /\ \E l \in {"list", "deliver", "again"} : pc' = [pc EXCEPT ![General] = l]
  BY DEF fulfillOwnerRelay, deliverInbox, After
<1>2. pc'[General] \in {"list", "deliver", "again"}
  BY <1>1 DEF TypeInv, TypeOK
<1>3. FoldedRows'
  BY <1>1, <1>2 DEF FoldedRows
<1>4. ASSUME NEW m \in Sent, NEW t \in TurnIds, Held(m, t) PROVE Held(m, t)'
  <2>1. tstatus[t] # "running"
    BY <1>1, <1>4, NothingRuns DEF Held
  <2>2. ~InFold(t) /\ ~InFold(t)'
    BY <1>1, <1>2 DEF InFold
  <2> QED BY <1>1, <1>4, <2>1, <2>2 DEF Held
<1> QED BY <1>1, <1>3, <1>4

LEMMA HeldKept ==
    ASSUME TypeInv, NothingBeforeBoot, FoldedRows, Next, ~crash
    PROVE  /\ FoldedRows'
           /\ \A m \in Sent, t \in TurnIds : Held(m, t) => Held(m, t)'
BY GeneralSteps, HeldStands, FoldHeld, MergeHeld, RelabelHeld, StartHeld, EndHeld, LeaveHeld

\* The steps that write a label, and those that take up a message.
LEMMA LabelSteps ==
    ASSUME TypeInv, Next, NEW m \in Sent
    PROVE  /\ heard \subseteq heard' /\ raced \subseteq raced'
           /\ \/ mturn'[m] = mturn[m] /\ delivered'[m] = delivered[m]
              \/ \E a \in Actors : deliverMark(a) /\ item[a][1] = m
              \/ \E b \in Sessions : relabel(b) /\ mturn[m] = Oldest(extras[b])
<1> USE Kinds DEF inbox, history
<1>0. m \in Messages
  BY MessagesStay
<1>1. ASSUME NEW b \in Sessions,
             \/ Enqueue(b) \/ foldQueue(b) \/ mergeExtra(b) \/ startTurn(b) \/ endTurn(b)
      PROVE  UNCHANGED <<mturn, delivered, heard, raced>>
  BY <1>1 DEF Enqueue, foldQueue, mergeExtra, startTurn, endTurn
<1>2. ASSUME NEW w \in Workers,
             \/ tellSession(w) \/ reportToGeneral(w) \/ enqueueIdleRemind(w)
             \/ ensureWorkerRelayToGeneral(w)
      PROVE  UNCHANGED <<mturn, delivered, heard, raced>>
  BY <1>2 DEF tellSession, reportToGeneral, enqueueIdleRemind, ensureWorkerRelayToGeneral,
              enqueueBotMessage
<1>3. ASSUME NEW a \in Actors, deliverInbox(a) \/ deliverCreate(a)
      PROVE  UNCHANGED <<mturn, delivered, heard, raced>>
  BY <1>3 DEF deliverInbox, deliverCreate
<1>4. CASE ensureChiefTimeoutHandoff \/ followUp \/ recoverAfterRestart \/ armQueues \/ crash
  BY <1>4 DEF ensureChiefTimeoutHandoff, followUp, recoverAfterRestart, armQueues, crash,
              startBackendSession, enqueueBotMessage
<1>5. CASE fulfillOwnerRelay
  BY <1>5 DEF fulfillOwnerRelay
<1>6. ASSUME NEW a \in Actors, deliverMark(a), item[a][1] # m
      PROVE  mturn'[m] = mturn[m] /\ delivered'[m] = delivered[m]
  BY <1>0, <1>6 DEF deliverMark, TypeInv, TypeOK
<1>7. ASSUME NEW a \in Actors, deliverMark(a) PROVE heard \subseteq heard' /\ raced \subseteq raced'
  BY <1>7 DEF deliverMark
<1>8. ASSUME NEW b \in Sessions, relabel(b)
      PROVE  /\ heard \subseteq heard' /\ raced \subseteq raced' /\ delivered'[m] = delivered[m]
             /\ mturn[m] # Oldest(extras[b]) => mturn'[m] = mturn[m]
  BY <1>0, <1>8 DEF relabel
<1> QED BY StepCases, <1>1, <1>2, <1>3, <1>4, <1>5, <1>6, <1>7, <1>8

LEMMA ItemSteps ==
    ASSUME TypeInv, Next, NEW a \in Actors, pc'[a] = "mark"
    PROVE  deliverCreate(a) \/ (pc[a] = "mark" /\ item'[a] = item[a])
<1> USE Kinds DEF deliveries, Goto
<1>1. ASSUME NEW b \in Sessions,
             \/ Enqueue(b) \/ foldQueue(b) \/ mergeExtra(b) \/ relabel(b) \/ startTurn(b) \/ endTurn(b)
      PROVE  pc[a] = "mark" /\ item'[a] = item[a]
  <2>1. UNCHANGED item
    BY <1>1 DEF Enqueue, foldQueue, mergeExtra, relabel, startTurn, endTurn
  <2>2. \/ pc' = [pc EXCEPT ![b] = IF @ = "absent" THEN "idle" ELSE @]
        \/ \E l \in {"idle", "merge", "relabel", "run", "handoff", "report"} : pc' = [pc EXCEPT ![b] = l]
    BY <1>1 DEF Enqueue, foldQueue, mergeExtra, relabel, startTurn, endTurn
  <2> QED BY <2>1, <2>2 DEF TypeInv, TypeOK
<1>2. ASSUME NEW w \in Workers,
             \/ tellSession(w) \/ reportToGeneral(w) \/ enqueueIdleRemind(w)
             \/ ensureWorkerRelayToGeneral(w)
      PROVE  pc[a] = "mark" /\ item'[a] = item[a]
  <2>1. UNCHANGED item
    BY <1>2 DEF tellSession, reportToGeneral, enqueueIdleRemind, ensureWorkerRelayToGeneral
  <2>2. UNCHANGED pc \/ \E c \in Actors, l \in {"deliver", "list"} : pc' = [pc EXCEPT ![c] = l]
    BY <1>2 DEF tellSession, reportToGeneral, enqueueIdleRemind, ensureWorkerRelayToGeneral
  <2> QED BY <2>1, <2>2 DEF TypeInv, TypeOK
<1>3. ASSUME NEW c \in Actors, deliverInbox(c) PROVE pc[a] = "mark" /\ item'[a] = item[a]
  <2>1. UNCHANGED item /\ \E l \in {"deliver", "arm", "idle", "again"} : pc' = [pc EXCEPT ![c] = l]
    BY <1>3 DEF deliverInbox, After
  <2> QED BY <2>1 DEF TypeInv, TypeOK
<1>4. ASSUME NEW c \in Actors, c # a, deliverCreate(c) PROVE pc[a] = "mark" /\ item'[a] = item[a]
  <2> DEFINE m == Oldest(todo[c])
  <2>1. /\ item' = [item EXCEPT ![c] = <<m, lastTurn + 1>>]
        /\ \/ pc' = [pc EXCEPT ![mto[m]] = IF @ = "absent" THEN "idle" ELSE @, ![c] = "mark"]
           \/ pc' = [pc EXCEPT ![c] = "mark"]
    BY <1>4 DEF deliverCreate, GotoAndKick
  <2>2. mto[m] \in Actors
    BY <1>4, OldestTodo DEF deliverCreate
  <2> HIDE DEF m
  <2> QED BY <1>4, <2>1, <2>2 DEF TypeInv, TypeOK
<1>5. ASSUME NEW c \in Actors, deliverMark(c) PROVE pc[a] = "mark" /\ item'[a] = item[a]
  <2>1. /\ item' = [item EXCEPT ![c] = <<0, 0>>]
        /\ \E s, l : /\ pc' = [pc EXCEPT ![s] = IF @ = "absent" THEN "idle" ELSE @, ![c] = l]
                     /\ l \in {"deliver", "arm", "idle", "again"} /\ s = mto[item[c][1]]
    BY <1>5 DEF deliverMark, GotoAndKick, After
  <2>2. mto[item[c][1]] \in Actors
    BY <1>5, InboxAssumption
       DEF deliverMark, TypeInv, TypeOK, LocalsOfDelivery, DeliveryOf, InboxInOrder, Sent, Messages
  <2> QED BY <2>1, <2>2 DEF TypeInv, TypeOK
<1>6. CASE ensureChiefTimeoutHandoff \/ followUp \/ fulfillOwnerRelay
  <2>1. UNCHANGED item /\ \E l \in {"notice", "report", "list"} : pc' = [pc EXCEPT ![General] = l]
    BY <1>6 DEF ensureChiefTimeoutHandoff, followUp, fulfillOwnerRelay
  <2> QED BY <2>1 DEF TypeInv, TypeOK
<1>7. CASE recoverAfterRestart \/ armQueues
  BY <1>7 DEF recoverAfterRestart, armQueues, TypeInv, TypeOK
<1>8. CASE crash
  BY <1>8 DEF crash, Resting
<1> QED BY StepCases, <1>1, <1>2, <1>3, <1>4, <1>5, <1>6, <1>7, <1>8

LEMMA ItemsKept ==
    ASSUME TypeInv, NothingBeforeBoot, FoldedRows, ItemsLead, Next, ~crash
    PROVE  ItemsLead'
<1> USE Kinds
<1> SUFFICES ASSUME NEW a \in Actors, pc'[a] = "mark", relay'[item'[a][1]]
             PROVE  Held(item[a][1], item[a][2])'
  BY DEF ItemsLead
<1>1. CASE pc[a] = "mark" /\ item'[a] = item[a]
  <2> DEFINE m == item[a][1]
             t == item[a][2]
  <2>1. m \in Sent /\ t \in TurnIds
    BY <1>1 DEF TypeInv, LocalsOfDelivery, DeliveryOf
  <2>2. relay'[m] = relay[m]
    BY <2>1, MessagesStay
  <2>3. Held(m, t)
    BY <1>1, <2>2 DEF ItemsLead
  <2>4. \A n \in Sent, u \in TurnIds : Held(n, u) => Held(n, u)'
    BY HeldKept
  <2>5. \A n, u : n = m /\ u = t => n = item'[a][1] /\ u = item'[a][2]
    BY <1>1
  <2>6. \A n \in Sent, u \in TurnIds :
            n = m /\ u = t => n = item'[a][1] /\ u = item'[a][2] /\ Held(n, u)'
    BY <2>3, <2>4, <2>5
  <2> QED BY <2>1, <2>6 DEF Held
<1>2. CASE deliverCreate(a)
  <2> DEFINE m == Oldest(todo[a])
  <2>1. /\ CreateTurn(mto[m], {m}) /\ item' = [item EXCEPT ![a] = <<m, lastTurn + 1>>]
        /\ pc[a] = "deliver" /\ UNCHANGED <<head, extras, relay, carry>>
    BY <1>2 DEF deliverCreate, loops, inbox
  <2>2. /\ m \in Sent /\ mto[m] \in Sessions /\ {m} \in SUBSET (Messages \cup {Notice})
        /\ m \in Messages /\ (relay[m] => mto[m] = General)
    BY <2>1, OldestTodo DEF TypeInv, InboxInOrder
  <2> HIDE DEF m
  <2>3. item'[a] = <<m, lastTurn + 1>>
    BY <2>1 DEF TypeInv, TypeOK
  <2>4. mto[m] = General
    BY <2>1, <2>2, <2>3
  <2>5. /\ lastTurn \in Nat /\ lastTurn + 1 \in TurnIds /\ lastTurn + 1 <= lastTurn'
        /\ tbot'[lastTurn + 1] = General /\ tstatus'[lastTurn + 1] = "queued"
        /\ tmsgs'[lastTurn + 1] = {m}
    BY <2>1, <2>2, <2>4, TurnCreated, TurnsStay
  <2>6. pc'[General] \in {"merge", "relabel"} => pc[General] = pc'[General]
    <3>1. \/ pc' = [pc EXCEPT ![mto[m]] = IF @ = "absent" THEN "idle" ELSE @, ![a] = "mark"]
          \/ pc' = [pc EXCEPT ![a] = "mark"]
      BY <1>2 DEF deliverCreate, GotoAndKick, Goto, m
    <3> QED BY <2>2, <3>1 DEF TypeInv, TypeOK
  <2>7. PICK n : n = lastTurn + 1
    OBVIOUS
  <2>8. ~InFold(n)'
    <3>1. \A t \in extras[General] : t \in TurnIds /\ t <= lastTurn
      BY DEF TypeInv, TypeOK, LocalsOfLoop
    <3>2. pc'[General] \in {"merge", "relabel"} => head[General] \in TurnIds /\ head[General] <= lastTurn
      BY <2>6 DEF TypeInv, LocalsOfLoop, Executing
    <3> QED BY <2>1, <2>5, <2>7, <3>1, <3>2 DEF InFold, TurnIds
  <2>9. PICK k : k = m
    OBVIOUS
  <2>10. item'[a][1] = k /\ item'[a][2] = n /\ k \in tmsgs'[n]
    BY <2>3, <2>5, <2>7, <2>9
  <2>11. Held(k, n)'
    BY <2>5, <2>7, <2>8, <2>10 DEF Held
  <2> QED BY <2>10, <2>11 DEF Held, InFold
<1> QED BY <1>1, <1>2, ItemSteps

\* A label keeps leading to its report until the report has been heard.
LEMMA LabelsKept ==
    ASSUME TypeInv, NothingBeforeBoot, FoldedRows, LabelsLead, ItemsLead, Next, ~crash
    PROVE  LabelsLead'
<1> USE Kinds DEF turnRows, loops, history, inbox
<1> SUFFICES ASSUME NEW m \in Sent', relay'[m], delivered'[m], m \notin heard' \cup raced'
             PROVE  /\ Held(m, mturn[m])'
                    /\ tstatus'[mturn'[m]] = "ended" => Ending(m, mturn[m])'
  BY DEF LabelsLead
<1>1. m \in Sent
  <2>1. CASE UNCHANGED lastMsg
    BY <2>1 DEF Sent
  <2>2. ASSUME NEW f \in Sessions, NEW t \in Sessions, NEW r \in BOOLEAN, enqueueBotMessage(f, t, r)
        PROVE  m \in Sent
    BY <2>2, MessageAdded
  <2> QED BY <2>1, <2>2, MessageSteps
<1>2. relay[m] /\ m \notin heard \cup raced /\ m \in Messages
  BY <1>1, MessagesStay, LabelSteps
<1>3. \A t \in TurnIds : Held(m, t) => Held(m, t)'
  BY <1>1, HeldKept
<1>4. ASSUME NEW t \in TurnIds, mturn'[m] = t, Held(m, t)', tstatus'[t] = "ended" => Ending(m, t)'
      PROVE  /\ Held(m, mturn[m])'
             /\ tstatus'[mturn'[m]] = "ended" => Ending(m, mturn[m])'
  BY <1>4 DEF Held, Ending, InFold
<1>5. ASSUME mturn'[m] = mturn[m], delivered'[m] = delivered[m]
      PROVE  \E t \in TurnIds : /\ mturn'[m] = t /\ Held(m, t)'
                                /\ tstatus'[t] = "ended" => Ending(m, t)'
  <2>1. Held(m, mturn[m]) /\ (tstatus[mturn[m]] = "ended" => Ending(m, mturn[m]))
    BY <1>1, <1>2, <1>5 DEF LabelsLead
  <2>2. PICK t \in TurnIds : t = mturn[m]
    BY <2>1 DEF Held
  <2>3. Held(m, t) /\ (tstatus[t] = "ended" => Ending(m, t))
    BY <2>1, <2>2
  <2>4. tstatus'[t] = "ended" => Ending(m, t)'
    <3>1. CASE (GeneralStands /\ RowsStand) \/ mergeExtra(General) \/ endTurn(General)
      BY <1>1, <2>3, <3>1, HeldStands, MergeHeld, EndHeld
    <3>2. CASE foldQueue(General)
      BY <2>3, <3>2 DEF foldQueue, Ending
    <3>3. CASE startTurn(General)
      <4>1. pc[General] = "merge" /\ (tstatus'[t] = "ended" => tstatus[t] = "ended")
        BY <3>3, StartHeld DEF startTurn
      <4> QED BY <2>3, <4>1 DEF Ending
    <3>4. CASE relabel(General)
      <4>1. t # Oldest(extras[General])
        <5>1. head[General] < Oldest(extras[General]) /\ mturn'[m] = mturn[m]
          BY <1>5, <3>4, OldestExtra DEF relabel, TypeInv, LocalsOfLoop
        <5>2. t = Oldest(extras[General]) => mturn'[m] = head[General]
          BY <1>2, <2>2, <3>4 DEF relabel
        <5> QED BY <2>2, <5>1, <5>2 DEF TypeInv, TypeOK, TurnIds
      <4>2. pc[General] = "relabel" /\ tstatus' = tstatus
        BY <3>4 DEF relabel
      <4> QED BY <2>3, <4>1, <4>2 DEF Ending
    <3>5. CASE fulfillOwnerRelay
      <4>1. /\ pc[General] = "report" /\ tstatus' = tstatus
            /\ heard' = heard \cup {i \in Sent : relay[i] /\ IF outcome[General] = "spoke"
                                                            THEN i \in carry[General]
                                                            ELSE mturn[i] = head[General]}
        BY <3>5 DEF fulfillOwnerRelay
      <4> QED BY <1>1, <1>2, <2>2, <2>3, <4>1 DEF Ending
    <3>6. CASE deliverInbox(General)
      BY <2>3, <3>6 DEF deliverInbox, Ending
    <3> QED BY GeneralSteps, <3>1, <3>2, <3>3, <3>4, <3>5, <3>6
  <2> QED BY <1>3, <1>5, <2>2, <2>3, <2>4
<1>6. ASSUME NEW a \in Actors, deliverMark(a), item[a][1] = m
      PROVE  \E t \in TurnIds : /\ mturn'[m] = t /\ Held(m, t)'
                                /\ tstatus'[t] = "ended" => Ending(m, t)'
  <2>1. /\ pc[a] = "mark" /\ mturn' = [mturn EXCEPT ![m] = item[a][2]] /\ tstatus' = tstatus
        /\ raced' = IF tstatus[item[a][2]] = "ended" THEN raced \cup {m} ELSE raced
    BY <1>6 DEF deliverMark
  <2>2. PICK t \in TurnIds : t = item[a][2]
    BY <2>1 DEF TypeInv, LocalsOfDelivery, DeliveryOf
  <2>3. Held(m, t)
    BY <1>2, <1>6, <2>1, <2>2 DEF ItemsLead
  <2>4. mturn'[m] = t /\ tstatus'[t] # "ended"
    BY <1>2, <2>1, <2>2 DEF TypeInv, TypeOK
  <2> QED BY <1>3, <2>3, <2>4
<1>7. ASSUME NEW b \in Sessions, relabel(b), mturn[m] = Oldest(extras[b])
      PROVE  \E t \in TurnIds : /\ mturn'[m] = t /\ Held(m, t)'
                                /\ tstatus'[t] = "ended" => Ending(m, t)'
  <2>1. /\ mturn' = [i \in Messages |-> IF mturn[i] = Oldest(extras[b]) THEN head[b] ELSE mturn[i]]
        /\ pc[b] = "relabel" /\ delivered' = delivered
    BY <1>7 DEF relabel
  <2>2. Held(m, mturn[m]) /\ (tstatus[mturn[m]] = "ended" => Ending(m, mturn[m]))
    BY <1>1, <1>2, <2>1 DEF LabelsLead
  <2>3. tbot[Oldest(extras[b])] = b
    BY <2>1, OldestExtra DEF TypeInv, LocalsOfLoop
  <2>4. b = General
    BY <1>7, <2>2, <2>3 DEF Held
  <2>5. m \in carry[General]
    BY <1>7, <2>1, <2>2, <2>4 DEF FoldedRows, Ending
  <2>6. PICK t \in TurnIds : t = head[General]
    BY <2>1, <2>4 DEF TypeInv, LocalsOfLoop, Executing
  <2>7. Held(m, head[General])' /\ tstatus' = tstatus /\ tstatus[t] = "queued" /\ head' = head
    BY <1>1, <1>7, <2>4, <2>5, <2>6, RelabelHeld DEF relabel
  <2>8. Held(m, t)'
    BY <2>6, <2>7 DEF Held, InFold
  <2> QED BY <1>2, <1>7, <2>1, <2>4, <2>6, <2>7, <2>8
<1> QED BY <1>1, <1>4, <1>5, <1>6, <1>7, LabelSteps

LEMMA LabelInvAlways == Spec => []LabelInv
<1>1. Init => LabelInv
  BY Kinds DEF Init, Resting, LabelInv, FoldedRows, LabelsLead, ItemsLead, Sent, TurnIds
<1>2. ASSUME TypeInv, DeliveryInv, LabelInv, [Next]_vars PROVE LabelInv'
  <2>1. CASE Next
    <3> SUFFICES ASSUME crashes' = 0 PROVE FoldedRows' /\ LabelsLead' /\ ItemsLead'
      BY DEF LabelInv
    <3>1. ~crash /\ NothingBeforeBoot /\ FoldedRows /\ LabelsLead /\ ItemsLead
      BY <1>2, <2>1, NoCrash DEF LabelInv, DeliveryInv
    <3> QED BY <1>2, <2>1, <3>1, HeldKept, LabelsKept, ItemsKept
  <2>2. CASE UNCHANGED vars
    BY <1>2, <2>2 DEF vars, turnRows, inbox, loops, deliveries, history, LabelInv, FoldedRows,
                      LabelsLead, ItemsLead, Held, Ending, InFold, Sent, Oldest
  <2> QED BY <1>2, <2>1, <2>2
<1> QED BY <1>1, <1>2, TypeInvAlways, DeliveryInvAlways, PTL DEF Spec

\* When General has worked off its queue in a process that has not been restarted, the owner has
\* heard every report that was marked while its turn was still to end, through any merges.
THEOREM MarkedIsHeard == Spec => []MarkedReportHeard
<1>1. ASSUME TypeInv, LabelInv PROVE MarkedReportHeard
  <2> SUFFICES ASSUME crashes = 0, Read, NEW m \in Sent, relay[m], delivered[m],
                      m \notin heard \cup raced
               PROVE  FALSE
    BY DEF MarkedReportHeard
  <2>1. FoldedRows /\ Held(m, mturn[m]) /\ (tstatus[mturn[m]] = "ended" => Ending(m, mturn[m]))
    BY <1>1 DEF LabelInv, LabelsLead
  <2>2. pc[General] \in {"absent", "idle"} /\ QueuedOf(General) = {}
    BY DEF Read
  <2>3. PICK t \in TurnIds : t = mturn[m] /\ tbot[t] = General /\ t <= lastTurn
    BY <2>1 DEF Held
  <2>4. tstatus[t] # "queued" /\ tstatus[t] # "running" /\ tstatus[t] # "none"
    <3>1. tstatus[t] # "running"
      BY <1>1, <2>1, <2>2, <2>3, NothingRuns
    <3> QED BY <1>1, <2>2, <2>3, <3>1 DEF QueuedOf, TypeInv, RowsInOrder
  <2>5. tstatus[t] = "ended"
    BY <1>1, <2>4 DEF TypeInv, TypeOK
  <2> QED BY <2>1, <2>2, <2>3, <2>5 DEF Ending
<1> QED BY <1>1, TypeInvAlways, LabelInvAlways, PTL
-----------------------------------------------------------------------------
(* A request is handed over once.                                            *)

LEMMA WrittenSteps ==
    ASSUME TypeInv, Next
    PROVE  /\ Written \in Nat /\ Written' \in {Written, Written + 1} /\ Written' \in Nat
           /\ Written <= lastMsg /\ Written' <= lastMsg'
           /\ lastMsg' = lastMsg => Written' = Written
<1>1. lastMsg \in 0..MaxMessages /\ lastMsg \in Nat /\ TypeOK
  BY InboxAssumption DEF TypeInv, TypeOK
<1>2. Written \in Nat /\ Written <= lastMsg
  BY <1>1, CountIsBounded DEF Written
<1>3. CASE UNCHANGED <<mfrom, lastMsg>>
  <2>1. Written' = Written
    BY <1>3, CountStands DEF Written
  <2> QED BY <1>2, <1>3, <2>1
<1>4. ASSUME NEW f \in Sessions, NEW t \in Sessions, NEW r \in BOOLEAN, enqueueBotMessage(f, t, r)
      PROVE  Written' \in {Written, Written + 1} /\ lastMsg' = lastMsg + 1
  <2>1. Written' = IF f = General THEN Written + 1 ELSE Written
    BY <1>1, <1>4, CountGrows DEF Written
  <2> QED BY <1>4, <2>1 DEF enqueueBotMessage
<1> QED BY <1>1, <1>2, <1>3, <1>4, MessageSteps

\* A turn's counters are written when it is made and when it starts, and dropped later.
LEMMA CounterSteps ==
    ASSUME TypeInv, Next, NEW t \in TurnIds
    PROVE  /\ tcreated'[t] \in {tcreated[t], 0, Written} /\ tstarted'[t] \in {tstarted[t], 0, Written}
           /\ t <= lastTurn => tcreated'[t] \in {tcreated[t], 0}
<1> USE DEF turnRows, marks, Written
<1>0. lastTurn \in Nat /\ t \in Nat
  BY DEF TypeInv, TypeOK, TurnIds
<1>1. ASSUME NEW b \in Sessions, NEW S \in SUBSET (Messages \cup {Notice}), CreateTurn(b, S)
      PROVE  /\ tcreated'[t] \in {tcreated[t], 0, Written} /\ tstarted'[t] = tstarted[t]
             /\ t <= lastTurn => tcreated'[t] \in {tcreated[t], 0}
  <2>1. /\ tcreated'[lastTurn + 1] \in {Written, 0} /\ tstarted' = tstarted
        /\ t # lastTurn + 1 => tcreated'[t] = tcreated[t]
    BY <1>1, TurnCreated
  <2> QED BY <1>0, <2>1
<1>2. ASSUME NEW b \in Sessions, Enqueue(b)
      PROVE  /\ tcreated'[t] \in {tcreated[t], 0, Written} /\ tstarted'[t] = tstarted[t]
             /\ t <= lastTurn => tcreated'[t] \in {tcreated[t], 0}
  BY <1>1, <1>2 DEF Enqueue
<1>3. ASSUME NEW b \in Sessions, foldQueue(b) \/ relabel(b) PROVE UNCHANGED <<tcreated, tstarted>>
  BY <1>3 DEF foldQueue, relabel
<1>4. ASSUME NEW b \in Sessions, mergeExtra(b)
      PROVE  tcreated'[t] \in {tcreated[t], 0} /\ tstarted' = tstarted
  BY <1>4 DEF mergeExtra, TypeInv, TypeOK
<1>5. ASSUME NEW b \in Sessions, startTurn(b)
      PROVE  tstarted'[t] \in {tstarted[t], 0, Written} /\ tcreated' = tcreated
  BY <1>5 DEF startTurn, TypeInv, TypeOK
<1>6. ASSUME NEW b \in Sessions, endTurn(b)
      PROVE  tstarted'[t] \in {tstarted[t], 0} /\ tcreated' = tcreated
  BY <1>6 DEF endTurn, TypeInv, TypeOK
<1>7. ASSUME NEW w \in Workers,
             \/ tellSession(w) \/ reportToGeneral(w) \/ enqueueIdleRemind(w)
             \/ ensureWorkerRelayToGeneral(w)
      PROVE  UNCHANGED <<tcreated, tstarted>>
  BY <1>7 DEF tellSession, reportToGeneral, enqueueIdleRemind, ensureWorkerRelayToGeneral
<1>8. ASSUME NEW a \in Actors, deliverInbox(a) \/ deliverMark(a) PROVE UNCHANGED <<tcreated, tstarted>>
  BY <1>8 DEF deliverInbox, deliverMark
<1>9. ASSUME NEW a \in Actors, deliverCreate(a)
      PROVE  /\ tcreated'[t] \in {tcreated[t], 0, Written} /\ tstarted'[t] = tstarted[t]
             /\ t <= lastTurn => tcreated'[t] \in {tcreated[t], 0}
  <2> DEFINE m == Oldest(todo[a])
  <2>1. CreateTurn(mto[m], {m})
    BY <1>9 DEF deliverCreate
  <2>2. mto[m] \in Sessions /\ {m} \in SUBSET (Messages \cup {Notice})
    BY <1>9, OldestTodo DEF deliverCreate
  <2> HIDE DEF m
  <2> QED BY <1>1, <2>1, <2>2
<1>10. CASE followUp
  <2>1. CreateTurn(General, {Notice})
    BY <1>10 DEF followUp
  <2> QED BY <1>1, <2>1, Kinds
<1>11. CASE ensureChiefTimeoutHandoff \/ fulfillOwnerRelay \/ recoverAfterRestart \/ armQueues
  BY <1>11 DEF ensureChiefTimeoutHandoff, fulfillOwnerRelay, recoverAfterRestart, armQueues
<1>12. CASE crash
  BY <1>12 DEF crash
<1> HIDE DEF Written
<1> QED BY StepCases, <1>2, <1>3, <1>4, <1>5, <1>6, <1>7, <1>8, <1>9, <1>10, <1>11, <1>12

LEMMA CountersKept ==
    ASSUME TypeInv, CountersBehind, Next
    PROVE  CountersBehind'
<1>1. /\ Written \in Nat /\ Written' \in {Written, Written + 1} /\ Written' <= lastMsg'
  BY WrittenSteps
<1>2. ASSUME NEW t \in TurnIds PROVE tcreated'[t] <= Written' /\ tstarted'[t] <= Written'
  <2>1. /\ tcreated[t] <= Written /\ tstarted[t] <= Written
        /\ tcreated[t] \in Nat /\ tstarted[t] \in Nat
    BY InboxAssumption DEF CountersBehind, TypeInv, TypeOK
  <2>2. /\ tcreated'[t] \in {tcreated[t], 0, Written} /\ tstarted'[t] \in {tstarted[t], 0, Written}
    BY CounterSteps
  <2> QED BY <1>1, <2>1, <2>2
<1> QED BY <1>1, <1>2 DEF CountersBehind

\* The steps that neither belong to one of General's turns nor make a notice.
Elsewhere ==
    /\ head'[General] = head[General] /\ carry'[General] = carry[General]
    /\ extras'[General] = extras[General]
    /\ \/ pc'[General] = pc[General]
       \/ {pc[General], pc'[General]} \subseteq {"absent", "idle", "again", "list", "deliver", "mark"}
    /\ RowsStand /\ UNCHANGED <<handed, refused>>
    /\ \A t \in TurnIds : ~(t <= lastTurn) /\ tstatus'[t] = "queued" => Notice \notin tmsgs'[t]

LEMMA HandoffSteps ==
    ASSUME TypeInv, NothingBeforeBoot, Next, ~crash
    PROVE  \/ Elsewhere
           \/ foldQueue(General) \/ mergeExtra(General) \/ relabel(General) \/ startTurn(General)
           \/ endTurn(General) \/ ensureChiefTimeoutHandoff \/ followUp \/ fulfillOwnerRelay
           \/ deliverInbox(General)
<1> USE Kinds DEF turnRows, loops, history, Goto
<1> DEFINE Calm == /\ \/ pc'[General] = pc[General]
                      \/ {pc[General], pc'[General]} \subseteq
                            {"absent", "idle", "again", "list", "deliver", "mark"}
                   /\ UNCHANGED <<handed, refused>>
                   /\ \A t \in TurnIds : ~(t <= lastTurn) /\ tstatus'[t] = "queued" => Notice \notin tmsgs'[t]
<1>0. ASSUME \A t \in TurnIds : ~(t <= lastTurn) => tstatus'[t] # "queued",
             UNCHANGED <<handed, refused>>, pc'[General] = pc[General]
      PROVE  Calm
  BY <1>0
<1>1. \A t \in TurnIds : ~(t <= lastTurn) => tstatus[t] = "none"
  BY DEF TypeInv, RowsInOrder
<1>2. ASSUME NEW b \in Sessions, NEW S \in SUBSET (Messages \cup {Notice}), CreateTurn(b, S),
             Notice \notin S
      PROVE  \A t \in TurnIds : ~(t <= lastTurn) /\ tstatus'[t] = "queued" => Notice \notin tmsgs'[t]
  <2>1. /\ tmsgs'[lastTurn + 1] = S
        /\ \A t \in TurnIds : t # lastTurn + 1 => tstatus'[t] = tstatus[t]
    BY <1>2, TurnCreated
  <2> QED BY <1>1, <1>2, <2>1
<1>3. ASSUME NEW b \in Sessions, Enqueue(b) PROVE Calm
  <2>1. /\ CreateTurn(b, {}) /\ UNCHANGED <<handed, refused>>
        /\ pc' = [pc EXCEPT ![b] = IF @ = "absent" THEN "idle" ELSE @]
    BY <1>3 DEF Enqueue
  <2>2. pc'[General] = pc[General] \/ (pc[General] = "absent" /\ pc'[General] = "idle")
    BY <2>1 DEF TypeInv, TypeOK
  <2>3. {} \in SUBSET (Messages \cup {Notice}) /\ Notice \notin {}
    OBVIOUS
  <2>4. \A t \in TurnIds : ~(t <= lastTurn) /\ tstatus'[t] = "queued" => Notice \notin tmsgs'[t]
    BY <1>2, <2>1, <2>3
  <2> QED BY <2>1, <2>2, <2>4
<1>4. ASSUME NEW b \in Sessions, b # General, foldQueue(b) \/ relabel(b) PROVE Calm
  <2>1. UNCHANGED <<tstatus, handed, refused>> /\ \E l \in {"idle", "merge"} : pc' = [pc EXCEPT ![b] = l]
    BY <1>4 DEF foldQueue, relabel
  <2>2. pc'[General] = pc[General]
    BY <1>4, <2>1 DEF TypeInv, TypeOK
  <2> QED BY <1>0, <1>1, <2>1, <2>2
<1>5. ASSUME NEW b \in Sessions, b # General, mergeExtra(b) \/ startTurn(b) \/ endTurn(b) PROVE Calm
  <2>1. /\ UNCHANGED <<handed, refused>>
        /\ \E l \in {"relabel", "run", "handoff", "report"} : pc' = [pc EXCEPT ![b] = l]
        /\ \E x, s : tstatus' = [tstatus EXCEPT ![x] = s] /\ s \in {"ended", "running"}
    BY <1>5 DEF mergeExtra, startTurn, endTurn
  <2>2. pc'[General] = pc[General]
    BY <1>5, <2>1 DEF TypeInv, TypeOK
  <2>3. \A t \in TurnIds : ~(t <= lastTurn) => tstatus'[t] # "queued"
    BY <1>1, <2>1 DEF TypeInv, TypeOK
  <2> QED BY <1>0, <2>1, <2>2, <2>3
<1>6. ASSUME NEW w \in Workers,
             \/ tellSession(w) \/ reportToGeneral(w) \/ enqueueIdleRemind(w)
             \/ ensureWorkerRelayToGeneral(w)
      PROVE  Calm
  <2>1. UNCHANGED <<tstatus, handed, refused>>
    BY <1>6 DEF tellSession, reportToGeneral, enqueueIdleRemind, ensureWorkerRelayToGeneral
  <2>2. UNCHANGED pc \/ \E a \in Actors \ {General}, l \in {"deliver", "list"} : pc' = [pc EXCEPT ![a] = l]
    BY <1>6 DEF tellSession, reportToGeneral, enqueueIdleRemind, ensureWorkerRelayToGeneral
  <2>3. pc'[General] = pc[General]
    BY <2>2 DEF TypeInv, TypeOK
  <2> QED BY <1>0, <1>1, <2>1, <2>3
<1>7. ASSUME NEW a \in Actors, a # General, deliverInbox(a) PROVE Calm
  <2>1. UNCHANGED <<tstatus, handed, refused>> /\ pc' = [pc EXCEPT ![a] = After(a, Pending(a))]
    BY <1>7 DEF deliverInbox
  <2>2. pc'[General] = pc[General]
    BY <1>7, <2>1 DEF TypeInv, TypeOK
  <2> QED BY <1>0, <1>1, <2>1, <2>2
<1>8. ASSUME NEW a \in Actors, deliverCreate(a) PROVE Calm
  <2> DEFINE m == Oldest(todo[a])
  <2>1. /\ CreateTurn(mto[m], {m}) /\ pc[a] = "deliver" /\ UNCHANGED <<handed, refused>>
        /\ \/ pc' = [pc EXCEPT ![mto[m]] = IF @ = "absent" THEN "idle" ELSE @, ![a] = "mark"]
           \/ pc' = [pc EXCEPT ![a] = "mark"]
    BY <1>8 DEF deliverCreate, GotoAndKick
  <2>2. mto[m] \in Sessions /\ m \in Messages
    BY <1>8, OldestTodo DEF deliverCreate
  <2>3. {m} \in SUBSET (Messages \cup {Notice}) /\ Notice \notin {m}
    BY <2>2 DEF Messages, Notice
  <2> HIDE DEF m
  <2>4. \/ pc'[General] = pc[General] \/ (pc[General] = "absent" /\ pc'[General] = "idle")
        \/ (pc[General] = "deliver" /\ pc'[General] = "mark")
    BY <2>1, <2>2 DEF TypeInv, TypeOK
  <2>5. \A t \in TurnIds : ~(t <= lastTurn) /\ tstatus'[t] = "queued" => Notice \notin tmsgs'[t]
    BY <1>2, <2>1, <2>2, <2>3
  <2> QED BY <2>1, <2>4, <2>5
<1>9. ASSUME NEW a \in Actors, deliverMark(a) PROVE Calm
  <2>1. /\ pc[a] = "mark" /\ UNCHANGED <<tstatus, handed, refused>>
        /\ pc' = [pc EXCEPT ![mto[item[a][1]]] = IF @ = "absent" THEN "idle" ELSE @,
                            ![a] = After(a, todo[a])]
    BY <1>9 DEF deliverMark, GotoAndKick
  <2>2. mto[item[a][1]] \in Sessions
    BY <2>1, InboxAssumption
       DEF TypeInv, TypeOK, LocalsOfDelivery, DeliveryOf, InboxInOrder, Sent, Messages
  <2>3. \/ pc'[General] = pc[General] \/ (pc[General] = "absent" /\ pc'[General] = "idle")
        \/ (pc[General] = "mark" /\ pc'[General] \in {"deliver", "again"})
    BY <2>1, <2>2 DEF TypeInv, TypeOK, After
  <2> QED BY <1>1, <2>1, <2>3
<1>10. ASSUME recoverAfterRestart PROVE Calm
  <2>1. UNCHANGED <<handed, refused>> /\ pc' = [pc EXCEPT ![Boot] = "list"]
        /\ tstatus' = [t \in TurnIds |-> IF tstatus[t] = "running" THEN "queued" ELSE tstatus[t]]
    BY <1>10 DEF recoverAfterRestart
  <2>2. pc'[General] = pc[General] /\ \A t \in TurnIds : ~(t <= lastTurn) => tstatus'[t] # "queued"
    BY <1>1, <2>1 DEF TypeInv, TypeOK
  <2> QED BY <1>0, <2>1, <2>2
<1>11. ASSUME armQueues PROVE Calm
  <2>1. UNCHANGED <<tstatus, handed, refused>>
        /\ (pc'[General] = pc[General] \/ (pc[General] = "absent" /\ pc'[General] = "idle"))
    BY <1>11 DEF armQueues
  <2> QED BY <1>1, <2>1
<1>12. ASSUME Calm, GeneralStands, RowsStand PROVE Elsewhere
  BY <1>12 DEF Elsewhere, GeneralStands
<1>13. \/ Calm \/ ensureChiefTimeoutHandoff \/ followUp
       \/ foldQueue(General) \/ mergeExtra(General) \/ relabel(General) \/ startTurn(General)
       \/ endTurn(General) \/ fulfillOwnerRelay \/ deliverInbox(General)
  <2> HIDE DEF Calm
  <2> QED BY StepCases, <1>3, <1>4, <1>5, <1>6, <1>7, <1>8, <1>9, <1>10, <1>11
<1> QED BY GeneralSteps, <1>12, <1>13

\* What the notice's request was asked by, it still is.
LEMMA AskedStands ==
    ASSUME TypeInv, CountersBehind, Next, NEW o \in late, Asked(o), o \in tuser',
           tmsgs'[o] = tmsgs[o], tcreated'[o] = tcreated[o], tstarted'[o] = tstarted[o],
           \A p \in late' : p <= o \/ (pc'[General] = "handoff" /\ p = head'[General]),
           pc'[General] = "handoff" => o < head'[General]
    PROVE  Asked(o)'
<1>1. o \in TurnIds /\ tcreated[o] \in Nat /\ tstarted[o] \in Nat
  BY InboxAssumption DEF TypeInv, TypeOK
<1>2. Written \in Nat /\ Written' \in {Written, Written + 1}
  BY WrittenSteps
<1>3. tstarted[o] <= Written /\ (Written <= tcreated[o] \/ Written > tstarted[o])
  BY <1>1 DEF CountersBehind, Asked
<1>4. Written' <= tcreated[o] \/ Written' > tstarted[o]
  BY <1>1, <1>2, <1>3
<1>5. o \in tuser' /\ Notice \notin tmsgs'[o]
  BY DEF Asked
<1>6. Written' <= tcreated'[o] \/ Written' > tstarted'[o]
  BY <1>4
<1> QED BY <1>5, <1>6 DEF Asked

LEMMA HandedStands ==
    ASSUME TypeInv, HandedIsCounted, Next, handed' = handed,
           \A t \in TurnIds : t <= lastTurn /\ t \in tuser' => t \in tuser
    PROVE  HandedIsCounted'
<1>1. Written \in Nat /\ Written' \in Nat /\ Written <= Written'
  BY WrittenSteps
<1> SUFFICES ASSUME NEW v \in TurnIds, handed[v] = 1, NEW u \in tuser', u <= v
             PROVE  tcreated'[u] < Written'
  BY DEF HandedIsCounted
<1>2. tuser' \subseteq TurnIds
  BY TypesKept DEF TypeOK
<1>3. v <= lastTurn
  BY DEF TypeInv, RowsInOrder
<1>4. u \in TurnIds /\ u <= lastTurn
  BY <1>2, <1>3 DEF TurnIds, TypeInv, TypeOK
<1>5. u \in tuser
  BY <1>4
<1>6. tcreated[u] < Written /\ tcreated[u] \in Nat
  BY <1>4, <1>5, InboxAssumption DEF HandedIsCounted, TypeInv, TypeOK
<1>7. tcreated'[u] \in {tcreated[u], 0}
  BY <1>4, CounterSteps
<1> QED BY <1>1, <1>6, <1>7

LEMMA LateStands ==
    ASSUME TypeInv, LateIsHanded, Next, UNCHANGED <<handed, refused>>,
           \A t \in late' \cap tuser' :
              \/ pc'[General] = "handoff" /\ t = head'[General]
              \/ /\ t \in late \cap tuser /\ tmsgs'[t] = tmsgs[t]
                 /\ ~(pc[General] = "handoff" /\ t = head[General])
    PROVE  LateIsHanded'
<1>1. Written \in Nat /\ Written' \in Nat /\ Written <= Written'
  BY WrittenSteps
<1> SUFFICES ASSUME NEW t \in late' \cap tuser'
             PROVE  \/ handed'[t] = 1 \/ refused' \/ Written' > tcreated'[t] \/ Notice \in tmsgs'[t]
                    \/ pc'[General] = "handoff" /\ t = head'[General]
  BY DEF LateIsHanded
<1>2. CASE pc'[General] = "handoff" /\ t = head'[General]
  BY <1>2
<1>3. CASE /\ t \in late \cap tuser /\ tmsgs'[t] = tmsgs[t]
           /\ ~(pc[General] = "handoff" /\ t = head[General])
  <2>1. handed[t] = 1 \/ refused \/ Written > tcreated[t] \/ Notice \in tmsgs[t]
    BY <1>3 DEF LateIsHanded
  <2>2. t \in TurnIds /\ t <= lastTurn /\ tcreated[t] \in Nat
    BY <1>3, InboxAssumption DEF TypeInv, TypeOK, RowsInOrder
  <2>3. tcreated'[t] \in {tcreated[t], 0}
    BY <2>2, CounterSteps
  <2> QED BY <1>1, <1>3, <2>1, <2>2, <2>3
<1> QED BY <1>2, <1>3

LEMMA LateRows ==
    ASSUME TypeInv, HeadIsOldest, NEW o \in late
    PROVE  o \in TurnIds /\ o \in Nat /\ o <= lastTurn /\ tbot[o] = General /\ tstatus[o] = "ended"
BY DEF TypeInv, TypeOK, RowsInOrder, HeadIsOldest, TurnIds

LEMMA NoticeElsewhere ==
    ASSUME TypeInv, CountersBehind, NoticeInv, Next, Elsewhere
    PROVE  NoticeInv'
<1> USE Kinds
<1>0. HeadIsOldest /\ HeadHoldsCarry /\ OneNotice /\ NoticeIsOfLate
  BY DEF NoticeInv
<1>1. \A t \in TurnIds : t <= lastTurn =>
          /\ tbot'[t] = tbot[t] /\ (t \in tuser' <=> t \in tuser)
          /\ tbot[t] = General =>
                /\ tstatus'[t] = tstatus[t] /\ tmsgs'[t] = tmsgs[t]
                /\ tcreated'[t] = tcreated[t] /\ tstarted'[t] = tstarted[t]
  BY DEF Elsewhere, RowsStand
<1>2. /\ late' = late /\ head'[General] = head[General] /\ carry'[General] = carry[General]
      /\ extras'[General] = extras[General]
  BY DEF Elsewhere, RowsStand
<1> DEFINE Busy == {"merge", "relabel", "run", "handoff", "notice"}
<1>3. /\ pc[General] \in Busy \/ pc'[General] \in Busy => pc'[General] = pc[General]
  BY DEF Elsewhere
<1>4. ASSUME NEW t \in QueuedOf(General)'
      PROVE  \/ t \in QueuedOf(General) /\ tmsgs'[t] = tmsgs[t]
             \/ t \in TurnIds /\ ~(t <= lastTurn) /\ Notice \notin tmsgs'[t]
  BY <1>1 DEF QueuedOf, Elsewhere
<1>5. \A t : InFold(t)' <=> InFold(t)
  BY <1>2, <1>3 DEF InFold
<1>6. lastTurn \in Nat /\ \A t \in QueuedOf(General)' : t \in Nat
  BY DEF QueuedOf, TurnIds, TypeInv, TypeOK
<1>7. pc[General] \in Busy =>
          head[General] \in TurnIds /\ head[General] <= lastTurn /\ tbot[head[General]] = General
  BY DEF TypeInv, LocalsOfLoop, Executing
<1>8. HeadIsOldest'
  <2>1. ASSUME pc'[General] \in Busy, NEW t \in QueuedOf(General)' PROVE head'[General] <= t
    <3>1. pc[General] \in Busy /\ head[General] \in Nat
      BY <1>3, <1>7, <2>1 DEF TurnIds
    <3> QED BY <1>0, <1>2, <1>4, <1>6, <1>7, <3>1 DEF HeadIsOldest
  <2>2. ASSUME NEW o \in late'
        PROVE  /\ tbot'[o] = General /\ tstatus'[o] = "ended"
               /\ \A t \in QueuedOf(General)' : o < t
               /\ pc'[General] \in {"merge", "relabel", "run"} => o < head'[General]
               /\ pc'[General] \in {"handoff", "notice"} => o <= head'[General]
    <3>1. o \in late /\ o \in TurnIds /\ o \in Nat /\ o <= lastTurn
          /\ tbot[o] = General /\ tstatus[o] = "ended"
      BY <1>0, <1>2, LateRows
    <3>2. \A t \in QueuedOf(General)' : o < t
      BY <1>0, <1>4, <1>6, <3>1 DEF HeadIsOldest
    <3> QED BY <1>0, <1>1, <1>2, <1>3, <3>1, <3>2 DEF HeadIsOldest
  <2> QED BY <2>1, <2>2 DEF HeadIsOldest
<1>9. HeadHoldsCarry'
  <2>1. pc'[General] \in Busy => /\ pc'[General] = pc[General] /\ tmsgs'[head[General]] = tmsgs[head[General]]
                                 /\ head[General] \in tuser' <=> head[General] \in tuser
    BY <1>1, <1>3, <1>7
  <2> QED BY <1>0, <1>2, <2>1 DEF HeadHoldsCarry
<1>10. NoticeQueued' => NoticeQueued
  BY <1>4, <1>5 DEF NoticeQueued
<1>11. OneNotice'
  BY <1>0, <1>3, <1>10 DEF OneNotice
<1>12. NoticeIsOfLate'
  <2> SUFFICES ASSUME NoticeLives' PROVE \E o \in late' : Asked(o)'
    BY DEF NoticeIsOfLate
  <2>1. NoticeLives
    BY <1>2, <1>3, <1>10 DEF NoticeLives
  <2>2. PICK o \in late : Asked(o)
    BY <1>0, <2>1 DEF NoticeIsOfLate
  <2>3. o \in TurnIds /\ o <= lastTurn /\ tbot[o] = General
    BY <1>0, LateRows
  <2>4. /\ o \in tuser /\ pc[General] = "handoff" => o < head[General]
        /\ \A p \in late : p <= o \/ (pc[General] = "handoff" /\ p = head[General])
    BY <2>2 DEF Asked
  <2>5. pc'[General] = "handoff" <=> pc[General] = "handoff"
    BY <1>3
  <2>6. Asked(o)'
    BY <1>1, <1>2, <2>2, <2>3, <2>4, <2>5, AskedStands DEF Asked
  <2> QED BY <1>2, <2>6
<1> QED BY <1>8, <1>9, <1>11, <1>12 DEF NoticeInv

LEMMA NoticeFolds ==
    ASSUME TypeInv, CountersBehind, NoticeInv, Next, foldQueue(General)
    PROVE  NoticeInv'
<1> USE Kinds DEF turnRows, marks, Goto
<1>0. HeadIsOldest /\ HeadHoldsCarry /\ OneNotice /\ NoticeIsOfLate
  BY DEF NoticeInv
<1>1. /\ UNCHANGED <<tstatus, tbot, tmsgs, tuser, tcreated, tstarted, late, lastTurn>>
      /\ pc[General] \in {"idle", "again"}
  BY DEF foldQueue
<1>2. QueuedOf(General)' = QueuedOf(General)
  BY <1>1 DEF QueuedOf
<1>3. ASSUME NEW o \in late, Asked(o), pc'[General] # "handoff" PROVE Asked(o)'
  <2>1. \A p \in late : p <= o
    BY <1>1, <1>3 DEF Asked
  <2> QED BY <1>1, <1>3, <2>1, AskedStands DEF Asked
<1>4. CASE QueuedOf(General) = {} /\ pc' = [pc EXCEPT ![General] = "idle"]
  <2>1. pc'[General] = "idle"
    BY <1>4 DEF TypeInv, TypeOK
  <2>2. HeadIsOldest'
    BY <1>0, <1>1, <1>2, <1>4, <2>1 DEF HeadIsOldest
  <2>3. HeadHoldsCarry' /\ OneNotice'
    BY <2>1 DEF HeadHoldsCarry, OneNotice
  <2>4. NoticeIsOfLate'
    BY <1>2, <1>4, <2>1 DEF NoticeIsOfLate, NoticeLives, NoticeQueued
  <2> QED BY <2>2, <2>3, <2>4 DEF NoticeInv
<1>5. CASE /\ QueuedOf(General) # {} /\ pc' = [pc EXCEPT ![General] = "merge"]
           /\ head' = [head EXCEPT ![General] = Oldest(QueuedOf(General))]
           /\ carry' = [carry EXCEPT ![General] = UNION {tmsgs[t] : t \in QueuedOf(General)}]
           /\ extras' = [extras EXCEPT ![General] = QueuedOf(General) \ {Oldest(QueuedOf(General))}]
  <2> DEFINE q == QueuedOf(General)
             o == Oldest(q)
  <2>1. o \in q /\ \A t \in q : o <= t
    BY <1>5, QueuedRows
  <2>2. /\ pc'[General] = "merge" /\ head'[General] = o /\ extras'[General] = q \ {o}
        /\ carry'[General] = UNION {tmsgs[t] : t \in q}
    BY <1>5 DEF TypeInv, TypeOK
  <2>3. \A t \in q : t \in TurnIds
    BY DEF QueuedOf
  <2>4. (\A t : ~InFold(t)) /\ q = QueuedOf(General)
    BY <1>1 DEF InFold
  <2> HIDE DEF o, q
  <2>5. HeadIsOldest'
    BY <1>0, <1>1, <1>2, <2>1, <2>2, <2>4 DEF HeadIsOldest
  <2>6. HeadHoldsCarry'
    BY <2>2 DEF HeadHoldsCarry
  <2>7. ~NoticeQueued'
    BY <1>1, <1>2, <2>2, <2>4 DEF NoticeQueued, InFold
  <2>8. NoticeIsOfLate'
    <3> SUFFICES ASSUME NoticeLives' PROVE \E p \in late' : Asked(p)'
      BY DEF NoticeIsOfLate
    <3>1. Notice \in carry'[General]
      BY <2>2, <2>7 DEF NoticeLives
    <3>2. NoticeLives
      BY <1>1, <2>2, <2>4, <3>1 DEF NoticeLives, NoticeQueued, InFold
    <3>3. PICK p \in late : Asked(p)
      BY <1>0, <3>2 DEF NoticeIsOfLate
    <3>4. Asked(p)'
      BY <1>3, <2>2, <3>3
    <3> QED BY <1>1, <3>4
  <2> QED BY <2>5, <2>6, <2>7, <2>8 DEF NoticeInv, OneNotice
<1> QED BY <1>4, <1>5 DEF foldQueue

LEMMA NoticeMerges ==
    ASSUME TypeInv, CountersBehind, NoticeInv, FoldedRows, Next,
           mergeExtra(General) \/ relabel(General)
    PROVE  NoticeInv'
<1> USE Kinds DEF turnRows, loops, marks, Goto
<1> DEFINE x == Oldest(extras[General])
<1>0. HeadIsOldest /\ HeadHoldsCarry /\ OneNotice /\ NoticeIsOfLate
  BY DEF NoticeInv
<1>1. /\ pc[General] \in {"merge", "relabel"}
      /\ \E l \in {"merge", "relabel"} : pc' = [pc EXCEPT ![General] = l]
      /\ UNCHANGED <<tbot, tmsgs, lastTurn, tuser, late, tstarted, head, carry>>
      /\ extras[General] # {}
  BY DEF mergeExtra, relabel, TypeInv, LocalsOfLoop
<1>2. x \in extras[General] /\ x \in TurnIds /\ head[General] < x /\ head[General] \in TurnIds
  BY <1>1, OldestExtra DEF TypeInv, LocalsOfLoop, Executing
<1>3. \/ /\ tstatus' = [tstatus EXCEPT ![x] = "ended"] /\ tcreated' = [tcreated EXCEPT ![x] = 0]
         /\ UNCHANGED extras
      \/ /\ UNCHANGED <<tstatus, tcreated>> /\ tstatus[x] = "ended"
         /\ extras' = [extras EXCEPT ![General] = @ \ {x}]
  BY DEF mergeExtra, relabel, FoldedRows
<1> HIDE DEF x
<1>4. /\ pc'[General] \in {"merge", "relabel"} /\ tstatus'[x] = "ended"
      /\ \A t \in TurnIds : t # x => tstatus'[t] = tstatus[t] /\ tcreated'[t] = tcreated[t]
      /\ extras'[General] = extras[General] \/ extras'[General] = extras[General] \ {x}
  BY <1>1, <1>2, <1>3 DEF TypeInv, TypeOK
<1>5. \A t \in QueuedOf(General)' : t \in QueuedOf(General) /\ t # x
  BY <1>1, <1>4 DEF QueuedOf
<1>6. ASSUME NEW o \in late
      PROVE  /\ o \in TurnIds /\ o # x /\ o < head[General]
             /\ tbot[o] = General /\ tstatus'[o] = "ended" /\ tcreated'[o] = tcreated[o]
  <2>1. o < head[General] /\ o \in TurnIds /\ tbot[o] = General /\ tstatus[o] = "ended"
    BY <1>0, <1>1, LateRows DEF HeadIsOldest
  <2>2. o # x
    BY <1>2, <2>1 DEF TurnIds
  <2> QED BY <1>4, <2>1, <2>2
<1>7. HeadIsOldest'
  <2>1. \A t \in QueuedOf(General)' : head[General] <= t
    BY <1>0, <1>1, <1>5 DEF HeadIsOldest
  <2>2. \A o \in late : \A t \in QueuedOf(General)' : o < t
    BY <1>0, <1>5 DEF HeadIsOldest
  <2> QED BY <1>1, <1>4, <1>6, <2>1, <2>2 DEF HeadIsOldest
<1>8. HeadHoldsCarry'
  BY <1>4 DEF HeadHoldsCarry
<1>9. ~NoticeQueued'
  <2>1. \A t : t # x => (InFold(t)' <=> InFold(t))
    BY <1>1, <1>4 DEF InFold
  <2> QED BY <1>0, <1>1, <1>5, <2>1 DEF OneNotice, NoticeQueued
<1>10. NoticeIsOfLate'
  <2> SUFFICES ASSUME NoticeLives' PROVE \E o \in late' : Asked(o)'
    BY DEF NoticeIsOfLate
  <2>1. NoticeLives
    BY <1>1, <1>4, <1>9 DEF NoticeLives
  <2>2. PICK o \in late : Asked(o)
    BY <1>0, <2>1 DEF NoticeIsOfLate
  <2>3. \A p \in late' : p <= o
    BY <1>1, <2>2 DEF Asked
  <2>4. Asked(o)'
    BY <1>1, <1>4, <1>6, <2>2, <2>3, AskedStands DEF Asked
  <2> QED BY <1>1, <2>4
<1> QED BY <1>7, <1>8, <1>9, <1>10 DEF NoticeInv, OneNotice

LEMMA NoticeStarts ==
    ASSUME TypeInv, CountersBehind, NoticeInv, FoldedRows, Next, startTurn(General)
    PROVE  /\ NoticeInv' /\ \A o \in late : tmsgs'[o] = tmsgs[o]
<1> USE Kinds DEF turnRows, loops, marks, Goto
<1> DEFINE h == head[General]
<1>0. HeadIsOldest /\ HeadHoldsCarry /\ OneNotice /\ NoticeIsOfLate
  BY DEF NoticeInv
<1>1. /\ pc[General] = "merge" /\ extras[General] = {} /\ pc' = [pc EXCEPT ![General] = "run"]
      /\ tstatus' = [tstatus EXCEPT ![h] = "running"] /\ tmsgs' = [tmsgs EXCEPT ![h] = carry[General]]
      /\ \E n : tstarted' = [tstarted EXCEPT ![h] = n]
      /\ UNCHANGED <<tbot, lastTurn, tuser, tcreated, late, head, carry, extras>>
  BY DEF startTurn
<1>2. h \in TurnIds /\ head'[General] = h
  BY <1>1 DEF TypeInv, LocalsOfLoop, Executing
<1>3. \A t : InFold(t) <=> t = h
  BY <1>1 DEF InFold
<1>4. \A t \in QueuedOf(General) : h <= t
  BY <1>0, <1>1 DEF HeadIsOldest
<1>5. \A o \in late : o < h /\ o \in TurnIds /\ tbot[o] = General /\ tstatus[o] = "ended"
  BY <1>0, <1>1, LateRows DEF HeadIsOldest
<1> HIDE DEF h
<1>6. /\ pc'[General] = "run" /\ tstatus'[h] = "running" /\ tmsgs'[h] = carry[General]
      /\ \A t \in TurnIds : t # h => /\ tstatus'[t] = tstatus[t] /\ tmsgs'[t] = tmsgs[t]
                                     /\ tstarted'[t] = tstarted[t]
  BY <1>1, <1>2 DEF TypeInv, TypeOK
<1>7. \A t \in QueuedOf(General)' : t \in QueuedOf(General) /\ t # h /\ tmsgs'[t] = tmsgs[t]
  BY <1>1, <1>6 DEF QueuedOf
<1>8. \A o \in late : /\ o # h /\ tstatus'[o] = "ended" /\ tmsgs'[o] = tmsgs[o]
                      /\ tstarted'[o] = tstarted[o]
  BY <1>2, <1>5, <1>6 DEF TurnIds
<1>9. HeadIsOldest'
  <2>1. \A o \in late : \A t \in QueuedOf(General)' : o < t
    BY <1>0, <1>7 DEF HeadIsOldest
  <2> QED BY <1>1, <1>2, <1>4, <1>5, <1>6, <1>7, <1>8, <2>1 DEF HeadIsOldest
<1>10. HeadHoldsCarry'
  BY <1>1, <1>2, <1>6 DEF HeadHoldsCarry
<1>11. ~NoticeQueued'
  BY <1>0, <1>1, <1>3, <1>7 DEF OneNotice, NoticeQueued
<1>12. NoticeIsOfLate'
  <2> SUFFICES ASSUME NoticeLives' PROVE \E o \in late' : Asked(o)'
    BY DEF NoticeIsOfLate
  <2>1. NoticeLives
    BY <1>1, <1>6, <1>11 DEF NoticeLives
  <2>2. PICK o \in late : Asked(o)
    BY <1>0, <2>1 DEF NoticeIsOfLate
  <2>3. \A p \in late' : p <= o
    BY <1>1, <2>2 DEF Asked
  <2>4. Asked(o)'
    BY <1>1, <1>6, <1>8, <2>2, <2>3, AskedStands DEF Asked
  <2> QED BY <1>1, <2>4
<1> QED BY <1>8, <1>9, <1>10, <1>11, <1>12 DEF NoticeInv, OneNotice

LEMMA NoticeEnds ==
    ASSUME TypeInv, CountersBehind, NoticeInv, FoldedRows, Next, endTurn(General)
    PROVE  /\ NoticeInv'
           /\ \A t \in late' : t \in late \/ (pc'[General] = "handoff" /\ t = head'[General])
<1> USE Kinds DEF turnRows, loops, marks, Goto
<1> DEFINE h == head[General]
<1>0. HeadIsOldest /\ HeadHoldsCarry /\ OneNotice /\ NoticeIsOfLate
  BY DEF NoticeInv
<1>1. /\ pc[General] = "run" /\ tstatus' = [tstatus EXCEPT ![h] = "ended"]
      /\ \/ late' = late \cup {h} /\ UNCHANGED tstarted /\ pc' = [pc EXCEPT ![General] = "handoff"]
         \/ /\ late' = late /\ tstarted' = [tstarted EXCEPT ![h] = 0]
            /\ \/ Notice \in carry[General] /\ pc' = [pc EXCEPT ![General] = "handoff"]
               \/ pc' = [pc EXCEPT ![General] = "report"]
      /\ UNCHANGED <<tbot, tmsgs, lastTurn, tuser, tcreated, head, carry, extras>>
  BY DEF endTurn
<1>2. h \in TurnIds /\ head'[General] = h /\ tbot[h] = General /\ tstatus[h] = "running"
  BY <1>1 DEF TypeInv, LocalsOfLoop, Executing, FoldedRows
<1>3. \A t \in QueuedOf(General) : h <= t /\ t # h /\ t \in TurnIds
  BY <1>0, <1>1, <1>2 DEF HeadIsOldest, QueuedOf
<1>4. \A o \in late : o < h /\ o \in TurnIds /\ tbot[o] = General /\ tstatus[o] = "ended"
  BY <1>0, <1>1, LateRows DEF HeadIsOldest
<1> HIDE DEF h
<1>5. /\ tstatus'[h] = "ended"
      /\ \A t \in TurnIds : t # h => tstatus'[t] = tstatus[t] /\ tstarted'[t] = tstarted[t]
  BY <1>1, <1>2 DEF TypeInv, TypeOK
<1>6. /\ pc'[General] \in {"handoff", "report"}
      /\ late' = late \/ (late' = late \cup {h} /\ pc'[General] = "handoff")
      /\ pc'[General] = "handoff" => Notice \in carry[General] \/ h \in late'
  BY <1>1 DEF TypeInv, TypeOK
<1>7. \A t \in QueuedOf(General)' : t \in QueuedOf(General) /\ h < t
  <2>1. \A t \in QueuedOf(General)' : t \in QueuedOf(General)
    BY <1>1, <1>5 DEF QueuedOf
  <2> QED BY <1>2, <1>3, <2>1 DEF TurnIds
<1>8. \A o \in late : o # h /\ o <= h
  BY <1>2, <1>4 DEF TurnIds
<1>9. HeadIsOldest'
  <2>1. ASSUME NEW o \in late'
        PROVE  /\ tbot'[o] = General /\ tstatus'[o] = "ended" /\ o <= h
               /\ \A t \in QueuedOf(General)' : o < t
    <3>1. CASE o = h
      BY <1>1, <1>2, <1>5, <1>7, <3>1 DEF TurnIds
    <3>2. CASE o \in late
      BY <1>0, <1>1, <1>4, <1>5, <1>7, <1>8, <3>2 DEF HeadIsOldest
    <3> QED BY <1>6, <2>1, <3>1, <3>2
  <2> QED BY <1>2, <1>3, <1>6, <1>7, <2>1 DEF HeadIsOldest
<1>10. HeadHoldsCarry'
  BY <1>0, <1>1, <1>2, <1>6 DEF HeadHoldsCarry, h
<1>11. ~NoticeQueued'
  BY <1>0, <1>1, <1>6, <1>7 DEF OneNotice, NoticeQueued, InFold
<1>12. NoticeIsOfLate'
  <2> SUFFICES ASSUME NoticeLives' PROVE \E o \in late' : Asked(o)'
    BY DEF NoticeIsOfLate
  <2>1. Notice \in carry[General] /\ pc'[General] = "handoff"
    BY <1>1, <1>6, <1>11 DEF NoticeLives
  <2>2. NoticeLives
    BY <1>1, <2>1 DEF NoticeLives
  <2>3. PICK o \in late : Asked(o)
    BY <1>0, <2>2 DEF NoticeIsOfLate
  <2>4. \A p \in late' : p <= o \/ (pc'[General] = "handoff" /\ p = head'[General])
    BY <1>1, <1>2, <1>6, <2>3 DEF Asked
  <2>5. Asked(o)'
    BY <1>1, <1>2, <1>4, <1>5, <1>8, <2>3, <2>4, AskedStands DEF Asked
  <2> QED BY <1>6, <2>5
<1> QED BY <1>2, <1>6, <1>9, <1>10, <1>11, <1>12 DEF NoticeInv, OneNotice

LEMMA NoticeLeaves ==
    ASSUME TypeInv, CountersBehind, NoticeInv, Next, fulfillOwnerRelay \/ deliverInbox(General)
    PROVE  NoticeInv'
<1> USE Kinds DEF turnRows, loops, marks, Goto
<1>0. HeadIsOldest /\ HeadHoldsCarry /\ OneNotice /\ NoticeIsOfLate
  BY DEF NoticeInv
<1>1. /\ pc[General] \in {"report", "list"}
      /\ UNCHANGED <<tstatus, tbot, tmsgs, tuser, tcreated, tstarted, late, lastTurn>>
      /\ \E l \in {"list", "deliver", "again"} : pc' = [pc EXCEPT ![General] = l]
  BY DEF fulfillOwnerRelay, deliverInbox, After
<1>2. pc'[General] \in {"list", "deliver", "again"}
  BY <1>1 DEF TypeInv, TypeOK
<1>3. QueuedOf(General)' = QueuedOf(General)
  BY <1>1 DEF QueuedOf
<1>4. HeadIsOldest' /\ HeadHoldsCarry' /\ OneNotice'
  BY <1>0, <1>1, <1>2, <1>3 DEF HeadIsOldest, HeadHoldsCarry, OneNotice
<1>5. NoticeIsOfLate'
  <2> SUFFICES ASSUME NoticeLives' PROVE \E o \in late' : Asked(o)'
    BY DEF NoticeIsOfLate
  <2>1. NoticeLives
    BY <1>1, <1>2, <1>3 DEF NoticeLives, NoticeQueued, InFold
  <2>2. PICK o \in late : Asked(o)
    BY <1>0, <2>1 DEF NoticeIsOfLate
  <2>3. \A p \in late' : p <= o
    BY <1>1, <2>2 DEF Asked
  <2>4. Asked(o)'
    BY <1>1, <1>2, <2>2, <2>3, AskedStands DEF Asked
  <2> QED BY <1>1, <2>4
<1> QED BY <1>4, <1>5 DEF NoticeInv

LEMMA NoticeIsQueued ==
    ASSUME TypeInv, CountersBehind, NoticeInv, Next, followUp
    PROVE  NoticeInv'
<1> USE Kinds DEF loops, Goto
<1>0. HeadIsOldest /\ HeadHoldsCarry /\ OneNotice /\ NoticeIsOfLate
  BY DEF NoticeInv
<1>1. /\ pc[General] = "notice" /\ pc' = [pc EXCEPT ![General] = "report"]
      /\ CreateTurn(General, {Notice}) /\ UNCHANGED <<tuser, head, carry, extras>>
  BY DEF followUp
<1>2. pc'[General] = "report"
  BY <1>1 DEF TypeInv, TypeOK
<1>3. RowsStand
  BY <1>1, RowCreated
<1>4. \A t \in QueuedOf(General)' : t \in QueuedOf(General) \/ (t \in TurnIds /\ ~(t <= lastTurn))
  BY <1>3 DEF RowsStand, QueuedOf
<1>5. HeadIsOldest'
  <2>1. ASSUME NEW o \in late'
        PROVE  /\ tbot'[o] = General /\ tstatus'[o] = "ended"
               /\ \A t \in QueuedOf(General)' : o < t
    <3>1. o \in late /\ o \in TurnIds /\ o \in Nat /\ o <= lastTurn
          /\ tbot[o] = General /\ tstatus[o] = "ended"
      BY <1>0, <1>3, LateRows DEF RowsStand
    <3>2. tbot'[o] = General /\ tstatus'[o] = "ended"
      BY <1>3, <3>1 DEF RowsStand
    <3>3. lastTurn \in Nat /\ \A t \in TurnIds : t \in Nat
      BY DEF TypeInv, TypeOK, TurnIds
    <3>4. ASSUME NEW t \in TurnIds, ~(t <= lastTurn) PROVE o < t
      BY <3>1, <3>3, <3>4
    <3>5. \A t \in QueuedOf(General) : o < t
      BY <1>0, <3>1 DEF HeadIsOldest
    <3> QED BY <1>4, <3>2, <3>4, <3>5
  <2> QED BY <1>2, <2>1 DEF HeadIsOldest
<1>6. HeadHoldsCarry' /\ OneNotice'
  BY <1>2 DEF HeadHoldsCarry, OneNotice
<1>7. NoticeIsOfLate'
  <2>1. PICK o \in late : Asked(o)
    BY <1>0, <1>1 DEF NoticeIsOfLate, NoticeLives
  <2>2. o \in TurnIds /\ o <= lastTurn /\ tbot[o] = General
    BY <1>0, LateRows
  <2>3. /\ late' = late /\ o \in tuser' /\ tmsgs'[o] = tmsgs[o] /\ tcreated'[o] = tcreated[o]
        /\ tstarted'[o] = tstarted[o]
    BY <1>1, <1>3, <2>1, <2>2 DEF RowsStand, Asked
  <2>4. \A p \in late' : p <= o
    BY <1>1, <2>1, <2>3 DEF Asked
  <2>5. Asked(o)'
    BY <1>2, <2>1, <2>3, <2>4, AskedStands
  <2> QED BY <2>3, <2>5 DEF NoticeIsOfLate
<1> QED BY <1>5, <1>6, <1>7 DEF NoticeInv

\* The window of a turn goes back at most to its own creation.
LEMMA WindowIsBehind ==
    ASSUME TypeInv, pc[General] = "handoff"
    PROVE  /\ head[General] \in TurnIds /\ tcreated[head[General]] \in Nat
           /\ chiefHandoffSince \in Nat /\ chiefHandoffSince <= tcreated[head[General]]
           /\ Notice \notin carry[General] => chiefHandoffSince = tcreated[head[General]]
<1>1. head[General] \in TurnIds
  BY Kinds DEF TypeInv, LocalsOfLoop, Executing
<1>2. tcreated[head[General]] \in Nat
  BY <1>1, InboxAssumption DEF TypeInv, TypeOK
<1> DEFINE before == {o \in late : o < head[General]}
           orig == tstarted[CHOOSE o \in before : \A p \in before : p <= o]
<1>3. chiefHandoffSince = IF Notice \in carry[General] /\ before # {} /\ orig < tcreated[head[General]]
                          THEN orig ELSE tcreated[head[General]]
  BY DEF chiefHandoffSince, chiefTimeoutWindowStart
<1>4. before # {} => orig \in Nat
  <2>1. before \in SUBSET TurnIds
    BY DEF TypeInv, TypeOK
  <2>2. ASSUME before # {} PROVE \E x \in before : \A y \in before : y <= x
    <3> HIDE DEF before
    <3> QED BY <2>1, <2>2, SomeIsLatest
  <2>3. before # {} => (CHOOSE o \in before : \A p \in before : p <= o) \in TurnIds
    <3> HIDE DEF before
    <3> QED BY <2>1, <2>2
  <2> HIDE DEF before
  <2> QED BY <2>3, InboxAssumption DEF TypeInv, TypeOK
<1> HIDE DEF before, orig
<1> QED BY <1>1, <1>2, <1>3, <1>4

\* A follow-up's window goes back to the start of the last time-out before it.
LEMMA WindowOfFollowUp ==
    ASSUME TypeInv, pc[General] = "handoff", Notice \in carry[General],
           NEW o \in late, o < head[General], \A p \in late : p < head[General] => p <= o
    PROVE  chiefHandoffSince <= tstarted[o]
<1>1. head[General] \in TurnIds /\ o \in TurnIds /\ late \subseteq TurnIds
  BY Kinds DEF TypeInv, TypeOK, LocalsOfLoop, Executing
<1>2. tcreated[head[General]] \in Nat /\ tstarted[o] \in Nat
  BY <1>1, InboxAssumption DEF TypeInv, TypeOK
<1> DEFINE before == {p \in late : p < head[General]}
           c == CHOOSE q \in before : \A p \in before : p <= q
<1>3. o \in before /\ \A p \in before : p \in TurnIds /\ p <= o
  BY <1>1
<1>4. chiefHandoffSince = IF Notice \in carry[General] /\ before # {} /\ tstarted[c] < tcreated[head[General]]
                          THEN tstarted[c] ELSE tcreated[head[General]]
  BY DEF chiefHandoffSince, chiefTimeoutWindowStart
<1> HIDE DEF before
<1>5. c \in before /\ \A p \in before : p <= c
  BY <1>3
<1> HIDE DEF c
<1>6. c = o
  <2>1. o <= c /\ c <= o /\ c \in TurnIds
    BY <1>3, <1>5
  <2> QED BY <1>1, <2>1 DEF TurnIds
<1> QED BY <1>2, <1>3, <1>4, <1>6

\* What is due to be handed over has not been.
LEMMA DueIsUnhanded ==
    ASSUME TypeInv, CountersBehind, NoticeInv, HandedIsCounted, pc[General] = "handoff",
           ~chiefHandedOff, chiefTimeoutShouldSpawn, head[General] \in tuser \/ ownerRequests # {}
    PROVE  handed[lastOwnerRequest] = 0
<1> DEFINE h == head[General]
           r == lastOwnerRequest
<1>1. /\ r \in TurnIds /\ (h \in tuser => r = h)
      /\ h \notin tuser => \A t \in ownerRequests : t <= r
  BY OwnerRequestIsRow
<1>2. /\ h \in TurnIds /\ tcreated[h] \in Nat /\ chiefHandoffSince <= tcreated[h]
  BY WindowIsBehind
<1>3. ~(Written > chiefHandoffSince) /\ Written \in Nat
  <2>1. lastMsg \in 0..MaxMessages
    BY DEF TypeInv, TypeOK
  <2> QED BY <2>1, CountIsBounded DEF chiefHandedOff, Written
<1> SUFFICES ASSUME handed[r] = 1 PROVE FALSE
  BY <1>1 DEF HandedIsCounted
<1>4. \A u \in tuser : u <= r => tcreated[u] < Written
  BY <1>1 DEF HandedIsCounted
<1>5. chiefHandoffSince \in Nat
  BY WindowIsBehind
<1>6. CASE h \in tuser
  <2>1. r = h /\ r <= r
    BY <1>1, <1>6 DEF TurnIds
  <2>2. tcreated[h] < Written
    BY <1>4, <1>6, <2>1
  <2> HIDE DEF h, r
  <2> QED BY <1>2, <1>3, <1>5, <2>2
<1>7. CASE h \notin tuser
  <2>1. Notice \in carry[General]
    BY <1>7 DEF chiefTimeoutShouldSpawn
  <2>2. PICK o \in late : Asked(o)
    BY <2>1 DEF NoticeInv, NoticeIsOfLate, NoticeLives
  <2>3. /\ o \in ownerRequests /\ o \in tuser /\ o \in TurnIds /\ o < h
        /\ \A p \in late : p <= o \/ p = h
        /\ Written <= tcreated[o] \/ Written > tstarted[o]
    BY <2>2 DEF Asked, ownerRequests, TypeInv, TypeOK
  <2>4. tcreated[o] \in Nat /\ tstarted[o] \in Nat
    BY <2>3, InboxAssumption DEF TypeInv, TypeOK
  <2>5. tcreated[o] < Written
    BY <1>1, <1>4, <1>7, <2>3
  <2>6. chiefHandoffSince <= tstarted[o]
    <3>1. \A p \in late : p < h => p <= o
      BY <1>2, <2>3 DEF TypeInv, TypeOK, TurnIds
    <3> QED BY <2>1, <2>3, <3>1, WindowOfFollowUp
  <2> HIDE DEF h, r
  <2> QED BY <1>3, <1>5, <2>3, <2>4, <2>5, <2>6
<1> QED BY <1>6, <1>7

LEMMA HandsOver ==
    ASSUME TypeInv, CountersBehind, NoticeInv, HandedIsCounted, LateIsHanded, Next,
           ensureChiefTimeoutHandoff
    PROVE  NoticeInv' /\ HandedIsCounted' /\ LateIsHanded'
<1> USE Kinds DEF turnRows, loops, marks, Goto
<1> DEFINE h == head[General]
           r == lastOwnerRequest
           due == /\ ~chiefHandedOff /\ chiefTimeoutShouldSpawn
                  /\ h \in tuser \/ ownerRequests # {}
<1>0. HeadIsOldest /\ HeadHoldsCarry /\ OneNotice /\ NoticeIsOfLate
  BY DEF NoticeInv
<1>1. /\ pc[General] = "handoff"
      /\ UNCHANGED <<tstatus, tbot, tmsgs, lastTurn, tuser, tcreated, tstarted, late, head, carry, extras>>
      /\ pc' = [pc EXCEPT ![General] =
                   IF Notice \in carry[General] \/ chiefHandedOff \/ ~chiefTimeoutShouldSpawn
                   THEN "report" ELSE "notice"]
  BY DEF ensureChiefTimeoutHandoff
<1>2. \/ /\ due /\ startBackendSession /\ handed' = [handed EXCEPT ![r] = @ + 1] /\ refused' = refused
      \/ refused' = (refused \/ due) /\ handed' = handed
  BY DEF ensureChiefTimeoutHandoff
<1>3. /\ h \in TurnIds /\ tcreated[h] \in Nat
      /\ chiefHandoffSince \in Nat /\ chiefHandoffSince <= tcreated[h]
      /\ Notice \notin carry[General] => chiefHandoffSince = tcreated[h]
  BY <1>1, WindowIsBehind
<1>4. /\ Written \in Nat /\ Written' \in {Written, Written + 1}
      /\ chiefHandedOff <=> Written > chiefHandoffSince
  BY WrittenSteps DEF chiefHandedOff, Written
<1>5. due => Written' = Written + 1 \/ refused'
  <2>1. ASSUME startBackendSession PROVE Written' = Written + 1
    <3>1. PICK w \in Workers : enqueueBotMessage(General, w, FALSE)
      BY <2>1 DEF startBackendSession
    <3> QED BY <3>1, CountGrows DEF Written, TypeInv
  <2> HIDE DEF due
  <2> QED BY <1>2, <2>1
<1>6. /\ pc'[General] = "notice" => /\ Notice \notin carry[General] /\ h \in tuser /\ due
      /\ pc'[General] \in {"notice", "report"}
  BY <1>1 DEF TypeInv, TypeOK, chiefTimeoutShouldSpawn
<1>7. tmsgs[h] = carry[General] /\ (Notice \in carry[General] \/ h \in late)
  BY <1>0, <1>1 DEF HeadHoldsCarry
<1>8. \A o \in late : tcreated[o] <= Written /\ tstarted[o] <= Written /\ tstarted[o] \in Nat
                      /\ tcreated[o] \in Nat
  BY InboxAssumption DEF CountersBehind, TypeInv, TypeOK
<1>9. QueuedOf(General)' = QueuedOf(General)
  BY <1>1 DEF QueuedOf
<1>10. NoticeInv'
  <2>1. HeadIsOldest'
    BY <1>0, <1>1, <1>6, <1>9 DEF HeadIsOldest
  <2>2. HeadHoldsCarry'
    BY <1>1, <1>6, <1>7 DEF HeadHoldsCarry
  <2>3. ~NoticeQueued'
    BY <1>0, <1>1, <1>6, <1>9 DEF OneNotice, NoticeQueued, InFold
  <2>4. NoticeIsOfLate'
    <3>0. PICK k : k = h
      OBVIOUS
    <3> SUFFICES ASSUME NoticeLives' PROVE Asked(k)' /\ k \in late'
      BY DEF NoticeIsOfLate
    <3>1. pc'[General] = "notice"
      BY <1>6, <2>3 DEF NoticeLives
    <3>2. /\ h \in late /\ Notice \notin tmsgs[h] /\ h \in tuser
          /\ ~chiefHandedOff /\ chiefHandoffSince = tcreated[h]
      BY <1>3, <1>6, <1>7, <3>1
    <3>3. Written <= tcreated[h]
      <4> HIDE DEF h
      <4> QED BY <1>3, <1>4, <3>2
    <3>4. \A p \in late : p <= h
      BY <1>0, <1>1 DEF HeadIsOldest
    <3>5. Written' <= tcreated[h] \/ Written' > tstarted[h]
      <4> HIDE DEF h
      <4> QED BY <1>3, <1>4, <1>8, <3>2, <3>3
    <3>6. head' = head /\ late' = late /\ tuser' = tuser /\ tmsgs' = tmsgs /\ tcreated' = tcreated
          /\ tstarted' = tstarted
      BY <1>1
    <3> QED BY <3>0, <3>1, <3>2, <3>4, <3>5, <3>6 DEF Asked
  <2> QED BY <2>1, <2>2, <2>3, <2>4 DEF NoticeInv, OneNotice
<1>11. HandedIsCounted'
  <2>1. CASE handed' = handed
    BY <1>1, <2>1, HandedStands
  <2>2. CASE /\ due /\ handed' = [handed EXCEPT ![r] = @ + 1] /\ startBackendSession
    <3>1. handed[r] = 0 /\ r \in TurnIds
      BY <1>1, <2>2, DueIsUnhanded, OwnerRequestIsRow
    <3>2. Written' = Written + 1
      <4>1. PICK w \in Workers : enqueueBotMessage(General, w, FALSE)
        BY <2>2 DEF startBackendSession
      <4> QED BY <4>1, CountGrows DEF Written, TypeInv
    <3>3. \A u \in tuser : tcreated'[u] = tcreated[u] /\ tcreated[u] \in Nat /\ tcreated[u] <= Written
      BY <1>1, InboxAssumption DEF CountersBehind, TypeInv, TypeOK
    <3>4. \A u \in tuser : tcreated'[u] < Written'
      BY <1>4, <3>2, <3>3
    <3>5. \A v \in TurnIds : handed'[v] \in {0, 1}
      <4> HIDE DEF r, due
      <4> QED BY <2>2, <3>1 DEF HandedIsCounted, TypeInv, TypeOK
    <3> QED BY <1>1, <3>4, <3>5 DEF HandedIsCounted
  <2> QED BY <1>2, <2>1, <2>2
<1>12. LateIsHanded'
  <2> SUFFICES ASSUME NEW t \in late \cap tuser
               PROVE  handed'[t] = 1 \/ refused' \/ Written' > tcreated[t] \/ Notice \in tmsgs[t]
    BY <1>1 DEF LateIsHanded
  <2>1. CASE t = h
    <3>1. chiefTimeoutShouldSpawn
      BY <2>1 DEF chiefTimeoutShouldSpawn
    <3>2. CASE Notice \in carry[General]
      BY <1>7, <2>1, <3>2
    <3>3. CASE Notice \notin carry[General] /\ chiefHandedOff
      <4>1. Written > tcreated[h]
        BY <1>3, <1>4, <3>3
      <4> QED BY <1>3, <1>4, <2>1, <4>1
    <3>4. CASE ~chiefHandedOff
      <4>1. Written' = Written + 1 \/ refused'
        BY <1>5, <2>1, <3>1, <3>4
      <4> QED BY <1>4, <1>8, <4>1
    <3> QED BY <3>2, <3>3, <3>4
  <2>2. CASE t # h
    <3>1. handed[t] = 1 \/ refused \/ Written > tcreated[t] \/ Notice \in tmsgs[t]
      BY <2>2 DEF LateIsHanded
    <3>2. refused => refused'
      BY <1>2
    <3>3. handed[t] = 1 => handed'[t] = 1
      <4>1. CASE handed' = handed
        BY <4>1
      <4>2. CASE due /\ handed' = [handed EXCEPT ![r] = @ + 1]
        <5>1. handed[r] = 0
          BY <1>1, <4>2, DueIsUnhanded
        <5> HIDE DEF r, due
        <5> QED BY <4>2, <5>1 DEF TypeInv, TypeOK
      <4> QED BY <1>2, <4>1, <4>2
    <3> QED BY <1>4, <1>8, <3>1, <3>2, <3>3
  <2> QED BY <2>1, <2>2
<1> QED BY <1>10, <1>11, <1>12

LEMMA HandoffKept ==
    ASSUME TypeInv, NothingBeforeBoot, FoldedRows, CountersBehind, NoticeInv, HandedIsCounted,
           LateIsHanded, Next, ~crash
    PROVE  CountersBehind' /\ NoticeInv' /\ HandedIsCounted' /\ LateIsHanded'
<1> USE Kinds DEF turnRows, loops, marks, history
<1>0. CountersBehind' /\ HeadIsOldest
  BY CountersKept DEF NoticeInv
<1>1. CASE Elsewhere
  <2>1. NoticeInv'
    BY <1>1, NoticeElsewhere
  <2>2. /\ UNCHANGED <<handed, refused, late>> /\ head'[General] = head[General]
        /\ pc[General] = "handoff" => pc'[General] = "handoff"
        /\ \A t \in TurnIds : t <= lastTurn => (t \in tuser' <=> t \in tuser)
    BY <1>1 DEF Elsewhere, RowsStand
  <2>3. \A t \in late : t \in TurnIds /\ t <= lastTurn /\ tmsgs'[t] = tmsgs[t]
    BY <1>0, <1>1, LateRows DEF Elsewhere, RowsStand
  <2> QED BY <1>0, <2>1, <2>2, <2>3, HandedStands, LateStands
<1>2. CASE foldQueue(General)
  <2>1. UNCHANGED <<handed, refused, late, tuser, tmsgs>> /\ pc[General] # "handoff"
    BY <1>2 DEF foldQueue
  <2> QED BY <1>0, <1>2, <2>1, NoticeFolds, HandedStands, LateStands
<1>3. CASE mergeExtra(General) \/ relabel(General)
  <2>1. UNCHANGED <<handed, refused, late, tuser, tmsgs>> /\ pc[General] # "handoff"
    BY <1>3 DEF mergeExtra, relabel
  <2> QED BY <1>0, <1>3, <2>1, NoticeMerges, HandedStands, LateStands
<1>4. CASE startTurn(General)
  <2>1. UNCHANGED <<handed, refused, late, tuser>> /\ pc[General] # "handoff"
    BY <1>4 DEF startTurn
  <2>2. \A o \in late : tmsgs'[o] = tmsgs[o]
    BY <1>4, NoticeStarts
  <2> QED BY <1>0, <1>4, <2>1, <2>2, NoticeStarts, HandedStands, LateStands
<1>5. CASE endTurn(General)
  <2>1. UNCHANGED <<handed, refused, tuser, tmsgs>> /\ pc[General] # "handoff"
    BY <1>5 DEF endTurn
  <2>2. \A t \in late' : t \in late \/ (pc'[General] = "handoff" /\ t = head'[General])
    BY <1>5, NoticeEnds
  <2> QED BY <1>0, <1>5, <2>1, <2>2, NoticeEnds, HandedStands, LateStands
<1>6. CASE ensureChiefTimeoutHandoff
  BY <1>0, <1>6, HandsOver
<1>7. CASE followUp
  <2>1. UNCHANGED <<handed, refused, late, tuser>> /\ pc[General] # "handoff" /\ RowsStand
    BY <1>7, RowCreated DEF followUp, CreateTurn
  <2>2. \A o \in late : tmsgs'[o] = tmsgs[o]
    BY <1>0, <2>1, LateRows DEF RowsStand
  <2> QED BY <1>0, <1>7, <2>1, <2>2, NoticeIsQueued, HandedStands, LateStands
<1>8. CASE fulfillOwnerRelay \/ deliverInbox(General)
  <2>1. UNCHANGED <<handed, refused, late, tuser, tmsgs>> /\ pc[General] # "handoff"
    BY <1>8 DEF fulfillOwnerRelay, deliverInbox
  <2> QED BY <1>0, <1>8, <2>1, NoticeLeaves, HandedStands, LateStands
<1> QED BY HandoffSteps, <1>1, <1>2, <1>3, <1>4, <1>5, <1>6, <1>7, <1>8

LEMMA HandoffInvAlways == Spec => []HandoffInv
<1>1. Init => HandoffInv
  <2> SUFFICES ASSUME Init PROVE HandoffInv
    OBVIOUS
  <2>1. Written \in Nat /\ Written <= lastMsg
    <3>1. lastMsg \in 0..MaxMessages
      BY InboxAssumption DEF Init
    <3> QED BY <3>1, CountIsBounded DEF Written
  <2>2. CountersBehind
    BY <2>1 DEF Init, CountersBehind
  <2>3. pc[General] = "absent" /\ late = {} /\ tuser = {} /\ QueuedOf(General) = {}
    BY Kinds DEF Init, Resting, QueuedOf
  <2>4. HeadIsOldest /\ HeadHoldsCarry /\ OneNotice /\ NoticeIsOfLate /\ LateIsHanded
    BY <2>3 DEF HeadIsOldest, HeadHoldsCarry, OneNotice, NoticeIsOfLate, NoticeLives, NoticeQueued,
                LateIsHanded
  <2>5. HandedIsCounted
    BY DEF Init, HandedIsCounted
  <2> QED BY <2>2, <2>4, <2>5 DEF HandoffInv, NoticeInv
<1>2. ASSUME TypeInv, DeliveryInv, LabelInv, HandoffInv, [Next]_vars PROVE HandoffInv'
  <2>1. CASE Next
    <3> SUFFICES ASSUME crashes' = 0
                 PROVE  CountersBehind' /\ NoticeInv' /\ HandedIsCounted' /\ LateIsHanded'
      BY DEF HandoffInv, NoticeInv
    <3>1. /\ ~crash /\ NothingBeforeBoot /\ FoldedRows
          /\ CountersBehind /\ NoticeInv /\ HandedIsCounted /\ LateIsHanded
      BY <1>2, <2>1, NoCrash DEF HandoffInv, NoticeInv, LabelInv, DeliveryInv
    <3> QED BY <1>2, <2>1, <3>1, HandoffKept
  <2>2. CASE UNCHANGED vars
    <3> USE DEF vars, turnRows, marks, inbox, loops, deliveries, history
    <3>1. Written' = Written /\ QueuedOf(General)' = QueuedOf(General)
      BY <2>2, CountStands DEF Written, QueuedOf
    <3>2. CountersBehind' <=> CountersBehind
      BY <2>2, <3>1 DEF CountersBehind
    <3>3. (HeadIsOldest' <=> HeadIsOldest) /\ (HeadHoldsCarry' <=> HeadHoldsCarry)
      BY <2>2, <3>1 DEF HeadIsOldest, HeadHoldsCarry
    <3>4. (NoticeQueued' <=> NoticeQueued) /\ (OneNotice' <=> OneNotice)
      BY <2>2, <3>1 DEF NoticeQueued, InFold, OneNotice
    <3>5. NoticeIsOfLate' <=> NoticeIsOfLate
      BY <2>2, <3>1, <3>4 DEF NoticeIsOfLate, NoticeLives, Asked
    <3>6. (HandedIsCounted' <=> HandedIsCounted) /\ (LateIsHanded' <=> LateIsHanded)
      BY <2>2, <3>1 DEF HandedIsCounted, LateIsHanded
    <3> QED BY <1>2, <2>2, <3>2, <3>3, <3>4, <3>5, <3>6 DEF HandoffInv, NoticeInv
  <2> QED BY <1>2, <2>1, <2>2
<1> QED BY <1>1, <1>2, TypeInvAlways, DeliveryInvAlways, LabelInvAlways, PTL DEF Spec

\* When General has worked off its queue in a process that has not been restarted, no request was
\* handed to a session by ccc twice, and one that ran into the cap was handed over or General has
\* written to a session since: the window of the notice goes back to the start of what it is about.
THEOREM HandedOnce == Spec => []HandedOverOnce
<1>1. ASSUME TypeInv, HandoffInv PROVE HandedOverOnce
  <2> SUFFICES ASSUME crashes = 0, Read
               PROVE  /\ \A t \in tuser : handed[t] <= 1
                      /\ \A t \in late \cap tuser :
                            \/ handed[t] = 1 \/ refused
                            \/ MessagesOf(General) > tcreated[t]
                            \/ Notice \in tmsgs[t]
    BY DEF HandedOverOnce
  <2>1. HandedIsCounted /\ LateIsHanded /\ pc[General] # "handoff" /\ tuser \subseteq TurnIds
    BY <1>1 DEF HandoffInv, Read, TypeInv, TypeOK
  <2>2. \A t \in tuser : handed[t] <= 1
    BY <2>1 DEF HandedIsCounted
  <2> QED BY <2>1, <2>2 DEF LateIsHanded, Written
<1> QED BY <1>1, TypeInvAlways, HandoffInvAlways, PTL
=============================================================================
