------------------------------ MODULE Housekeeping ------------------------------
(***************************************************************************)
(* The scheduler with the daily maintenance (maintenance.go) over the      *)
(* memories of one scope.  The pass compacts the scope: it lists the       *)
(* memories, has a model shorten the list, which may take minutes, and     *)
(* swaps the scope for the result in one transaction.  The nightly pass is *)
(* started by the scheduler's tick on a goroutine of its own, and          *)
(* `ccc maintain` is another process on the same database.                 *)
(*                                                                         *)
(* A memory is a fact; the model may merge and drop entries, so what it    *)
(* returns is any part of the list that keeps enough of it.                *)
(***************************************************************************)
EXTENDS Scheduler

CONSTANTS
    MaxFacts,     \* bound: facts that sessions remember in the scope
    Threshold,    \* memCompactMaxCount: a scope with more entries is compacted
    MaxDays       \* bound: days

ASSUME HousekeepingAssumption ==
    MaxFacts \in Nat /\ Threshold \in Nat /\ MaxDays \in Nat

Passes == {"nightly", "cli"}
Facts == 1..MaxFacts   \* in the order in which they are remembered

VARIABLES
    mems,         \* the rows of memories
    archive,      \* the rows of memories_archive, one record for a compaction
    at,           \* where a pass is
    list,         \* compactScope's mems: the list it read
    kept,         \* compactScope's next: what the model made of it
    today,        \* the day
    marked,       \* settings: last_maintenance
    monthGone,    \* the session was archived more than archivedBotMemoryDays ago
    remembered,   \* history: facts that were remembered
    late          \* history: facts written in a window in which a pass or a restore may drop them

memory == <<mems, archive>>
passes == <<at, list, kept>>
days == <<today, marked, monthGone>>
maintenanceVars == <<memory, passes, days, remembered, late>>
housekeepingVars == <<schedulerVars, maintenanceVars>>

Archives == [id : Nat, facts : SUBSET Facts, since : SUBSET Facts, old : BOOLEAN]

\* The types of the scheduler's and of the maintenance's variables.
HousekeepingTypeOK ==
    /\ TypeOK
    /\ mems \subseteq Facts /\ archive \subseteq Archives
    /\ at \in [Passes -> {"off", "memories", "turn", "apply", "cleanup"}]
    /\ list \in [Passes -> SUBSET Facts] /\ kept \in [Passes -> SUBSET Facts]
    /\ today \in 0..MaxDays /\ marked \in 0..MaxDays /\ monthGone \in BOOLEAN
    /\ remembered \subseteq Facts /\ late \subseteq Facts

Init ==
    /\ SchedulerInit
    /\ mems = {} /\ archive = {}
    /\ at = [p \in Passes |-> "off"]
    /\ list = [p \in Passes |-> {}] /\ kept = [p \in Passes |-> {}]
    /\ today = 0 /\ marked = 0 /\ monthGone = FALSE
    /\ remembered = {} /\ late = {}

LetGo(p) == list' = [list EXCEPT ![p] = {}] /\ kept' = [kept EXCEPT ![p] = {}]

\* bound: a behaviour has rows of the scheduler or memories, not both.
Quiet ==
    /\ lastId = 0 /\ pc = "idle" /\ loop = "rest" /\ status \in {"idle", "disabled"}
    /\ ~(worker \/ conv \/ asked \/ aged)

\* The facts a running pass read before now and will overwrite the scope on.
Compacting == \E p \in Passes : at[p] \in {"turn", "apply"}
-----------------------------------------------------------------------------
\* The end of the scheduler's tick: the day is claimed before the pass starts.
runMaintenanceIfDue ==
    /\ pc = "idle" /\ at["nightly"] = "off"
    /\ today # marked
    /\ marked' = today
    /\ at' = [at EXCEPT !["nightly"] = "memories"]
    /\ UNCHANGED <<schedulerVars, memory, list, kept, today, monthGone, remembered, late>>

\* `ccc maintain`; it marks the day too, when it is through.
runMaintainCommand ==
    /\ remembered # {} /\ at["cli"] = "off"
    /\ Event
    /\ at' = [at EXCEPT !["cli"] = "memories"]
    /\ UNCHANGED <<rows, session, thread, sees, told, firings, raced, memory, list, kept, days,
                   remembered, late>>

compactMemories(p) ==
    /\ at[p] = "memories"
    /\ IF Cardinality(mems) > Threshold
       THEN /\ list' = [list EXCEPT ![p] = mems]
            /\ at' = [at EXCEPT ![p] = "turn"]
       ELSE /\ at' = [at EXCEPT ![p] = "cleanup"]
            /\ UNCHANGED list
    /\ UNCHANGED <<schedulerVars, memory, kept, days, remembered, late>>

\* PlainTurn and parseMemoryList: an error, a list that does not parse or one that
\* keeps less than memCompactMinKeep changes nothing.
compactionTurn(p) ==
    /\ at[p] = "turn"
    /\ \/ \E next \in SUBSET list[p] \ {{}} :
            /\ 10 * Cardinality(next) >= 4 * Cardinality(list[p])
            /\ kept' = [kept EXCEPT ![p] = next]
            /\ at' = [at EXCEPT ![p] = "apply"]
            /\ UNCHANGED list
       \/ LetGo(p) /\ at' = [at EXCEPT ![p] = "cleanup"]
    /\ UNCHANGED <<schedulerVars, memory, days, remembered, late>>

\* Mutant of applyCompaction: what the model kept is archived, not what it was given.
applyNoArchiveMutant(p) ==
    /\ at[p] = "apply"
    /\ LET ids == {a.id : a \in archive}
           id == IF ids = {} THEN 1 ELSE 1 + CHOOSE i \in ids : \A j \in ids : j <= i
       IN archive' = archive \cup {[id |-> id, facts |-> kept[p], since |-> remembered, old |-> FALSE]}
    /\ mems' = kept[p]
    /\ LetGo(p)
    /\ at' = [at EXCEPT ![p] = "cleanup"]
    /\ UNCHANGED <<schedulerVars, days, remembered, late>>

\* One transaction: the list as read is archived, the scope as it is is dropped.
applyCompaction(p) ==
    /\ at[p] = "apply"
    /\ LET ids == {a.id : a \in archive}
           id == IF ids = {} THEN 1 ELSE 1 + CHOOSE i \in ids : \A j \in ids : j <= i
       IN archive' = archive \cup {[id |-> id, facts |-> list[p], since |-> remembered, old |-> FALSE]}
    /\ mems' = kept[p]
    /\ LetGo(p)
    /\ at' = [at EXCEPT ![p] = "cleanup"]
    /\ UNCHANGED <<schedulerVars, days, remembered, late>>

\* runCleanup, and the mark of the day by the command.
runCleanup(p) ==
    /\ at[p] = "cleanup"
    /\ mems' = IF archived /\ monthGone THEN {} ELSE mems
    /\ archive' = {a \in archive : ~a.old}
    /\ late' = IF archived /\ monthGone THEN late \cup mems ELSE late
    /\ marked' = IF p = "cli" THEN today ELSE marked
    /\ at' = [at EXCEPT ![p] = "off"]
    /\ UNCHANGED <<schedulerVars, list, kept, today, monthGone, remembered>>
-----------------------------------------------------------------------------
remember(f) ==
    /\ Quiet
    /\ f = Cardinality(remembered) + 1
    /\ mems' = mems \cup {f}
    /\ remembered' = remembered \cup {f}
    /\ late' = IF Compacting THEN late \cup {f} ELSE late
    /\ UNCHANGED <<schedulerVars, archive, passes, days>>

\* forget; a fact that was forgotten on purpose may be gone.
forget(f) ==
    /\ f \in mems
    /\ Event
    /\ mems' = mems \ {f}
    /\ late' = late \cup {f}
    /\ UNCHANGED <<rows, session, thread, sees, told, firings, raced, archive, passes, days, remembered>>

\* /memory restore: the scope becomes what one compaction archived, and that id is gone.
restoreCompaction(a) ==
    /\ a \in archive
    /\ Event
    /\ mems' = a.facts
    /\ archive' = {[b EXCEPT !.since = @ \ a.facts] : b \in archive \ {a}}
    /\ late' = late \cup (remembered \ a.since) \cup (IF Compacting THEN a.facts ELSE {})
    /\ UNCHANGED <<rows, session, thread, sees, told, firings, raced, passes, days, remembered>>

newDay ==
    /\ remembered # {}
    /\ today < MaxDays
    /\ today' = today + 1
    /\ UNCHANGED <<schedulerVars, memory, passes, marked, monthGone, remembered, late>>

\* memoryArchiveRetentionDay and archivedBotMemoryDays pass.
archiveAges(a) ==
    /\ a \in archive /\ ~a.old
    /\ Event
    /\ archive' = (archive \ {a}) \cup {[a EXCEPT !.old = TRUE]}
    /\ late' = late \cup a.facts
    /\ UNCHANGED <<rows, session, thread, sees, told, firings, raced, mems, passes, days, remembered>>

monthPasses ==
    /\ archived /\ ~monthGone
    /\ monthGone' = TRUE
    /\ UNCHANGED <<schedulerVars, memory, passes, today, marked, remembered, late>>

\* The daemon takes its pass along; the command's process is another one.
crashMaintenance ==
    /\ at' = [at EXCEPT !["nightly"] = "off"]
    /\ LetGo("nightly")
    /\ UNCHANGED <<memory, days, remembered, late>>

Pass(p) == compactMemories(p) \/ compactionTurn(p) \/ applyCompaction(p) \/ runCleanup(p)
Memories ==
    \/ \E f \in Facts : remember(f) \/ forget(f)
    \/ \E a \in archive : restoreCompaction(a) \/ archiveAges(a)

Maintenance ==
    \/ runMaintenanceIfDue \/ runMaintainCommand
    \/ \E p \in Passes : Pass(p)
    \/ Memories \/ newDay \/ monthPasses

\* The one variable both halves look at: a session that is reopened is not gone for a month.
Scheduling ==
    /\ \/ remembered = {} /\ Step
       \/ remembered # {} /\ (archiveBotRow \/ unarchiveBotRow)
    /\ monthGone' = (monthGone /\ archived')
    /\ UNCHANGED <<memory, passes, today, marked, remembered, late>>

HousekeepingNext == Scheduling \/ Maintenance \/ (crash /\ crashMaintenance)

HousekeepingSpec == Init /\ [][HousekeepingNext]_housekeepingVars
FairSpec == HousekeepingSpec /\ WF_housekeepingVars(Scheduling /\ Tick)
-----------------------------------------------------------------------------
\* What a session remembered is in the scope or in an archive the owner can restore
\* ("The originals are archived, so the owner can undo it", maintenance.go:24), as long
\* as it was not forgotten, its archive is not out of date, and it was not written while
\* a pass was between its list and its transaction or after the compaction that is undone.
MemoriesKept ==
    remembered \ late \subseteq mems \cup UNION {a.facts : a \in archive}
=============================================================================
