------------------------------- MODULE Access -------------------------------
(***************************************************************************)
(* The pairing state machine of access.go: what a direct message of a      *)
(* stranger does to the access table, and the owner's decisions.  Updates  *)
(* are handled one at a time by the getUpdates goroutine, so a handler is  *)
(* one step; between steps codes expire.  The table survives a restart and *)
(* nothing else is kept, so a redelivered update is a second message.  The *)
(* instance is bootstrapped: chat_id is set and the owner is known.        *)
(***************************************************************************)
EXTENDS Naturals, FiniteSets

CONSTANTS
    Users,            \* strangers: neither the owner nor sender 0
    maxPendingPairs,
    maxPairReplies,
    MaxCodes          \* bound: pairing codes minted

ASSUME AccessAssumption ==
    /\ maxPendingPairs \in Nat \ {0}
    /\ maxPairReplies \in Nat \ {0}
    /\ MaxCodes \in Nat

VARIABLES
    state,     \* access.state, "none" without a row
    pairCode,  \* access.pair_code: the how-manieth code minted, 0 for none
    valid,     \* access.code_expires_at is in the future
    replies,   \* access.replies
    minted,    \* codes minted so far: each was told to one stranger and posted to the owner
    answered   \* history: replies to the stranger since the owner last decided about them

rows == <<state, pairCode, valid, replies>>
vars == <<rows, minted, answered>>

TypeOK ==
    /\ state \in [Users -> {"none", "pending", "approved", "blocked"}]
    /\ pairCode \in [Users -> 0..MaxCodes]
    /\ valid \in [Users -> BOOLEAN]
    /\ replies \in [Users -> 0..maxPairReplies]
    /\ minted \in 0..MaxCodes
    /\ answered \in [Users -> Nat]

Init ==
    /\ state = [u \in Users |-> "none"]
    /\ pairCode = [u \in Users |-> 0]
    /\ valid = [u \in Users |-> FALSE]
    /\ replies = [u \in Users |-> 0]
    /\ minted = 0
    /\ answered = [u \in Users |-> 0]
-----------------------------------------------------------------------------
Pending == {u \in Users : state[u] = "pending" /\ valid[u]}
pendingPairCount == Cardinality(Pending)

newPairCode(u) ==
    /\ minted < MaxCodes
    /\ minted' = minted + 1
    /\ pairCode' = [pairCode EXCEPT ![u] = minted + 1]

Reply(u) == answered' = [answered EXCEPT ![u] = @ + 1]

\* Mutants of knownUser: a refreshed code starts the count again; blocked is not looked at.
knownResetMutant(u) ==
    /\ state[u] = "pending" /\ replies[u] < maxPairReplies
    /\ IF valid[u]
       THEN replies' = [replies EXCEPT ![u] = @ + 1] /\ UNCHANGED <<pairCode, minted>>
       ELSE replies' = [replies EXCEPT ![u] = 1] /\ newPairCode(u)
    /\ valid' = [valid EXCEPT ![u] = TRUE]
    /\ Reply(u)
    /\ UNCHANGED state

knownBlockedMutant(u) ==
    /\ state[u] \in {"pending", "blocked"} /\ replies[u] < maxPairReplies
    /\ replies' = [replies EXCEPT ![u] = @ + 1]
    /\ IF valid[u] THEN UNCHANGED <<pairCode, minted>> ELSE newPairCode(u)
    /\ valid' = [valid EXCEPT ![u] = TRUE]
    /\ Reply(u)
    /\ UNCHANGED state

\* Mutant of knownUser: the limit on replies is checked one too late.
knownLateMutant(u) ==
    /\ state[u] = "pending" /\ replies[u] <= maxPairReplies
    /\ replies' = [replies EXCEPT ![u] = @ + 1]
    /\ IF valid[u] THEN UNCHANGED <<pairCode, minted>> ELSE newPairCode(u)
    /\ valid' = [valid EXCEPT ![u] = TRUE]
    /\ Reply(u)
    /\ UNCHANGED state

\* handleUnknownUser for a stranger with a pending row: an expired code is replaced.
knownUser(u) ==
    /\ state[u] = "pending" /\ replies[u] < maxPairReplies
    /\ replies' = [replies EXCEPT ![u] = @ + 1]
    /\ \/ valid[u] /\ UNCHANGED <<pairCode, minted>>
       \/ ~valid[u] /\ newPairCode(u)
    /\ valid' = [valid EXCEPT ![u] = TRUE]
    /\ Reply(u)
    /\ UNCHANGED state

\* handleUnknownUser for a new stranger: a row only while the queue has room.
newUser(u) ==
    /\ state[u] = "none" /\ pendingPairCount < maxPendingPairs
    /\ newPairCode(u)
    /\ state' = [state EXCEPT ![u] = "pending"]
    /\ valid' = [valid EXCEPT ![u] = TRUE]
    /\ replies' = [replies EXCEPT ![u] = 1]
    /\ Reply(u)

\* pairCodeTTL passes.
expire(u) ==
    /\ valid[u]
    /\ valid' = [valid EXCEPT ![u] = FALSE]
    /\ UNCHANGED <<state, pairCode, replies, minted, answered>>

\* The row after an owner's decision: the code is cleared and the count starts again.
setAccessState(u, s) ==
    /\ state' = [state EXCEPT ![u] = s]
    /\ pairCode' = [pairCode EXCEPT ![u] = 0]
    /\ valid' = [valid EXCEPT ![u] = FALSE]
    /\ replies' = [replies EXCEPT ![u] = 0]
    /\ answered' = [answered EXCEPT ![u] = 0]
    /\ UNCHANGED minted

\* /access pair, or the Allow button of a notice, which may be an old one.
approveByCode(c) ==
    \E u \in Users :
        /\ pairCode[u] = c /\ state[u] = "pending" /\ valid[u]
        /\ setAccessState(u, "approved")

\* /access add, /access block and the Block button, /access remove.
accessAdd(u) == setAccessState(u, "approved")
accessBlock(u) == setAccessState(u, "blocked")
revokeAccess(u) == state[u] # "none" /\ setAccessState(u, "none")

Next ==
    \/ \E u \in Users : \/ knownUser(u) \/ newUser(u) \/ expire(u)
                        \/ accessAdd(u) \/ accessBlock(u) \/ revokeAccess(u)
    \/ \E c \in 1..minted : approveByCode(c)

Spec == Init /\ [][Next]_vars
-----------------------------------------------------------------------------
\* A stranger gets at most maxPairReplies answers and then silence, however often the code
\* expires and is refreshed, until the owner decides about them (access.go maxPairReplies).
RepliesBounded == \A u \in Users : answered[u] <= maxPairReplies

\* A blocked stranger is never answered, and stays blocked unless the owner allows or removes
\* them by id: no code or button posted earlier undoes a block.
BlockStands ==
    [][\A u \in Users : state[u] = "blocked" =>
          /\ answered'[u] <= answered[u]
          /\ state'[u] # "blocked" => accessAdd(u) \/ revokeAccess(u)]_vars
=============================================================================
