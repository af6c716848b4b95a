---------------------------- MODULE AccessProofs ----------------------------
(* Proofs about Access for every set of strangers and every limit.           *)
EXTENDS Access, TLAPS

\* The history counts what access.replies counts, and only a pending row has answers on it.
AnswersAreReplies ==
    \A u \in Users : answered[u] = (IF state[u] = "pending" THEN replies[u] ELSE 0)

IInv == TypeOK /\ AnswersAreReplies

LEMMA InitIInv == Init => IInv
BY AccessAssumption DEF Init, IInv, TypeOK, AnswersAreReplies

LEMMA DecisionKeepsIInv ==
    ASSUME IInv, NEW u \in Users, NEW s \in {"none", "approved", "blocked"},
           setAccessState(u, s)
    PROVE  IInv'
BY AccessAssumption DEF IInv, TypeOK, AnswersAreReplies, setAccessState

LEMMA NextIInv == IInv /\ [Next]_vars => IInv'
<1> SUFFICES ASSUME IInv, [Next]_vars PROVE IInv'
  OBVIOUS
<1> USE AccessAssumption DEF IInv
<1>1. ASSUME NEW u \in Users, knownUser(u) PROVE IInv'
  <2>1. minted' \in 0..MaxCodes /\ pairCode' \in [Users -> 0..MaxCodes]
    BY <1>1 DEF knownUser, newPairCode, TypeOK
  <2>2. /\ replies' = [replies EXCEPT ![u] = @ + 1] /\ replies[u] < maxPairReplies
        /\ answered' = [answered EXCEPT ![u] = @ + 1]
        /\ valid' = [valid EXCEPT ![u] = TRUE] /\ state' = state /\ state[u] = "pending"
    BY <1>1 DEF knownUser, Reply
  <2> QED BY <2>1, <2>2 DEF TypeOK, AnswersAreReplies
<1>2. ASSUME NEW u \in Users, newUser(u) PROVE IInv'
  BY <1>2 DEF newUser, newPairCode, Reply, TypeOK, AnswersAreReplies
<1>3. ASSUME NEW u \in Users, expire(u) PROVE IInv'
  BY <1>3 DEF expire, TypeOK, AnswersAreReplies
<1>4. ASSUME NEW u \in Users, accessAdd(u) \/ accessBlock(u) \/ revokeAccess(u) PROVE IInv'
  BY <1>4, DecisionKeepsIInv DEF accessAdd, accessBlock, revokeAccess
<1>5. ASSUME NEW c \in 1..minted, approveByCode(c) PROVE IInv'
  BY <1>5, DecisionKeepsIInv DEF approveByCode
<1>6. CASE UNCHANGED vars
  BY <1>6 DEF vars, rows, TypeOK, AnswersAreReplies
<1> QED BY <1>1, <1>2, <1>3, <1>4, <1>5, <1>6 DEF Next

LEMMA InductiveInvariant == Spec => []IInv
BY InitIInv, NextIInv, PTL DEF Spec
-----------------------------------------------------------------------------
\* The access table keeps its types: replies never passes the limit, codes are minted ones.
THEOREM AccessTypes == Spec => []TypeOK
<1>1. IInv => TypeOK
  BY DEF IInv
<1> QED BY <1>1, InductiveInvariant, PTL

\* However often codes expire and are refreshed, a stranger is answered at most maxPairReplies
\* times between two decisions of the owner about them.
THEOREM RepliesAreBounded == Spec => []RepliesBounded
<1>1. IInv => RepliesBounded
  BY AccessAssumption DEF IInv, TypeOK, AnswersAreReplies, RepliesBounded
<1> QED BY <1>1, InductiveInvariant, PTL

\* A block is undone by the owner's decision about that id only, never by a message of the
\* stranger or by a code or button posted earlier.
THEOREM BlockIsFinal == Spec => BlockStands
<1> DEFINE Stands == \A u \in Users : state[u] = "blocked" =>
                        /\ answered'[u] <= answered[u]
                        /\ state'[u] # "blocked" => accessAdd(u) \/ revokeAccess(u)
<1>1. IInv /\ [Next]_vars => [Stands]_vars
  <2> SUFFICES ASSUME IInv, Next, NEW v \in Users, state[v] = "blocked"
               PROVE  /\ answered'[v] <= answered[v]
                      /\ state'[v] # "blocked" => accessAdd(v) \/ revokeAccess(v)
    OBVIOUS
  <2>t. state \in [Users -> {"none", "pending", "approved", "blocked"}]
        /\ answered \in [Users -> Nat] /\ answered[v] = 0
    BY DEF IInv, TypeOK, AnswersAreReplies
  <2>1. ASSUME NEW u \in Users, knownUser(u) \/ newUser(u) \/ expire(u)
        PROVE  answered'[v] = answered[v] /\ state'[v] = "blocked"
    <3>1. CASE knownUser(u) BY <3>1, <2>t DEF knownUser, Reply
    <3>2. CASE newUser(u) BY <3>2, <2>t DEF newUser, Reply
    <3>3. CASE expire(u) BY <3>3, <2>t DEF expire
    <3> QED BY <2>1, <3>1, <3>2, <3>3
  <2>2. ASSUME NEW u \in Users, NEW s, setAccessState(u, s)
        PROVE  answered'[v] = 0 /\ (state'[v] = "blocked" \/ (u = v /\ s # "blocked"))
    BY <2>2, <2>t DEF setAccessState
  <2>3. ASSUME NEW u \in Users, accessAdd(u) \/ revokeAccess(u)
        PROVE  answered'[v] = 0 /\ (state'[v] = "blocked" \/ u = v)
    BY <2>3, <2>2 DEF accessAdd, revokeAccess
  <2>4. ASSUME NEW u \in Users, accessBlock(u)
        PROVE  answered'[v] = 0 /\ state'[v] = "blocked"
    BY <2>4, <2>2 DEF accessBlock
  <2>5. ASSUME NEW c \in 1..minted, approveByCode(c)
        PROVE  answered'[v] = 0 /\ state'[v] = "blocked"
    <3>1. PICK u \in Users : state[u] = "pending" /\ setAccessState(u, "approved")
      BY <2>5 DEF approveByCode
    <3> QED BY <3>1, <2>2
  <2> QED BY <2>t, <2>1, <2>3, <2>4, <2>5 DEF Next
<1> QED BY <1>1, InductiveInvariant, PTL DEF Spec, BlockStands
=============================================================================
