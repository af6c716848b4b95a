----------------------------- MODULE CaptureProofs -----------------------------
(* Proofs about Capture for any secrets, processes, topics, and bounds.       *)
EXTENDS Capture, TLAPS

\* A text that is being routed is new to sessions and vault, unless it is read again.
RoutedOnce ==
    /\ values \cup seen \subseteq 1..texts
    /\ update # None /\ update.kind = "text" =>
           /\ update.n \in 1..texts
           /\ hand \in {"read", "offer", "secret"} => update.n \in again \/ update.n \notin values \cup seen

\* What the holder of the lock has loaded is what the file holds.
CopyIsFresh == flock # None => copy[flock] = vault

\* A job names its secret.
JobsNamed == \A p \in Procs : job[p].op # "none" => job[p].name \in Names

\* There is an update while one is handled, and a /secret delete names its secret.
NamedUpdates ==
    /\ hand # "read" => update # None
    /\ update # None /\ update.kind = "delete" => update.name \in Names

IInv == NamedUpdates /\ CaptureTypeOK /\ RoutedOnce /\ CopyIsFresh /\ JobsNamed /\ ValueStaysOut
-----------------------------------------------------------------------------
LEMMA InitIInv == Init => IInv
<1> SUFFICES ASSUME Init PROVE IInv
  OBVIOUS
<1> USE CaptureAssumption DEF Init
<1>1. Gone \in Logins /\ NoJob \in Jobs /\ Empty \in [Names -> 0..MaxTexts]
  <2>1. 0 \in Boxes /\ 0 \in 0..MaxTexts
    BY DEF Boxes
  <2> QED BY <2>1 DEF Gone, Logins, NoJob, Jobs, Empty
<1>2. CaptureTypeOK
  BY <1>1 DEF CaptureTypeOK, Procs, Texts, NoJob
<1> QED BY <1>2 DEF IInv, NamedUpdates, RoutedOnce, CopyIsFresh, JobsNamed, ValueStaysOut, NoJob

LEMMA TextsSent == CaptureTypeOK => 1..texts \subseteq Texts
BY CaptureAssumption DEF CaptureTypeOK, Texts

\* The records that steps make of a login are logins.
LEMMA NewLogins ==
    /\ Gone \in Logins
    /\ \A f \in {"claude", "paste", "device"}, t \in Topics :
          [Gone EXCEPT !.pc = "url", !.flow = f, !.topic = t] \in Logins
<1>0. 0 \in Boxes
  BY CaptureAssumption DEF Boxes
<1>1. Gone \in Logins
  BY <1>0 DEF Gone, Logins
<1> QED BY <1>1 DEF Logins

LEMMA LoginValues ==
    ASSUME NEW l \in Logins
    PROVE  /\ \A x \in {"gone", "url", "ask", "verify", "end"} : [l EXCEPT !.pc = x] \in Logins
           /\ [l EXCEPT !.done = TRUE] \in Logins
           /\ \A b \in Boxes : [l EXCEPT !.box = b] \in Logins
           /\ [l EXCEPT !.pc = "verify", !.box = 0] \in Logins
<1>1. 0 \in Boxes
  BY CaptureAssumption DEF Boxes
<1>2. /\ \A x \in {"gone", "url", "ask", "verify", "end"} : [l EXCEPT !.pc = x] \in Logins
      /\ [l EXCEPT !.done = TRUE] \in Logins
  BY DEF Logins
<1>3. \A b \in Boxes : [l EXCEPT !.box = b] \in Logins
  BY DEF Logins
<1>4. [l EXCEPT !.pc = "verify", !.box = 0] \in Logins
  BY <1>1 DEF Logins
<1> QED BY <1>2, <1>3, <1>4

\* The steps of a login, and what they leave alone.
LEMMA LoginSteps ==
    ASSUME CaptureTypeOK, Login \/ loginTimeout
    PROVE  login' \in Logins /\ UNCHANGED <<update, hand, secret, texts, vault, tools, told, events>>
<1> USE LoginValues DEF CaptureTypeOK
<1>1. CASE loginURL
  BY <1>1 DEF loginURL
<1>2. CASE askForCode
  BY <1>2 DEF askForCode
<1>3. CASE loginVerified \/ loginAborted \/ clearLogin \/ loginTimeout
  BY <1>3 DEF loginVerified, loginAborted, clearLogin, loginTimeout
<1> QED BY <1>1, <1>2, <1>3 DEF Login

LEMMA StartTyped ==
    ASSUME CaptureTypeOK, update \in Updates, startLogin(update.topic) PROVE login' \in Logins
<1>1. update.topic \in Topics
  BY DEF Updates
<1>2. CASE UNCHANGED login
  BY <1>2 DEF CaptureTypeOK
<1>3. ASSUME NEW f \in {"claude", "paste", "device"},
             login' = [Gone EXCEPT !.pc = "url", !.flow = f, !.topic = update.topic]
      PROVE  login' \in Logins
  BY <1>1, <1>3, NewLogins
<1> QED BY <1>2, <1>3 DEF startLogin
-----------------------------------------------------------------------------
\* What each of the owner's messages and each step of the handler does to the parts of IInv.
LEMMA SendIInv ==
    ASSUME IInv,
           \/ \E t \in Topics : sendText(t)
           \/ \E t \in Topics, k \in Commands \cup {"relogin"}, n \in Names \cup {None} :
                 sendCommand(k, t, n)
    PROVE  IInv'
<1> USE CaptureAssumption
<1>1. /\ update' \in Updates /\ texts' \in 0..MaxTexts /\ texts' >= texts /\ events' \in 0..MaxEvents
      /\ UNCHANGED <<hand, login, secret, vault, tools, told>>
  BY DEF sendText, sendCommand, Event, Updates, IInv, NamedUpdates, CaptureTypeOK, Commands
<1>2. /\ hand = "read" /\ (update'.kind = "delete" => update'.name \in Names)
      /\ update'.kind = "text" => update'.n \in 1..texts' /\ update'.n \notin 1..texts
  BY DEF sendText, sendCommand, IInv, NamedUpdates, CaptureTypeOK, Commands
<1>3. CaptureTypeOK'
  BY <1>1 DEF IInv, NamedUpdates, CaptureTypeOK, tools, told
<1>4. RoutedOnce' /\ NamedUpdates'
  BY <1>1, <1>2 DEF IInv, NamedUpdates, CaptureTypeOK, RoutedOnce, told
<1> QED BY <1>1, <1>3, <1>4 DEF IInv, NamedUpdates, CopyIsFresh, JobsNamed, ValueStaysOut, tools, told

LEMMA HandlerIInv ==
    ASSUME IInv, getUpdates \/ handleCallback \/ handleMessage \/ takeLoginCode \/ deliver
    PROVE  IInv'
<1> USE CaptureAssumption
<1>1. CASE getUpdates
  BY <1>1 DEF getUpdates, IInv, NamedUpdates, CaptureTypeOK, RoutedOnce, CopyIsFresh, JobsNamed, ValueStaysOut,
              tools, told
<1>2. CASE handleCallback \/ handleMessage \/ takeLoginCode
  <2>1. login' \in Logins
    <3>1. CASE handleCallback
      BY <1>2, <3>1, StartTyped DEF handleCallback, IInv, NamedUpdates, CaptureTypeOK
    <3>2. CASE handleMessage
      BY <3>2 DEF handleMessage, IInv, NamedUpdates, CaptureTypeOK
    <3>3. CASE takeLoginCode
      <4>2. update # None
        BY <3>3 DEF takeLoginCode, IInv, NamedUpdates
      <4>1. update.n \in Boxes /\ MaxTexts + 1 \in Boxes
        BY <4>2 DEF IInv, NamedUpdates, CaptureTypeOK, Updates, Boxes
      <4>3. login \in Logins
        BY DEF IInv, CaptureTypeOK
      <4>4. \/ login' = login \/ login' = [login EXCEPT !.done = TRUE]
            \/ \E b \in Boxes : login' = [login EXCEPT !.box = b]
        BY <3>3, <4>1 DEF takeLoginCode
      <4> QED BY <4>3, <4>4, LoginValues
    <3> QED BY <1>2, <3>1, <3>2, <3>3
  <2>2. /\ hand \in {"read", "offer"} /\ hand' \in {"offer", "secret", "done"} /\ update # None
        /\ UNCHANGED <<update, secret, texts, vault, tools, told, events>>
    BY <1>2 DEF handleCallback, handleMessage, takeLoginCode, IInv, NamedUpdates
  <2>3. CaptureTypeOK'
    BY <2>1, <2>2 DEF IInv, NamedUpdates, CaptureTypeOK, tools, told
  <2> QED BY <2>2, <2>3 DEF IInv, NamedUpdates, RoutedOnce, CopyIsFresh, JobsNamed, ValueStaysOut, tools, told
<1>3. CASE deliver
  <2>1. /\ hand = "secret" /\ hand' = "done" /\ update \in Updates /\ update.kind = "text"
        /\ seen' = seen \cup {update.n} /\ update.n \in 1..texts
        /\ UNCHANGED <<update, login, secret, texts, vault, tools, values, again, events>>
    BY <1>3 DEF deliver, IInv, NamedUpdates, CaptureTypeOK, RoutedOnce
  <2>2. CaptureTypeOK'
    <3>1. seen' \subseteq Texts
      BY <2>1, TextsSent DEF IInv, CaptureTypeOK
    <3> QED BY <2>1, <3>1 DEF IInv, CaptureTypeOK, tools
  <2>3. RoutedOnce' /\ ValueStaysOut'
    BY <2>1 DEF IInv, NamedUpdates, RoutedOnce, ValueStaysOut
  <2> QED BY <2>1, <2>2, <2>3 DEF IInv, NamedUpdates, CopyIsFresh, JobsNamed, tools
<1> QED BY <1>1, <1>2, <1>3

LEMMA SecretIInv == ASSUME IInv, takeSecretValue \/ handleCommand PROVE IInv'
<1> USE CaptureAssumption
<1>0. Daemon \in Procs /\ update # None /\ update \in Updates /\ hand = "secret" /\ job[Daemon].op = "none"
  BY DEF takeSecretValue, handleCommand, Procs, IInv, NamedUpdates, CaptureTypeOK
<1>1. CASE takeSecretValue
  <2> DEFINE put == [op |-> "put", name |-> secret, n |-> update.n]
  <2>1. /\ secret \in Names /\ update.n \in 1..texts /\ update.kind = "text"
        /\ job' = [job EXCEPT ![Daemon] = put] /\ values' = values \cup {update.n}
        /\ secret' = None /\ hand' = "vault"
        /\ UNCHANGED <<update, login, texts, vault, copy, flock, running, seen, again, events>>
    BY <1>1, <1>0 DEF takeSecretValue, IInv, NamedUpdates, CaptureTypeOK, RoutedOnce
  <2>2. put \in Jobs /\ put.op # "none" /\ put.name \in Names
    BY <2>1 DEF Jobs, IInv, NamedUpdates, CaptureTypeOK
  <2> HIDE DEF put
  <2>3. job' \in [Procs -> Jobs] /\ job'[Daemon] = put /\ \A p \in Procs \ {Daemon} : job'[p] = job[p]
    BY <1>0, <2>1, <2>2 DEF IInv, NamedUpdates, CaptureTypeOK
  <2>4. CaptureTypeOK'
    <3>1. values' \subseteq Texts
      BY <2>1, TextsSent DEF IInv, CaptureTypeOK
    <3>2. flock' # None => job'[flock'].op # "none"
      BY <1>0, <2>1, <2>2, <2>3 DEF IInv, CaptureTypeOK
    <3> QED BY <2>1, <2>2, <2>3, <3>1, <3>2 DEF IInv, CaptureTypeOK
  <2>5. RoutedOnce' /\ ValueStaysOut'
    BY <1>0, <2>1 DEF IInv, NamedUpdates, RoutedOnce, ValueStaysOut
  <2>6. JobsNamed'
    BY <1>0, <2>2, <2>3 DEF IInv, JobsNamed
  <2> QED BY <1>0, <2>1, <2>4, <2>5, <2>6 DEF IInv, NamedUpdates, CopyIsFresh
<1>2. CASE handleCommand
  <2> DEFINE del == [op |-> "delete", name |-> update.name, n |-> 0]
  <2>1. login' \in Logins
    BY <1>0, <1>2, StartTyped DEF handleCommand, IInv, NamedUpdates, CaptureTypeOK
  <2>2. /\ update.kind \in Commands /\ update.kind # "text"
        /\ UNCHANGED <<update, texts, vault, copy, flock, running, told, events>>
    BY <1>2 DEF handleCommand, Commands
  <2>3. secret' \in Names \cup {None}
    BY <1>0, <1>2 DEF handleCommand, Updates
  <2>4. \/ hand' = "done" /\ job' = job
        \/ hand' = "vault" /\ update.kind = "delete" /\ job' = [job EXCEPT ![Daemon] = del]
    BY <1>2 DEF handleCommand
  <2>5. CASE hand' = "done" /\ job' = job
    <3>1. CaptureTypeOK'
      BY <1>0, <2>1, <2>2, <2>3, <2>5 DEF IInv, NamedUpdates, CaptureTypeOK, told
    <3> QED BY <1>0, <2>2, <2>5, <3>1 DEF IInv, NamedUpdates, RoutedOnce, CopyIsFresh, JobsNamed, ValueStaysOut, told
  <2>6. CASE hand' = "vault" /\ update.kind = "delete" /\ job' = [job EXCEPT ![Daemon] = del]
    <3>1. update.name \in Names
      BY <1>0, <1>2, <2>6 DEF handleCommand, IInv, NamedUpdates
    <3>2. del \in Jobs /\ del.op # "none" /\ del.name \in Names
      BY <3>1 DEF Jobs
    <3> HIDE DEF del
    <3>3. job' \in [Procs -> Jobs] /\ job'[Daemon] = del /\ \A p \in Procs \ {Daemon} : job'[p] = job[p]
      BY <1>0, <2>6, <3>2 DEF IInv, NamedUpdates, CaptureTypeOK
    <3>4. CaptureTypeOK'
      <4>1. flock' # None => job'[flock'].op # "none"
        BY <1>0, <2>2, <3>2, <3>3 DEF IInv, CaptureTypeOK
      <4> QED BY <2>1, <2>2, <2>3, <2>6, <3>2, <3>3, <4>1 DEF IInv, CaptureTypeOK, told
    <3>5. JobsNamed'
      BY <1>0, <3>2, <3>3 DEF IInv, JobsNamed
    <3> QED BY <1>0, <2>2, <2>6, <3>4, <3>5
            DEF IInv, NamedUpdates, RoutedOnce, CopyIsFresh, ValueStaysOut, told
  <2> QED BY <2>4, <2>5, <2>6
<1> QED BY <1>1, <1>2
-----------------------------------------------------------------------------
LEMMA LoginIInv == ASSUME IInv, Login \/ loginTimeout PROVE IInv'
<1>1. login' \in Logins /\ UNCHANGED <<update, hand, secret, texts, vault, tools, told, events>>
  BY LoginSteps DEF IInv, NamedUpdates
<1>2. CaptureTypeOK'
  BY <1>1 DEF IInv, NamedUpdates, CaptureTypeOK, tools, told
<1> QED BY <1>1, <1>2 DEF IInv, NamedUpdates, RoutedOnce, CopyIsFresh, JobsNamed, ValueStaysOut, tools, told

LEMMA VaultIInv == ASSUME IInv, Vault PROVE IInv'
<1> USE CaptureAssumption
<1>1. ASSUME NEW p \in Procs, withSecretsFile(p) PROVE IInv'
  <2>1. CaptureTypeOK'
    BY <1>1 DEF withSecretsFile, IInv, NamedUpdates, CaptureTypeOK, chat, told
  <2>2. CopyIsFresh'
    BY <1>1 DEF withSecretsFile, IInv, NamedUpdates, CaptureTypeOK, CopyIsFresh
  <2> QED BY <1>1, <2>1, <2>2 DEF withSecretsFile, IInv, NamedUpdates, RoutedOnce, JobsNamed, ValueStaysOut, chat, told
<1>2. ASSUME NEW p \in Procs, writeSecretsMap(p) PROVE IInv'
  <2>1. p # None /\ flock = p /\ flock' = None /\ job[p] \in Jobs /\ NoJob \in Jobs
    BY <1>2 DEF writeSecretsMap, Procs, IInv, NamedUpdates, CaptureTypeOK, NoJob, Jobs
  <2>2. job' \in [Procs -> Jobs] /\ job'[p] = NoJob /\ \A q \in Procs \ {p} : job'[q] = job[q]
    BY <1>2, <2>1 DEF writeSecretsMap, IInv, NamedUpdates, CaptureTypeOK
  <2>3. vault' \in [Names -> 0..MaxTexts] /\ Empty \in [Names -> 0..MaxTexts]
    <3>1. job[p].n \in 0..MaxTexts
      BY <2>1 DEF Jobs
    <3> QED BY <1>2, <3>1 DEF writeSecretsMap, IInv, NamedUpdates, CaptureTypeOK, Empty
  <2>4. hand' = IF p = Daemon THEN "done" ELSE hand
    BY <1>2 DEF writeSecretsMap
  <2>5. job[p].op # "none"
    BY <2>1 DEF IInv, NamedUpdates, CaptureTypeOK
  <2>6. copy' \in [Procs -> [Names -> 0..MaxTexts]]
        /\ UNCHANGED <<update, login, secret, texts, running, told, events>>
    BY <1>2, <2>3 DEF writeSecretsMap, IInv, NamedUpdates, CaptureTypeOK
  <2>7. hand' = "vault" <=> job'[Daemon].op # "none"
    BY <2>2, <2>4, <2>5 DEF NoJob, Procs, IInv, NamedUpdates, CaptureTypeOK
  <2>8. CaptureTypeOK'
    BY <2>1, <2>2, <2>3, <2>4, <2>6, <2>7 DEF IInv, NamedUpdates, CaptureTypeOK, told
  <2>9. RoutedOnce'
    BY <2>4, <2>5, <2>6 DEF IInv, NamedUpdates, RoutedOnce, CaptureTypeOK, told
  <2>10. JobsNamed'
    BY <2>2 DEF IInv, JobsNamed, NoJob
  <2>11. NamedUpdates'
    BY <2>4, <2>5, <2>6 DEF IInv, NamedUpdates, CaptureTypeOK
  <2> QED BY <2>1, <2>6, <2>8, <2>9, <2>10, <2>11 DEF IInv, CopyIsFresh, ValueStaysOut, told
<1>3. ASSUME NEW w \in Workers, redactVaultOutput(w) PROVE IInv'
  <2>1. /\ seen' = seen /\ running' \in [Workers -> 0..MaxTexts]
        /\ UNCHANGED <<chat, vault, job, copy, flock, values, again, events>>
    BY <1>3 DEF redactVaultOutput, IInv, NamedUpdates, CaptureTypeOK
  <2> QED BY <2>1 DEF IInv, NamedUpdates, CaptureTypeOK, RoutedOnce, CopyIsFresh, JobsNamed, ValueStaysOut, chat
<1>4. ASSUME NEW w \in Workers, NEW n \in Names, secretsDelete(w, n) PROVE IInv'
  <2> DEFINE del == [op |-> "delete", name |-> n, n |-> 0]
  <2>1. /\ job' = [job EXCEPT ![w] = del] /\ job[w] = NoJob
        /\ w \in Procs /\ w # Daemon
        /\ events' \in 0..MaxEvents /\ UNCHANGED <<chat, vault, copy, flock, running, told>>
    BY <1>4 DEF secretsDelete, Event, Procs, IInv, NamedUpdates, CaptureTypeOK
  <2>2. del \in Jobs /\ del.op # "none" /\ del.name \in Names
    BY DEF Jobs
  <2> HIDE DEF del
  <2>3. job' \in [Procs -> Jobs] /\ job'[w] = del /\ \A q \in Procs \ {w} : job'[q] = job[q]
    BY <2>1, <2>2 DEF IInv, NamedUpdates, CaptureTypeOK
  <2>4. CaptureTypeOK'
    BY <2>1, <2>2, <2>3 DEF IInv, NamedUpdates, CaptureTypeOK, chat, told, Procs
  <2> QED BY <2>1, <2>2, <2>3, <2>4
          DEF IInv, NamedUpdates, RoutedOnce, CopyIsFresh, JobsNamed, ValueStaysOut, chat, told
<1>5. ASSUME NEW w \in Workers, NEW n \in Names, runWithSecrets(w, n) PROVE IInv'
  <2>1. /\ running' \in [Workers -> 0..MaxTexts] /\ events' \in 0..MaxEvents
        /\ UNCHANGED <<chat, vault, job, copy, flock, told>>
    BY <1>5 DEF runWithSecrets, Event, IInv, NamedUpdates, CaptureTypeOK
  <2> QED BY <2>1 DEF IInv, NamedUpdates, CaptureTypeOK, RoutedOnce, CopyIsFresh, JobsNamed, ValueStaysOut, chat, told
<1> QED BY <1>1, <1>2, <1>3, <1>4, <1>5 DEF Vault

LEMMA ReleaseIInv ==
    ASSUME IInv, NEW p \in Procs, Release(p)
    PROVE  /\ job' \in [Procs -> Jobs] /\ copy' \in [Procs -> [Names -> 0..MaxTexts]]
           /\ flock' \in Procs \cup {None}
           /\ job'[p] = NoJob /\ \A q \in Procs \ {p} : job'[q] = job[q] /\ copy'[q] = copy[q]
           /\ flock' # None => flock' = flock /\ flock # p
<1>1. NoJob \in Jobs /\ Empty \in [Names -> 0..MaxTexts]
  BY CaptureAssumption DEF NoJob, Jobs, Empty
<1> QED BY <1>1 DEF Release, IInv, NamedUpdates, CaptureTypeOK

LEMMA DyingIInv == ASSUME IInv, Dying PROVE IInv'
<1> USE CaptureAssumption
<1>1. ASSUME NEW w \in Workers, workerDies(w) PROVE IInv'
  <2>1. w \in Procs /\ w # Daemon /\ Release(w) /\ events' \in 0..MaxEvents
        /\ running' \in [Workers -> 0..MaxTexts] /\ UNCHANGED <<chat, vault, told>>
    BY <1>1 DEF workerDies, Event, Procs, IInv, NamedUpdates, CaptureTypeOK
  <2>2. CaptureTypeOK'
    BY <2>1, ReleaseIInv DEF IInv, NamedUpdates, CaptureTypeOK, chat, told, Procs
  <2>3. CopyIsFresh'
    BY <2>1, ReleaseIInv DEF IInv, CopyIsFresh, CaptureTypeOK
  <2>4. JobsNamed'
    BY <2>1, ReleaseIInv DEF IInv, JobsNamed, NoJob
  <2> QED BY <2>1, <2>2, <2>3, <2>4 DEF IInv, NamedUpdates, RoutedOnce, ValueStaysOut, chat, told
<1>2. CASE daemonDies
  <2>1. /\ Daemon \in Procs /\ Release(Daemon) /\ events' \in 0..MaxEvents
        /\ hand' = "read" /\ login' = Gone /\ secret' = None
        /\ UNCHANGED <<update, texts, vault, running, values, seen>>
        /\ again' = IF update # None /\ update.kind = "text" THEN again \cup {update.n} ELSE again
    BY <1>2 DEF daemonDies, Event, Procs, IInv, NamedUpdates, CaptureTypeOK
  <2>2. again' \subseteq Texts
    BY <2>1, TextsSent DEF IInv, CaptureTypeOK, RoutedOnce
  <2>3. CaptureTypeOK'
    <3>1. flock' # None => job'[flock'].op # "none"
      BY <2>1, ReleaseIInv DEF IInv, CaptureTypeOK
    <3>2. job'[Daemon] = NoJob
      BY <2>1, ReleaseIInv
    <3>3. job'[Daemon].op = "none"
      BY <3>2 DEF NoJob
    <3>4. login' \in Logins
      BY <2>1, NewLogins
    <3> QED BY <2>1, <2>2, <3>1, <3>3, <3>4, ReleaseIInv DEF IInv, CaptureTypeOK
  <2>4. RoutedOnce' /\ ValueStaysOut'
    BY <2>1 DEF IInv, NamedUpdates, RoutedOnce, ValueStaysOut
  <2>5. CopyIsFresh'
    BY <2>1, ReleaseIInv DEF IInv, NamedUpdates, CopyIsFresh, CaptureTypeOK
  <2>6. JobsNamed'
    BY <2>1, ReleaseIInv DEF IInv, NamedUpdates, JobsNamed, NoJob
  <2> QED BY <2>1, <2>3, <2>4, <2>5, <2>6 DEF IInv, NamedUpdates
<1> QED BY <1>1, <1>2 DEF Dying

LEMMA NextIInv == IInv /\ [Next]_vars => IInv'
<1> SUFFICES ASSUME IInv, [Next]_vars PROVE IInv'
  OBVIOUS
<1>1. CASE UNCHANGED vars
  BY <1>1 DEF vars, chat, tools, told, IInv, NamedUpdates, CaptureTypeOK, RoutedOnce, CopyIsFresh, JobsNamed,
              ValueStaysOut
<1>2. CASE Owner
  BY <1>2, SendIInv DEF Owner
<1>3. CASE Handler
  BY <1>3, HandlerIInv, SecretIInv DEF Handler
<1> QED BY <1>1, <1>2, <1>3, LoginIInv, VaultIInv, DyingIInv DEF Next

LEMMA Invariance == Spec => []IInv
BY InitIInv, NextIInv, PTL DEF Spec

\* The types of the chat, of the login and of the vault, in every reachable state.
THEOREM TypeCorrect == Spec => []CaptureTypeOK
<1>1. IInv => CaptureTypeOK
  BY DEF IInv, NamedUpdates
<1> QED BY Invariance, <1>1, PTL

\* The value of a secret is given to no session, unless the daemon died over the message.
THEOREM ValuesStayOut == Spec => []ValueStaysOut
<1>1. IInv => ValueStaysOut
  BY DEF IInv, NamedUpdates
<1> QED BY Invariance, <1>1, PTL

\* Only a write of the vault changes it.
LEMMA OnlyWritesChange ==
    ASSUME [Next]_vars, vault' # vault
    PROVE  \E p \in Procs : writeSecretsMap(p)
BY DEF Next, vars, chat, tools, told, Owner, Handler, Login, Vault, Dying, sendText, sendCommand,
       getUpdates, handleCallback, handleMessage, takeLoginCode, takeSecretValue, handleCommand,
       deliver, loginURL, askForCode, loginVerified, loginAborted, loginTimeout, clearLogin,
       withSecretsFile, secretsDelete, runWithSecrets, redactVaultOutput, workerDies, daemonDies

\* No write loses what another process saved or deleted under another name.
THEOREM WritesKeepOthers == Spec => OneNamePerWrite
<1>1. IInv /\ [Next]_vars =>
          [\A n \in Names : vault'[n] # vault[n] => flock # None /\ job[flock].name = n]_vars
  <2> SUFFICES ASSUME IInv, [Next]_vars, NEW n \in Names, vault'[n] # vault[n]
               PROVE  flock # None /\ job[flock].name = n
    OBVIOUS
  <2>1. PICK p \in Procs : writeSecretsMap(p)
    BY OnlyWritesChange
  <2>2. p # None /\ flock = p /\ copy[p] = vault
    BY <2>1, CaptureAssumption DEF writeSecretsMap, IInv, NamedUpdates, CopyIsFresh, Procs
  <2>3. vault' = [vault EXCEPT ![job[p].name] = job[p].n]
    BY <2>1, <2>2 DEF writeSecretsMap
  <2> QED BY <2>2, <2>3 DEF IInv, NamedUpdates, CaptureTypeOK
<1> QED BY Invariance, <1>1, PTL DEF Spec, OneNamePerWrite
=============================================================================
