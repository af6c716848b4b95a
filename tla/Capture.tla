-------------------------------- MODULE Capture --------------------------------
(***************************************************************************)
(* Who gets the owner's next message: an account login that waits for its  *)
(* code (account.go, ptyflow.go, enginelogin.go), the secret that waits    *)
(* for its value, a command, or a session; and the vault the value goes    *)
(* to, with the mcp processes that read and rewrite it (secrets.go).       *)
(*                                                                         *)
(* One goroutine handles updates, one at a time; an update is confirmed    *)
(* by the next getUpdates, so a daemon that dies reads its last one again. *)
(* A login is a goroutine of its own.  A text is its number; values are    *)
(* long enough to be redacted.  Which account is logged in is Accounts'.   *)
(***************************************************************************)
EXTENDS Naturals, FiniteSets

CONSTANTS
    Names,      \* names of secrets
    Workers,    \* mcp processes of sessions
    Topics,     \* topics of the owner's chat
    None,
    MaxTexts,   \* bound: plain texts the owner sends
    MaxEvents   \* bound: other updates, and processes that die

Daemon == "listen"

ASSUME CaptureAssumption ==
    /\ None \notin Names \cup Workers \cup Topics \cup {Daemon}
    /\ Daemon \notin Workers
    /\ MaxTexts \in Nat /\ MaxEvents \in Nat

Procs == {Daemon} \cup Workers
Texts == 1..MaxTexts

VARIABLES
    update,     \* the update getUpdates returned and has not confirmed
    hand,       \* where handleMessage is
    login,      \* instance.login.waiting and the goroutine of it
    secret,     \* instance.secret.name
    vault,      \* the secrets file
    job,        \* what each process wants of the vault
    copy,       \* what withSecretsFile loaded
    flock,      \* who holds secrets.lock
    running,    \* the value a command was started with
    texts,      \* texts sent so far
    values,     \* history: texts taken as the value of a secret
    seen,       \* history: texts and outputs a session was given
    again,      \* history: texts read again after the daemon died
    events      \* how much of MaxEvents is spent

chat == <<update, hand, login, secret, texts>>
tools == <<job, copy, flock, running>>
told == <<values, seen, again>>
vars == <<chat, vault, tools, told, events>>

\* A command other than those below is "other"; "relogin" is a button, and no message.
Commands == {"cancel", "login", "add", "delete", "other"}
Updates == [kind : Commands \cup {"text", "relogin"}, topic : Topics,
            name : Names \cup {None}, n : 0..MaxTexts]

\* What a waiter's channel holds: nothing, a text, or a command.
Boxes == 0..(MaxTexts + 1)
Logins == [pc : {"gone", "url", "ask", "verify", "end"}, flow : {"claude", "paste", "device"},
           topic : Topics \cup {None}, box : Boxes, done : BOOLEAN]
Jobs == [op : {"none", "put", "delete"}, name : Names \cup {None}, n : 0..MaxTexts]

Gone == [pc |-> "gone", flow |-> "device", topic |-> None, box |-> 0, done |-> FALSE]
NoJob == [op |-> "none", name |-> None, n |-> 0]

CaptureTypeOK ==
    /\ update \in Updates \cup {None}
    /\ hand \in {"read", "offer", "secret", "vault", "done"}
    /\ login \in Logins
    /\ secret \in Names \cup {None}
    /\ vault \in [Names -> 0..MaxTexts]
    /\ job \in [Procs -> Jobs]
    /\ copy \in [Procs -> [Names -> 0..MaxTexts]]
    /\ flock \in Procs \cup {None}
    /\ running \in [Workers -> 0..MaxTexts]
    /\ texts \in 0..MaxTexts /\ values \subseteq Texts /\ seen \subseteq Texts /\ again \subseteq Texts
    /\ events \in 0..MaxEvents
    /\ hand = "vault" <=> job[Daemon].op # "none"
    /\ flock # None => job[flock].op # "none"

Empty == [n \in Names |-> 0]

Init ==
    /\ update = None /\ hand = "read" /\ login = Gone /\ secret = None /\ texts = 0
    /\ vault = Empty
    /\ job = [p \in Procs |-> NoJob] /\ copy = [p \in Procs |-> Empty] /\ flock = None
    /\ running = [w \in Workers |-> 0]
    /\ values = {} /\ seen = {} /\ again = {}
    /\ events = 0
-----------------------------------------------------------------------------
Event == events < MaxEvents /\ events' = events + 1

(* The owner, and getUpdates. *)

sendText(t) ==
    /\ update = None /\ texts < MaxTexts
    /\ texts' = texts + 1
    /\ update' = [kind |-> "text", topic |-> t, name |-> None, n |-> texts + 1]
    /\ UNCHANGED <<hand, login, secret, vault, tools, told, events>>

sendCommand(k, t, n) ==
    /\ update = None /\ Event
    /\ (n # None) = (k \in {"add", "delete"})
    /\ update' = [kind |-> k, topic |-> t, name |-> n, n |-> 0]
    /\ UNCHANGED <<hand, login, secret, texts, vault, tools, told>>

\* The next getUpdates confirms what was handled.
getUpdates ==
    /\ hand = "done"
    /\ hand' = "read" /\ update' = None
    /\ UNCHANGED <<login, secret, texts, vault, tools, told, events>>

(* handleMessage. *)

\* startLogin: the slot is taken by whoever comes first.
startLogin(t) ==
    \/ login.pc # "gone" /\ UNCHANGED login
    \/ /\ login.pc = "gone"
       /\ \E f \in {"claude", "paste", "device"} :
             login' = [Gone EXCEPT !.pc = "url", !.flow = f, !.topic = t]

\* The Relogin button comes as a callback, which no capture looks at.
handleCallback ==
    /\ hand = "read" /\ update # None /\ update.kind = "relogin"
    /\ startLogin(update.topic)
    /\ hand' = "done"
    /\ UNCHANGED <<update, secret, texts, vault, tools, told, events>>

\* takeLoginCode reads the slot under its lock.
handleMessage ==
    /\ hand = "read" /\ update # None /\ update.kind # "relogin"
    /\ hand' = IF login.pc = "gone" THEN "secret" ELSE "offer"
    /\ UNCHANGED <<update, login, secret, texts, vault, tools, told, events>>

\* And looks at the waiter without it, which may be through by now: /cancel, whatever the topic,
\* or any message of its topic while there is room for one.
takeLoginCode ==
    /\ hand = "offer"
    /\ \/ /\ update.kind = "cancel"
          /\ login' = [login EXCEPT !.done = TRUE]
          /\ hand' = "done"
       \/ /\ update.kind # "cancel" /\ update.topic = login.topic /\ login.box = 0
          /\ login' = [login EXCEPT !.box = IF update.kind = "text" THEN update.n ELSE MaxTexts + 1]
          /\ hand' = "done"
       \/ /\ update.kind # "cancel" /\ (update.topic # login.topic \/ login.box # 0)
          /\ hand' = "secret"
          /\ UNCHANGED login
    /\ UNCHANGED <<update, secret, texts, vault, tools, told, events>>

\* Mutant of takeSecretValue: the handler goes on to the session before the value is saved.
takeSecretEarlyMutant ==
    /\ hand = "secret" /\ secret # None /\ update.kind = "text"
    /\ secret' = None
    /\ values' = values \cup {update.n}
    /\ job' = [job EXCEPT ![Daemon] = [op |-> "put", name |-> secret, n |-> update.n]]
    /\ hand' = "done"
    /\ UNCHANGED <<update, login, texts, vault, copy, flock, running, seen, again, events>>

\* takeSecretValue with a text: the capture is over before the value is saved.
takeSecretValue ==
    /\ hand = "secret" /\ secret # None /\ update.kind = "text"
    /\ secret' = None
    /\ values' = values \cup {update.n}
    /\ job' = [job EXCEPT ![Daemon] = [op |-> "put", name |-> secret, n |-> update.n]]
    /\ hand' = "vault"
    /\ UNCHANGED <<update, login, texts, vault, copy, flock, running, seen, again, events>>

\* A command ends the capture, and runs unless it is /cancel.
handleCommand ==
    /\ hand = "secret" /\ update.kind \in Commands
    /\ \/ /\ update.kind = "add" /\ login.pc = "gone"
          /\ secret' = update.name /\ hand' = "done"
          /\ UNCHANGED <<login, job>>
       \/ /\ update.kind = "login" /\ startLogin(update.topic)
          /\ secret' = None /\ hand' = "done"
          /\ UNCHANGED job
       \/ /\ update.kind = "delete"
          /\ job' = [job EXCEPT ![Daemon] = [op |-> "delete", name |-> update.name, n |-> 0]]
          /\ secret' = None /\ hand' = "vault"
          /\ UNCHANGED login
       \/ /\ update.kind = "add" => login.pc # "gone"
          /\ update.kind \in {"cancel", "other", "add"}
          /\ secret' = None /\ hand' = "done"
          /\ UNCHANGED <<login, job>>
    /\ UNCHANGED <<update, texts, vault, copy, flock, running, told, events>>

\* deliver: a turn or the answer to a question.
deliver ==
    /\ hand = "secret" /\ secret = None /\ update.kind = "text"
    /\ seen' = seen \cup {update.n}
    /\ hand' = "done"
    /\ UNCHANGED <<update, login, secret, texts, vault, tools, values, again, events>>
-----------------------------------------------------------------------------
(* A login: runLoginFlow of Claude Code, runIsolatedLoginFlow of the others. *)

\* The CLI prints a URL that leads to a code, or where to enter one, or fails.
loginURL ==
    /\ login.pc = "url"
    /\ \/ login.flow # "device" /\ login' = [login EXCEPT !.pc = "ask"]
       \/ login.flow # "claude" /\ login' = [login EXCEPT !.pc = "verify"]
       \/ login' = [login EXCEPT !.pc = "end"]
    /\ UNCHANGED <<update, hand, secret, texts, vault, tools, told, events>>

\* AskForCode, and the code is typed.
askForCode ==
    /\ login.pc = "ask" /\ login.box # 0
    /\ login' = [login EXCEPT !.pc = "verify", !.box = 0]
    /\ UNCHANGED <<update, hand, secret, texts, vault, tools, told, events>>

\* profileLoggedIn says yes, or the deadline of the verification passes.
loginVerified ==
    /\ login.pc = "ask" => login.flow = "paste"
    /\ login.pc \in {"ask", "verify"}
    /\ login' = [login EXCEPT !.pc = "end"]
    /\ UNCHANGED <<update, hand, secret, texts, vault, tools, told, events>>

\* Mutant of loginAborted: nobody looks at the context while the code is waited for.
abortedDeafMutant ==
    /\ login.done /\ login.pc \in {"url", "verify"}
    /\ login' = [login EXCEPT !.pc = "end"]
    /\ UNCHANGED <<update, hand, secret, texts, vault, tools, told, events>>

\* The context is done: /cancel, or ptyLoginTimeout.
loginAborted ==
    /\ login.done /\ login.pc \in {"url", "ask", "verify"}
    /\ login' = [login EXCEPT !.pc = "end"]
    /\ UNCHANGED <<update, hand, secret, texts, vault, tools, told, events>>

loginTimeout ==
    /\ login.pc \notin {"gone", "end"} /\ ~login.done
    /\ login' = [login EXCEPT !.done = TRUE]
    /\ UNCHANGED <<update, hand, secret, texts, vault, tools, told, events>>

\* The deferred clearing of the slot; the handler may still hold the waiter.
clearLogin ==
    /\ login.pc = "end"
    /\ login' = [login EXCEPT !.pc = "gone"]
    /\ UNCHANGED <<update, hand, secret, texts, vault, tools, told, events>>
-----------------------------------------------------------------------------
(* The vault. *)

\* Mutant of withSecretsFile: the file may be read while another process holds the lock.
withSecretsReadMutant(p) ==
    /\ job[p].op # "none" /\ flock # p
    /\ flock' = IF flock = None THEN p ELSE flock
    /\ copy' = IF copy[p] = Empty THEN [copy EXCEPT ![p] = vault] ELSE copy
    /\ UNCHANGED <<chat, vault, job, running, told, events>>

\* The lock is taken, and the file read.
withSecretsFile(p) ==
    /\ job[p].op # "none" /\ flock = None
    /\ flock' = p
    /\ copy' = [copy EXCEPT ![p] = vault]
    /\ UNCHANGED <<chat, vault, job, running, told, events>>

\* putSecret and deleteSecret write the whole file, which may fail, and let go.
writeSecretsMap(p) ==
    /\ flock = p
    /\ flock' = None
    /\ \/ vault' = [copy[p] EXCEPT ![job[p].name] = job[p].n]
       \/ UNCHANGED vault
    /\ job' = [job EXCEPT ![p] = NoJob]
    /\ copy' = [copy EXCEPT ![p] = Empty]
    /\ hand' = IF p = Daemon THEN "done" ELSE hand
    /\ UNCHANGED <<update, login, secret, texts, running, told, events>>

\* The secret_delete tool.
secretsDelete(w, n) ==
    /\ job[w] = NoJob /\ running[w] = 0 /\ Event
    /\ job' = [job EXCEPT ![w] = [op |-> "delete", name |-> n, n |-> 0]]
    /\ UNCHANGED <<chat, vault, copy, flock, running, told>>

\* The run tool: the value is looked up before the command starts.
runWithSecrets(w, n) ==
    /\ job[w] = NoJob /\ running[w] = 0 /\ flock = None
    /\ vault[n] # 0 /\ Event
    /\ running' = [running EXCEPT ![w] = vault[n]]
    /\ UNCHANGED <<chat, vault, job, copy, flock, told>>

Stored == {vault[n] : n \in Names} \ {0}

\* Mutant of redactVaultOutput: only what the vault holds by now is redacted.
redactStoredMutant(w) ==
    /\ running[w] # 0 /\ flock = None
    /\ seen' = seen \cup ({running[w]} \ Stored)
    /\ running' = [running EXCEPT ![w] = 0]
    /\ UNCHANGED <<chat, vault, job, copy, flock, values, again, events>>

\* The command printed its value.  What it was given is redacted, and what the vault holds now.
redactVaultOutput(w) ==
    /\ running[w] # 0 /\ flock = None
    /\ LET redact == Stored \cup {running[w]}
       IN  seen' = seen \cup ({running[w]} \ redact)
    /\ running' = [running EXCEPT ![w] = 0]
    /\ UNCHANGED <<chat, vault, job, copy, flock, values, again, events>>
-----------------------------------------------------------------------------
\* A process that dies drops its lock and, before the rename, what it was writing.
Release(p) ==
    /\ job' = [job EXCEPT ![p] = NoJob]
    /\ flock' = IF flock = p THEN None ELSE flock
    /\ copy' = [copy EXCEPT ![p] = Empty]

workerDies(w) ==
    /\ job[w] # NoJob \/ running[w] # 0
    /\ Event
    /\ Release(w)
    /\ running' = [running EXCEPT ![w] = 0]
    /\ UNCHANGED <<chat, vault, told>>

daemonDies ==
    /\ Event
    /\ Release(Daemon)
    /\ hand' = "read" /\ login' = Gone /\ secret' = None
    /\ again' = IF update # None /\ update.kind = "text" THEN again \cup {update.n} ELSE again
    /\ UNCHANGED <<update, texts, vault, running, values, seen>>

Owner ==
    \E t \in Topics :
        \/ sendText(t)
        \/ \E k \in Commands \cup {"relogin"}, n \in Names \cup {None} : sendCommand(k, t, n)
Handler ==
    \/ getUpdates \/ handleCallback \/ handleMessage \/ takeLoginCode
    \/ takeSecretValue \/ handleCommand \/ deliver
Login == loginURL \/ askForCode \/ loginVerified \/ loginAborted \/ clearLogin
Vault ==
    \/ \E p \in Procs : withSecretsFile(p) \/ writeSecretsMap(p)
    \/ \E w \in Workers : redactVaultOutput(w) \/ \E n \in Names : secretsDelete(w, n) \/ runWithSecrets(w, n)
Dying == daemonDies \/ \E w \in Workers : workerDies(w)

Next == Owner \/ Handler \/ Login \/ loginTimeout \/ Vault \/ Dying

Spec == Init /\ [][Next]_vars

\* A login goes on, and its ten minutes pass; the owner need not do anything.
FairSpec == Spec /\ WF_vars(Login) /\ WF_vars(loginTimeout)
-----------------------------------------------------------------------------
\* What the owner sent as the value of a secret is given to no session: it becomes no turn, and
\* no output of a command shows it, whatever became of the secret while the command ran.  The
\* exception is a message that the daemon read again because it died (listenv3.go handleMessage,
\* secrets.go runWithSecrets).
ValueStaysOut == seen \cap values \subseteq again

\* Each write rewrites the whole file, and changes the one secret it is about (withSecretsFile).
OneNamePerWrite ==
    [][\A n \in Names : vault'[n] # vault[n] => flock # None /\ job[flock].name = n]_vars

\* A login, whatever the owner does or leaves undone, gives way to the next (startLogin).
LoginEnds == login.pc # "gone" ~> login.pc = "gone"
=============================================================================
