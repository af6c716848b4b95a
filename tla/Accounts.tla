-------------------------------- MODULE Accounts --------------------------------
(***************************************************************************)
(* The accounts of one engine: the registry in config.json and the         *)
(* daemon's copy of it (config.go, account.go, profilecmd.go), the doctor  *)
(* that probes them (scheduler.go), the owner's login (account.go), and    *)
(* a turn that fails over from one account to another (runner.go,          *)
(* profiles.go).                                                           *)
(*                                                                         *)
(* An account is a sandbox (a config dir with credentials) under a key of  *)
(* the registry.  A key is the Default one or an email; the daemon renames *)
(* a key when it learns whose account it is, and the needs-login marks and *)
(* a turn's list of tried accounts are by key.  What makes one usable      *)
(* account better than another (its usage, its cooldown) is left out.      *)
(***************************************************************************)
EXTENDS Naturals, FiniteSets

CONSTANTS
    Emails,       \* addresses of people with an account
    Added,        \* the one of them added before
    Default,      \* the key of the account that is not registered yet
    Dirs,         \* sandboxes
    Home,         \* the sandbox of the CLI's own default layout
    None,         \* no key, no sandbox, nothing
    MaxAttempts,  \* spawns per turn (3 in execute)
    MaxTurns,     \* bound: turns
    MaxEvents     \* bound: commands, CLI calls, logins and changes of credentials in all

ASSUME AccountsAssumption ==
    /\ Default \notin Emails
    /\ None \notin Emails \cup {Default} \cup Dirs
    /\ Home \in Dirs /\ Added \in Emails
    /\ MaxAttempts \in Nat /\ MaxTurns \in Nat /\ MaxEvents \in Nat

Keys == Emails \cup {Default}
Configs == [prof : [Keys -> Dirs \cup {None}], def : Keys \cup {None}]
Profiles == [key : Keys, dir : Dirs]
Jobs == [key : Keys, dir : Dirs, email : Emails \cup {None}]
Writers == {"doctor", "owner", "login"}   \* goroutines that change the registry

VARIABLES
    file,         \* config.json
    mem,          \* in.cfg and Runner.cfg: the daemon's copy
    creds,        \* what is in a sandbox: "out", "good" or "stale" (a turn is refused)
    who,          \* the address `auth status` reports for a sandbox
    marks,        \* Runner.needsLogin
    at,           \* where a writer is
    todo,         \* runDoctor's list of accounts
    job,          \* the account a writer works on, and whose it is
    next,         \* what updateConfig returned to a writer
    renamed,      \* rememberProfileEmail's renamed: the old key, or None
    cli,          \* the `ccc profile` process: what it loaded and is about to do
    turn,         \* the turn's locals
    row,          \* turns.profile of the running turn
    turns, events,  \* how much of MaxTurns and MaxEvents is spent
    refused       \* history: sandboxes that refused the turn, by a key they still have

registry == <<file, mem>>
sandboxes == <<creds, who>>
writers == <<at, todo, job, next, renamed>>
turning == <<turn, row, turns>>
vars == <<registry, sandboxes, marks, writers, cli, turning, events, refused>>

NoTurn == [pc |-> "idle", tries |-> 0, tried |-> {}, prof |-> None]
NoCall == [op |-> "none", conf |-> None, prof |-> None]

Registered(c) == {k \in Keys : c.prof[k] # None}
DirsOf(c) == {c.prof[k] : k \in Registered(c)}

\* The types of the registry, of the goroutines and of the turn.
TypeOK ==
    /\ file \in Configs /\ mem \in Configs
    /\ creds \in [Dirs -> {"out", "good", "stale"}]
    /\ who \in [Dirs -> Emails]
    /\ marks \subseteq Keys
    /\ at \in [Writers -> {"rest", "loggedOut", "loggedIn", "learn", "add", "default", "remove",
                           "swap", "rename", "swapAdd", "open", "swapDone", "signIn", "clear"}]
    /\ todo \subseteq Profiles
    /\ job \in [Writers -> Jobs \cup {None}]
    /\ next \in [Writers -> Configs \cup {None}]
    /\ renamed \in [Writers -> Keys \cup {None}]
    /\ cli \in [op : {"none", "add", "remove", "default"}, conf : Configs \cup {None},
                prof : Profiles \cup {None}]
    /\ turn \in [pc : {"idle", "pick", "run"}, tries : 0..MaxAttempts,
                 tried : SUBSET Keys, prof : Profiles \cup {None}]
    /\ row \in Keys \cup {None}
    /\ turns \in 0..MaxTurns /\ events \in 0..MaxEvents
    /\ refused \subseteq Dirs

\* A machine whose CLI is logged in, and an instance that has no registry yet, or the one that
\* `ccc profile add` made of it: the sandboxes are logged in, as anybody.
Init ==
    /\ \/ file = [prof |-> [k \in Keys |-> None], def |-> None]
       \/ \E d \in Dirs \ {Home} :
             file = [prof |-> [k \in Keys |-> CASE k = Default -> Home
                                               [] k = Added -> d
                                               [] OTHER -> None],
                     def |-> Default]
    /\ mem = file
    /\ creds = [d \in Dirs |-> IF d = Home \/ d \in DirsOf(file) THEN "good" ELSE "out"]
    /\ who \in [Dirs -> Emails] /\ \A d \in Dirs : creds[d] = "out" => who[d] = Added
    /\ marks = {}
    /\ at = [w \in Writers |-> "rest"]
    /\ todo = {} /\ job = [w \in Writers |-> None]
    /\ next = [w \in Writers |-> None] /\ renamed = [w \in Writers |-> None]
    /\ cli = NoCall
    /\ turn = NoTurn /\ row = None
    /\ turns = 0 /\ events = 0
    /\ refused = {}
-----------------------------------------------------------------------------
Event == events < MaxEvents /\ events' = events + 1

\* listProfiles: the registered accounts, or the one of the CLI's own layout.
listProfiles(c) ==
    IF Registered(c) = {} THEN {[key |-> Default, dir |-> Home]}
    ELSE {[key |-> k, dir |-> c.prof[k]] : k \in Registered(c)}

KeysOf(c, d) == {p.key : p \in {q \in listProfiles(c) : q.dir = d}}

\* A new daemon's copy of the registry: a turn may know an account by a key it lost.
Adopt(c) ==
    /\ mem' = c
    /\ refused' = {d \in refused : KeysOf(c, d) = KeysOf(mem, d)}

Set(c, k, d) == [c EXCEPT !.prof[k] = d]

\* Mutant of reKey: an account of the same address is overwritten.
reKeyOverMutant(c, name, email) ==
    IF c.prof[name] = None
    THEN IF name = Default /\ c.prof[email] = None
         THEN [Set(c, email, Home) EXCEPT !.def = IF @ \in {None, name} THEN email ELSE @]
         ELSE c
    ELSE IF name = email THEN c
         ELSE [Set(Set(c, email, c.prof[name]), name, None)
                    EXCEPT !.def = IF @ = name THEN email ELSE @]

\* rememberProfileEmail's change of the file: register the implicit account, or give the
\* account its address as key, unless another account has it.  Labels are left out.
reKey(c, name, email) ==
    IF c.prof[name] = None
    THEN IF name = Default /\ c.prof[email] = None
         THEN [Set(c, email, Home) EXCEPT !.def = IF @ \in {None, name} THEN email ELSE @]
         ELSE c
    ELSE IF name = email \/ c.prof[email] # None THEN c
         ELSE [Set(Set(c, email, c.prof[name]), name, None)
                    EXCEPT !.def = IF @ = name THEN email ELSE @]

\* delete(c.Profiles, k): the default passes to any other account (the first by name).
Drop(c, k) ==
    {[Set(c, k, None) EXCEPT !.def = d] :
        d \in IF c.def # k THEN {c.def}
              ELSE IF Registered(c) \ {k} = {} THEN {None} ELSE Registered(c) \ {k}}
-----------------------------------------------------------------------------
(* The goroutines that change the registry: updateConfig under its lock, then *)
(* setConfig, then what else the caller does.                                 *)

Goto(w, label) == at' = [at EXCEPT ![w] = label]
Work(w, p, label) ==
    /\ at[w] = "rest"
    /\ job' = [job EXCEPT ![w] = [key |-> p.key, dir |-> p.dir,
                                   email |-> IF label \in {"loggedIn", "learn"} THEN who[p.dir]
                                             ELSE None]]
    /\ Goto(w, label)
Finish(w) ==
    /\ Goto(w, "rest")
    /\ job' = [job EXCEPT ![w] = None]

Update(w, c, label) ==
    /\ file' = c
    /\ next' = [next EXCEPT ![w] = c]
    /\ Goto(w, label)

\* runDoctor: the list is the daemon's copy as it is at the start.
runDoctor ==
    /\ at["doctor"] = "rest" /\ todo = {}
    /\ todo' = listProfiles(mem)
    /\ UNCHANGED <<registry, sandboxes, marks, at, job, next, renamed, cli, turning,
                   events, refused>>

\* profileLoggedIn takes seconds; an error leaves the account as it is.
probe ==
    /\ \E p \in todo :
          /\ todo' = todo \ {p}
          /\ \/ /\ Work("doctor", p, IF creds[p.dir] = "out" THEN "loggedOut" ELSE "loggedIn")
                /\ UNCHANGED events
             \/ /\ at["doctor"] = "rest"
                /\ Event
                /\ UNCHANGED <<at, job>>
    /\ UNCHANGED <<registry, sandboxes, marks, next, renamed, cli, turning, refused>>

\* Mutant of judge: only an account that is logged out is judged.
judgeOwnMutant ==
    /\ \/ /\ at["doctor"] = "loggedOut"
          /\ marks' = marks \cup {job["doctor"].key}
          /\ Finish("doctor")
       \/ /\ at["doctor"] = "loggedIn"
          /\ Goto("doctor", "learn")
          /\ UNCHANGED <<marks, job>>
    /\ UNCHANGED <<registry, sandboxes, todo, next, renamed, cli, turning, events, refused>>

\* Logged out is a mark; logged in takes away any mark, a refused turn's too.
judge ==
    /\ \/ /\ at["doctor"] = "loggedOut"
          /\ marks' = marks \cup {job["doctor"].key}
          /\ Finish("doctor")
       \/ /\ at["doctor"] = "loggedIn"
          /\ marks' = marks \ {job["doctor"].key}
          /\ Goto("doctor", "learn")
          /\ UNCHANGED job
    /\ UNCHANGED <<registry, sandboxes, todo, next, renamed, cli, turning, events, refused>>

\* rememberProfileEmail by the doctor, by the status card or after a login.  The key it
\* returns is the address, also when another account has it.
rememberProfileEmail(w) ==
    /\ at[w] = "learn"
    /\ LET c == reKey(file, job[w].key, job[w].email)
       IN /\ Update(w, c, "swap")
          /\ renamed' = [renamed EXCEPT ![w] = IF c # file THEN job[w].key ELSE None]
    /\ job' = [job EXCEPT ![w].key = job[w].email]
    /\ UNCHANGED <<mem, sandboxes, marks, todo, cli, turning, events, refused>>

setConfig(w) ==
    /\ at[w] \in {"swap", "swapAdd", "swapDone"}
    /\ Adopt(next[w])
    /\ next' = [next EXCEPT ![w] = None]
    /\ \/ at[w] = "swap" /\ Goto(w, "rename") /\ UNCHANGED job
       \/ at[w] = "swapAdd" /\ Goto(w, "open") /\ UNCHANGED job
       \/ at[w] = "swapDone" /\ Finish(w)
    /\ UNCHANGED <<file, sandboxes, marks, todo, renamed, cli, turning, events>>

\* The turns recorded against the old key follow the account.
renameTurns(w) ==
    /\ at[w] = "rename"
    /\ row' = IF renamed[w] # None /\ row = renamed[w] THEN job[w].key ELSE row
    /\ renamed' = [renamed EXCEPT ![w] = None]
    /\ \/ w = "login" /\ Goto(w, "clear") /\ UNCHANGED job
       \/ w # "login" /\ Finish(w)
    /\ UNCHANGED <<registry, sandboxes, marks, todo, next, cli, turn, turns, events,
                   refused>>
-----------------------------------------------------------------------------
(* The owner's commands: what they decide on is the daemon's copy, what they *)
(* change is the file.                                                       *)

\* collectAccountCards, for one account: a status card learns addresses too.
collectAccountCards ==
    /\ \E p \in listProfiles(mem) : creds[p.dir] # "out" /\ Work("owner", p, "learn")
    /\ Event
    /\ UNCHANGED <<registry, sandboxes, marks, todo, next, renamed, cli, turning, refused>>

\* accountDirFor: no registered account lives in the directory.
accountAdd(e) ==
    /\ e \notin Registered(mem)
    /\ \E d \in Dirs \ ({Home} \cup DirsOf(mem)) :
          /\ Work("owner", [key |-> e, dir |-> d], "add")
    /\ Event
    /\ UNCHANGED <<registry, sandboxes, marks, todo, next, renamed, cli, turning, refused>>

addProfile ==
    /\ at["owner"] = "add"
    /\ LET p == job["owner"]
       IN Update("owner", [Set(file, p.key, p.dir) EXCEPT !.def = IF @ = None THEN p.key ELSE @],
                 "swapAdd")
    /\ UNCHANGED <<mem, sandboxes, marks, todo, job, renamed, cli, turning, events, refused>>

accountSetDefault ==
    /\ \E p \in listProfiles(mem) : Work("owner", p, "default")
    /\ Event
    /\ UNCHANGED <<registry, sandboxes, marks, todo, next, renamed, cli, turning, refused>>

setDefault ==
    /\ at["owner"] = "default"
    /\ Update("owner", [file EXCEPT !.def = job["owner"].key], "swapDone")
    /\ UNCHANGED <<mem, sandboxes, marks, todo, job, renamed, cli, turning, events, refused>>

\* accountAskRemove and, under the confirmation, accountRemove look for running turns.
accountRemove ==
    /\ \E p \in listProfiles(mem) : row # p.key /\ Work("owner", p, "remove")
    /\ Event
    /\ UNCHANGED <<registry, sandboxes, marks, todo, next, renamed, cli, turning, refused>>

removeProfile ==
    /\ at["owner"] = "remove"
    /\ \/ /\ job["owner"].key \in Registered(file)
          /\ \E c \in Drop(file, job["owner"].key) : Update("owner", c, "swapDone")
       \/ /\ job["owner"].key \notin Registered(file)
          /\ Update("owner", file, "swapDone")
    /\ UNCHANGED <<mem, sandboxes, marks, todo, job, renamed, cli, turning, events, refused>>

\* `/account login` and the Relogin button: one login at a time.
accountLogin ==
    /\ \E p \in listProfiles(mem) : Work("login", p, "signIn")
    /\ Event
    /\ UNCHANGED <<registry, sandboxes, marks, todo, next, renamed, cli, turning, refused>>

\* startLogin at the end of `/account add`.
startLogin ==
    /\ at["owner"] = "open"
    /\ LET p == job["owner"]
           free == at["login"] = "rest" /\ p.key \in Registered(mem)
       IN /\ at' = [at EXCEPT !["owner"] = "rest", !["login"] = IF free THEN "signIn" ELSE @]
          /\ job' = [job EXCEPT !["owner"] = None,
                                !["login"] = IF free THEN [p EXCEPT !.dir = mem.prof[p.key]] ELSE @]
    /\ UNCHANGED <<registry, sandboxes, marks, todo, next, renamed, cli, turning,
                   events, refused>>

\* The browser may be signed in as anybody; a failed login leaves the account registered.
runAccountLogin ==
    /\ at["login"] = "signIn"
    /\ \/ \E e \in Emails :
             /\ creds' = [creds EXCEPT ![job["login"].dir] = "good"]
             /\ who' = [who EXCEPT ![job["login"].dir] = e]
             /\ job' = [job EXCEPT !["login"].email = e]
             /\ Goto("login", "learn")
       \/ Finish("login") /\ UNCHANGED sandboxes
    /\ UNCHANGED <<registry, marks, todo, next, renamed, cli, turning, events, refused>>

clearNeedsLogin ==
    /\ at["login"] = "clear"
    /\ marks' = marks \ {job["login"].key}
    /\ Finish("login")
    /\ UNCHANGED <<registry, sandboxes, todo, next, renamed, cli, turning,
                   events, refused>>
-----------------------------------------------------------------------------
(* `ccc profile`, another process: it loads the file and saves it, without   *)
(* the daemon's lock, and the daemon does not read it again.                 *)

Load(op, p) ==
    /\ cli = NoCall
    /\ Event
    /\ cli' = [op |-> op, conf |-> file, prof |-> p]
    /\ UNCHANGED <<registry, sandboxes, marks, writers, turning, refused>>

\* The first explicit account keeps the implicit one as Default.  The owner names a
\* directory that no account has.
profileAdd ==
    \E k \in Keys : \E d \in Dirs \ {p.dir : p \in listProfiles(file)} : Load("add", [key |-> k, dir |-> d])
profileRemove ==
    \E p \in listProfiles(file) :
        row # p.key /\ p.key \in Registered(file) /\ Load("remove", p)
profileSetDefault == \E p \in listProfiles(file) : Load("default", p)

saveConfig ==
    /\ LET p == cli.prof
           c == cli.conf
           implicit == Registered(c) = {} /\ p.key # Default
           base == IF implicit THEN [Set(c, Default, Home) EXCEPT !.def = IF @ = None THEN Default ELSE @]
                   ELSE c
       IN \/ /\ cli.op = "add"
             /\ file' = [Set(base, p.key, p.dir) EXCEPT !.def = IF @ = None THEN p.key ELSE @]
          \/ cli.op = "remove" /\ file' \in Drop(c, p.key)
          \/ cli.op = "default" /\ file' = [c EXCEPT !.def = p.key]
    /\ cli' = NoCall
    /\ UNCHANGED <<mem, sandboxes, marks, writers, turning, events, refused>>

\* `ccc profile login`, or the CLI's own, in a terminal.
profileLogin(d) ==
    /\ Event
    /\ creds' = [creds EXCEPT ![d] = "good"]
    /\ \E e \in Emails : who' = [who EXCEPT ![d] = e]
    /\ UNCHANGED <<registry, marks, writers, cli, turning, refused>>

\* A token goes stale, or somebody logs the sandbox out.
credentialsLost(d) ==
    /\ Event
    /\ creds[d] = "good"
    /\ \E s \in {"stale", "out"} : creds' = [creds EXCEPT ![d] = s]
    /\ UNCHANGED <<registry, who, marks, writers, cli, turning, refused>>
-----------------------------------------------------------------------------
(* Runner.execute's attempts.                                                *)

NextTurn(pc) == turn' = [turn EXCEPT !.pc = pc]
EndTurn == turn' = NoTurn /\ row' = None /\ refused' = {} /\ UNCHANGED turns

startTurn ==
    /\ turn.pc = "idle" /\ turns < MaxTurns
    /\ turns' = turns + 1
    /\ NextTurn("pick")
    /\ UNCHANGED <<registry, sandboxes, marks, writers, cli, row, events, refused>>

\* pickAccount: a mark excludes an account, unless every account not tried has one.  The
\* account goes into turns.profile before the spawn.
pickAccount ==
    /\ turn.pc = "pick"
    /\ LET untried == {p \in listProfiles(mem) : p.key \notin turn.tried}
           open == {p \in untried : p.key \notin marks}
           pool == IF open # {} THEN open ELSE untried
       IN \/ /\ turn.tries < MaxAttempts
             /\ \E p \in pool :
                   /\ turn' = [turn EXCEPT !.pc = "run", !.tries = @ + 1, !.prof = p,
                                           !.tried = @ \cup {p.key}]
                   /\ row' = p.key
             /\ UNCHANGED <<turns, refused>>
          \/ /\ turn.tries = MaxAttempts \/ pool = {}
             /\ EndTurn
    /\ UNCHANGED <<registry, sandboxes, marks, writers, cli, events>>

\* The turn is done, or it failed for good, was stopped or timed out.
finishTurn ==
    /\ turn.pc = "run"
    /\ EndTurn
    /\ UNCHANGED <<registry, sandboxes, marks, writers, cli, events>>

Again(tried) ==
    turn' = [turn EXCEPT !.pc = "pick", !.prof = None, !.tried = tried] /\ UNCHANGED <<row, turns>>
Refused ==
    refused' = IF KeysOf(mem, turn.prof.dir) = {turn.prof.key} THEN refused \cup {turn.prof.dir}
               ELSE refused

\* auth_stale: markNeedsLogin.
authStale ==
    /\ turn.pc = "run"
    /\ creds[turn.prof.dir] # "good"
    /\ marks' = marks \cup {turn.prof.key}
    /\ Again(turn.tried) /\ Refused
    /\ UNCHANGED <<registry, sandboxes, writers, cli, events>>

\* Mutant of rateLimited: the account is not kept as tried, as for a transient failure.
rateLimitedForgetMutant ==
    /\ turn.pc = "run"
    /\ creds[turn.prof.dir] = "good"
    /\ Again(turn.tried \ {turn.prof.key}) /\ Refused
    /\ UNCHANGED <<registry, sandboxes, marks, writers, cli, events>>

\* rate_limited: noteProfileLimit.
rateLimited ==
    /\ turn.pc = "run"
    /\ creds[turn.prof.dir] = "good"
    /\ Again(turn.tried) /\ Refused
    /\ UNCHANGED <<registry, sandboxes, marks, writers, cli, events>>

\* session_lost and transient: the same account may be taken again.
retry ==
    /\ turn.pc = "run"
    /\ Again(turn.tried \ {turn.prof.key})
    /\ UNCHANGED <<registry, sandboxes, marks, writers, cli, events, refused>>

\* The daemon dies and starts again: the file is all that is left.
restart ==
    /\ Event
    /\ mem' = file
    /\ marks' = {}
    /\ at' = [w \in Writers |-> "rest"]
    /\ todo' = {} /\ job' = [w \in Writers |-> None]
    /\ next' = [w \in Writers |-> None] /\ renamed' = [w \in Writers |-> None]
    /\ turn' = NoTurn /\ row' = None /\ refused' = {}
    /\ UNCHANGED <<file, sandboxes, cli, turns>>

Doctor == runDoctor \/ probe \/ judge
Writing ==
    \/ \E w \in Writers : rememberProfileEmail(w) \/ setConfig(w) \/ renameTurns(w)
    \/ addProfile \/ setDefault \/ removeProfile \/ startLogin
    \/ runAccountLogin \/ clearNeedsLogin
Owner ==
    \/ \E e \in Emails : accountAdd(e)
    \/ collectAccountCards \/ accountSetDefault \/ accountRemove \/ accountLogin
Cli == profileAdd \/ profileRemove \/ profileSetDefault \/ saveConfig
World == \E d \in Dirs : profileLogin(d) \/ credentialsLost(d)
Turning ==
    \/ startTurn \/ pickAccount \/ finishTurn
    \/ authStale \/ rateLimited \/ retry

Next == Doctor \/ Writing \/ Owner \/ Cli \/ World \/ Turning \/ restart

Spec == Init /\ [][Next]_vars

\* The scheduler runs the doctor every 15 minutes, account after account.
DoctorGoes ==
    \/ Doctor
    \/ rememberProfileEmail("doctor") \/ setConfig("doctor") \/ renameTurns("doctor")
FairSpec == Spec /\ WF_vars(DoctorGoes)
-----------------------------------------------------------------------------
\* A turn that fails over does not go back to a sandbox that refused it, or whose limit it
\* hit, as long as that has the one key it was tried under: the list of tried accounts is
\* by key (execute, pickAccount).
RefusedOnce == turn.pc = "run" => turn.prof.dir \notin refused

\* The daemon's own changes of the registry keep every account: an account goes only when
\* the owner removes it, when an account is added over it that was not there when the
\* owner's command looked, or when a `ccc profile` process saves what it loaded before
\* (rememberProfileEmail, accountSetDefault).
AccountStays ==
    [][\A d \in DirsOf(file) \ DirsOf(file') :
          \/ at["owner"] = "remove" /\ file.prof[job["owner"].key] = d
          \/ at["owner"] = "add" /\ file.prof[job["owner"].key] = d
          \/ cli # NoCall /\ cli' = NoCall]_vars

Benched(d) == KeysOf(mem, d) # {} /\ KeysOf(mem, d) \subseteq marks

\* An account that is logged in is not left out for ever: the mark of a refused turn, or of
\* a time it was logged out, goes by itself (runDoctor, clearNeedsLogin).
NotBenchedForever == \A d \in Dirs : []<>~(Benched(d) /\ creds[d] = "good")
=============================================================================
