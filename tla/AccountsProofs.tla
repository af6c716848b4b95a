----------------------------- MODULE AccountsProofs -----------------------------
(* Proofs about Accounts for any number of addresses, sandboxes, turns,       *)
(* attempts and events.                                                       *)
EXTENDS Accounts, TLAPS

\* Who is at work knows the account it works on, whose it is where it learnt that, and what
\* updateConfig returned to it.
WritersInHand ==
    \A w \in Writers :
        /\ at[w] # "rest" => job[w] \in Jobs
        /\ at[w] \in {"loggedIn", "learn"} => job[w].email \in Emails
        /\ at[w] \in {"swap", "swapAdd", "swapDone"} => next[w] \in Configs

\* `ccc profile` has what it loaded, and the turn that runs has an account.
CliInHand == cli.op # "none" => cli.conf \in Configs /\ cli.prof \in Profiles
TurnInHand == turn.pc = "run" => turn.prof \in Profiles

\* A sandbox that refused the turn has one key, which the turn has tried and which is not that of
\* the account it now runs on.
RefusedInv ==
    /\ \A d \in refused : \E k \in turn.tried : KeysOf(mem, d) = {k}
    /\ turn.pc = "run" =>
          /\ turn.prof.key \in turn.tried
          /\ turn.prof.dir \notin refused
          /\ \A d \in refused : KeysOf(mem, d) # {turn.prof.key}

TypeInv == TypeOK /\ WritersInHand /\ CliInHand /\ TurnInHand

-----------------------------------------------------------------------------
(* The operators on registries.                                              *)

LEMMA KeysOfProfiles ==
    ASSUME NEW c \in Configs
    PROVE  /\ listProfiles(c) \subseteq Profiles
           /\ \A p \in listProfiles(c) : p.key \in KeysOf(c, p.dir)
           /\ \A d : KeysOf(c, d) \subseteq Keys
BY AccountsAssumption DEF Configs, listProfiles, Profiles, Registered, Keys, KeysOf

LEMMA SetIsConfig ==
    ASSUME NEW c \in Configs, NEW k \in Keys, NEW d \in Dirs \cup {None}
    PROVE  /\ Set(c, k, d) \in Configs
           /\ Set(c, k, d).prof = [c.prof EXCEPT ![k] = d] /\ Set(c, k, d).def = c.def
BY DEF Set, Configs

LEMMA DefIsConfig ==
    ASSUME NEW c \in Configs, NEW k \in Keys \cup {None}
    PROVE  /\ [c EXCEPT !.def = k] \in Configs
           /\ [c EXCEPT !.def = k].prof = c.prof
BY DEF Configs

LEMMA DropIsConfig ==
    ASSUME NEW c \in Configs, NEW k \in Keys
    PROVE  \A e \in Drop(c, k) : e \in Configs /\ e.prof = [c.prof EXCEPT ![k] = None]
<1> SUFFICES ASSUME NEW e \in Drop(c, k)
             PROVE  e \in Configs /\ e.prof = [c.prof EXCEPT ![k] = None]
  OBVIOUS
<1>1. PICK d \in Keys \cup {None} : e = [Set(c, k, None) EXCEPT !.def = d]
  BY DEF Drop, Registered, Configs
<1> QED BY <1>1, SetIsConfig, DefIsConfig

\* An account keeps its sandbox under whatever key it gets: nothing is overwritten.
LEMMA ReKeyKeeps ==
    ASSUME NEW c \in Configs, NEW name \in Keys, NEW email \in Emails
    PROVE  reKey(c, name, email) \in Configs /\ DirsOf(c) \subseteq DirsOf(reKey(c, name, email))
<1> DEFINE r == reKey(c, name, email)
<1>e. email \in Keys /\ Home \in Dirs /\ None \notin Dirs
  BY AccountsAssumption DEF Keys
<1>1. CASE r = c
  BY <1>1
<1>2. CASE /\ c.prof[email] = None /\ name # email
           /\ \E k \in Keys \cup {None} : r = [Set(c, email, Home) EXCEPT !.def = k]
  <2>1. r \in Configs /\ r.prof = [c.prof EXCEPT ![email] = Home]
    BY <1>2, <1>e, SetIsConfig, DefIsConfig
  <2> QED BY <1>2, <1>e, <2>1 DEF DirsOf, Registered, Configs
<1>3. CASE /\ c.prof[email] = None /\ name # email /\ c.prof[name] # None
           /\ \E k \in Keys \cup {None} :
                r = [Set(Set(c, email, c.prof[name]), name, None) EXCEPT !.def = k]
  <2>1. c.prof[name] \in Dirs
    BY <1>3 DEF Configs
  <2>2. Set(c, email, c.prof[name]) \in Configs
        /\ Set(c, email, c.prof[name]).prof = [c.prof EXCEPT ![email] = c.prof[name]]
    BY <1>e, <2>1, SetIsConfig
  <2>3. r \in Configs /\ r.prof = [[c.prof EXCEPT ![email] = c.prof[name]] EXCEPT ![name] = None]
    BY <1>3, <2>2, SetIsConfig, DefIsConfig
  <2> QED BY <1>3, <1>e, <2>1, <2>3 DEF DirsOf, Registered, Configs
<1>4. c.def \in Keys \cup {None}
  BY DEF Configs
<1>5. CASE c.prof[name] = None
  <2>1. CASE name = Default /\ c.prof[email] = None
    <3> DEFINE s == Set(c, email, Home)
    <3>1. r = [s EXCEPT !.def = IF @ \in {None, name} THEN email ELSE @]
      BY <1>5, <2>1 DEF reKey
    <3>2. s \in Configs /\ s.def = c.def
      BY <1>e, SetIsConfig
    <3>3. r = [s EXCEPT !.def = IF c.def \in {None, name} THEN email ELSE c.def]
      BY <3>1, <3>2 DEF Configs
    <3>4. name # email
      BY <2>1, AccountsAssumption
    <3> QED BY <1>2, <1>4, <1>e, <2>1, <3>3, <3>4
  <2>2. CASE ~(name = Default /\ c.prof[email] = None)
    BY <1>1, <1>5, <2>2 DEF reKey
  <2> QED BY <2>1, <2>2
<1>6. CASE c.prof[name] # None
  <2>1. CASE name = email \/ c.prof[email] # None
    BY <1>1, <1>6, <2>1 DEF reKey
  <2>2. CASE name # email /\ c.prof[email] = None
    <3> DEFINE s == Set(Set(c, email, c.prof[name]), name, None)
    <3>1. r = [s EXCEPT !.def = IF @ = name THEN email ELSE @]
      BY <1>6, <2>2 DEF reKey
    <3>2. c.prof[name] \in Dirs
      BY <1>6 DEF Configs
    <3>3. Set(c, email, c.prof[name]) \in Configs /\ Set(c, email, c.prof[name]).def = c.def
      BY <1>e, <3>2, SetIsConfig
    <3>4. s \in Configs /\ s.def = c.def
      BY <3>3, SetIsConfig
    <3>5. r = [s EXCEPT !.def = IF c.def = name THEN email ELSE c.def]
      BY <3>1, <3>4
    <3> QED BY <1>3, <1>4, <1>6, <1>e, <2>2, <3>5
  <2> QED BY <2>1, <2>2
<1> QED BY <1>5, <1>6
-----------------------------------------------------------------------------
(* Types.                                                                    *)

Labels == {"rest", "loggedOut", "loggedIn", "learn", "add", "default", "remove", "swap", "rename",
           "swapAdd", "open", "swapDone", "signIn", "clear"}

\* The part of TypeInv about the goroutines that change the registry.
WriterTypes ==
    /\ at \in [Writers -> Labels]
    /\ job \in [Writers -> Jobs \cup {None}]
    /\ next \in [Writers -> Configs \cup {None}]
    /\ WritersInHand

\* The rest of it.
RegistryTypes == file \in Configs /\ mem \in Configs
OtherTypes ==
    /\ creds \in [Dirs -> {"out", "good", "stale"}] /\ who \in [Dirs -> Emails]
    /\ marks \subseteq Keys /\ todo \subseteq Profiles
    /\ renamed \in [Writers -> Keys \cup {None}]
    /\ events \in 0..MaxEvents /\ refused \subseteq Dirs
CliTypes ==
    /\ cli \in [op : {"none", "add", "remove", "default"}, conf : Configs \cup {None},
                prof : Profiles \cup {None}]
    /\ CliInHand
TurnTypes ==
    /\ turn \in [pc : {"idle", "pick", "run"}, tries : 0..MaxAttempts,
                 tried : SUBSET Keys, prof : Profiles \cup {None}]
    /\ row \in Keys \cup {None} /\ turns \in 0..MaxTurns
    /\ TurnInHand

LEMMA TypeParts ==
    /\ TypeInv <=> WriterTypes /\ RegistryTypes /\ OtherTypes /\ CliTypes /\ TurnTypes
    /\ TypeInv' <=> WriterTypes' /\ RegistryTypes' /\ OtherTypes' /\ CliTypes' /\ TurnTypes'
BY DEF TypeInv, TypeOK, WriterTypes, RegistryTypes, OtherTypes, CliTypes, TurnTypes, Labels

LEMMA WriterNames == "doctor" \in Writers /\ "owner" \in Writers /\ "login" \in Writers
BY DEF Writers

LEMMA InitTypes == Init => TypeInv
<1> SUFFICES ASSUME Init PROVE TypeInv
  OBVIOUS
<1>1. file \in Configs
  <2>1. CASE file = [prof |-> [k \in Keys |-> None], def |-> None]
    BY <2>1 DEF Configs
  <2>2. ASSUME NEW d \in Dirs,
               file = [prof |-> [k \in Keys |-> CASE k = Default -> Home
                                               [] k = Added -> d
                                               [] OTHER -> None],
                       def |-> Default]
        PROVE  file \in Configs
    <3>1. Default \in Keys /\ Home \in Dirs
      BY AccountsAssumption DEF Keys
    <3> QED BY <2>2, <3>1 DEF Configs
  <2> QED BY <2>1, <2>2 DEF Init
<1>2. WriterTypes
  BY DEF Init, WriterTypes, WritersInHand, Labels
<1>3. OtherTypes /\ RegistryTypes
  BY <1>1, AccountsAssumption DEF Init, OtherTypes, RegistryTypes
<1>4. CliTypes /\ TurnTypes
  BY AccountsAssumption DEF Init, CliTypes, CliInHand, TurnTypes, TurnInHand, NoCall, NoTurn
<1> QED BY <1>2, <1>3, <1>4, TypeParts

\* A goroutine starts on an account.
LEMMA WorkIsTyped ==
    ASSUME WriterTypes, who \in [Dirs -> Emails], NEW w \in Writers, NEW p, p.key \in Keys, p.dir \in Dirs,
           NEW label \in {"loggedOut", "loggedIn", "learn", "add", "default", "remove", "signIn"},
           Work(w, p, label), UNCHANGED next
    PROVE  WriterTypes'
<1> DEFINE j == [key |-> p.key, dir |-> p.dir,
                 email |-> IF label \in {"loggedIn", "learn"} THEN who[p.dir] ELSE None]
<1>1. j \in Jobs /\ (label \in {"loggedIn", "learn"} => j.email \in Emails)
  BY DEF Jobs
<1>2. job' = [job EXCEPT ![w] = j] /\ at' = [at EXCEPT ![w] = label]
  BY DEF Work, Goto
<1> HIDE DEF j
<1> QED BY <1>1, <1>2 DEF WriterTypes, WritersInHand, Labels

\* A goroutine that goes on with the account it has, and one that is done.
LEMMA GotoIsTyped ==
    ASSUME WriterTypes, NEW w \in Writers, at[w] # "rest",
           NEW label \in Labels, Goto(w, label), UNCHANGED <<job, next>>,
           label \in {"loggedIn", "learn"} => job[w].email \in Emails,
           label \in {"swap", "swapAdd", "swapDone"} => next[w] \in Configs
    PROVE  WriterTypes'
BY DEF WriterTypes, WritersInHand, Goto

LEMMA FinishIsTyped ==
    ASSUME WriterTypes, NEW w \in Writers, Finish(w),
           next' = next \/ next' = [next EXCEPT ![w] = None]
    PROVE  WriterTypes'
<1>1. at' = [at EXCEPT ![w] = "rest"] /\ job' = [job EXCEPT ![w] = None]
  BY DEF Finish, Goto
<1> QED BY <1>1 DEF WriterTypes, WritersInHand, Labels

LEMMA UpdateIsTyped ==
    ASSUME WriterTypes, NEW w \in Writers, NEW c \in Configs, at[w] # "rest",
           NEW label \in {"swap", "swapAdd", "swapDone"}, Update(w, c, label),
           job' = job \/ \E e \in Keys : job' = [job EXCEPT ![w].key = e]
    PROVE  WriterTypes' /\ file' \in Configs
<1>1. /\ at' = [at EXCEPT ![w] = label] /\ next' = [next EXCEPT ![w] = c] /\ file' = c
  BY DEF Update, Goto
<1>2. job' \in [Writers -> Jobs \cup {None}]
      /\ \A v \in Writers : /\ v # w => job'[v] = job[v]
                            /\ job'[w] \in Jobs
  BY DEF WriterTypes, WritersInHand, Jobs
<1> QED BY <1>1, <1>2 DEF WriterTypes, WritersInHand, Labels

\* Parts that a step leaves alone.
LEMMA TypeFrame ==
    ASSUME TypeInv
    PROVE  /\ UNCHANGED <<at, job, next>> => WriterTypes'
           /\ UNCHANGED registry => RegistryTypes'
           /\ UNCHANGED cli => CliTypes'
           /\ UNCHANGED turning => TurnTypes'
           /\ UNCHANGED <<sandboxes, marks, todo, renamed>> /\ (events' = events \/ Event)
                 /\ refused' \subseteq Dirs => OtherTypes'
<1>1. UNCHANGED <<at, job, next>> => WriterTypes'
  BY TypeParts DEF WriterTypes, WritersInHand
<1>2. UNCHANGED registry => RegistryTypes'
  BY TypeParts DEF RegistryTypes, registry
<1>3. UNCHANGED cli => CliTypes'
  BY TypeParts DEF CliTypes, CliInHand
<1>4. UNCHANGED turning => TurnTypes'
  BY TypeParts DEF TurnTypes, TurnInHand, turning
<1>5. UNCHANGED <<sandboxes, marks, todo, renamed>> /\ (events' = events \/ Event)
         /\ refused' \subseteq Dirs => OtherTypes'
  BY TypeParts, AccountsAssumption DEF OtherTypes, sandboxes, Event
<1> QED BY <1>1, <1>2, <1>3, <1>4, <1>5

LEMMA TypeDoctor ==
    ASSUME TypeInv, Doctor
    PROVE  TypeInv'
<1>t. WriterTypes /\ RegistryTypes /\ OtherTypes
  BY TypeParts
<1>u. UNCHANGED <<registry, sandboxes, cli, turning, refused, next, renamed>>
  BY DEF Doctor, runDoctor, probe, judge
<1>p. RegistryTypes' /\ CliTypes' /\ TurnTypes'
  BY <1>u, TypeFrame
<1>1. CASE runDoctor
  <2>1. WriterTypes'
    BY <1>1, TypeFrame DEF runDoctor
  <2>2. OtherTypes'
    BY <1>1, <1>t, KeysOfProfiles DEF runDoctor, OtherTypes, RegistryTypes, sandboxes
  <2> QED BY <1>p, <2>1, <2>2, TypeParts
<1>2. CASE probe
  <2>1. PICK p \in todo : /\ todo' = todo \ {p}
                          /\ \/ \E label \in {"loggedOut", "loggedIn"} :
                                   Work("doctor", p, label) /\ UNCHANGED events
                             \/ Event /\ UNCHANGED <<at, job>>
    BY <1>2 DEF probe
  <2>2. p.key \in Keys /\ p.dir \in Dirs
    BY <1>t DEF OtherTypes, Profiles
  <2>3. who \in [Dirs -> Emails]
    BY <1>t DEF OtherTypes
  <2>4. WriterTypes'
    <3>1. ASSUME NEW label \in {"loggedOut", "loggedIn"}, Work("doctor", p, label)
          PROVE  WriterTypes'
      <4>1. label \in {"loggedOut", "loggedIn", "learn", "add", "default", "remove", "signIn"}
        OBVIOUS
      <4>2. UNCHANGED next
        BY <1>u
      <4> QED BY <3>1, <4>1, <4>2, <1>t, <2>2, <2>3, WorkIsTyped, WriterNames
    <3>2. CASE UNCHANGED <<at, job>>
      BY <1>u, <3>2, TypeFrame
    <3> QED BY <2>1, <3>1, <3>2
  <2>5. OtherTypes'
    <3>1. marks' = marks
      BY <1>2 DEF probe
    <3> QED BY <1>t, <1>u, <2>1, <3>1, AccountsAssumption DEF OtherTypes, sandboxes, Event
  <2> QED BY <1>p, <2>4, <2>5, TypeParts
<1>3. CASE judge
  <2>1. UNCHANGED <<todo, events, next>> /\ at["doctor"] \in {"loggedOut", "loggedIn"}
    BY <1>3 DEF judge
  <2>2. job["doctor"] \in Jobs
    BY <1>t, <2>1, WriterNames DEF WriterTypes, WritersInHand
  <2>3. OtherTypes'
    BY <1>3, <1>t, <1>u, <2>1, <2>2 DEF judge, OtherTypes, sandboxes, Jobs
  <2>4. CASE Finish("doctor")
    BY <1>p, <1>t, <2>1, <2>3, <2>4, FinishIsTyped, TypeParts, WriterNames
  <2>5. CASE at["doctor"] = "loggedIn" /\ Goto("doctor", "learn") /\ UNCHANGED job
    <3>1. job["doctor"].email \in Emails
      BY <1>t, <2>5, WriterNames DEF WriterTypes, WritersInHand
    <3>2. "learn" \in Labels /\ "learn" \notin {"swap", "swapAdd", "swapDone"}
      BY DEF Labels
    <3>3. WriterTypes'
      BY <1>t, <2>1, <2>5, <3>1, <3>2, GotoIsTyped, WriterNames
    <3> QED BY <1>p, <2>3, <3>3, TypeParts
  <2> QED BY <1>3, <2>4, <2>5 DEF judge
<1> QED BY <1>1, <1>2, <1>3 DEF Doctor

LEMMA AdoptIsTyped ==
    ASSUME TypeInv, NEW c \in Configs, Adopt(c)
    PROVE  mem' \in Configs /\ refused' \subseteq Dirs
BY TypeParts DEF Adopt, OtherTypes

\* The three steps every change of a key goes through.
LEMMA TypeWriting3 ==
    ASSUME TypeInv, NEW w \in Writers,
           rememberProfileEmail(w) \/ setConfig(w) \/ renameTurns(w)
    PROVE  TypeInv'
<1>t. WriterTypes /\ RegistryTypes /\ OtherTypes /\ TurnTypes
  BY TypeParts
<1>j. job[w] \in Jobs /\ at[w] # "rest"
  BY <1>t DEF WriterTypes, WritersInHand, rememberProfileEmail, setConfig, renameTurns
<1>k. job[w].key \in Keys
  BY <1>j DEF Jobs
<1>1. CASE rememberProfileEmail(w)
  <2> DEFINE c == reKey(file, job[w].key, job[w].email)
  <2>1. job[w].email \in Emails /\ job[w].email \in Keys
    BY <1>1, <1>t DEF rememberProfileEmail, WriterTypes, WritersInHand, Keys
  <2>2. c \in Configs
    BY <1>k, <1>t, <2>1, ReKeyKeeps DEF RegistryTypes
  <2>3. /\ Update(w, c, "swap") /\ job' = [job EXCEPT ![w].key = job[w].email]
        /\ UNCHANGED <<mem, cli, turning, sandboxes, marks, todo, events, refused>>
    BY <1>1 DEF rememberProfileEmail
  <2>4. WriterTypes' /\ RegistryTypes'
    <3> HIDE DEF c
    <3>1. "swap" \in {"swap", "swapAdd", "swapDone"}
      OBVIOUS
    <3>2. WriterTypes' /\ file' \in Configs
      BY <1>j, <1>t, <2>1, <2>2, <2>3, <3>1, UpdateIsTyped
    <3> QED BY <1>t, <2>3, <3>2 DEF RegistryTypes
  <2>5. OtherTypes'
    <3>1. renamed' \in [Writers -> Keys \cup {None}]
      BY <1>1, <1>k, <1>t DEF rememberProfileEmail, OtherTypes
    <3> QED BY <1>t, <2>3, <3>1 DEF OtherTypes, sandboxes
  <2> QED BY <2>3, <2>4, <2>5, TypeFrame, TypeParts
<1>2. CASE setConfig(w)
  <2>1. next[w] \in Configs
    BY <1>2, <1>t DEF setConfig, WriterTypes, WritersInHand
  <2>2. UNCHANGED <<file, sandboxes, marks, todo, renamed, cli, turning, events>> /\ Adopt(next[w])
    BY <1>2 DEF setConfig
  <2>3. RegistryTypes' /\ refused' \subseteq Dirs
    BY <1>t, <2>1, <2>2, AdoptIsTyped DEF RegistryTypes
  <2>4. OtherTypes' /\ CliTypes' /\ TurnTypes'
    BY <2>2, <2>3, TypeFrame
  <2>5. WriterTypes'
    <3>1. next' = [next EXCEPT ![w] = None]
      BY <1>2 DEF setConfig
    <3>2. CASE Finish(w)
      BY <1>t, <3>1, <3>2, FinishIsTyped
    <3>3. ASSUME NEW l \in {"rename", "open"}, Goto(w, l), UNCHANGED job
          PROVE  WriterTypes'
      BY <1>t, <1>j, <3>1, <3>3 DEF WriterTypes, WritersInHand, Goto, Labels
    <3> QED BY <1>2, <3>2, <3>3 DEF setConfig
  <2> QED BY <2>3, <2>4, <2>5, TypeParts
<1>3. CASE renameTurns(w)
  <2>1. UNCHANGED <<registry, sandboxes, marks, todo, next, cli, turn, turns, events, refused>>
    BY <1>3 DEF renameTurns
  <2>2. OtherTypes'
    BY <1>3, <1>t, <2>1 DEF renameTurns, OtherTypes, sandboxes
  <2>3. TurnTypes'
    BY <1>3, <1>k, <1>t, <2>1 DEF renameTurns, TurnTypes, TurnInHand
  <2>4. WriterTypes'
    <3>1. CASE Finish(w)
      BY <1>t, <2>1, <3>1, FinishIsTyped
    <3>2. CASE Goto(w, "clear") /\ UNCHANGED job
      BY <1>t, <1>j, <2>1, <3>2 DEF WriterTypes, WritersInHand, Goto, Labels
    <3> QED BY <1>3, <3>1, <3>2 DEF renameTurns
  <2> QED BY <2>1, <2>2, <2>3, <2>4, TypeFrame, TypeParts
<1> QED BY <1>1, <1>2, <1>3

LEMMA TypeWriting ==
    ASSUME TypeInv,
           \/ addProfile \/ setDefault \/ removeProfile \/ startLogin
           \/ runAccountLogin \/ clearNeedsLogin
    PROVE  TypeInv'
<1>t. WriterTypes /\ RegistryTypes /\ OtherTypes
  BY TypeParts
<1>1. CASE addProfile \/ setDefault \/ removeProfile
  <2>u. /\ UNCHANGED <<mem, job, cli, turning, sandboxes, marks, todo, renamed, events, refused>>
        /\ at["owner"] # "rest"
    BY <1>1 DEF addProfile, setDefault, removeProfile
  <2>j. job["owner"] \in Jobs /\ job["owner"].key \in Keys /\ job["owner"].dir \in Dirs
    BY <1>t, <2>u, WriterNames DEF WriterTypes, WritersInHand, Jobs
  <2>1. ASSUME NEW c \in Configs, NEW l \in {"swap", "swapAdd", "swapDone"}, Update("owner", c, l)
        PROVE  TypeInv'
    <3>1. WriterTypes' /\ file' \in Configs
      BY <1>t, <2>1, <2>u, UpdateIsTyped, WriterNames
    <3>2. RegistryTypes'
      BY <1>t, <2>u, <3>1 DEF RegistryTypes
    <3>3. refused' \subseteq Dirs
      BY <1>t, <2>u DEF OtherTypes
    <3> QED BY <2>u, <3>1, <3>2, <3>3, TypeFrame, TypeParts
  <2>2. CASE addProfile
    <3> DEFINE s == Set(file, job["owner"].key, job["owner"].dir)
    <3>1. s \in Configs
      BY <1>t, <2>j, SetIsConfig DEF RegistryTypes
    <3>2. [s EXCEPT !.def = IF @ = None THEN job["owner"].key ELSE @] \in Configs
      BY <2>j, <3>1 DEF Configs
    <3> QED BY <2>1, <2>2, <3>2 DEF addProfile
  <2>3. CASE setDefault
    <3>1. [file EXCEPT !.def = job["owner"].key] \in Configs
      BY <1>t, <2>j, DefIsConfig DEF RegistryTypes
    <3> QED BY <2>1, <2>3, <3>1 DEF setDefault
  <2>4. CASE removeProfile
    BY <1>t, <2>1, <2>4, <2>j, DropIsConfig DEF removeProfile, RegistryTypes
  <2> QED BY <1>1, <2>2, <2>3, <2>4
<1>2. CASE startLogin
  <2> DEFINE p == job["owner"]
             free == at["login"] = "rest" /\ p.key \in Registered(mem)
  <2>1. UNCHANGED <<registry, sandboxes, marks, todo, next, renamed, cli, turning, events, refused>>
    BY <1>2 DEF startLogin
  <2>2. p \in Jobs
    BY <1>2, <1>t, WriterNames DEF startLogin, WriterTypes, WritersInHand
  <2>3. free => [p EXCEPT !.dir = mem.prof[p.key]] \in Jobs
    BY <1>t, <2>2 DEF Jobs, RegistryTypes, Configs, Registered
  <2>4. WriterTypes'
    <3>1. CASE free
      <4>1. /\ at' = [at EXCEPT !["owner"] = "rest", !["login"] = "signIn"]
            /\ job' = [job EXCEPT !["owner"] = None, !["login"] = [p EXCEPT !.dir = mem.prof[p.key]]]
        BY <1>2, <3>1 DEF startLogin
      <4> HIDE DEF free, p
      <4> QED BY <1>t, <2>1, <2>3, <3>1, <4>1, WriterNames DEF WriterTypes, WritersInHand, Labels
    <3>2. CASE ~free
      <4>1. /\ at' = [at EXCEPT !["owner"] = "rest", !["login"] = @]
            /\ job' = [job EXCEPT !["owner"] = None, !["login"] = @]
        BY <1>2, <3>2 DEF startLogin
      <4> QED BY <1>t, <2>1, <4>1, WriterNames DEF WriterTypes, WritersInHand, Labels
    <3> QED BY <3>1, <3>2
  <2>5. refused' \subseteq Dirs
    BY <1>t, <2>1 DEF OtherTypes
  <2> QED BY <2>1, <2>4, <2>5, TypeFrame, TypeParts
<1>3. CASE runAccountLogin
  <2>1. /\ UNCHANGED <<registry, marks, todo, next, renamed, cli, turning, events, refused>>
        /\ at["login"] # "rest"
    BY <1>3 DEF runAccountLogin
  <2>2. job["login"] \in Jobs
    BY <1>t, <2>1, WriterNames DEF WriterTypes, WritersInHand
  <2>3. ASSUME NEW e \in Emails, creds' = [creds EXCEPT ![job["login"].dir] = "good"],
               who' = [who EXCEPT ![job["login"].dir] = e],
               job' = [job EXCEPT !["login"].email = e], Goto("login", "learn")
        PROVE  WriterTypes' /\ OtherTypes'
    <3>1. OtherTypes'
      BY <1>t, <2>1, <2>2, <2>3 DEF OtherTypes
    <3>2. [job["login"] EXCEPT !.email = e] \in Jobs /\ [job["login"] EXCEPT !.email = e].email = e
      BY <2>2, <2>3 DEF Jobs
    <3>3. job' = [job EXCEPT !["login"] = [job["login"] EXCEPT !.email = e]]
      BY <2>3
    <3> QED BY <1>t, <2>1, <2>3, <3>1, <3>2, <3>3, WriterNames
            DEF WriterTypes, WritersInHand, Goto, Labels
  <2>4. ASSUME Finish("login"), UNCHANGED sandboxes
        PROVE  WriterTypes' /\ OtherTypes'
    <3>1. WriterTypes'
      BY <1>t, <2>1, <2>4, FinishIsTyped, WriterNames
    <3>2. OtherTypes'
      BY <1>t, <2>1, <2>4 DEF OtherTypes, sandboxes
    <3> QED BY <3>1, <3>2
  <2>5. WriterTypes' /\ OtherTypes'
    BY <1>3, <2>3, <2>4 DEF runAccountLogin
  <2> QED BY <2>1, <2>5, TypeFrame, TypeParts
<1>4. CASE clearNeedsLogin
  <2>1. UNCHANGED <<registry, sandboxes, todo, next, renamed, cli, turning, events, refused>>
    BY <1>4 DEF clearNeedsLogin
  <2>2. WriterTypes'
    BY <1>4, <1>t, <2>1, FinishIsTyped, WriterNames DEF clearNeedsLogin
  <2>3. OtherTypes'
    BY <1>4, <1>t, <2>1 DEF clearNeedsLogin, OtherTypes, sandboxes
  <2> QED BY <2>1, <2>2, <2>3, TypeFrame, TypeParts
<1> QED BY <1>1, <1>2, <1>3, <1>4

\* The owner's commands only begin something.
LEMMA TypeOwner ==
    ASSUME TypeInv, Owner
    PROVE  TypeInv'
<1>t. WriterTypes /\ RegistryTypes /\ OtherTypes
  BY TypeParts
<1>u. UNCHANGED <<registry, sandboxes, marks, todo, next, renamed, cli, turning, refused>> /\ Event
  BY DEF Owner, accountAdd, collectAccountCards, accountSetDefault, accountRemove, accountLogin
<1>1. \E w \in {"owner", "login"}, p \in Profiles, l \in {"learn", "add", "default", "remove", "signIn"} :
         Work(w, p, l)
  <2>1. listProfiles(mem) \subseteq Profiles
    BY <1>t, KeysOfProfiles DEF RegistryTypes
  <2>2. ASSUME NEW e \in Emails, accountAdd(e) PROVE \E p \in Profiles : Work("owner", p, "add")
    <3>1. PICK d \in Dirs : Work("owner", [key |-> e, dir |-> d], "add")
      BY <2>2 DEF accountAdd
    <3>2. [key |-> e, dir |-> d] \in Profiles
      BY DEF Profiles, Keys
    <3> QED BY <3>1, <3>2
  <2> QED BY <2>1, <2>2 DEF Owner, collectAccountCards, accountSetDefault, accountRemove, accountLogin
<1>2. WriterTypes'
  <2>1. PICK w \in {"owner", "login"}, p \in Profiles,
             l \in {"learn", "add", "default", "remove", "signIn"} : Work(w, p, l)
    BY <1>1
  <2>2. /\ p.key \in Keys /\ p.dir \in Dirs /\ w \in Writers
        /\ l \in {"loggedOut", "loggedIn", "learn", "add", "default", "remove", "signIn"}
    BY WriterNames DEF Profiles
  <2>3. who \in [Dirs -> Emails] /\ UNCHANGED next
    BY <1>t, <1>u DEF OtherTypes
  <2> QED BY <1>t, <2>1, <2>2, <2>3, WorkIsTyped
<1>3. refused' \subseteq Dirs
  BY <1>t, <1>u DEF OtherTypes
<1> QED BY <1>2, <1>3, <1>u, TypeFrame, TypeParts

LEMMA TypeCli ==
    ASSUME TypeInv, Cli
    PROVE  TypeInv'
<1>t. WriterTypes /\ RegistryTypes /\ OtherTypes /\ CliTypes
  BY TypeParts
<1>u. UNCHANGED <<mem, sandboxes, marks, writers, turning, refused>> /\ (events' = events \/ Event)
  BY DEF Cli, profileAdd, profileRemove, profileSetDefault, Load, saveConfig, registry
<1>p. WriterTypes' /\ OtherTypes' /\ TurnTypes'
  BY <1>t, <1>u, TypeFrame DEF OtherTypes, writers
<1>1. CASE profileAdd \/ profileRemove \/ profileSetDefault
  <2>1. PICK op \in {"add", "remove", "default"}, p \in Profiles : Load(op, p)
    <3>1. listProfiles(file) \subseteq Profiles
      BY <1>t, KeysOfProfiles DEF RegistryTypes
    <3>2. ASSUME profileAdd PROVE \E p \in Profiles : Load("add", p)
      <4>1. PICK k \in Keys, d \in Dirs : Load("add", [key |-> k, dir |-> d])
        BY <3>2 DEF profileAdd
      <4>2. [key |-> k, dir |-> d] \in Profiles
        BY DEF Profiles
      <4> QED BY <4>1, <4>2
    <3> QED BY <1>1, <3>1, <3>2 DEF profileRemove, profileSetDefault
  <2>2. RegistryTypes' /\ CliTypes'
    BY <1>t, <2>1 DEF Load, RegistryTypes, registry, CliTypes, CliInHand
  <2> QED BY <1>p, <2>2, TypeParts
<1>2. CASE saveConfig
  <2> DEFINE p == cli.prof
             c == cli.conf
             implicit == Registered(c) = {} /\ p.key # Default
             home == [Set(c, Default, Home) EXCEPT !.def = IF @ = None THEN Default ELSE @]
             base == IF implicit THEN home ELSE c
             added == [Set(base, p.key, p.dir) EXCEPT !.def = IF @ = None THEN p.key ELSE @]
  <2>1. cli.op \in {"add", "remove", "default"} /\ cli' = NoCall
        /\ \/ file' = added
           \/ file' \in Drop(c, p.key)
           \/ file' = [c EXCEPT !.def = p.key]
    BY <1>2 DEF saveConfig
  <2>2. c \in Configs /\ p.key \in Keys /\ p.dir \in Dirs /\ Default \in Keys /\ Home \in Dirs
    BY <1>t, <2>1, AccountsAssumption DEF CliTypes, CliInHand, Profiles, Keys
  <2> HIDE DEF p, c
  <2>3. home \in Configs
    <3>1. Set(c, Default, Home) \in Configs
      BY <2>2, SetIsConfig
    <3> QED BY <2>2, <3>1 DEF Configs
  <2>4. added \in Configs
    <3>1. base \in Configs
      BY <2>2, <2>3
    <3> HIDE DEF base
    <3>2. Set(base, p.key, p.dir) \in Configs
      BY <2>2, <3>1, SetIsConfig
    <3> QED BY <2>2, <3>2 DEF Configs
  <2>5. file' \in Configs
    <3> HIDE DEF added
    <3>1. \A e \in Drop(c, p.key) : e \in Configs
      BY <2>2, DropIsConfig
    <3>2. [c EXCEPT !.def = p.key] \in Configs
      BY <2>2, DefIsConfig
    <3> QED BY <2>1, <2>4, <3>1, <3>2
  <2>6. RegistryTypes' /\ CliTypes'
    BY <1>t, <1>u, <2>1, <2>5 DEF RegistryTypes, CliTypes, CliInHand, NoCall
  <2> QED BY <1>p, <2>6, TypeParts
<1> QED BY <1>1, <1>2 DEF Cli

LEMMA TypeTurning ==
    ASSUME TypeInv, Turning
    PROVE  TypeInv'
<1>t. RegistryTypes /\ OtherTypes /\ TurnTypes
  BY TypeParts
<1>u. UNCHANGED <<registry, sandboxes, writers, cli, events>>
  BY DEF Turning, startTurn, pickAccount, finishTurn, authStale, rateLimited, retry
<1>p. WriterTypes' /\ RegistryTypes' /\ CliTypes'
  BY <1>u, TypeFrame DEF writers
<1>n. NoTurn \in [pc : {"idle", "pick", "run"}, tries : 0..MaxAttempts,
                  tried : SUBSET Keys, prof : Profiles \cup {None}]
      /\ NoTurn.pc # "run"
  BY AccountsAssumption DEF NoTurn
<1>1. TurnTypes'
  <2>1. CASE EndTurn
    BY <1>n, <1>t, <2>1 DEF EndTurn, TurnTypes, TurnInHand
  <2>2. CASE startTurn
    BY <1>t, <2>2, AccountsAssumption DEF startTurn, NextTurn, TurnTypes, TurnInHand
  <2>3. ASSUME NEW p \in listProfiles(mem), turn.tries < MaxAttempts, row' = p.key, turns' = turns,
               turn' = [turn EXCEPT !.pc = "run", !.tries = @ + 1, !.prof = p,
                                    !.tried = @ \cup {p.key}]
        PROVE  TurnTypes'
    <3>1. p \in Profiles /\ p.key \in Keys
      BY <1>t, KeysOfProfiles DEF RegistryTypes, Profiles
    <3>2. turn.tries + 1 \in 0..MaxAttempts /\ turn.tried \cup {p.key} \in SUBSET Keys
      BY <1>t, <2>3, <3>1, AccountsAssumption DEF TurnTypes
    <3>3. turn' \in [pc : {"idle", "pick", "run"}, tries : 0..MaxAttempts,
                    tried : SUBSET Keys, prof : Profiles \cup {None}] /\ turn'.prof = p
      BY <1>t, <2>3, <3>1, <3>2 DEF TurnTypes
    <3>4. row' \in Keys \cup {None} /\ turns' \in 0..MaxTurns
      BY <1>t, <2>3, <3>1 DEF TurnTypes
    <3> QED BY <3>1, <3>3, <3>4 DEF TurnTypes, TurnInHand
  <2>4. ASSUME NEW s \in SUBSET Keys, Again(s) PROVE TurnTypes'
    BY <1>t, <2>4 DEF Again, TurnTypes, TurnInHand
  <2>5. turn.tried \in SUBSET Keys /\ turn.tried \ {turn.prof.key} \in SUBSET Keys
    BY <1>t DEF TurnTypes
  <2>6. CASE pickAccount
    BY <2>1, <2>3, <2>6 DEF pickAccount
  <2> QED BY <2>1, <2>2, <2>4, <2>5, <2>6 DEF Turning, finishTurn, authStale, rateLimited, retry
<1>2. OtherTypes'
  <2>1. marks' \subseteq Keys
    <3>1. CASE authStale
      <4>1. turn.prof.key \in Keys
        BY <1>t, <3>1 DEF authStale, TurnTypes, TurnInHand, Profiles
      <4> QED BY <1>t, <3>1, <4>1 DEF authStale, OtherTypes
    <3>2. CASE ~authStale
      BY <1>t, <3>2 DEF Turning, startTurn, pickAccount, finishTurn, rateLimited, retry, OtherTypes
    <3> QED BY <3>1, <3>2
  <2>2. refused' \subseteq Dirs
    <3>1. ASSUME turn.pc = "run", Refused PROVE refused' \subseteq Dirs
      BY <1>t, <3>1 DEF Refused, OtherTypes, TurnTypes, TurnInHand, Profiles
    <3>2. CASE refused' = {} \/ refused' = refused
      BY <1>t, <3>2 DEF OtherTypes
    <3> QED BY <3>1, <3>2 DEF Turning, startTurn, pickAccount, finishTurn, authStale, rateLimited,
                              retry, EndTurn
  <2> QED BY <1>t, <1>u, <2>1, <2>2 DEF OtherTypes, sandboxes, writers
<1> QED BY <1>1, <1>2, <1>p, TypeParts

LEMMA TypeNext == TypeInv /\ [Next]_vars => TypeInv'
<1> SUFFICES ASSUME TypeInv, [Next]_vars PROVE TypeInv'
  OBVIOUS
<1>t. RegistryTypes /\ OtherTypes
  BY TypeParts
<1>1. CASE restart
  <2>1. WriterTypes'
    BY <1>1 DEF restart, WriterTypes, WritersInHand, Labels
  <2>2. OtherTypes'
    BY <1>1, <1>t, AccountsAssumption DEF restart, OtherTypes, sandboxes, Event
  <2>3. RegistryTypes' /\ CliTypes'
    BY <1>1, <1>t, TypeFrame DEF restart, RegistryTypes
  <2>4. TurnTypes'
    BY <1>1, TypeParts, AccountsAssumption DEF restart, TurnTypes, TurnInHand, NoTurn
  <2> QED BY <2>1, <2>2, <2>3, <2>4, TypeParts
<1>2. CASE World
  <2>1. UNCHANGED <<registry, marks, writers, cli, turning, refused>> /\ Event
    BY <1>2 DEF World, profileLogin, credentialsLost
  <2>2. creds' \in [Dirs -> {"out", "good", "stale"}] /\ who' \in [Dirs -> Emails]
    BY <1>2, <1>t DEF World, profileLogin, credentialsLost, OtherTypes
  <2>3. OtherTypes'
    BY <1>t, <2>1, <2>2, AccountsAssumption DEF OtherTypes, writers, Event
  <2> QED BY <2>1, <2>3, TypeFrame, TypeParts DEF writers
<1>3. CASE UNCHANGED vars
  <2>1. refused' \subseteq Dirs
    BY <1>3, <1>t DEF vars, OtherTypes
  <2> QED BY <1>3, <2>1, TypeFrame, TypeParts DEF vars, writers
<1> QED BY <1>1, <1>2, <1>3, TypeDoctor, TypeWriting3, TypeWriting, TypeOwner, TypeCli, TypeTurning
        DEF Next, Writing

LEMMA TypesAlways == Spec => []TypeInv
BY InitTypes, TypeNext, PTL DEF Spec

\* Every reachable state of the registry, of its writers and of the turn is well-typed: nobody
\* works on an account that is not there, and no address stands where none was learnt.
THEOREM TypeCorrect == Spec => []TypeOK
<1>1. TypeInv => TypeOK
  BY DEF TypeInv
<1> QED BY TypesAlways, <1>1, PTL
-----------------------------------------------------------------------------
(* The turn and the accounts that refused it.                                *)

\* A new copy of the registry forgets what has got another key, and keeps the rest.
LEMMA RefusedAdopt ==
    ASSUME RefusedInv, NEW c, Adopt(c), UNCHANGED turn
    PROVE  RefusedInv'
<1>1. mem' = c /\ refused' = {d \in refused : KeysOf(c, d) = KeysOf(mem, d)}
  BY DEF Adopt
<1>2. \A d : KeysOf(mem, d)' = KeysOf(c, d)
  BY <1>1 DEF KeysOf, listProfiles, Registered
<1>3. \A d \in refused' : d \in refused /\ KeysOf(mem, d)' = KeysOf(mem, d)
  BY <1>1, <1>2
<1> QED BY <1>3 DEF RefusedInv

LEMMA RefusedFrame ==
    ASSUME RefusedInv, UNCHANGED <<mem, turn, refused>>
    PROVE  RefusedInv'
BY DEF RefusedInv, KeysOf, listProfiles, Registered

LEMMA RefusedTurning ==
    ASSUME TypeInv, RefusedInv, Turning
    PROVE  RefusedInv'
<1>t. TurnTypes /\ RegistryTypes
  BY TypeParts
<1>u. UNCHANGED mem
  BY DEF Turning, startTurn, pickAccount, finishTurn, authStale, rateLimited, retry, registry
<1>k. \A d : KeysOf(mem, d)' = KeysOf(mem, d)
  BY <1>u DEF KeysOf, listProfiles, Registered
<1>1. CASE EndTurn
  BY <1>1 DEF EndTurn, NoTurn, RefusedInv
<1>2. CASE startTurn
  BY <1>2, <1>k, <1>t DEF startTurn, NextTurn, RefusedInv, TurnTypes
<1>3. CASE pickAccount
  <2>1. ASSUME NEW p \in listProfiles(mem), p.key \notin turn.tried, refused' = refused,
               turn' = [turn EXCEPT !.pc = "run", !.tries = @ + 1, !.prof = p,
                                    !.tried = @ \cup {p.key}]
        PROVE  RefusedInv'
    <3>1. /\ turn'.prof = p /\ turn'.tried = turn.tried \cup {p.key}
      BY <1>t, <2>1 DEF TurnTypes
    <3>2. p.key \in KeysOf(mem, p.dir)
      BY <1>t, KeysOfProfiles DEF RegistryTypes
    <3>3. \A d \in refused : KeysOf(mem, d) # {p.key}
      BY <2>1 DEF RefusedInv
    <3>4. p.dir \notin refused
      BY <2>1, <3>2 DEF RefusedInv
    <3> QED BY <1>k, <2>1, <3>1, <3>3, <3>4 DEF RefusedInv
  <2> QED BY <1>1, <1>3, <2>1 DEF pickAccount
<1>4. CASE authStale \/ rateLimited
  <2>1. /\ turn.pc = "run" /\ turn' = [turn EXCEPT !.pc = "pick", !.prof = None, !.tried = turn.tried]
        /\ Refused
    BY <1>4 DEF authStale, rateLimited, Again
  <2>2. turn'.pc = "pick" /\ turn'.tried = turn.tried
    BY <1>t, <2>1 DEF TurnTypes
  <2>3. \A d \in refused' : d \in refused \/ KeysOf(mem, d) = {turn.prof.key}
    BY <2>1 DEF Refused
  <2>4. turn.prof.key \in turn.tried
    BY <2>1 DEF RefusedInv
  <2> QED BY <1>k, <2>2, <2>3, <2>4 DEF RefusedInv
<1>5. CASE retry
  <2>1. /\ turn.pc = "run" /\ refused' = refused
        /\ turn' = [turn EXCEPT !.pc = "pick", !.prof = None, !.tried = turn.tried \ {turn.prof.key}]
    BY <1>5 DEF retry, Again
  <2>2. turn'.pc = "pick" /\ turn'.tried = turn.tried \ {turn.prof.key}
    BY <1>t, <2>1 DEF TurnTypes
  <2> QED BY <1>k, <2>1, <2>2 DEF RefusedInv
<1> QED BY <1>1, <1>2, <1>3, <1>4, <1>5 DEF Turning, finishTurn

LEMMA RefusedNext ==
    ASSUME TypeInv, RefusedInv, [Next]_vars
    PROVE  RefusedInv'
<1>1. CASE Turning
  BY <1>1, RefusedTurning
<1>2. CASE restart
  BY <1>2 DEF restart, NoTurn, RefusedInv
<1>3. ASSUME NEW w \in Writers, setConfig(w) PROVE RefusedInv'
  BY <1>3, RefusedAdopt DEF setConfig, turning
<1>4. ASSUME ~Turning, ~restart, \A w \in Writers : ~setConfig(w)
      PROVE  RefusedInv'
  <2>1. CASE Doctor \/ UNCHANGED vars
    BY <2>1, RefusedFrame DEF Doctor, runDoctor, probe, judge, vars, registry, turning
  <2>2. CASE Writing
    BY <1>4, <2>2, RefusedFrame DEF Writing, rememberProfileEmail, renameTurns, addProfile, setDefault,
       removeProfile, startLogin, runAccountLogin, clearNeedsLogin, registry, turning
  <2>3. CASE Owner
    BY <2>3, RefusedFrame DEF Owner, accountAdd, collectAccountCards, accountSetDefault,
       accountRemove, accountLogin, registry, turning
  <2>4. CASE Cli \/ World
    BY <2>4, RefusedFrame DEF Cli, profileAdd, profileRemove, profileSetDefault, Load, saveConfig,
       World, profileLogin, credentialsLost, registry, turning
  <2> QED BY <1>4, <2>1, <2>2, <2>3, <2>4 DEF Next
<1> QED BY <1>1, <1>2, <1>3, <1>4

\* Through any failovers, however the registry is re-keyed, added to and removed from under the
\* turn, it is not given to a sandbox that refused it and still has the key it was tried under.
THEOREM NoneRefusesTwice == Spec => []RefusedOnce
<1>1. Init => RefusedInv
  BY DEF Init, NoTurn, RefusedInv
<1>2. RefusedInv => RefusedOnce
  BY DEF RefusedInv, RefusedOnce
<1> QED BY <1>1, <1>2, RefusedNext, TypesAlways, PTL DEF Spec
-----------------------------------------------------------------------------
(* No account is lost.                                                       *)

LEMMA OneIsOverwritten ==
    ASSUME NEW c \in Configs, NEW e \in Configs, NEW k \in Keys, NEW d \in Dirs \cup {None},
           e.prof = [c.prof EXCEPT ![k] = d]
    PROVE  \A x \in DirsOf(c) \ DirsOf(e) : c.prof[k] = x
BY DEF Configs, DirsOf, Registered

LEMMA StaysNext ==
    ASSUME TypeInv, TypeInv', [Next]_vars, NEW d \in DirsOf(file) \ DirsOf(file')
    PROVE  \/ at["owner"] = "remove" /\ file.prof[job["owner"].key] = d
           \/ at["owner"] = "add" /\ file.prof[job["owner"].key] = d
           \/ cli # NoCall /\ cli' = NoCall
<1>t. WriterTypes /\ RegistryTypes /\ RegistryTypes'
  BY TypeParts
<1>f. file' # file
  BY DEF DirsOf, Registered
<1>1. CASE saveConfig
  BY <1>1 DEF saveConfig, NoCall
<1>2. ASSUME NEW w \in Writers, rememberProfileEmail(w) PROVE FALSE
  <2>1. job[w].key \in Keys /\ job[w].email \in Emails
    BY <1>2, <1>t DEF rememberProfileEmail, WriterTypes, WritersInHand, Jobs
  <2>2. file' = reKey(file, job[w].key, job[w].email)
    BY <1>2 DEF rememberProfileEmail, Update
  <2> QED BY <1>t, <2>1, <2>2, ReKeyKeeps DEF RegistryTypes
<1>3. CASE addProfile \/ setDefault \/ removeProfile
  <2>1. at["owner"] # "rest"
    BY <1>3 DEF addProfile, setDefault, removeProfile
  <2>2. job["owner"] \in Jobs /\ job["owner"].key \in Keys /\ job["owner"].dir \in Dirs
    BY <1>t, <2>1, WriterNames DEF WriterTypes, WritersInHand, Jobs
  <2>3. CASE addProfile
    <3> DEFINE s == Set(file, job["owner"].key, job["owner"].dir)
    <3>1. s \in Configs /\ s.prof = [file.prof EXCEPT ![job["owner"].key] = job["owner"].dir]
      BY <1>t, <2>2, SetIsConfig DEF RegistryTypes
    <3>2. file' = [s EXCEPT !.def = IF @ = None THEN job["owner"].key ELSE @]
      BY <2>3 DEF addProfile, Update
    <3>3. file'.prof = s.prof
      BY <3>1, <3>2 DEF Configs
    <3>4. file.prof[job["owner"].key] = d
      BY <1>t, <2>2, <3>1, <3>3, OneIsOverwritten DEF RegistryTypes
    <3> QED BY <2>3, <3>4 DEF addProfile
  <2>4. CASE setDefault
    <3>1. file' = [file EXCEPT !.def = job["owner"].key]
      BY <2>4 DEF setDefault, Update
    <3>2. file'.prof = file.prof
      BY <1>t, <3>1 DEF RegistryTypes, Configs
    <3> QED BY <3>2 DEF DirsOf, Registered
  <2>5. CASE removeProfile
    <3>1. file' \in Drop(file, job["owner"].key)
      BY <1>f, <2>5 DEF removeProfile, Update
    <3>2. file'.prof = [file.prof EXCEPT ![job["owner"].key] = None]
      BY <1>t, <2>2, <3>1, DropIsConfig DEF RegistryTypes
    <3>3. file.prof[job["owner"].key] = d
      BY <1>t, <2>2, <3>2, OneIsOverwritten DEF RegistryTypes
    <3> QED BY <2>5, <3>3 DEF removeProfile
  <2> QED BY <1>3, <2>3, <2>4, <2>5
<1>4. ASSUME NEW w \in Writers, setConfig(w) \/ renameTurns(w) PROVE FALSE
  BY <1>f, <1>4 DEF setConfig, renameTurns, registry
<1>5. CASE Doctor \/ Owner \/ World \/ Turning \/ restart
  BY <1>f, <1>5 DEF Doctor, runDoctor, probe, judge, Owner, accountAdd, collectAccountCards,
     accountSetDefault, accountRemove, accountLogin, World, profileLogin, credentialsLost,
     Turning, startTurn, pickAccount, finishTurn, authStale, rateLimited, retry, restart, registry
<1>6. CASE profileAdd \/ profileRemove \/ profileSetDefault \/ startLogin \/ runAccountLogin
           \/ clearNeedsLogin \/ UNCHANGED vars
  BY <1>f, <1>6 DEF profileAdd, profileRemove, profileSetDefault, Load, startLogin,
     runAccountLogin, clearNeedsLogin, vars, registry
<1> QED BY <1>1, <1>2, <1>3, <1>4, <1>5, <1>6 DEF Next, Writing, Cli

\* The daemon's own changes of the registry keep every account, with the five writers of file and
\* copy interleaved in any order: only the owner's removal, an addition over an account that was not
\* there when the owner's command looked, and the save of a `ccc profile` process take one away.
THEOREM NoAccountIsLost == Spec => AccountStays
<1>1. TypeInv /\ TypeInv' /\ [Next]_vars =>
        [\A d \in DirsOf(file) \ DirsOf(file') :
            \/ at["owner"] = "remove" /\ file.prof[job["owner"].key] = d
            \/ at["owner"] = "add" /\ file.prof[job["owner"].key] = d
            \/ cli # NoCall /\ cli' = NoCall]_vars
  BY StaysNext
<1> QED BY <1>1, TypesAlways, PTL DEF Spec, AccountStays
=============================================================================
