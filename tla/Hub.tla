---------------------------------- MODULE Hub ----------------------------------
(***************************************************************************)
(* The daemon and the paired phones over the public hub: the relay that    *)
(* registers one websocket per key (hub_server.go), the instance's         *)
(* connection, its pairing codes and its devices (hub_client.go,           *)
(* hub_pair.go), and the events that tell the phones of questions.         *)
(*                                                                         *)
(* A peer's sockets are numbered; the hub serves each in a goroutine of    *)
(* its own, so that the open frame of a socket that is already dead may be *)
(* read after that of the next.  Phones connect as the instance does; of   *)
(* them only whether one is connected is kept.  Encryption, pings and      *)
(* deadlines are left out: a dead socket is noticed sooner or later.       *)
(***************************************************************************)
EXTENDS Naturals, FiniteSets

CONSTANTS
    Phones,     \* device keys
    Codes,      \* pairing codes
    Questions,  \* questions of sessions to the owner
    Sockets,    \* sockets of the instance
    None,       \* no socket, nothing pushed yet
    MaxEvents   \* bound: what the world does

ASSUME HubAssumption == None \notin Sockets /\ MaxEvents \in Nat

VARIABLES
    wire,       \* sockets whose open frame the hub has not read
    handlers,   \* sockets a handleWS goroutine serves
    shut,       \* those of them the hub has closed
    conns,      \* hubRelay.conns for the instance's key
    codes,      \* hubRelay.codes
    socket,     \* hubClient.conn
    greeted,    \* the hub's answer to the open frame has been read
    online,     \* phones that are registered at the hub
    offers,     \* hub_pair_codes: codes that have not expired
    devices,    \* hub_devices
    peers,      \* hubClient.peers
    open,       \* unanswered questions of live sessions
    pendingQ,   \* hubClient.pendingQ
    flush,      \* where fileLoop is in flushQuestions
    answering,  \* where the read loop is in answerPending
    told,       \* history: questions whose last event was "question"
    raced,      \* history: questions answered on a phone while the event was on its way
    advertised, \* history: codes the hub has been offered
    steady,     \* history: codes minted over a connection that has held since
    events      \* how much of MaxEvents is spent

relay == <<wire, handlers, shut, conns, codes>>
link == <<socket, greeted, online>>
pairing == <<offers, devices, peers, advertised, steady>>
asking == <<open, pendingQ, flush, answering, told, raced>>
vars == <<relay, link, pairing, asking, events>>

Rest == [pc |-> "rest", list |-> {}, out |-> {}]
Kinds == {"question", "answered"}

\* The types of the relay's maps, of the connection and of the question events.
TypeOK ==
    /\ wire \subseteq Sockets /\ handlers \subseteq Sockets /\ shut \subseteq handlers
    /\ conns \in Sockets \cup {None} /\ socket \in Sockets \cup {None}
    /\ codes \subseteq Codes /\ offers \subseteq Codes
    /\ advertised \subseteq Codes /\ steady \subseteq Codes
    /\ greeted \in BOOLEAN
    /\ online \subseteq Phones /\ devices \subseteq Phones /\ peers \subseteq Phones
    /\ open \subseteq Questions /\ told \subseteq Questions /\ raced \subseteq Questions
    /\ pendingQ = None \/ pendingQ \subseteq Questions
    /\ flush \in [pc : {"rest", "compare", "push"}, list : SUBSET Questions,
                  out : SUBSET (Kinds \X Questions)]
    /\ answering \in [pc : {"rest", "forget", "push"}, q : Questions \cup {None}]
    /\ events \in 0..MaxEvents

Idle == [pc |-> "rest", q |-> None]

\* startHubClient: the devices of the table, no connection, nothing pushed.
Init ==
    /\ wire = {} /\ handlers = {} /\ shut = {} /\ conns = None /\ codes = {}
    /\ socket = None /\ greeted = FALSE /\ online = Phones
    /\ offers = {} /\ devices \in SUBSET Phones /\ peers = devices
    /\ advertised = {} /\ steady = {}
    /\ open = {} /\ pendingQ = None /\ flush = Rest /\ answering = Idle
    /\ told = {} /\ raced = {}
    /\ events = 0
-----------------------------------------------------------------------------
Event == events < MaxEvents /\ events' = events + 1

\* forward: a frame reaches the instance if the registered socket is the one it reads.
Reaches == socket # None /\ conns = socket /\ socket \notin shut
Served(p) == p \in online /\ p \in peers /\ Reaches

(* The instance's connection: connect and loop. *)

dial ==
    /\ socket = None /\ answering = Idle
    /\ \E s \in Sockets \ (wire \cup handlers) :
          /\ socket' = s
          /\ wire' = wire \cup {s}
    /\ greeted' = FALSE
    /\ UNCHANGED <<handlers, shut, conns, codes, online, pairing, asking, events>>

\* The connection breaks, and the read loop comes to notice.
Cut == socket' = None /\ greeted' = FALSE /\ steady' = {}
disconnect ==
    /\ socket # None
    /\ Event
    /\ Cut
    /\ UNCHANGED <<relay, online, offers, devices, peers, advertised, asking>>

\* The read fails because the hub closed the socket.
hungUp ==
    /\ socket # None /\ socket \notin wire \cup (handlers \ shut)
    /\ Cut
    /\ UNCHANGED <<relay, online, offers, devices, peers, advertised, asking, events>>

\* offerPending: when the open frame is written, and again when the hub answers it.
offerPending ==
    /\ codes' = codes \cup offers
    /\ advertised' = advertised \cup offers

greet ==
    /\ Reaches /\ ~greeted /\ answering = Idle
    /\ greeted' = TRUE
    /\ offerPending
    /\ UNCHANGED <<wire, handlers, shut, conns, socket, online, offers, devices, peers, steady,
                   asking, events>>

(* The hub: handleWS. *)

\* Mutant of register: the older connection of the key is left open.
registerKeepMutant(s) ==
    /\ s \in wire
    /\ wire' = wire \ {s}
    /\ handlers' = handlers \cup {s}
    /\ conns' = s
    /\ \/ s = socket /\ offerPending
       \/ s # socket /\ UNCHANGED <<codes, advertised>>
    /\ UNCHANGED <<shut, link, offers, devices, peers, steady, asking, events>>

\* The open frame: the newest socket to say open is the key's, the one before is closed.
register(s) ==
    /\ s \in wire
    /\ wire' = wire \ {s}
    /\ handlers' = handlers \cup {s}
    /\ shut' = IF conns = None THEN shut ELSE shut \cup {conns}
    /\ conns' = s
    /\ \/ s = socket /\ offerPending
       \/ s # socket /\ UNCHANGED <<codes, advertised>>
    /\ UNCHANGED <<link, offers, devices, peers, steady, asking, events>>

\* The handler of a dead or closed socket ends; the key is its own to give up or another's.
leave(s) ==
    /\ s \in handlers /\ (s # socket \/ s \in shut)
    /\ handlers' = handlers \ {s}
    /\ shut' = shut \ {s}
    /\ conns' = IF conns = s THEN None ELSE conns
    /\ UNCHANGED <<wire, codes, link, pairing, asking, events>>

\* A socket that died before its open frame was read.
unread(s) ==
    /\ s \in wire /\ s # socket
    /\ wire' = wire \ {s}
    /\ UNCHANGED <<handlers, shut, conns, codes, link, pairing, asking, events>>

\* gc, and the hub process itself.
forgetCode(c) ==
    /\ c \in codes
    /\ codes' = codes \ {c}
    /\ UNCHANGED <<wire, handlers, shut, conns, link, pairing, asking, events>>

hubRestarts ==
    /\ Event
    /\ wire' = {} /\ handlers' = {} /\ shut' = {} /\ conns' = None /\ codes' = {}
    /\ Cut /\ online' = {}
    /\ UNCHANGED <<offers, devices, peers, advertised, asking>>

phone(p) ==
    /\ Event
    /\ online' = IF p \in online THEN online \ {p} ELSE online \cup {p}
    /\ UNCHANGED <<relay, socket, greeted, pairing, asking>>
-----------------------------------------------------------------------------
(* Pairing. *)

\* `ccc pair`, another process: a row, and nothing else.
mintCode(c) ==
    /\ Event
    /\ c \notin offers \cup advertised \cup codes
    /\ offers' = offers \cup {c}
    /\ steady' = IF Reaches /\ greeted THEN steady \cup {c} ELSE steady
    /\ UNCHANGED <<relay, link, devices, peers, advertised, asking>>

expireCode(c) ==
    /\ c \in offers
    /\ offers' = offers \ {c}
    /\ UNCHANGED <<relay, link, devices, peers, advertised, steady, asking, events>>

\* handlePair, on the frame a phone sent with the code.
handlePair(p, c) ==
    /\ Event
    /\ p \in online /\ c \in codes /\ Reaches /\ answering = Idle
    /\ offers' = offers \ {c}
    /\ devices' = devices \cup {p}
    /\ peers' = peers \cup {p}
    /\ UNCHANGED <<relay, link, advertised, steady, asking>>

\* `ccc unpair`, another process: the daemon's copy keeps the device until it restarts.
unpair(p) ==
    /\ Event
    /\ p \in devices
    /\ devices' = devices \ {p}
    /\ UNCHANGED <<relay, link, offers, peers, advertised, steady, asking>>
-----------------------------------------------------------------------------
(* Questions: fileLoop tells what changed since it looked last; an answer   *)
(* that comes over the hub tells it at once.                                *)

Push(kind, q) == told' = IF kind = "question" THEN told \cup {q} ELSE told \ {q}

ask(q) ==
    /\ Event
    /\ q \notin open
    /\ open' = open \cup {q}
    /\ UNCHANGED <<relay, link, pairing, pendingQ, flush, answering, told, raced>>

\* The owner answers in Telegram, or the session is archived.
settle(q) ==
    /\ q \in open
    /\ open' = open \ {q}
    /\ UNCHANGED <<relay, link, pairing, pendingQ, flush, answering, told, raced, events>>

\* flushQuestions, once a second: the table is read before the lock is taken.
liveQuestions ==
    /\ flush.pc = "rest"
    /\ flush' = [Rest EXCEPT !.pc = "compare", !.list = open]
    /\ UNCHANGED <<relay, link, pairing, open, pendingQ, answering, told, raced, events>>

\* Mutant of compare: what left the list is forgotten without a word.
compareSilentMutant ==
    /\ flush.pc = "compare"
    /\ pendingQ' = flush.list
    /\ \/ pendingQ = None /\ flush' = Rest
       \/ /\ pendingQ # None
          /\ flush' = [Rest EXCEPT !.pc = "push",
                                   !.out = {<<"question", q>> : q \in flush.list \ pendingQ}]
    /\ UNCHANGED <<relay, link, pairing, open, answering, told, raced, events>>

compare ==
    /\ flush.pc = "compare"
    /\ pendingQ' = flush.list
    /\ \/ pendingQ = None /\ flush' = Rest
       \/ /\ pendingQ # None
          /\ flush' = [Rest EXCEPT !.pc = "push",
                                   !.out = {<<"question", q>> : q \in flush.list \ pendingQ} \cup
                                           {<<"answered", q>> : q \in pendingQ \ flush.list}]
    /\ UNCHANGED <<relay, link, pairing, open, answering, told, raced, events>>

pushEvents ==
    /\ flush.pc = "push"
    /\ \/ flush.out = {} /\ flush' = Rest /\ UNCHANGED told
       \/ \E e \in flush.out :
             /\ e[1] = "answered" => \A f \in flush.out : f[1] = "answered"
             /\ flush' = [flush EXCEPT !.out = @ \ {e}]
             /\ Push(e[1], e[2])
    /\ UNCHANGED <<relay, link, pairing, open, pendingQ, answering, raced, events>>

\* rpcAnswer, and rpcSend to a session that waits: the row, then what was pushed, then an event.
rpcAnswer(p, q) ==
    /\ Served(p) /\ answering = Idle
    /\ Event
    /\ q \in open
    /\ open' = open \ {q}
    /\ answering' = [pc |-> "forget", q |-> q]
    /\ UNCHANGED <<relay, link, pairing, pendingQ, flush, told, raced>>

noteQuestionGone ==
    /\ answering.pc = "forget"
    /\ pendingQ' = IF pendingQ = None THEN None ELSE pendingQ \ {answering.q}
    /\ answering' = [answering EXCEPT !.pc = "push"]
    /\ raced' = IF <<"question", answering.q>> \in flush.out THEN raced \cup {answering.q} ELSE raced
    /\ UNCHANGED <<relay, link, pairing, open, flush, told, events>>

pushAnswered ==
    /\ answering.pc = "push"
    /\ Push("answered", answering.q)
    /\ answering' = Idle
    /\ UNCHANGED <<relay, link, pairing, open, pendingQ, flush, raced, events>>

\* The daemon starts again, and loads the devices; what it had pushed is forgotten.
restart ==
    /\ Event
    /\ Cut
    /\ peers' = devices
    /\ pendingQ' = None /\ flush' = Rest /\ answering' = Idle
    /\ told' = {} /\ raced' = {}
    /\ UNCHANGED <<relay, online, offers, devices, advertised, open>>

Relay == \E s \in Sockets : register(s) \/ leave(s) \/ unread(s)
FileLoop == liveQuestions \/ compare \/ pushEvents
Answering == noteQuestionGone \/ pushAnswered
Pairing == \E c \in Codes : mintCode(c) \/ expireCode(c) \/ forgetCode(c)
Owner == \E q \in Questions : ask(q) \/ settle(q)
Breaking == disconnect \/ hubRestarts \/ \E p \in Phones : phone(p) \/ unpair(p)

\* What the goroutine of the connection does, and what goes on beside it.
ReadLoop ==
    \/ dial \/ greet
    \/ \E p \in Phones, c \in Codes : handlePair(p, c)
    \/ \E p \in Phones, q \in Questions : rpcAnswer(p, q)
Beside == Relay \/ hungUp \/ FileLoop \/ Answering \/ Pairing \/ Owner \/ Breaking

HubNext == ReadLoop \/ Beside \/ restart

Spec == Init /\ [][HubNext]_vars
-----------------------------------------------------------------------------
\* A daemon that stays up can be reached again: whatever breaks, and whichever of its sockets
\* the hub hears last, the connection it reads ends up as the registered one (handleWS, loop).
Reachable == []<>Reaches

\* A question that was announced and is then answered in Telegram, or goes with its session, is
\* withdrawn.  An answer over the hub while the announcement waits to be sent is excepted: its
\* "answered" overtakes the "question" (flushQuestions, answerPending).  What an earlier daemon
\* announced is not told: a restart forgets it, and nobody withdraws what is answered by then.
AnsweredWithdrawn == \A q \in Questions : []<>(q \in told => q \in open \cup raced)

\* What hub_client.go says of a code: "listen advertises it to the hub until it expires".  One
\* that was minted over a connection that has held since does not expire unadvertised.
AdvertisedUntilExpiry ==
    [][\A c \in steady : c \in offers /\ c \notin offers' => c \in advertised]_vars
=============================================================================
