--------------------------- MODULE WebSocketProxy ---------------------------
(***************************************************************************)
(* The server of the WebSocket proxy plugin, through which plugins in      *)
(* other processes join the event bus.                                     *)
(*                                                                         *)
(* A connection registers under a name and then says it is ready; only     *)
(* then its handlers join the bus.  Each connection races its handshake    *)
(* with a timer, and a connection that wins enters the registry            *)
(* (`clients`), a few microtasks after it got ready.  start() waits for    *)
(* the required names, stop() closes whoever is in the registry and waits  *)
(* for all sockets to end.                                                 *)
(*                                                                         *)
(* The bus, the sockets and the clients are the environment: a client may  *)
(* send any message in any state and leave at any time, and nothing tells  *)
(* the server that it left.                                                *)
(***************************************************************************)
EXTENDS Naturals

CONSTANTS
  Conns,      \* connections
  Names,      \* the names remote plugins register with
  Required,   \* the names configured as required
  Events,     \* action events of the bus that the remote plugins listen to
  Stops,      \* the calls of stop(), one for each core.close
  NoConn      \* no connection

ASSUME NamesAssumption == Required \subseteq Names
ASSUME NoConnAssumption == NoConn \notin Conns

VARIABLES
  socket,      \* socket[c]: "none", "open", "closing" (by the server) or "ended"
  state,       \* state[c]: the state of the handshake
  name,        \* name[c]: the names c registered with (none or one)
  window,      \* window[c]: the race of c's handshake with the timer
  clients,     \* clients[n]: the registry of connected clients
  subscribed,  \* connections whose handlers have joined the bus
  started,     \* the promise of start()
  received,    \* received[c]: action events sent to c over an open socket
  pending,     \* pendingActionCtx: <<e, c>> for an event forwarded and not answered
  answers,     \* answers[e][c]: how often the bus was answered e on behalf of c
  stopping     \* stopping[k]: "idle", "waiting", "stopped" or "failed"

connVars == <<socket, state, name, window, clients, subscribed, started>>
busVars == <<received, pending, answers>>
vars == <<connVars, busVars, stopping>>

Init ==
  /\ socket = [c \in Conns |-> "none"]
  /\ state = [c \in Conns |-> "connected"]
  /\ name = [c \in Conns |-> {}]
  /\ window = [c \in Conns |-> "off"]
  /\ clients = [n \in Names |-> NoConn]
  /\ subscribed = {}
  /\ started = IF Required = {} THEN "resolved" ELSE "pending"
  /\ received = [c \in Conns |-> {}]
  /\ pending = {}
  /\ answers = [e \in Events |-> [c \in Conns |-> 0]]
  /\ stopping = [k \in Stops |-> "idle"]

-----------------------------------------------------------------------------
(* A socket the server closes still delivers what was under way.           *)
Delivers(c) == socket[c] \in {"open", "closing"}

Closed(c) == IF socket[c] = "open" THEN "closing" ELSE socket[c]

(* A wrong send that takes the state of the socket for the handshake's.    *)
SentSocket(c, ok) == IF socket[c] = "open" THEN ok ELSE socket[c]

(* What sending to c leaves of its state: on a socket that is not open the *)
(* send fails, and the connection is closed.                               *)
Sent(c, ok) == IF socket[c] = "open" THEN ok ELSE "closed"

(* The race a connection has won and its entry into the registry lie in    *)
(* one run of the microtasks.  The socket that brought the ready message   *)
(* may bring more in the same chunk, and the core's own microtasks may     *)
(* run; other sockets and the timers wait until the connection is in.      *)
Drained(others) == \A d \in others : window[d] # "won"

Running == \A k \in Stops : stopping[k] = "idle"

Connect(c) ==
  /\ Drained(Conns \ {c})
  /\ socket[c] = "none"
  /\ Running
  /\ socket' = [socket EXCEPT ![c] = "open"]
  /\ window' = [window EXCEPT ![c] = "open"]
  /\ UNCHANGED <<state, name, clients, subscribed, started, busVars, stopping>>

(* A wrong register that is taken in any state but "closed".               *)
RegisterAgain(c, n) ==
  /\ Drained(Conns \ {c})
  /\ Delivers(c)
  /\ state[c] # "closed"
  /\ name' = [name EXCEPT ![c] = {n}]
  /\ state' = [state EXCEPT ![c] = Sent(c, "registered")]
  /\ UNCHANGED <<socket, window, clients, subscribed, started, busVars, stopping>>

(* A register message.  The client is told if its name is taken or its     *)
(* token wrong, and is registered either way; what it is told is left out. *)
Register(c, n) ==
  /\ Drained(Conns \ {c})
  /\ Delivers(c)
  /\ state[c] = "connected"
  /\ name' = [name EXCEPT ![c] = {n}]
  /\ state' = [state EXCEPT ![c] = Sent(c, "registered")]
  /\ UNCHANGED <<socket, window, clients, subscribed, started, busVars, stopping>>

(* A ready message: the handlers join the bus, and the race with the timer *)
(* is won unless it is lost already.                                       *)
Ready(c) ==
  /\ Drained(Conns \ {c})
  /\ Delivers(c)
  /\ state[c] = "registered"
  /\ subscribed' = subscribed \cup {c}
  /\ state' = [state EXCEPT ![c] = "ready"]
  /\ window' = [window EXCEPT ![c] = IF @ = "open" THEN "won" ELSE @]
  /\ UNCHANGED <<socket, name, clients, started, busVars, stopping>>

(* A message that is invalid, or that comes out of order: register when    *)
(* not "connected", ready when not "registered", emit when not "ready".    *)
Refuse(c) ==
  /\ Drained(Conns \ {c})
  /\ Delivers(c)
  /\ state' = [state EXCEPT ![c] = "closed"]
  /\ socket' = [socket EXCEPT ![c] = Closed(c)]
  /\ UNCHANGED <<name, window, clients, subscribed, started, busVars, stopping>>

SettleStart(outcome) == started' = IF started = "pending" THEN outcome ELSE started

(* A wrong check of the registry that counts any connected client.         *)
SomebodyConnected(registry) == \E n \in Names : registry[n] # NoConn

(* setContainsAll: the names in the registry are exactly those required.   *)
SetContainsAll(registry) == {n \in Names : registry[n] # NoConn} = Required

(* The continuation of the connection handler, a few microtasks after the  *)
(* client got ready: it enters the registry, in place of a client that had *)
(* its name.                                                               *)
Admit(c) ==
  /\ window[c] = "won"
  /\ window' = [window EXCEPT ![c] = "admitted"]
  /\ clients' = [n \in Names |-> IF n \in name[c] THEN c ELSE clients[n]]
  /\ IF SetContainsAll(clients') THEN SettleStart("resolved") ELSE UNCHANGED started
  /\ UNCHANGED <<socket, state, name, subscribed, busVars, stopping>>

(* The timer of a connection fires before it got ready.                    *)
Expire(c) ==
  /\ Drained(Conns \ {c})
  /\ window[c] = "open"
  /\ window' = [window EXCEPT ![c] = "lost"]
  /\ SettleStart("rejected")
  /\ UNCHANGED <<socket, state, name, clients, subscribed, busVars, stopping>>

-----------------------------------------------------------------------------
(* An action event of the bus: every handler notes the context it has to   *)
(* answer and sends the action to its client.                              *)
Forward(e) ==
  /\ \A c \in Conns : <<e, c>> \notin pending /\ answers[e][c] = 0
  /\ pending' = pending \cup {<<e, c>> : c \in subscribed}
  /\ received' = [c \in Conns |->
       IF c \in subscribed /\ socket[c] = "open" THEN received[c] \cup {e} ELSE received[c]]
  /\ state' = [c \in Conns |-> IF c \in subscribed THEN Sent(c, state[c]) ELSE state[c]]
  /\ UNCHANGED <<socket, name, window, clients, subscribed, started, answers,
                 stopping>>

(* An event, or the result of an action the client emitted, is sent to it. *)
Send(c) ==
  /\ c \in subscribed
  /\ state' = [state EXCEPT ![c] = Sent(c, @)]
  /\ UNCHANGED <<socket, name, window, clients, subscribed, started, busVars,
                 stopping>>

(* A write to an open socket fails.                                        *)
SendFails(c) ==
  /\ Drained(Conns \ {c})
  /\ socket[c] = "open"
  /\ state[c] \in {"registered", "ready"}
  /\ state' = [state EXCEPT ![c] = "closed"]
  /\ socket' = [socket EXCEPT ![c] = "closing"]
  /\ UNCHANGED <<name, window, clients, subscribed, started, busVars, stopping>>

(* A wrong onResponse that leaves the context in place.                    *)
ReplyAgain(e, c) ==
  /\ Drained(Conns \ {c})
  /\ Delivers(c)
  /\ e \in received[c]
  /\ <<e, c>> \in pending
  /\ answers[e][c] < 2
  /\ answers' = [answers EXCEPT ![e][c] = @ + 1]
  /\ UNCHANGED <<connVars, received, pending, stopping>>

(* actionReply or actionError: the bus is answered if an answer is still   *)
(* owed; the state of the connection does not matter.                      *)
Reply(e, c) ==
  /\ Drained(Conns \ {c})
  /\ Delivers(c)
  /\ e \in received[c]
  /\ <<e, c>> \in pending
  /\ pending' = pending \ {<<e, c>>}
  /\ answers' = [answers EXCEPT ![e][c] = @ + 1]
  /\ UNCHANGED <<connVars, received, stopping>>

-----------------------------------------------------------------------------
(* A socket ends: the client left, or the closing handshake is done.       *)
SocketEnds(c) ==
  /\ Drained(Conns \ {c})
  /\ socket[c] \in {"open", "closing"}
  /\ socket' = [socket EXCEPT ![c] = "ended"]
  /\ UNCHANGED <<state, name, window, clients, subscribed, started, busVars,
                 stopping>>

(* A wrong stop that clears the registry before it closes who is in it.    *)
StopCleared(k) ==
  /\ stopping[k] = "idle"
  /\ stopping' = [stopping EXCEPT ![k] = "waiting"]
  /\ clients' = [n \in Names |-> NoConn]
  /\ UNCHANGED <<socket, state, name, window, subscribed, started, busVars>>

Registered == {clients[n] : n \in Names} \ {NoConn}

Stopped == \E k \in Stops : stopping[k] = "stopped"

(* stop: whoever is in the registry is closed, the registry cleared, and   *)
(* the server told to close; a server that has closed already objects.     *)
Stop(k) ==
  /\ stopping[k] = "idle"
  /\ stopping' = [stopping EXCEPT ![k] = IF Stopped THEN "failed" ELSE "waiting"]
  /\ socket' = [c \in Conns |-> IF c \in Registered THEN Closed(c) ELSE socket[c]]
  /\ clients' = [n \in Names |-> NoConn]
  /\ UNCHANGED <<state, name, window, subscribed, started, busVars>>

(* The server has closed once every socket has ended: all stops that wait  *)
(* for it resolve.                                                         *)
ServerCloses ==
  /\ Drained(Conns)
  /\ \E k \in Stops : stopping[k] = "waiting"
  /\ \A c \in Conns : ~Delivers(c)
  /\ stopping' = [k \in Stops |-> IF stopping[k] = "waiting" THEN "stopped" ELSE stopping[k]]
  /\ UNCHANGED <<connVars, busVars>>

Next ==
  \/ \E c \in Conns :
       \/ Connect(c) \/ Ready(c) \/ Refuse(c) \/ Admit(c) \/ Expire(c)
       \/ Send(c) \/ SendFails(c) \/ SocketEnds(c)
       \/ \E n \in Names : Register(c, n)
       \/ \E e \in Events : Reply(e, c)
  \/ \E e \in Events : Forward(e)
  \/ \E k \in Stops : Stop(k)
  \/ ServerCloses

Spec == Init /\ [][Next]_vars

-----------------------------------------------------------------------------
(* Type correctness.                                                       *)
TypeOK ==
  /\ socket \in [Conns -> {"none", "open", "closing", "ended"}]
  /\ state \in [Conns -> {"connected", "registered", "ready", "closed"}]
  /\ name \in [Conns -> SUBSET Names]
  /\ window \in [Conns -> {"off", "open", "won", "admitted", "lost"}]
  /\ clients \in [Names -> Conns \cup {NoConn}]
  /\ subscribed \subseteq Conns
  /\ started \in {"pending", "resolved", "rejected"}
  /\ received \in [Conns -> SUBSET Events]
  /\ pending \subseteq Events \X Conns
  /\ answers \in [Events -> [Conns -> Nat]]
  /\ stopping \in [Stops -> {"idle", "waiting", "stopped", "failed"}]

(* core.ready is answered once start() resolves: by then the handlers of   *)
(* every required remote plugin are on the bus, whatever connections were  *)
(* refused, timed out or replaced on the way.                              *)
StartMeansReady ==
  started = "resolved" =>
    \A n \in Required : \E c \in subscribed : name[c] = {n}

(* A remote plugin that stays connected and was admitted can be reached by *)
(* stop(): the registry holds it, unless a namesake took its place.  So a  *)
(* stop can be kept waiting only by such a replaced client, by one that    *)
(* was not admitted, or by one admitted after the stop had walked the      *)
(* registry.                                                               *)
AdmittedIsRegistered ==
  \A c \in Conns :
    window[c] = "admitted" /\ socket[c] = "open" =>
      \/ c \in Registered
      \/ \E d \in Conns \ {c} : window[d] = "admitted" /\ name[d] = name[c]

(* The registry holds only clients that completed the handshake under the  *)
(* name they are listed with, before their timer fired.                    *)
RegistryIsReady ==
  \A n \in Names :
    LET c == clients[n] IN
    c # NoConn => name[c] = {n} /\ c \in subscribed /\ window[c] = "admitted"

(* A remote handler answers each action it was sent at most once, however  *)
(* often its client replies, and until it has answered it still can, even  *)
(* after its connection was closed under it.                               *)
AnswersOnce ==
  \A e \in Events, c \in Conns :
    /\ answers[e][c] <= 1
    /\ e \in received[c] => (<<e, c>> \in pending <=> answers[e][c] = 0)

(* What the guide says of required plugins: Thymian waits for them to      *)
(* connect; once they all have, it does not wait any longer.               *)
StartsOnceRequiredConnected ==
  (\A n \in Required : clients[n] # NoConn) => started # "pending"
=============================================================================
