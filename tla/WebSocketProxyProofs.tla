------------------------ MODULE WebSocketProxyProofs ------------------------
(***************************************************************************)
(* Proofs about WebSocketProxy, for any connections, names, required names,*)
(* events and stops.                                                       *)
(***************************************************************************)
EXTENDS WebSocketProxy, TLAPS

(* What the handshake has established of a connection.                     *)
Handshake ==
  \A c \in Conns :
    /\ state[c] = "registered" => \E n \in Names : name[c] = {n}
    /\ c \in subscribed =>
         /\ state[c] \in {"ready", "closed"}
         /\ \E n \in Names : name[c] = {n}
    /\ window[c] \in {"won", "admitted"} => c \in subscribed
    /\ socket[c] = "none" => window[c] = "off"

(* An answer is owed as long as it has not been given.                     *)
Answering ==
  \A e \in Events, c \in Conns :
    /\ <<e, c>> \in pending => answers[e][c] = 0
    /\ answers[e][c] <= 1
    /\ e \in received[c] => (<<e, c>> \in pending <=> answers[e][c] = 0)

(* The inductive invariant.                                                *)
IInv ==
  /\ TypeOK /\ Handshake /\ Answering
  /\ StartMeansReady /\ AdmittedIsRegistered /\ RegistryIsReady
-----------------------------------------------------------------------------
LEMMA InitIInv == Init => IInv
<1> SUFFICES ASSUME Init PROVE IInv
  OBVIOUS
<1> USE NoConnAssumption DEF Init
<1>1. TypeOK
  <2>1. answers \in [Events -> [Conns -> Nat]]
    OBVIOUS
  <2>2. name \in [Conns -> SUBSET Names] /\ received \in [Conns -> SUBSET Events]
    OBVIOUS
  <2> QED BY <2>1, <2>2 DEF TypeOK
<1>2. Handshake /\ RegistryIsReady /\ StartMeansReady
  BY DEF Handshake, RegistryIsReady, StartMeansReady
<1>3. Answering /\ AdmittedIsRegistered
  BY DEF Answering, AdmittedIsRegistered
<1> QED BY <1>1, <1>2, <1>3 DEF IInv

(* The steps of a connection before it is admitted, and the failures of    *)
(* one: they leave the registry, the bus and the stops alone.              *)
LEMMA ConnStep ==
  ASSUME IInv, NEW c \in Conns,
         \/ Connect(c) \/ Ready(c) \/ Refuse(c) \/ Expire(c)
         \/ Send(c) \/ SendFails(c) \/ SocketEnds(c)
         \/ \E n \in Names : Register(c, n)
  PROVE  IInv'
<1> USE DEF IInv
<1>1. TypeOK'
  <2>1. CASE Connect(c) \/ Ready(c) \/ SocketEnds(c)
    BY <2>1 DEF TypeOK, Connect, Ready, SocketEnds, busVars
  <2>2. CASE Refuse(c) \/ SendFails(c)
    BY <2>2 DEF TypeOK, Refuse, SendFails, Closed, busVars
  <2>3. CASE Send(c)
    BY <2>3 DEF TypeOK, Send, Sent, busVars
  <2>4. CASE \E n \in Names : Register(c, n)
    BY <2>4 DEF TypeOK, Register, Sent, busVars
  <2>5. CASE Expire(c)
    BY <2>5 DEF TypeOK, Expire, SettleStart, busVars
  <2> QED BY <2>1, <2>2, <2>3, <2>4, <2>5
<1>2. UNCHANGED <<clients, received, pending, answers>>
  BY DEF Connect, Ready, Refuse, Expire, Send, SendFails, SocketEnds, Register, busVars
<1>3. /\ subscribed \subseteq subscribed'
      /\ \A d \in subscribed : name'[d] = name[d]
      /\ started' = "resolved" => started = "resolved"
  BY DEF TypeOK, Handshake, Connect, Ready, Refuse, Expire, Send, SendFails, SocketEnds,
         Register, SettleStart
<1>4. \A d \in Conns :
        /\ window'[d] = "admitted" <=> window[d] = "admitted"
        /\ window[d] = "admitted" /\ socket'[d] = "open" => socket[d] = "open"
  <2>1. CASE Connect(c)
    BY <2>1 DEF TypeOK, Handshake, Connect
  <2>2. CASE ~Connect(c)
    BY <2>2 DEF TypeOK, Ready, Refuse, Expire, Send, SendFails, SocketEnds, Register, Closed
  <2> QED BY <2>1, <2>2
<1>5. Handshake'
  <2>1. CASE \E n \in Names : Register(c, n)
    BY <2>1 DEF TypeOK, Handshake, Register, Delivers, Sent
  <2>2. CASE Ready(c)
    BY <2>2 DEF TypeOK, Handshake, Ready, Delivers
  <2>3. CASE Connect(c) \/ Refuse(c) \/ Expire(c) \/ Send(c) \/ SendFails(c) \/ SocketEnds(c)
    BY <2>3 DEF TypeOK, Handshake, Connect, Refuse, Delivers, Closed, Expire, Send, SendFails,
                SocketEnds, Sent
  <2> QED BY <2>1, <2>2, <2>3
<1>6. StartMeansReady'
  BY <1>3 DEF StartMeansReady
<1>7. RegistryIsReady'
  BY <1>2, <1>3, <1>4, NoConnAssumption DEF RegistryIsReady, TypeOK
<1>8. AdmittedIsRegistered'
  <2>1. \A d \in Conns : window[d] = "admitted" => name'[d] = name[d]
    BY <1>3 DEF Handshake
  <2> QED BY <1>2, <1>4, <2>1 DEF AdmittedIsRegistered, Registered
<1>9. Answering'
  BY <1>2 DEF Answering
<1> QED BY <1>1, <1>5, <1>6, <1>7, <1>8, <1>9

LEMMA AdmitStep ==
  ASSUME IInv, NEW c \in Conns, Admit(c)
  PROVE  IInv'
<1> USE DEF IInv
<1>1. PICK n \in Names : name[c] = {n}
  BY DEF Admit, Handshake
<1>2. clients' = [clients EXCEPT ![n] = c] /\ c # NoConn
  BY <1>1, NoConnAssumption DEF Admit, TypeOK
<1>3. window' = [window EXCEPT ![c] = "admitted"] /\ c \in subscribed
  BY DEF Admit, Handshake
<1>4. UNCHANGED <<socket, state, name, subscribed, received, pending, answers>>
  BY DEF Admit, busVars
<1>5. TypeOK'
  BY <1>2 DEF TypeOK, Admit, SettleStart, busVars
<1>6. Handshake' /\ Answering'
  <2>1. window[c] = "won"
    BY DEF Admit
  <2> QED BY <1>3, <1>4, <2>1 DEF Handshake, Answering, TypeOK
<1>7. RegistryIsReady'
  BY <1>1, <1>2, <1>3, <1>4, NoConnAssumption DEF RegistryIsReady, TypeOK
<1>8. StartMeansReady'
  <2>1. CASE SetContainsAll(clients')
    <3>1. \A m \in Required : m \in Names /\ clients'[m] # NoConn
      BY <2>1 DEF SetContainsAll
    <3>2. \A m \in Required : clients'[m] \in subscribed /\ name[clients'[m]] = {m}
      BY <1>4, <1>7, <3>1 DEF RegistryIsReady
    <3> QED BY <1>4, <3>2 DEF StartMeansReady
  <2>2. CASE ~SetContainsAll(clients')
    BY <1>4, <2>2 DEF Admit, StartMeansReady
  <2> QED BY <2>1, <2>2
<1>9. AdmittedIsRegistered'
  <2> SUFFICES ASSUME NEW d \in Conns, window'[d] = "admitted", socket'[d] = "open"
               PROVE  \/ d \in Registered'
                      \/ \E x \in Conns \ {d} : window'[x] = "admitted" /\ name'[x] = name'[d]
    BY DEF AdmittedIsRegistered
  <2>1. CASE d = c
    BY <1>2, <2>1 DEF Registered, TypeOK
  <2>2. CASE d # c /\ name[d] = {n}
    BY <1>1, <1>3, <1>4, <2>2 DEF TypeOK
  <2>3. CASE d # c /\ name[d] # {n}
    <3>1. window[d] = "admitted" /\ socket[d] = "open"
      BY <1>3, <1>4, <2>3 DEF TypeOK
    <3>2. CASE d \in Registered
      <4>1. PICK m \in Names : clients[m] = d /\ d # NoConn
        BY <3>2 DEF Registered
      <4>2. m # n
        BY <2>3, <4>1 DEF RegistryIsReady
      <4>3. clients'[m] = d
        BY <1>2, <4>1, <4>2 DEF TypeOK
      <4> QED BY <4>1, <4>3 DEF Registered
    <3>3. CASE \E x \in Conns \ {d} : window[x] = "admitted" /\ name[x] = name[d]
      BY <1>3, <1>4, <3>3 DEF TypeOK
    <3> QED BY <3>1, <3>2, <3>3 DEF AdmittedIsRegistered
  <2> QED BY <2>1, <2>2, <2>3
<1> QED BY <1>5, <1>6, <1>7, <1>8, <1>9

LEMMA BusStep ==
  ASSUME IInv, NEW e \in Events,
         Forward(e) \/ \E c \in Conns : Reply(e, c)
  PROVE  IInv'
<1> USE DEF IInv
<1>1. UNCHANGED <<socket, name, window, clients, subscribed, started>>
  BY DEF Forward, Reply, connVars
<1>2. TypeOK'
  <2>1. CASE Forward(e)
    BY <2>1 DEF TypeOK, Forward, Sent
  <2>2. CASE \E c \in Conns : Reply(e, c)
    BY <2>2 DEF TypeOK, Reply, connVars
  <2> QED BY <2>1, <2>2
<1>3. Handshake'
  BY <1>1 DEF Handshake, Forward, Reply, Sent, connVars
<1>4. StartMeansReady' /\ AdmittedIsRegistered' /\ RegistryIsReady'
  BY <1>1 DEF StartMeansReady, AdmittedIsRegistered, RegistryIsReady, Registered
<1>5. Answering'
  <2>1. CASE Forward(e)
    BY <2>1 DEF Answering, Forward, TypeOK
  <2>2. CASE \E c \in Conns : Reply(e, c)
    <3>1. PICK c \in Conns : Reply(e, c)
      BY <2>2
    <3>2. answers[e][c] = 0 /\ UNCHANGED received
      BY <3>1 DEF Answering, Reply
    <3>3. \A f \in Events, d \in Conns :
            /\ answers'[f][d] = IF f = e /\ d = c THEN 1 ELSE answers[f][d]
            /\ <<f, d>> \in pending' <=> <<f, d>> \in pending /\ ~(f = e /\ d = c)
      BY <3>1, <3>2 DEF Reply, TypeOK
    <3>4. ASSUME NEW f \in Events, NEW d \in Conns
          PROVE  /\ <<f, d>> \in pending' => answers'[f][d] = 0
                 /\ answers'[f][d] <= 1
                 /\ f \in received'[d] => (<<f, d>> \in pending' <=> answers'[f][d] = 0)
      BY <3>2, <3>3 DEF Answering
    <3> QED BY <3>4 DEF Answering
  <2> QED BY <2>1, <2>2
<1> QED BY <1>2, <1>3, <1>4, <1>5

LEMMA StopStep ==
  ASSUME IInv, (\E k \in Stops : Stop(k)) \/ ServerCloses
  PROVE  IInv'
<1> USE DEF IInv
<1>1. CASE \E k \in Stops : Stop(k)
  <2>1. /\ clients' = [n \in Names |-> NoConn]
        /\ \A c \in Conns : socket'[c] = "open" => socket[c] = "open" /\ c \notin Registered
    BY <1>1, NoConnAssumption DEF Stop, Closed, TypeOK
  <2>2. UNCHANGED <<state, name, window, subscribed, started, received, pending, answers>>
    BY <1>1 DEF Stop, busVars
  <2>3. TypeOK'
    BY <1>1, <2>1 DEF Stop, TypeOK, Closed, busVars
  <2>4. Handshake' /\ Answering' /\ StartMeansReady'
    <3>1. \A c \in Conns : socket'[c] = "none" => socket[c] = "none"
      BY <1>1 DEF Stop, Closed, TypeOK
    <3> QED BY <2>2, <3>1 DEF Handshake, Answering, StartMeansReady
  <2>5. RegistryIsReady'
    BY <2>1 DEF RegistryIsReady
  <2>6. AdmittedIsRegistered'
    BY <2>1, <2>2 DEF AdmittedIsRegistered
  <2> QED BY <2>3, <2>4, <2>5, <2>6
<1>2. CASE ServerCloses
  <2>1. UNCHANGED <<connVars, busVars>>
    BY <1>2 DEF ServerCloses
  <2>2. TypeOK'
    BY <1>2, <2>1 DEF ServerCloses, connVars, busVars, TypeOK
  <2>3. Handshake' /\ Answering' /\ StartMeansReady' /\ RegistryIsReady'
    BY <2>1 DEF connVars, busVars, Handshake, Answering, StartMeansReady, RegistryIsReady
  <2>4. AdmittedIsRegistered'
    BY <2>1 DEF connVars, AdmittedIsRegistered, Registered
  <2> QED BY <2>2, <2>3, <2>4
<1> QED BY <1>1, <1>2

LEMMA StepIInv == IInv /\ [Next]_vars => IInv'
<1> SUFFICES ASSUME IInv, [Next]_vars PROVE IInv'
  OBVIOUS
<1>1. ASSUME NEW c \in Conns,
             \/ Connect(c) \/ Ready(c) \/ Refuse(c) \/ Expire(c)
             \/ Send(c) \/ SendFails(c) \/ SocketEnds(c)
             \/ \E n \in Names : Register(c, n)
      PROVE  IInv'
  BY <1>1, ConnStep
<1>2. ASSUME NEW c \in Conns, Admit(c) PROVE IInv'
  BY <1>2, AdmitStep
<1>3. ASSUME NEW e \in Events, Forward(e) \/ \E c \in Conns : Reply(e, c) PROVE IInv'
  BY <1>3, BusStep
<1>4. CASE (\E k \in Stops : Stop(k)) \/ ServerCloses
  BY <1>4, StopStep
<1>5. CASE UNCHANGED vars
  <2> USE <1>5 DEF vars, connVars, busVars, IInv
  <2>1. TypeOK' /\ Handshake' /\ Answering'
    BY DEF TypeOK, Handshake, Answering
  <2>2. StartMeansReady' /\ AdmittedIsRegistered' /\ RegistryIsReady'
    BY DEF StartMeansReady, AdmittedIsRegistered, Registered, RegistryIsReady
  <2> QED BY <2>1, <2>2
<1> QED BY <1>1, <1>2, <1>3, <1>4, <1>5 DEF Next

LEMMA Invariance == Spec => []IInv
BY InitIInv, StepIInv, PTL DEF Spec
-----------------------------------------------------------------------------
(* The types of the proxy's state are respected.                           *)
THEOREM TypeCorrect == Spec => []TypeOK
<1>1. IInv => TypeOK
  BY DEF IInv
<1> QED BY <1>1, Invariance, PTL

(* start() resolves only when all required plugins are on the bus.         *)
THEOREM ReadyWhenStarted == Spec => []StartMeansReady
<1>1. IInv => StartMeansReady
  BY DEF IInv
<1> QED BY <1>1, Invariance, PTL

(* stop() reaches every admitted client that was not replaced.             *)
THEOREM StopReaches == Spec => []AdmittedIsRegistered
<1>1. IInv => AdmittedIsRegistered
  BY DEF IInv
<1> QED BY <1>1, Invariance, PTL

(* The registry holds only clients that completed the handshake in time.   *)
THEOREM RegistryCorrect == Spec => []RegistryIsReady
<1>1. IInv => RegistryIsReady
  BY DEF IInv
<1> QED BY <1>1, Invariance, PTL

(* A remote handler answers an action at most once, and can until then.    *)
THEOREM OneAnswer == Spec => []AnswersOnce
<1>1. IInv => AnswersOnce
  BY DEF IInv, Answering, AnswersOnce
<1> QED BY <1>1, Invariance, PTL

(* StartsOnceRequiredConnected is missed only by a client nobody required: *)
(* where just the required names ever connect, start() has settled by the  *)
(* time the registry holds them all.                                       *)
THEOREM OnlyRequired ==
  ASSUME Names = Required
  PROVE  Spec => []StartsOnceRequiredConnected
<1> DEFINE AllIn == \A n \in Required : clients[n] # NoConn
<1>1. Init => StartsOnceRequiredConnected
  BY DEF Init, StartsOnceRequiredConnected
<1>2. ASSUME IInv, StartsOnceRequiredConnected, [Next]_vars
      PROVE  StartsOnceRequiredConnected'
  <2> USE <1>2 DEF StartsOnceRequiredConnected
  <2>1. ASSUME UNCHANGED <<clients, started>> PROVE StartsOnceRequiredConnected'
    BY <2>1
  <2>2. ASSUME NEW c \in Conns, Admit(c) PROVE StartsOnceRequiredConnected'
    <3>1. CASE SetContainsAll(clients')
      BY <2>2, <3>1 DEF Admit, SettleStart
    <3>2. CASE ~SetContainsAll(clients')
      <4>1. \E n \in Required : clients'[n] = NoConn
        BY <3>2 DEF SetContainsAll
      <4> QED BY <4>1
    <3> QED BY <3>1, <3>2
  <2>3. ASSUME NEW c \in Conns, Expire(c) PROVE StartsOnceRequiredConnected'
    BY <2>3 DEF Expire, SettleStart
  <2>4. ASSUME NEW k \in Stops, Stop(k) PROVE StartsOnceRequiredConnected'
    BY <2>4 DEF Stop
  <2> QED
    BY <2>1, <2>2, <2>3, <2>4
    DEF Next, Connect, Register, Ready, Refuse, Send, SendFails, SocketEnds, Reply, Forward,
        ServerCloses, vars, connVars
<1> QED BY <1>1, <1>2, Invariance, PTL DEF Spec
=============================================================================
