---------------------------- MODULE DaemonProofs ----------------------------
(***************************************************************************)
(* Theorems about Daemon for any set of clients, objects and values, any   *)
(* behaviour of the clients and any removal and deletion of objects.       *)
(*                                                                         *)
(* Everything rests on the inductive invariant IInv: the tables of Client  *)
(* and the subscriber counts of the sensors bound each other in a chain,   *)
(*   book entry => stored connection => live connection => live sensor,    *)
(*   number of live connections <= subscriber count.                       *)
(*                                                                         *)
(* The second half is about clients that subscribe once, and the paths     *)
(* whose objects are not removed, whatever happens to the others. There    *)
(* each of these bounds is an equality (PInv), counts are exact and what   *)
(* is told is current. If no object is removed that is so of every path,   *)
(* and the daemon implements SubscriptionService.                          *)
(***************************************************************************)
EXTENDS Daemon, FiniteSetTheorems, SequenceTheorems, WellFoundedInduction, TLAPS

(* A book entry names the sensor registered under its path and has a       *)
(* stored connection.                                                      *)
BookBacked ==
  \A c \in Clients, p \in Paths :
    m_subscribedSensors[c][p] # NoSensor =>
      /\ container[p[1]] # NoObject
      /\ m_subscribedSensors[c][p] = <<container[p[1]], p[2]>>
      /\ m_subscribedSensors[c][p] \in m_connections[c]

(* A stored connection is live.                                            *)
StoredIsLive ==
  \A c \in Clients : \A s \in m_connections[c] : listeners[c][s] > 0

(* Only an existing client listens, and only to an existing sensor.        *)
ListenersExist ==
  \A c \in Clients, s \in Sensors :
    listeners[c][s] > 0 => s[1] \in alive /\ c \in m_clients

(* Every live connection was paid for with a subscribe() on the sensor.    *)
ListenersCounted ==
  \A c \in Clients, s \in Sensors : listeners[c][s] <= subscribers[s][c]

(* The container registers existing objects under their own id.            *)
ContainerSound ==
  \A i \in Ids : container[i] # NoObject =>
    container[i] \in alive /\ IdOf[container[i]] = i

IInv ==
  /\ TypeOK
  /\ BookBacked
  /\ StoredIsLive
  /\ ListenersExist
  /\ ListenersCounted
  /\ ContainerSound

-----------------------------------------------------------------------------
(* A nonempty set of positions of a list has a greatest element.           *)
LEMMA MaxPosition ==
  ASSUME NEW n \in Nat, NEW S \in SUBSET (1 .. n), S # {}
  PROVE  Max(S) \in S
<1> DEFINE T == {n - i : i \in S}
<1>0. \A i \in S : i \in Nat /\ i <= n
  OBVIOUS
<1>1. T \subseteq Nat /\ T # {}
  <2>1. ASSUME NEW i \in S PROVE n - i \in Nat
    BY <1>0
  <2> QED
    BY <2>1, Zenon
<1>2. \E x \in T : \A y \in T : ~ (<<y, x>> \in OpToRel(<, Nat))
  BY <1>1, NatLessThanWellFounded, WFMin
<1>3. PICK x \in T : \A y \in T : ~ (y < x)
  BY <1>1, <1>2 DEF OpToRel
<1>4. PICK i \in S : x = n - i
  BY Zenon
<1>5. \A j \in S : i >= j
  <2> TAKE j \in S
  <2>1. n - j \in T
    BY Zenon
  <2>2. ~ (n - j < n - i)
    BY <1>3, <1>4, <2>1
  <2> QED
    BY <1>0, <2>2
<1> QED
  BY <1>5 DEF Max

-----------------------------------------------------------------------------
(* Paths and sensors.                                                      *)
LEMMA PathType == \A s \in Sensors : path(s) \in Paths
BY ObjectAssumption DEF path, Sensors, Paths

LEMMA FindSensorType ==
  ASSUME TypeOK, NEW p \in Paths
  PROVE  /\ findSensor(p) # NoSensor <=> container[p[1]] # NoObject
         /\ findSensor(p) # NoSensor => findSensor(p) \in Sensors
         /\ findSensor(p) # NoSensor => findSensor(p) = <<container[p[1]], p[2]>>
<1>1. p[1] \in Ids /\ p[2] \in Props
  BY DEF Paths
<1>2. container[p[1]] \in Objects \union {NoObject}
  BY <1>1 DEF TypeOK
<1>3. container[p[1]] # NoObject => <<container[p[1]], p[2]>> \in Sensors
  BY <1>1, <1>2 DEF Sensors
<1> QED
  BY <1>3, ObjectAssumption DEF findSensor

(* The sensor a path resolves to is registered, alive and has that path.   *)
LEMMA FoundSensor ==
  ASSUME TypeOK, ContainerSound, NEW p \in Paths, findSensor(p) # NoSensor
  PROVE  /\ findSensor(p)[1] = container[p[1]]
         /\ findSensor(p)[1] \in alive
         /\ path(findSensor(p)) = p
<1>1. p[1] \in Ids /\ p[2] \in Props /\ p = <<p[1], p[2]>>
  BY DEF Paths
<1>2. container[p[1]] # NoObject /\ findSensor(p) = <<container[p[1]], p[2]>>
  BY FindSensorType
<1>3. container[p[1]] \in alive /\ IdOf[container[p[1]]] = p[1]
  BY <1>1, <1>2 DEF ContainerSound
<1> QED
  BY <1>1, <1>2, <1>3 DEF path

-----------------------------------------------------------------------------
(* The invariant holds initially and is kept by every action.              *)
LEMMA InitIInv == Init => IInv
<1> SUFFICES ASSUME Init PROVE IInv
  OBVIOUS
<1>1. TypeOK
  BY DEF Init, TypeOK, EmptyBook, NoListeners
<1>2. BookBacked
  BY DEF Init, BookBacked, EmptyBook
<1>3. StoredIsLive /\ ListenersExist /\ ContainerSound
  BY DEF Init, StoredIsLive, ListenersExist, ContainerSound, NoListeners
<1>4. ListenersCounted
  BY DEF Init, ListenersCounted, NoListeners
<1> QED
  BY <1>1, <1>2, <1>3, <1>4 DEF IInv

LEMMA SubscribeIInv ==
  ASSUME IInv, NEW c \in Clients, NEW P \in SUBSET Paths, Subscribe(c, P)
  PROVE  IInv'
<1> DEFINE wanted == {findSensor(p) : p \in Found(P)}
<1> USE DEF Connect
<1> USE DEF IInv
<1>1. wanted \subseteq Sensors /\ \A s \in wanted : s[1] \in alive
  BY FindSensorType, FoundSensor DEF Found
<1>2. \A d \in Clients, s \in Sensors :
        /\ listeners'[d][s] = IF d = c /\ s \in wanted THEN listeners[d][s] + 1
                              ELSE listeners[d][s]
        /\ subscribers'[s][d] = IF d = c /\ s \in wanted
                                THEN subscribers[s][d] + 1 ELSE subscribers[s][d]
        /\ listeners[d][s] \in Nat /\ subscribers[s][d] \in Nat
  BY DEF Subscribe, TypeOK
<1>3. \A d \in Clients, p \in Paths :
        m_subscribedSensors'[d][p] =
          IF d = c /\ p \in Found(P) THEN findSensor(p)
          ELSE m_subscribedSensors[d][p]
  BY DEF Subscribe, TypeOK
<1>4. \A d \in Clients : m_connections'[d] =
        IF d = c THEN m_connections[d] \union wanted ELSE m_connections[d]
  BY DEF Subscribe, TypeOK
<1>5. TypeOK'
  <2>1. m_subscribedSensors' \in [Clients -> [Paths -> Sensors \union {NoSensor}]]
    BY FindSensorType DEF Subscribe, TypeOK, Found
  <2>2. m_connections' \in [Clients -> SUBSET Sensors]
    BY <1>1 DEF Subscribe, TypeOK
  <2>3. /\ listeners' \in [Clients -> [Sensors -> Nat]]
        /\ subscribers' \in [Sensors -> [Clients -> Nat]]
    BY DEF Subscribe, TypeOK
  <2>4. /\ view' \in [Clients -> [Paths -> Values \union {Unknown}]]
        /\ asked' \in [Clients -> [Paths -> Nat]]
    BY DEF Subscribe, TypeOK
  <2> QED
    BY <2>1, <2>2, <2>3, <2>4 DEF Subscribe, TypeOK, batchVars
<1>6. BookBacked'
  <2> SUFFICES ASSUME NEW d \in Clients, NEW p \in Paths,
                      m_subscribedSensors'[d][p] # NoSensor
               PROVE  /\ container[p[1]] # NoObject
                      /\ m_subscribedSensors'[d][p] = <<container[p[1]], p[2]>>
                      /\ m_subscribedSensors'[d][p] \in m_connections'[d]
    BY DEF Subscribe, BookBacked
  <2>1. CASE d = c /\ p \in Found(P)
    <3>1. findSensor(p) # NoSensor /\ findSensor(p) \in wanted
      BY <2>1, Zenon DEF Found
    <3>2. m_subscribedSensors'[d][p] = findSensor(p) /\ wanted \subseteq m_connections'[d]
      BY <2>1, <1>3, <1>4
    <3> QED
      BY <3>1, <3>2, FindSensorType
  <2>2. CASE ~ (d = c /\ p \in Found(P))
    <3>1. m_subscribedSensors'[d][p] = m_subscribedSensors[d][p]
      BY <2>2, <1>3
    <3>2. m_connections[d] \subseteq m_connections'[d]
      BY <1>4
    <3> QED
      BY <3>1, <3>2 DEF BookBacked
  <2> QED
    BY <2>1, <2>2
<1>7. StoredIsLive'
  <2> SUFFICES ASSUME NEW d \in Clients, NEW s \in m_connections'[d]
               PROVE  listeners'[d][s] > 0
    BY DEF StoredIsLive
  <2>1. s \in m_connections[d] \/ (d = c /\ s \in wanted)
    BY <1>4
  <2>2. s \in Sensors
    BY <2>1, <1>1 DEF TypeOK
  <2>3. s \in m_connections[d] => listeners[d][s] > 0
    BY DEF StoredIsLive
  <2> QED
    BY <2>1, <2>2, <2>3, <1>2
<1>8. ListenersExist'
  BY <1>1, <1>2 DEF ListenersExist, Subscribe
<1>9. ListenersCounted'
  BY <1>2 DEF ListenersCounted
<1>10. ContainerSound'
  BY DEF ContainerSound, Subscribe
<1> QED
  BY <1>5, <1>6, <1>7, <1>8, <1>9, <1>10

LEMMA UnsubscribeIInv ==
  ASSUME IInv, NEW c \in Clients, NEW P \in SUBSET Paths, Unsubscribe(c, P)
  PROVE  IInv'
<1> DEFINE taken == {m_subscribedSensors[c][p] : p \in P} \ {NoSensor}
<1> USE DEF Disconnect, TakePaths
<1> USE DEF IInv
<1>1. taken \subseteq m_connections[c] /\ taken \subseteq Sensors
  BY DEF BookBacked, TypeOK
<1>2. \A s \in taken : listeners[c][s] > 0 /\ subscribers[s][c] > 0
  BY <1>1 DEF StoredIsLive, ListenersCounted, TypeOK
<1>3. \A d \in Clients, s \in Sensors :
        /\ listeners'[d][s] = IF d = c /\ s \in taken THEN listeners[d][s] - 1
                              ELSE listeners[d][s]
        /\ subscribers'[s][d] = IF d = c /\ s \in taken
                                THEN subscribers[s][d] - 1 ELSE subscribers[s][d]
        /\ listeners[d][s] \in Nat /\ subscribers[s][d] \in Nat
  BY <1>1 DEF Unsubscribe, TypeOK
<1>4. \A d \in Clients, p \in Paths :
        m_subscribedSensors'[d][p] = IF d = c /\ p \in P THEN NoSensor
                                     ELSE m_subscribedSensors[d][p]
  BY DEF Unsubscribe, TypeOK
<1>5. \A d \in Clients : m_connections'[d] =
        IF d = c THEN m_connections[d] \ taken ELSE m_connections[d]
  BY DEF Unsubscribe, TypeOK
<1>6. TypeOK'
  <2>1. m_subscribedSensors' \in [Clients -> [Paths -> Sensors \union {NoSensor}]]
    BY DEF Unsubscribe, TypeOK
  <2>2. m_connections' \in [Clients -> SUBSET Sensors]
    BY DEF Unsubscribe, TypeOK
  <2>3. listeners' \in [Clients -> [Sensors -> Nat]]
    BY <1>1, <1>2 DEF Unsubscribe, TypeOK
  <2>4. subscribers' \in [Sensors -> [Clients -> Nat]]
    BY <1>2 DEF Unsubscribe, TypeOK
  <2>5. asked' \in [Clients -> [Paths -> Nat]]
    BY DEF Unsubscribe, TypeOK
  <2> QED
    BY <2>1, <2>2, <2>3, <2>4, <2>5 DEF Unsubscribe, TypeOK, batchVars
<1>7. BookBacked'
  <2> SUFFICES ASSUME NEW d \in Clients, NEW p \in Paths,
                      m_subscribedSensors'[d][p] # NoSensor
               PROVE  /\ container[p[1]] # NoObject
                      /\ m_subscribedSensors'[d][p] = <<container[p[1]], p[2]>>
                      /\ m_subscribedSensors'[d][p] \in m_connections'[d]
    BY DEF Unsubscribe, BookBacked
  <2>1. m_subscribedSensors'[d][p] = m_subscribedSensors[d][p] /\ ~ (d = c /\ p \in P)
    BY <1>4
  <2>2. d = c => m_subscribedSensors[d][p] \notin taken
    <3> SUFFICES ASSUME d = c, NEW q \in P,
                        m_subscribedSensors[c][p] = m_subscribedSensors[c][q],
                        m_subscribedSensors[c][q] # NoSensor
                 PROVE  FALSE
      BY Zenon
    <3>1. container[p[1]] = container[q[1]] /\ p[2] = q[2]
      BY <2>1 DEF BookBacked
    <3>2. p[1] = q[1]
      BY <3>1, <2>1 DEF BookBacked, ContainerSound, Paths
    <3>3. p = q
      BY <3>1, <3>2 DEF Paths
    <3> QED
      BY <3>3, <2>1
  <2> QED
    BY <2>1, <2>2, <1>5 DEF BookBacked
<1>8. StoredIsLive'
  BY <1>3, <1>5 DEF StoredIsLive, TypeOK
<1>9. ListenersExist'
  BY <1>3 DEF ListenersExist, Unsubscribe
<1>10. ListenersCounted'
  BY <1>3 DEF ListenersCounted
<1>11. ContainerSound'
  BY DEF ContainerSound, Unsubscribe
<1> QED
  BY <1>6, <1>7, <1>8, <1>9, <1>10, <1>11

(* ~Client: every book entry was counted, so no count goes below zero.     *)
LEMMA DeleteClientsIInv ==
  ASSUME IInv, NEW C \in SUBSET Clients, DeleteClients(C),
         UNCHANGED <<container, alive, value, view>>,
         running' \in {"running", "quitting", "stopped"},
         departed' \subseteq Clients, asked' \in [Clients -> [Paths -> Nat]]
  PROVE  IInv'
<1> USE DEF IInv
<1> USE DEF ReleaseAll
<1> DEFINE counted(c, s) == c \in C /\ m_subscribedSensors[c][path(s)] = s
<1>1. \A c \in Clients, s \in Sensors : counted(c, s) => subscribers[s][c] > 0
  <2> SUFFICES ASSUME NEW c \in Clients, NEW s \in Sensors, counted(c, s)
               PROVE  subscribers[s][c] > 0
    OBVIOUS
  <2>1. path(s) \in Paths /\ s # NoSensor
    BY PathType, ObjectAssumption
  <2>2. s \in m_connections[c]
    BY <2>1 DEF BookBacked
  <2>3. listeners[c][s] > 0 /\ listeners[c][s] <= subscribers[s][c]
    BY <2>2 DEF StoredIsLive, ListenersCounted
  <2> QED
    BY <2>3 DEF TypeOK
<1>2. \A c \in Clients, s \in Sensors :
        /\ listeners'[c][s] = IF c \in C THEN 0 ELSE listeners[c][s]
        /\ subscribers'[s][c] = IF counted(c, s) THEN subscribers[s][c] - 1
                                ELSE subscribers[s][c]
        /\ listeners[c][s] \in Nat /\ subscribers[s][c] \in Nat
  BY DEF DeleteClients, NoListeners, TypeOK
<1>3. \A c \in Clients, p \in Paths :
        m_subscribedSensors'[c][p] = IF c \in C THEN NoSensor
                                     ELSE m_subscribedSensors[c][p]
  BY DEF DeleteClients, EmptyBook
<1>4. \A c \in Clients :
        m_connections'[c] = IF c \in C THEN {} ELSE m_connections[c]
  BY DEF DeleteClients
<1>5. TypeOK'
  <2>1. subscribers' \in [Sensors -> [Clients -> Nat]]
    BY <1>1 DEF DeleteClients, TypeOK
  <2>2. /\ listeners' \in [Clients -> [Sensors -> Nat]]
        /\ m_connections' \in [Clients -> SUBSET Sensors]
    BY DEF DeleteClients, TypeOK, NoListeners
  <2>3. /\ m_subscribedSensors' \in [Clients -> [Paths -> Sensors \union {NoSensor}]]
        /\ m_clients' \subseteq Clients
    BY DEF DeleteClients, TypeOK, EmptyBook
  <2>4. /\ m_pendingUpdates' \in [Clients -> Seq(Update)]
        /\ m_pendingMetaDataChanges' \in [Clients -> SUBSET Paths]
    BY DEF DeleteClients, TypeOK
  <2> QED
    BY <2>1, <2>2, <2>3, <2>4 DEF TypeOK
<1>6. BookBacked'
  BY <1>3, <1>4 DEF BookBacked
<1>7. StoredIsLive'
  <2> SUFFICES ASSUME NEW c \in Clients, NEW s \in m_connections'[c]
               PROVE  listeners'[c][s] > 0
    BY DEF StoredIsLive
  <2>1. c \notin C /\ s \in m_connections[c]
    BY <1>4
  <2> QED
    BY <2>1, <1>2 DEF StoredIsLive, TypeOK
<1>8. ListenersExist'
  BY <1>2 DEF ListenersExist, DeleteClients
<1>9. ListenersCounted'
  <2> SUFFICES ASSUME NEW c \in Clients, NEW s \in Sensors
               PROVE  listeners'[c][s] <= subscribers'[s][c]
    BY DEF ListenersCounted
  <2>1. listeners[c][s] <= subscribers[s][c]
    BY DEF ListenersCounted
  <2> QED
    BY <2>1, <1>1, <1>2
<1>10. ContainerSound'
  BY DEF ContainerSound
<1> QED
  BY <1>5, <1>6, <1>7, <1>8, <1>9, <1>10

LEMMA ServiceDisconnectedIInv ==
  ASSUME IInv, NEW c \in Clients, ServiceDisconnected(c)
  PROVE  IInv'
<1>1. asked' \in [Clients -> [Paths -> Nat]]
  BY DEF ServiceDisconnected, IInv, TypeOK
<1>2. /\ running' \in {"running", "quitting", "stopped"}
      /\ departed' \subseteq Clients
  BY DEF ServiceDisconnected, IInv, TypeOK
<1> QED
  BY <1>1, <1>2, DeleteClientsIInv DEF ServiceDisconnected

LEMMA StopIInv == ASSUME IInv, Stop PROVE IInv'
<1>1. m_clients \in SUBSET Clients /\ departed \subseteq Clients
  BY DEF IInv, TypeOK
<1>2. asked' \in [Clients -> [Paths -> Nat]]
  BY DEF Stop
<1> QED
  BY <1>1, <1>2, DeleteClientsIInv DEF Stop

LEMMA AddObjectIInv ==
  ASSUME IInv, NEW o \in Objects, AddObject(o)
  PROVE  IInv'
<1> USE DEF IInv
<1>1. IdOf[o] \in Ids
  BY ObjectAssumption
<1>2. \A i \in Ids : container'[i] = IF i = IdOf[o] THEN o ELSE container[i]
  BY DEF AddObject, TypeOK
<1>3. TypeOK'
  BY <1>1 DEF AddObject, TypeOK, bookVars, batchVars, peerVars
<1>4. BookBacked'
  <2> SUFFICES ASSUME NEW c \in Clients, NEW p \in Paths,
                      m_subscribedSensors[c][p] # NoSensor
               PROVE  /\ container'[p[1]] # NoObject
                      /\ m_subscribedSensors[c][p] = <<container'[p[1]], p[2]>>
                      /\ m_subscribedSensors[c][p] \in m_connections[c]
    BY DEF AddObject, BookBacked, bookVars
  <2>1. p[1] \in Ids /\ p[1] # IdOf[o]
    BY DEF Paths, BookBacked, AddObject
  <2> QED
    BY <2>1, <1>2 DEF BookBacked
<1>5. StoredIsLive' /\ ListenersExist' /\ ListenersCounted'
  BY DEF StoredIsLive, ListenersExist, ListenersCounted, AddObject, bookVars
<1>6. ContainerSound'
  <2> SUFFICES ASSUME NEW i \in Ids, container'[i] # NoObject
               PROVE  container'[i] \in alive' /\ IdOf[container'[i]] = i
    BY DEF ContainerSound
  <2> QED
    BY <1>2 DEF ContainerSound, AddObject
<1> QED
  BY <1>3, <1>4, <1>5, <1>6

LEMMA RemoveObjectIInv ==
  ASSUME IInv, NEW o \in Objects, RemoveObject(o)
  PROVE  IInv'
<1> USE DEF IInv, ForgetRemoved
<1>1. \A i \in Ids :
        container'[i] = IF i = IdOf[o] THEN NoObject ELSE container[i]
  BY DEF RemoveObject, TypeOK
<1>2. \A c \in Clients, p \in Paths :
        m_subscribedSensors'[c][p] = IF p[1] = IdOf[o] THEN NoSensor
                                     ELSE m_subscribedSensors[c][p]
  BY DEF RemoveObject
<1>3. TypeOK'
  <2>1. m_subscribedSensors' \in [Clients -> [Paths -> Sensors \union {NoSensor}]]
    BY DEF RemoveObject, TypeOK
  <2>2. container' \in [Ids -> Objects \union {NoObject}]
    BY DEF RemoveObject, TypeOK
  <2> QED
    BY <2>1, <2>2 DEF RemoveObject, TypeOK, batchVars, peerVars
<1>4. BookBacked'
  <2> SUFFICES ASSUME NEW c \in Clients, NEW p \in Paths,
                      m_subscribedSensors'[c][p] # NoSensor
               PROVE  /\ container'[p[1]] # NoObject
                      /\ m_subscribedSensors'[c][p] = <<container'[p[1]], p[2]>>
                      /\ m_subscribedSensors'[c][p] \in m_connections[c]
    BY DEF RemoveObject, BookBacked
  <2>1. p[1] \in Ids
    BY DEF Paths
  <2> QED
    BY <2>1, <1>1, <1>2 DEF BookBacked
<1>5. StoredIsLive' /\ ListenersExist' /\ ListenersCounted'
  BY DEF StoredIsLive, ListenersExist, ListenersCounted, RemoveObject
<1>6. ContainerSound'
  BY <1>1 DEF ContainerSound, RemoveObject
<1> QED
  BY <1>3, <1>4, <1>5, <1>6

(* The deleted object is not registered, so no book entry can name it; the *)
(* destroyed lambdas run for exactly the clients with live connections.    *)
LEMMA DeleteObjectIInv ==
  ASSUME IInv, NEW o \in Objects, DeleteObject(o)
  PROVE  IInv'
<1> DEFINE heard(c) == Heard(c, o)
<1> USE DEF Heard, ForgetDestroyed
<1> USE DEF IInv
<1>1. \A s \in Sensors : s \in SensorsOf(o) <=> s[1] = o
  BY DEF Sensors, SensorsOf
<1>2. \A c \in Clients, s \in Sensors :
        /\ listeners'[c][s] = IF s[1] = o THEN 0 ELSE listeners[c][s]
        /\ subscribers'[s][c] = IF s[1] = o THEN 0 ELSE subscribers[s][c]
        /\ listeners[c][s] \in Nat /\ subscribers[s][c] \in Nat
  BY <1>1 DEF DeleteObject, TypeOK
<1>3. \A c \in Clients, p \in Paths :
        m_subscribedSensors'[c][p] = IF m_subscribedSensors[c][p] \in heard(c)
                                     THEN NoSensor ELSE m_subscribedSensors[c][p]
  BY DEF DeleteObject
<1>4. \A c \in Clients : m_connections'[c] = m_connections[c] \ heard(c)
  BY DEF DeleteObject
<1>5. TypeOK'
  <2>1. /\ listeners' \in [Clients -> [Sensors -> Nat]]
        /\ subscribers' \in [Sensors -> [Clients -> Nat]]
    BY DEF DeleteObject, TypeOK
  <2>2. /\ m_subscribedSensors' \in [Clients -> [Paths -> Sensors \union {NoSensor}]]
        /\ m_connections' \in [Clients -> SUBSET Sensors]
    BY DEF DeleteObject, TypeOK
  <2>3. value' \in [Sensors -> Values \union {Invalid}]
    BY DEF DeleteObject, TypeOK
  <2> QED
    BY <2>1, <2>2, <2>3 DEF DeleteObject, TypeOK, batchVars, peerVars
<1>6. BookBacked'
  <2> SUFFICES ASSUME NEW c \in Clients, NEW p \in Paths,
                      m_subscribedSensors'[c][p] # NoSensor
               PROVE  /\ container[p[1]] # NoObject
                      /\ m_subscribedSensors'[c][p] = <<container[p[1]], p[2]>>
                      /\ m_subscribedSensors'[c][p] \in m_connections'[c]
    BY DEF DeleteObject, BookBacked
  <2>1. /\ m_subscribedSensors'[c][p] = m_subscribedSensors[c][p]
        /\ m_subscribedSensors[c][p] \notin heard(c)
    BY <1>3
  <2> QED
    BY <2>1, <1>4 DEF BookBacked
<1>7. StoredIsLive'
  <2> SUFFICES ASSUME NEW c \in Clients, NEW s \in m_connections'[c]
               PROVE  listeners'[c][s] > 0
    BY DEF StoredIsLive
  <2>1. s \in m_connections[c] /\ s \notin heard(c) /\ s \in Sensors
    BY <1>4 DEF TypeOK
  <2>2. listeners[c][s] > 0
    BY <2>1 DEF StoredIsLive
  <2>3. s[1] # o
    BY <2>1, <2>2, <1>1
  <2> QED
    BY <2>1, <2>2, <2>3, <1>2
<1>8. ListenersExist'
  BY <1>2 DEF ListenersExist, DeleteObject
<1>9. ListenersCounted'
  BY <1>2 DEF ListenersCounted
<1>10. ContainerSound'
  <2> SUFFICES ASSUME NEW i \in Ids, container[i] # NoObject
               PROVE  container[i] \in alive \ {o} /\ IdOf[container[i]] = i
    BY DEF ContainerSound, DeleteObject
  <2> QED
    BY DEF ContainerSound, DeleteObject
<1> QED
  BY <1>5, <1>6, <1>7, <1>8, <1>9, <1>10

(* Actions that leave the tables, the counts and the objects alone keep    *)
(* the invariant if they keep the types.                                   *)
LEMMA FrameRule ==
  ASSUME IInv, TypeOK', UNCHANGED <<container, alive, subscribers, bookVars>>
  PROVE  IInv'
BY DEF IInv, BookBacked, StoredIsLive, ListenersExist, ListenersCounted,
       ContainerSound, bookVars

LEMMA EnqueuedType ==
  ASSUME TypeOK, NEW c \in Clients, NEW s \in Sensors,
         NEW v \in Values \union {Invalid}
  PROVE  Enqueued(c, s, v) \in Seq(Update)
<1>1. CASE v = Invalid
  BY <1>1 DEF Enqueued
<1>2. CASE v # Invalid
  <2>1. [sensorProperty |-> path(s), payload |-> v] \in Update
    BY <1>2, PathType DEF Update
  <2>2. listeners[c][s] \in Nat
    BY DEF TypeOK
  <2> QED
    BY <1>2, <2>1, <2>2 DEF Enqueued
<1> QED
  BY <1>1, <1>2

LEMMA SetValueIInv ==
  ASSUME IInv, NEW s \in Sensors, NEW v \in Values \union {Invalid},
         SetValue(s, v)
  PROVE  IInv'
<1>1. TypeOK
  BY DEF IInv
<1>2. m_pendingUpdates' \in [Clients -> Seq(Update)]
  <2>1. ASSUME NEW c \in Clients
        PROVE  m_pendingUpdates[c] \o Enqueued(c, s, v) \in Seq(Update)
    <3>1. m_pendingUpdates[c] \in Seq(Update)
      BY <1>1 DEF TypeOK
    <3> QED
      BY <1>1, <3>1, EnqueuedType, ConcatProperties
  <2> QED
    BY <2>1 DEF SetValue
<1>3. value' \in [Sensors -> Values \union {Invalid}]
  BY <1>1 DEF SetValue, TypeOK
<1>4. TypeOK'
  BY <1>1, <1>2, <1>3 DEF SetValue, TypeOK, bookVars, peerVars
<1> QED
  BY <1>4, FrameRule DEF SetValue

LEMMA InfoChangedIInv ==
  ASSUME IInv, NEW s \in Sensors, InfoChanged(s)
  PROVE  IInv'
<1>1. m_pendingMetaDataChanges' \in [Clients -> SUBSET Paths]
  BY PathType DEF InfoChanged, IInv, TypeOK
<1>2. TypeOK'
  BY <1>1 DEF InfoChanged, IInv, TypeOK, objectVars, bookVars, peerVars
<1> QED
  BY <1>2, FrameRule DEF InfoChanged, objectVars

LEMMA SensorDataIInv ==
  ASSUME IInv, NEW c \in Clients, NEW P \in SUBSET Paths, SensorData(c, P)
  PROVE  IInv'
<1>1. \A p \in Found(P) : value[findSensor(p)] \in Values \union {Invalid}
  BY FindSensorType DEF IInv, TypeOK, Found
<1>2. view' \in [Clients -> [Paths -> Values \union {Unknown}]]
  BY <1>1 DEF SensorData, IInv, TypeOK
<1>3. TypeOK'
  BY <1>2 DEF SensorData, IInv, TypeOK, objectVars, bookVars, batchVars
<1> QED
  BY <1>3, FrameRule DEF SensorData, objectVars

LEMMA ServiceNameLostIInv == ASSUME IInv, ServiceNameLost PROVE IInv'
<1>1. TypeOK'
  BY DEF ServiceNameLost, IInv, TypeOK, objectVars, bookVars, batchVars, peerVars
<1> QED
  BY <1>1, FrameRule DEF ServiceNameLost, objectVars

(* The newest entry of a path in a batch is one of its entries.            *)
LEMMA LatestType ==
  ASSUME TypeOK, NEW c \in Clients, NEW p \in Paths, Backlog(c, p) # {}
  PROVE  Latest(c, p) \in Values
<1>1. m_pendingUpdates[c] \in Seq(Update)
  BY DEF TypeOK
<1>2. /\ Len(m_pendingUpdates[c]) \in Nat
      /\ DOMAIN m_pendingUpdates[c] = 1 .. Len(m_pendingUpdates[c])
      /\ \A i \in DOMAIN m_pendingUpdates[c] : m_pendingUpdates[c][i] \in Update
  BY <1>1
<1>3. Max(Backlog(c, p)) \in DOMAIN m_pendingUpdates[c]
  <2>1. Backlog(c, p) \in SUBSET (1 .. Len(m_pendingUpdates[c]))
    BY <1>2 DEF Backlog
  <2>2. Max(Backlog(c, p)) \in Backlog(c, p)
    BY <1>2, <2>1, MaxPosition
  <2> QED
    BY <2>2 DEF Backlog
<1> QED
  BY <1>2, <1>3 DEF Latest, Update

LEMMA SendFrameIInv ==
  ASSUME IInv, NEW S \in SUBSET Registered,
         NEW f \in [S -> Values \union {Invalid}], SendFrame(f)
  PROVE  IInv'
<1> DEFINE news(c) == {s \in DOMAIN f : listeners[c][s] > 0 /\ f[s] # Invalid}
<1>1. TypeOK
  BY DEF IInv
<1>2. \A c \in Clients, p \in Paths : (\E s \in news(c) : path(s) = p) =>
        f[CHOOSE s \in news(c) : path(s) = p] \in Values
  <2> SUFFICES ASSUME NEW c \in Clients, NEW p \in Paths,
                      \E s \in news(c) : path(s) = p
               PROVE  f[CHOOSE s \in news(c) : path(s) = p] \in Values
    OBVIOUS
  <2>1. PICK t \in news(c) : t = CHOOSE s \in news(c) : path(s) = p
    OBVIOUS
  <2>2. f[t] \in Values
    OBVIOUS
  <2> QED
    BY <2>1, <2>2, Zenon
<1>3. view' \in [Clients -> [Paths -> Values \union {Unknown}]]
  <2> SUFFICES ASSUME NEW c \in Clients, NEW p \in Paths
               PROVE  (IF \E s \in news(c) : path(s) = p
                       THEN f[CHOOSE s \in news(c) : path(s) = p]
                       ELSE IF Backlog(c, p) # {} THEN Latest(c, p)
                            ELSE view[c][p]) \in Values \union {Unknown}
    BY DEF SendFrame
  <2>1. view[c][p] \in Values \union {Unknown}
    BY <1>1 DEF TypeOK
  <2> QED
    BY <1>1, <1>2, <2>1, LatestType
<1>4. /\ value' \in [Sensors -> Values \union {Invalid}]
      /\ m_pendingUpdates' \in [Clients -> Seq(Update)]
      /\ m_pendingMetaDataChanges' \in [Clients -> SUBSET Paths]
  BY <1>1 DEF SendFrame, ClearBatches, TypeOK
<1>5. TypeOK'
  BY <1>1, <1>3, <1>4 DEF SendFrame, TypeOK, bookVars
<1> QED
  BY <1>5, FrameRule DEF SendFrame

-----------------------------------------------------------------------------
(* The theorems.                                                           *)

LEMMA NextIInv == IInv /\ [Next]_vars => IInv'
<1> SUFFICES ASSUME IInv, [Next]_vars PROVE IInv'
  OBVIOUS
<1>1. ASSUME NEW c \in Clients, NEW P \in SUBSET Paths, Subscribe(c, P)
      PROVE  IInv'
  BY <1>1, SubscribeIInv
<1>2. ASSUME NEW c \in Clients, NEW P \in SUBSET Paths, Unsubscribe(c, P)
      PROVE  IInv'
  BY <1>2, UnsubscribeIInv
<1>3. ASSUME NEW c \in Clients, NEW P \in SUBSET Paths, SensorData(c, P)
      PROVE  IInv'
  BY <1>3, SensorDataIInv
<1>4. ASSUME NEW c \in Clients, ServiceDisconnected(c) PROVE IInv'
  BY <1>4, ServiceDisconnectedIInv
<1>5. CASE ServiceNameLost
  BY <1>5, ServiceNameLostIInv
<1>6. CASE Stop
  BY <1>6, StopIInv
<1>7. ASSUME NEW o \in Objects, AddObject(o) PROVE IInv'
  BY <1>7, AddObjectIInv
<1>8. ASSUME NEW o \in Objects, RemoveObject(o) PROVE IInv'
  BY <1>8, RemoveObjectIInv
<1>9. ASSUME NEW o \in Objects, DeleteObject(o) PROVE IInv'
  BY <1>9, DeleteObjectIInv
<1>10. ASSUME NEW s \in Sensors, NEW v \in Values \union {Invalid}, SetValue(s, v)
       PROVE  IInv'
  BY <1>10, SetValueIInv
<1>11. ASSUME NEW s \in Sensors, InfoChanged(s) PROVE IInv'
  BY <1>11, InfoChangedIInv
<1>12. CASE Frame
  BY <1>12, SendFrameIInv DEF Frame
<1>13. CASE UNCHANGED vars
  <2>1. TypeOK'
    BY <1>13 DEF IInv, TypeOK, vars, objectVars, bookVars, batchVars, peerVars
  <2> QED
    BY <1>13, <2>1, FrameRule DEF vars, objectVars
<1> QED
  BY <1>1, <1>2, <1>3, <1>4, <1>5, <1>6, <1>7, <1>8, <1>9, <1>10, <1>11,
     <1>12, <1>13 DEF Next

THEOREM Invariance == Spec => []IInv
BY InitIInv, NextIInv, PTL DEF Spec

(* Every variable of the daemon keeps its type: in particular a subscriber *)
(* count and a number of connections never go below zero, whatever clients *)
(* call and providers remove.                                              *)
THEOREM TypeCorrect == Spec => []TypeOK
<1>1. IInv => TypeOK
  BY DEF IInv
<1> QED
  BY <1>1, Invariance, PTL

(* The three tables of a client never disagree with each other or with the *)
(* container (Client::subscribeSensors and the lambdas of Client::Client). *)
THEOREM BooksAlwaysAgree == Spec => []BooksAgree
<1>1. IInv => BooksAgree
  <2> SUFFICES ASSUME IInv, NEW c \in Clients, NEW p \in Paths,
                      m_subscribedSensors[c][p] # NoSensor
               PROVE  /\ c \in m_clients
                      /\ m_subscribedSensors[c][p] = findSensor(p)
                      /\ m_subscribedSensors[c][p] \in m_connections[c]
                      /\ listeners[c][m_subscribedSensors[c][p]] > 0
    BY DEF BooksAgree
  <2>1. /\ m_subscribedSensors[c][p] = findSensor(p)
        /\ m_subscribedSensors[c][p] \in m_connections[c]
    BY DEF IInv, BookBacked, findSensor
  <2>2. m_subscribedSensors[c][p] \in Sensors
    BY DEF IInv, TypeOK
  <2>3. listeners[c][m_subscribedSensors[c][p]] > 0
    BY <2>1 DEF IInv, StoredIsLive
  <2> QED
    BY <2>1, <2>2, <2>3 DEF IInv, ListenersExist
<1> QED
  BY <1>1, Invariance, PTL

(* Memory safety of the Client class: whatever is removed or deleted, in   *)
(* whatever order, unsubscribeSensors and ~Client dereference live sensors.*)
THEOREM NoDangling == Spec => []NoDanglingPointer
<1>1. IInv => NoDanglingPointer
  <2> SUFFICES ASSUME IInv PROVE NoDanglingPointer
    OBVIOUS
  <2>1. \A c \in Clients : \A s \in m_connections[c] : s[1] \in alive
    BY DEF IInv, TypeOK, StoredIsLive, ListenersExist
  <2>2. \A c \in Clients, p \in Paths :
          m_subscribedSensors[c][p] # NoSensor =>
            m_subscribedSensors[c][p] \in m_connections[c]
    BY DEF IInv, BookBacked
  <2>3. \A i \in Ids : container[i] # NoObject => container[i] \in alive
    BY DEF IInv, ContainerSound
  <2> QED
    BY <2>1, <2>2, <2>3 DEF NoDanglingPointer
<1> QED
  BY <1>1, Invariance, PTL

(* Unsubscribing never stops the sampling of a sensor that is still heard. *)
THEOREM HeardIsActive == Spec => []ListenersKeepSensorActive
<1>1. IInv => ListenersKeepSensorActive
  <2> SUFFICES ASSUME IInv, NEW c \in Clients, NEW s \in Sensors,
                      listeners[c][s] > 0
               PROVE  subscribers[s][c] > 0
    BY DEF ListenersKeepSensorActive, isSubscribed
  <2>1. listeners[c][s] \in Nat /\ subscribers[s][c] \in Nat
    BY DEF IInv, TypeOK
  <2> QED
    BY <2>1 DEF IInv, ListenersCounted
<1> QED
  BY <1>1, Invariance, PTL

-----------------------------------------------------------------------------
(* Clients that subscribe once.                                            *)

(* The ids no object of which can be removed, with their paths and sensors.*)
(* What happens to the objects of other ids is of no consequence for them. *)
KeptIds == {i \in Ids : \A o \in Objects : IdOf[o] = i => o \notin Removable}
KeptPaths == {p \in Paths : p[1] \in KeptIds}
KeptSensors == {s \in Sensors : IdOf[s[1]] \in KeptIds}

(* An object that exists is registered, if none of its id is ever removed. *)
AliveIsRegistered ==
  \A o \in alive : IdOf[o] \in KeptIds => container[IdOf[o]] = o

(* A client that subscribes once has asked for what is in its book.        *)
AskedIsBooked ==
  \A c \in Clients, p \in KeptPaths :
    asked[c][p] = IF m_subscribedSensors[c][p] = NoSensor THEN 0 ELSE 1

(* It listens to that, once.                                               *)
ListensOnce ==
  \A c \in Clients, s \in KeptSensors :
    listeners[c][s] = IF m_subscribedSensors[c][path(s)] = s THEN 1 ELSE 0

(* It is counted for that, once.                                           *)
CountedOnce ==
  \A c \in Clients, s \in KeptSensors :
    subscribers[s][c] = IF m_subscribedSensors[c][path(s)] = s THEN 1 ELSE 0

(* The invariant of clients that subscribe once: what was asked is one     *)
(* book entry, one connection and one count.                               *)
PInv ==
  /\ IInv
  /\ AliveIsRegistered
  /\ AskedIsBooked
  /\ ListensOnce
  /\ CountedOnce

(* The sensors of a path that stays do; if nothing is removed, all do.     *)
LEMMA KeptFacts ==
  /\ \A s \in Sensors : s \in KeptSensors <=> path(s) \in KeptPaths
  /\ \A s \in KeptSensors : s \in Sensors /\ path(s) \in Paths /\ s # NoSensor
  /\ KeptPaths \subseteq Paths
  /\ \A s \in KeptSensors : s[1] \in Objects /\ IdOf[s[1]] \in KeptIds
  /\ Removable = {} => KeptPaths = Paths /\ KeptSensors = Sensors
<1>1. \A s \in Sensors : path(s) \in Paths /\ s # NoSensor /\ s[1] \in Objects
  BY PathType, ObjectAssumption DEF Sensors
<1>2. \A s \in Sensors : path(s)[1] = IdOf[s[1]]
  BY DEF path
<1>3. Removable = {} => KeptIds = Ids
  BY DEF KeptIds
<1>4. \A p \in Paths : p[1] \in Ids
  BY DEF Paths
<1>5. \A s \in Sensors : s \in KeptSensors <=> path(s) \in KeptPaths
  BY <1>1, <1>2 DEF KeptPaths, KeptSensors
<1>6. Removable = {} => KeptPaths = Paths /\ KeptSensors = Sensors
  BY <1>1, <1>3, <1>4, ObjectAssumption DEF KeptPaths, KeptSensors
<1> QED
  BY <1>1, <1>5, <1>6 DEF KeptPaths, KeptSensors

(* A book entry is a sensor of its path.                                   *)
LEMMA BookedPath ==
  ASSUME IInv, NEW c \in Clients, NEW p \in Paths, m_subscribedSensors[c][p] # NoSensor
  PROVE  /\ m_subscribedSensors[c][p] \in Sensors
         /\ m_subscribedSensors[c][p] = findSensor(p)
         /\ path(m_subscribedSensors[c][p]) = p
<1>1. m_subscribedSensors[c][p] \in Sensors
  BY DEF IInv, TypeOK
<1>2. findSensor(p) = m_subscribedSensors[c][p]
  BY DEF IInv, BookBacked, findSensor
<1> QED
  BY <1>1, <1>2, FoundSensor DEF IInv

(* An existing sensor that stays is what its path finds.                   *)
LEMMA RegisteredFound ==
  ASSUME PInv, NEW s \in KeptSensors, s[1] \in alive
  PROVE  findSensor(path(s)) = s /\ path(s) \in Found(Paths)
<1>1. /\ s = <<s[1], s[2]>> /\ s # NoSensor /\ s[1] \in Objects
      /\ path(s) \in Paths /\ path(s)[1] = IdOf[s[1]] /\ path(s)[2] = s[2]
  BY KeptFacts DEF Sensors, path
<1>2. container[IdOf[s[1]]] = s[1] /\ s[1] # NoObject
  BY <1>1, KeptFacts, ObjectAssumption DEF PInv, AliveIsRegistered
<1>3. findSensor(path(s)) = s
  BY <1>1, <1>2 DEF findSensor
<1> QED
  BY <1>1, <1>3 DEF Found

(* The tables and the counts after a change of the book that opens and     *)
(* closes connections with it.                                             *)
LEMMA CountsFollow ==
  ASSUME IInv', AliveIsRegistered', AskedIsBooked',
         \A c \in Clients, s \in KeptSensors :
            /\ listeners'[c][s] = IF m_subscribedSensors'[c][path(s)] = s THEN 1 ELSE 0
            /\ subscribers'[s][c] = listeners'[c][s]
  PROVE  PInv'
BY DEF PInv, ListensOnce, CountedOnce

(* It holds at the start, when all tables are empty.                       *)
LEMMA PInitSound == Init => PInv
<1> SUFFICES ASSUME Init PROVE PInv
  OBVIOUS
<1>1. IInv
  BY InitIInv
<1>2. \A s \in Sensors : path(s) \in Paths /\ s # NoSensor
  BY PathType, ObjectAssumption
<1> QED
  BY <1>1, <1>2, KeptFacts DEF Init, PInv, AliveIsRegistered, AskedIsBooked,
     ListensOnce, CountedOnce, EmptyBook, NoListeners

(* subscribe() enters, connects and counts what was not in the book.       *)
LEMMA SubscribePInv ==
  ASSUME Paired, PInv, NEW c \in Clients, NEW P \in SUBSET Paths, Subscribe(c, P)
  PROVE  PInv'
<1> DEFINE wanted == {findSensor(p) : p \in Found(P)}
<1>1. IInv /\ IInv'
  BY SubscribeIInv DEF PInv
<1>2. TypeOK /\ ContainerSound
  BY <1>1 DEF IInv
<1>3. \A d \in Clients, p \in Paths :
        /\ m_subscribedSensors'[d][p] =
             IF d = c /\ p \in Found(P) THEN findSensor(p)
             ELSE m_subscribedSensors[d][p]
        /\ asked'[d][p] = IF d = c /\ p \in Found(P) THEN asked[d][p] + 1
                          ELSE asked[d][p]
  BY <1>2 DEF Subscribe, TypeOK
<1>4. \A d \in Clients, s \in Sensors :
        /\ listeners'[d][s] = IF d = c /\ s \in wanted THEN listeners[d][s] + 1
                              ELSE listeners[d][s]
        /\ subscribers'[s][d] = IF d = c /\ s \in wanted
                                THEN subscribers[s][d] + 1 ELSE subscribers[s][d]
  BY <1>2 DEF Subscribe, Connect, TypeOK
<1>5. \A p \in Found(P) : /\ p \in Paths
                          /\ findSensor(p) # NoSensor
                          /\ path(findSensor(p)) = p
                          /\ asked[c][p] = 0
                          /\ p \in KeptPaths => m_subscribedSensors[c][p] = NoSensor
  <2> SUFFICES ASSUME NEW p \in Found(P)
               PROVE  /\ p \in Paths /\ findSensor(p) # NoSensor
                      /\ path(findSensor(p)) = p /\ asked[c][p] = 0
                      /\ p \in KeptPaths => m_subscribedSensors[c][p] = NoSensor
    OBVIOUS
  <2>1. p \in P /\ p \in Paths /\ findSensor(p) # NoSensor
    BY DEF Found
  <2>2. asked[c][p] = 0
    BY <2>1 DEF Subscribe, WellBehaved
  <2> QED
    BY <1>2, <2>1, <2>2, FoundSensor DEF PInv, AskedIsBooked
<1>6. \A s \in Sensors : s \in wanted <=> path(s) \in Found(P) /\ findSensor(path(s)) = s
  BY <1>5
<1>7. AliveIsRegistered'
  BY DEF Subscribe, PInv, AliveIsRegistered
<1>8. AskedIsBooked'
  BY <1>3, <1>5, KeptFacts DEF PInv, AskedIsBooked
<1>9. ASSUME NEW d \in Clients, NEW s \in KeptSensors
      PROVE  /\ listeners'[d][s] = IF m_subscribedSensors'[d][path(s)] = s THEN 1 ELSE 0
             /\ subscribers'[s][d] = listeners'[d][s]
  <2>1. /\ s \in Sensors /\ path(s) \in KeptPaths /\ path(s) \in Paths /\ s # NoSensor
        /\ listeners[d][s] = IF m_subscribedSensors[d][path(s)] = s THEN 1 ELSE 0
        /\ subscribers[s][d] = listeners[d][s]
    BY KeptFacts DEF PInv, ListensOnce, CountedOnce
  <2>2. CASE d = c /\ path(s) \in Found(P)
    <3>1. /\ m_subscribedSensors'[d][path(s)] = findSensor(path(s))
          /\ listeners[d][s] = 0
      BY <1>3, <1>5, <2>1, <2>2
    <3> QED
      BY <1>4, <1>6, <2>1, <2>2, <3>1
  <2>3. CASE ~ (d = c /\ path(s) \in Found(P))
    BY <1>3, <1>4, <1>6, <2>1, <2>3
  <2> QED
    BY <2>2, <2>3
<1> QED
  BY <1>1, <1>7, <1>8, <1>9, CountsFollow

(* unsubscribe() takes back the same three.                                *)
LEMMA UnsubscribePInv ==
  ASSUME PInv, NEW c \in Clients, NEW P \in SUBSET Paths, Unsubscribe(c, P)
  PROVE  PInv'
<1> DEFINE taken == {m_subscribedSensors[c][p] : p \in P} \ {NoSensor}
<1>1. IInv /\ IInv'
  BY UnsubscribeIInv DEF PInv
<1>2. TypeOK
  BY <1>1 DEF IInv
<1>3. \A d \in Clients, p \in Paths :
        /\ m_subscribedSensors'[d][p] = IF d = c /\ p \in P THEN NoSensor
                                        ELSE m_subscribedSensors[d][p]
        /\ asked'[d][p] = IF d = c /\ p \in P /\ asked[d][p] > 0 THEN asked[d][p] - 1
                          ELSE asked[d][p]
  BY <1>2 DEF Unsubscribe, TakePaths, TypeOK
<1>4. taken \subseteq m_connections[c]
  BY <1>1 DEF IInv, BookBacked
<1>5. \A d \in Clients, s \in Sensors :
        /\ listeners'[d][s] = IF d = c /\ s \in taken THEN listeners[d][s] - 1
                              ELSE listeners[d][s]
        /\ subscribers'[s][d] = IF d = c /\ s \in taken
                                THEN subscribers[s][d] - 1 ELSE subscribers[s][d]
  BY <1>2, <1>4 DEF Unsubscribe, Disconnect, TypeOK
<1>6. \A s \in Sensors :
        s \in taken <=> path(s) \in P /\ m_subscribedSensors[c][path(s)] = s
  BY <1>1, BookedPath, ObjectAssumption
<1>7. AliveIsRegistered'
  BY DEF Unsubscribe, PInv, AliveIsRegistered
<1>8. AskedIsBooked'
  BY <1>3, KeptFacts DEF PInv, AskedIsBooked
<1>9. ASSUME NEW d \in Clients, NEW s \in KeptSensors
      PROVE  /\ listeners'[d][s] = IF m_subscribedSensors'[d][path(s)] = s THEN 1 ELSE 0
             /\ subscribers'[s][d] = listeners'[d][s]
  <2>1. /\ s \in Sensors /\ path(s) \in KeptPaths /\ path(s) \in Paths /\ s # NoSensor
        /\ listeners[d][s] = IF m_subscribedSensors[d][path(s)] = s THEN 1 ELSE 0
        /\ subscribers[s][d] = listeners[d][s]
    BY KeptFacts DEF PInv, ListensOnce, CountedOnce
  <2> QED
    BY <1>3, <1>5, <1>6, <2>1
<1> QED
  BY <1>1, <1>7, <1>8, <1>9, CountsFollow

(* Clients whose objects are deleted give everything back.                 *)
LEMMA DeleteClientsPInv ==
  ASSUME PInv, IInv', NEW C \in SUBSET Clients, DeleteClients(C),
         UNCHANGED <<container, alive>>,
         \A c \in Clients, p \in KeptPaths :
            asked'[c][p] = IF c \in C THEN 0 ELSE asked[c][p]
  PROVE  PInv'
<1>1. TypeOK
  BY DEF PInv, IInv
<1>2. \A c \in Clients, p \in Paths :
        m_subscribedSensors'[c][p] = IF c \in C THEN NoSensor
                                     ELSE m_subscribedSensors[c][p]
  BY <1>1 DEF DeleteClients, EmptyBook, TypeOK
<1>3. \A c \in Clients, s \in Sensors :
        /\ listeners'[c][s] = IF c \in C THEN 0 ELSE listeners[c][s]
        /\ subscribers'[s][c] =
             IF c \in C /\ m_subscribedSensors[c][path(s)] = s
             THEN subscribers[s][c] - 1 ELSE subscribers[s][c]
  BY <1>1 DEF DeleteClients, ReleaseAll, NoListeners, TypeOK
<1>4. AliveIsRegistered' /\ AskedIsBooked'
  BY <1>2, KeptFacts DEF PInv, AliveIsRegistered, AskedIsBooked
<1>5. ASSUME NEW c \in Clients, NEW s \in KeptSensors
      PROVE  /\ listeners'[c][s] = IF m_subscribedSensors'[c][path(s)] = s THEN 1 ELSE 0
             /\ subscribers'[s][c] = listeners'[c][s]
  <2>1. /\ s \in Sensors /\ path(s) \in KeptPaths /\ path(s) \in Paths /\ s # NoSensor
        /\ listeners[c][s] = IF m_subscribedSensors[c][path(s)] = s THEN 1 ELSE 0
        /\ subscribers[s][c] = listeners[c][s]
    BY KeptFacts DEF PInv, ListensOnce, CountedOnce
  <2> QED
    BY <1>2, <1>3, <2>1
<1> QED
  BY <1>4, <1>5, CountsFollow

(* Steps that leave the tables, counts and objects alone.                  *)
LEMMA PFrameRule ==
  ASSUME PInv, IInv', UNCHANGED <<container, alive, subscribers, bookVars, asked>>
  PROVE  PInv'
BY DEF PInv, AliveIsRegistered, AskedIsBooked, ListensOnce, CountedOnce,
       bookVars

(* A new object finds nobody subscribed to its paths.                      *)
LEMMA AddObjectPInv ==
  ASSUME PInv, NEW o \in Objects, AddObject(o)
  PROVE  PInv'
<1>1. IInv /\ IInv' /\ TypeOK
  BY AddObjectIInv DEF PInv, IInv
<1>2. AliveIsRegistered'
  <2> SUFFICES ASSUME NEW x \in alive', IdOf[x] \in KeptIds
               PROVE  container'[IdOf[x]] = x
    BY DEF AliveIsRegistered
  <2>1. /\ container' = [container EXCEPT ![IdOf[o]] = o]
        /\ alive' = alive \union {o}
        /\ container[IdOf[o]] = NoObject
    BY DEF AddObject
  <2>2. x = o \/ (x \in alive /\ container[IdOf[x]] = x)
    BY <2>1 DEF PInv, AliveIsRegistered
  <2>3. x \in Objects /\ IdOf[x] \in Ids /\ x # NoObject
    BY <1>1, <2>2, ObjectAssumption DEF TypeOK
  <2>4. container \in [Ids -> Objects \union {NoObject}] /\ IdOf[o] \in Ids
    BY <1>1, ObjectAssumption DEF TypeOK
  <2> QED
    BY <2>1, <2>2, <2>3, <2>4
<1> QED
  BY <1>1, <1>2 DEF AddObject, PInv, AskedIsBooked, ListensOnce, CountedOnce,
     bookVars, peerVars

(* An object that is removed takes only its own paths out of the books.    *)
LEMMA RemoveObjectPInv ==
  ASSUME PInv, NEW o \in Objects, RemoveObject(o)
  PROVE  PInv'
<1>1. IInv /\ IInv' /\ TypeOK
  BY RemoveObjectIInv DEF PInv, IInv
<1>2. \A p \in KeptPaths : p[1] # IdOf[o] /\ p \in Paths
  BY DEF RemoveObject, KeptPaths, KeptIds
<1>3. \A c \in Clients, p \in KeptPaths :
        m_subscribedSensors'[c][p] = m_subscribedSensors[c][p]
  BY <1>1, <1>2 DEF RemoveObject, ForgetRemoved, TypeOK
<1>4. \A i \in KeptIds : container'[i] = container[i]
  BY <1>1 DEF RemoveObject, TypeOK, KeptIds
<1>5. \A s \in KeptSensors : path(s) \in KeptPaths
  BY KeptFacts
<1>6. UNCHANGED <<alive, subscribers, listeners, asked>>
  BY DEF RemoveObject, peerVars
<1> QED
  BY <1>1, <1>3, <1>4, <1>5, <1>6
  DEF PInv, AliveIsRegistered, AskedIsBooked, ListensOnce, CountedOnce

(* An object that is deleted was removed, so it is none that stays.        *)
LEMMA DeletedIsNotKept ==
  ASSUME PInv, NEW o \in Objects, DeleteObject(o)
  PROVE  /\ IdOf[o] \notin KeptIds
         /\ \A s \in KeptSensors : s \notin SensorsOf(o)
BY DEF DeleteObject, PInv, AliveIsRegistered, KeptSensors, SensorsOf

(* So it changes nothing of those that do.                                 *)
LEMMA DeleteObjectPInv ==
  ASSUME PInv, NEW o \in Objects, DeleteObject(o)
  PROVE  PInv'
<1>1. IInv /\ IInv' /\ TypeOK
  BY DeleteObjectIInv DEF PInv, IInv
<1>2. \A s \in KeptSensors : s \in Sensors /\ s \notin SensorsOf(o)
  BY KeptFacts, DeletedIsNotKept
<1>3. \A c \in Clients, p \in KeptPaths :
        m_subscribedSensors'[c][p] = m_subscribedSensors[c][p]
  <2> SUFFICES ASSUME NEW c \in Clients, NEW p \in KeptPaths
               PROVE  m_subscribedSensors'[c][p] = m_subscribedSensors[c][p]
    OBVIOUS
  <2>1. p \in Paths
    BY KeptFacts
  <2>2. m_subscribedSensors[c][p] # NoSensor => m_subscribedSensors[c][p] \in KeptSensors
    BY <1>1, <2>1, BookedPath, KeptFacts
  <2>3. m_subscribedSensors[c][p] = NoSensor => m_subscribedSensors'[c][p] = NoSensor
    BY <2>1 DEF DeleteObject, ForgetDestroyed
  <2>4. m_subscribedSensors[c][p] # NoSensor =>
          m_subscribedSensors[c][p] \notin Heard(c, o)
    BY <1>2, <2>2 DEF Heard
  <2> QED
    BY <2>1, <2>3, <2>4 DEF DeleteObject, ForgetDestroyed
<1>4. /\ \A c \in Clients, s \in KeptSensors :
           /\ listeners'[c][s] = listeners[c][s]
           /\ subscribers'[s][c] = subscribers[s][c]
      /\ alive' \subseteq alive
      /\ UNCHANGED <<asked, container>>
  BY <1>1, <1>2 DEF DeleteObject, peerVars
<1>5. \A s \in KeptSensors : path(s) \in KeptPaths
  BY KeptFacts
<1> QED
  BY <1>1, <1>3, <1>4, <1>5
  DEF PInv, AliveIsRegistered, AskedIsBooked, ListensOnce, CountedOnce

(* Every step keeps the invariant.                                         *)
LEMMA NextPInv ==
  ASSUME Paired, PInv, [Next]_vars
  PROVE  PInv'
<1>1. IInv /\ IInv' /\ TypeOK
  BY NextIInv DEF PInv, IInv
<1>2. ASSUME NEW c \in Clients, NEW P \in SUBSET Paths, Subscribe(c, P)
      PROVE  PInv'
  BY <1>2, SubscribePInv
<1>3. ASSUME NEW c \in Clients, NEW P \in SUBSET Paths, Unsubscribe(c, P)
      PROVE  PInv'
  BY <1>3, UnsubscribePInv
<1>4. ASSUME NEW c \in Clients, ServiceDisconnected(c)
      PROVE  PInv'
  <2>1. \A d \in Clients, p \in KeptPaths :
          asked'[d][p] = IF d \in {c} THEN 0 ELSE asked[d][p]
    BY <1>1, <1>4, KeptFacts DEF ServiceDisconnected, TypeOK
  <2>2. {c} \in SUBSET Clients /\ DeleteClients({c}) /\ UNCHANGED <<container, alive>>
    BY <1>4 DEF ServiceDisconnected
  <2> QED
    BY <1>1, <2>1, <2>2, DeleteClientsPInv
<1>5. CASE Stop
  <2>1. m_clients \in SUBSET Clients
    BY <1>1 DEF TypeOK
  <2>2. ASSUME NEW d \in Clients, NEW p \in KeptPaths
        PROVE  asked'[d][p] = IF d \in m_clients THEN 0 ELSE asked[d][p]
    <3>1. p \in Paths /\ asked'[d][p] = 0
      BY <1>5, KeptFacts DEF Stop
    <3>2. d \notin m_clients => m_subscribedSensors[d][p] = NoSensor
      BY <1>1, <3>1, BookedPath DEF IInv, BookBacked, StoredIsLive, ListenersExist
    <3> QED
      BY <3>1, <3>2 DEF PInv, AskedIsBooked
  <2> QED
    BY <1>1, <1>5, <2>1, <2>2, DeleteClientsPInv DEF Stop
<1>6. ASSUME NEW o \in Objects, AddObject(o)
      PROVE  PInv'
  BY <1>6, AddObjectPInv
<1>7. ASSUME NEW o \in Objects, RemoveObject(o)
      PROVE  PInv'
  BY <1>7, RemoveObjectPInv
<1>8. ASSUME NEW o \in Objects, DeleteObject(o)
      PROVE  PInv'
  BY <1>8, DeleteObjectPInv
<1>9. ASSUME NEW s \in Sensors, NEW v \in Values \union {Invalid}, SetValue(s, v)
      PROVE  PInv'
  BY <1>1, <1>9, PFrameRule DEF SetValue, peerVars
<1>10. ASSUME NEW s \in Sensors, InfoChanged(s)
       PROVE  PInv'
  BY <1>1, <1>10, PFrameRule DEF InfoChanged, objectVars, peerVars
<1>11. ASSUME NEW c \in Clients, NEW P \in SUBSET Paths, SensorData(c, P)
       PROVE  PInv'
  BY <1>1, <1>11, PFrameRule DEF SensorData, objectVars
<1>12. CASE ServiceNameLost
  BY <1>1, <1>12, PFrameRule DEF ServiceNameLost, objectVars, peerVars
<1>13. CASE Frame
  BY <1>1, <1>13, PFrameRule DEF Frame, SendFrame
<1>14. CASE UNCHANGED vars
  BY <1>1, <1>14, PFrameRule DEF vars, objectVars, peerVars
<1> QED
  BY <1>2, <1>3, <1>4, <1>5, <1>6, <1>7, <1>8, <1>9, <1>10, <1>11, <1>12, <1>13, <1>14
  DEF Next

(* A sensor's count is the number of its clients, for clients that         *)
(* subscribe once and sensors whose object is not removed, whatever else   *)
(* is: removing other objects leaks or loses none of its subscriptions.    *)
THEOREM KeptCountsAreClients ==
  ASSUME Paired
  PROVE  Spec => []CountedOnce
<1>1. PInv => CountedOnce
  BY DEF PInv
<1>2. PInv /\ [Next]_vars => PInv'
  BY NextPInv
<1> QED
  BY <1>1, <1>2, PInitSound, PTL DEF Spec

(* So if no object is removed that is so of every sensor.                  *)
THEOREM CountsAreClients ==
  ASSUME Removable = {}, Paired
  PROVE  Spec => []SubscribersAreClients
<1>1. CountedOnce => SubscribersAreClients
  BY KeptFacts DEF CountedOnce, SubscribersAreClients
<1> QED
  BY <1>1, KeptCountsAreClients, PTL

-----------------------------------------------------------------------------
(* The batch.                                                              *)

(* An empty batch owes nothing.                                            *)
LEMMA EmptyBatch ==
  ASSUME NEW c \in Clients, NEW p \in Paths, m_pendingUpdates[c] = <<>>
  PROVE  Backlog(c, p) = {} /\ Latest(c, p) = Unknown
<1>1. DOMAIN m_pendingUpdates[c] = {}
  OBVIOUS
<1> QED
  BY <1>1 DEF Backlog, Latest

(* The positions of a path are positions of the batch, and finitely many.  *)
LEMMA BacklogFacts ==
  ASSUME TypeOK, NEW c \in Clients, NEW p \in Paths
  PROVE  /\ Len(m_pendingUpdates[c]) \in Nat
         /\ Backlog(c, p) \in SUBSET (1 .. Len(m_pendingUpdates[c]))
         /\ Cardinality(Backlog(c, p)) \in Nat
         /\ Backlog(c, p) = {} <=> Latest(c, p) = Unknown
<1>1. /\ Len(m_pendingUpdates[c]) \in Nat
      /\ DOMAIN m_pendingUpdates[c] = 1 .. Len(m_pendingUpdates[c])
  <2>1. m_pendingUpdates[c] \in Seq(Update)
    BY DEF TypeOK
  <2> QED
    BY <2>1
<1>2. Backlog(c, p) \in SUBSET (1 .. Len(m_pendingUpdates[c]))
  BY <1>1 DEF Backlog
<1>3. IsFiniteSet(1 .. Len(m_pendingUpdates[c]))
  BY <1>1, FS_Interval
<1>4. Cardinality(Backlog(c, p)) \in Nat
  BY <1>2, <1>3, FS_Subset, FS_CardinalityType
<1>5. Backlog(c, p) # {} => Latest(c, p) # Unknown
  BY LatestType, ValueAssumption
<1>6. Backlog(c, p) = {} => Latest(c, p) = Unknown
  BY DEF Latest
<1> QED
  BY <1>1, <1>2, <1>4, <1>5, <1>6

(* A change that reaches a client is the newest entry of its path.         *)
LEMMA ChangeQueued ==
  ASSUME PInv, NEW c \in Clients, NEW s \in KeptSensors, NEW v \in Values,
         SetValue(s, v), m_subscribedSensors[c][path(s)] = s
  PROVE  Backlog(c, path(s))' # {} /\ Latest(c, path(s))' = v
<1> DEFINE old == m_pendingUpdates[c]
           new == m_pendingUpdates'[c]
           n == Len(old) + 1
           entry == [sensorProperty |-> path(s), payload |-> v]
<1>1. TypeOK /\ old \in Seq(Update) /\ entry \in Update /\ v # Invalid
  BY KeptFacts, ValueAssumption DEF PInv, IInv, TypeOK, Update
<1>2. Enqueued(c, s, v) = <<entry>>
  <2>1. listeners[c][s] = 1
    BY DEF PInv, ListensOnce
  <2>2. Enqueued(c, s, v) = [i \in 1 .. 1 |-> entry]
    BY <1>1, <2>1 DEF Enqueued
  <2> QED
    BY <2>2
<1>3. new = old \o <<entry>>
  BY <1>2 DEF SetValue
<1>4. /\ Len(old) \in Nat
      /\ DOMAIN new = 1 .. n
      /\ new[n] = entry
  BY <1>1, <1>3
<1> DEFINE back == {i \in DOMAIN new : new[i].sensorProperty = path(s)}
<1>5. n \in back /\ \A i \in back : i <= n /\ i \in Nat
  BY <1>4
<1>6. Backlog(c, path(s))' = back
  BY DEF Backlog
<1>7. Max(back) = n
  BY <1>4, <1>5 DEF Max
<1>8. Latest(c, path(s))' = new[n].payload
  BY <1>5, <1>6, <1>7 DEF Latest
<1> QED
  BY <1>4, <1>5, <1>6, <1>8

(* What is appended to a batch comes after it.                             *)
LEMMA JoinedBatch ==
  ASSUME NEW old \in Seq(Update), NEW more \in Seq(Update)
  PROVE  /\ Len(old) \in Nat
         /\ DOMAIN old = 1 .. Len(old)
         /\ DOMAIN (old \o more) = 1 .. Len(old) + Len(more)
         /\ \A i \in 1 .. Len(old) : (old \o more)[i] = old[i]
         /\ \A i \in DOMAIN (old \o more) :
              i > Len(old) => (old \o more)[i] = more[i - Len(old)]
BY ConcatProperties

(* No other change touches what a client has queued of a path.             *)
LEMMA OthersStay ==
  ASSUME PInv, NEW c \in Clients, NEW p \in KeptPaths,
         NEW s \in Sensors, NEW v \in Values \union {Invalid}, SetValue(s, v),
         v = Invalid \/ p # path(s) \/ m_subscribedSensors[c][p] # s
  PROVE  Backlog(c, p)' = Backlog(c, p) /\ Latest(c, p)' = Latest(c, p)
<1> DEFINE old == m_pendingUpdates[c]
           new == m_pendingUpdates'[c]
           entry == [sensorProperty |-> path(s), payload |-> v]
<1>1. TypeOK /\ old \in Seq(Update) /\ new = old \o Enqueued(c, s, v)
  BY DEF PInv, IInv, TypeOK, SetValue
<1>0. p \in Paths
  BY KeptFacts
<1>2. CASE Enqueued(c, s, v) = <<>>
  <2>1. new = old
    BY <1>1, <1>2
  <2> QED
    BY <2>1 DEF Backlog, Latest
<1>3. CASE Enqueued(c, s, v) # <<>>
  <2>1. v \in Values /\ listeners[c][s] # 0
    BY <1>3 DEF Enqueued
  <2>2. p # path(s)
    <3> SUFFICES ASSUME p = path(s) PROVE FALSE
      OBVIOUS
    <3>1. s \in KeptSensors
      BY KeptFacts
    <3>2. m_subscribedSensors[c][path(s)] = s
      BY <2>1, <3>1 DEF PInv, ListensOnce
    <3> QED
      BY <2>1, <3>2, ValueAssumption
  <2>3. listeners[c][s] \in Nat
    BY <1>1 DEF TypeOK
  <2>4. Enqueued(c, s, v) = [i \in 1 .. listeners[c][s] |-> entry]
    BY <2>1, ValueAssumption DEF Enqueued
  <2>5. /\ Len(old) \in Nat
        /\ DOMAIN old = 1 .. Len(old)
        /\ DOMAIN new = 1 .. Len(old) + listeners[c][s]
        /\ \A i \in 1 .. Len(old) : new[i] = old[i]
        /\ \A i \in DOMAIN new : i \notin DOMAIN old => new[i].sensorProperty = path(s)
    <3> DEFINE more == [i \in 1 .. listeners[c][s] |-> entry]
    <3>1. entry \in Update
      BY <2>1, PathType DEF Update
    <3>2. more \in Seq(Update) /\ Len(more) = listeners[c][s]
      BY <2>3, <3>1
    <3>3. \A i \in 1 .. listeners[c][s] : more[i].sensorProperty = path(s)
      OBVIOUS
    <3>4. new = old \o more
      BY <1>1, <2>4
    <3> HIDE DEF more
    <3>5. /\ Len(old) \in Nat
          /\ DOMAIN old = 1 .. Len(old)
          /\ DOMAIN new = 1 .. Len(old) + listeners[c][s]
          /\ \A i \in 1 .. Len(old) : new[i] = old[i]
          /\ \A i \in DOMAIN new : i > Len(old) => new[i] = more[i - Len(old)]
      BY <1>1, <3>2, <3>4, JoinedBatch
    <3>6. ASSUME NEW i \in DOMAIN new, i \notin DOMAIN old
          PROVE  new[i].sensorProperty = path(s)
      <4>1. i > Len(old) /\ i - Len(old) \in 1 .. listeners[c][s]
        BY <2>3, <3>5, <3>6
      <4>2. new[i] = more[i - Len(old)]
        BY <3>5, <4>1
      <4> QED
        BY <3>3, <4>1, <4>2
    <3> QED
      BY <3>5, <3>6
  <2>6. Backlog(c, p)' = Backlog(c, p)
    <3> DEFINE back == {i \in DOMAIN new : new[i].sensorProperty = p}
               was == {i \in DOMAIN old : old[i].sensorProperty = p}
    <3>1. ASSUME NEW i \in back
          PROVE  i \in was
      <4>1. i \in DOMAIN old
        BY <2>2, <2>5
      <4> QED
        BY <2>5, <4>1
    <3>2. was \subseteq back
      BY <2>3, <2>5
    <3>3. back = was
      BY <3>1, <3>2
    <3> QED
      BY <3>3 DEF Backlog
  <2>7. CASE Backlog(c, p) = {}
    BY <2>6, <2>7 DEF Latest
  <2>8. CASE Backlog(c, p) # {}
    <3>1. Max(Backlog(c, p)) \in 1 .. Len(old)
      <4>1. Backlog(c, p) \in SUBSET (1 .. Len(old))
        BY <1>0, <1>1, BacklogFacts
      <4> QED
        BY <2>5, <2>8, <4>1, MaxPosition
    <3>2. /\ Latest(c, p) = old[Max(Backlog(c, p))].payload
          /\ Latest(c, p)' = new[Max(Backlog(c, p))].payload
      BY <2>6, <2>8 DEF Latest
    <3> QED
      BY <2>5, <2>6, <3>1, <3>2
  <2> QED
    BY <2>6, <2>7, <2>8
<1> QED
  BY <1>2, <1>3

-----------------------------------------------------------------------------
(* What a step may queue for a path without subscription, for the paths of *)
(* a set.                                                                  *)
GetsNothing(P) ==
  \A c \in Clients, p \in P :
    asked[c][p] = 0 /\ asked'[c][p] = 0
      => Cardinality(Backlog(c, p)') <= Cardinality(Backlog(c, p))

(* Whoever undid each subscribe() is queued nothing more of a path whose   *)
(* object is not removed, whatever happens to other objects.               *)
THEOREM KeptGetsNothing ==
  ASSUME Paired
  PROVE  Spec => [][GetsNothing(KeptPaths)]_vars
<1>1. ASSUME PInv, [Next]_vars
      PROVE  [GetsNothing(KeptPaths)]_vars
  <2> SUFFICES ASSUME NEW c \in Clients, NEW p \in KeptPaths, asked[c][p] = 0
               PROVE  Cardinality(Backlog(c, p)') <= Cardinality(Backlog(c, p))
    BY DEF GetsNothing
  <2>1. TypeOK /\ Cardinality(Backlog(c, p)) \in Nat
    BY <1>1, KeptFacts, BacklogFacts DEF PInv, IInv
  <2>2. CASE m_pendingUpdates'[c] = m_pendingUpdates[c]
    <3>1. Backlog(c, p)' = Backlog(c, p)
      BY <2>2 DEF Backlog
    <3> QED
      BY <2>1, <3>1
  <2>3. CASE m_pendingUpdates'[c] = <<>>
    <3>1. Backlog(c, p)' = {}
      BY <2>3 DEF Backlog
    <3>2. Cardinality({}) = 0
      BY FS_EmptySet
    <3> QED
      BY <2>1, <3>1, <3>2
  <2>4. ASSUME NEW s \in Sensors, NEW v \in Values \union {Invalid}, SetValue(s, v)
        PROVE  Cardinality(Backlog(c, p)') <= Cardinality(Backlog(c, p))
    <3>1. m_subscribedSensors[c][p] = NoSensor /\ s # NoSensor
      BY <1>1, ObjectAssumption DEF PInv, AskedIsBooked
    <3>2. Backlog(c, p)' = Backlog(c, p)
      BY <1>1, <2>4, <3>1, OthersStay
    <3> QED
      BY <2>1, <3>2
  <2>5. \/ m_pendingUpdates'[c] = m_pendingUpdates[c]
        \/ m_pendingUpdates'[c] = <<>>
        \/ \E s \in Sensors, v \in Values \union {Invalid} : SetValue(s, v)
    BY <1>1, <2>1
    DEF Next, vars, batchVars, Subscribe, Unsubscribe, SensorData, ServiceDisconnected,
        ServiceNameLost, Stop, DeleteClients, AddObject, RemoveObject, DeleteObject,
        InfoChanged, Frame, SendFrame, ClearBatches
  <2> QED
    BY <2>2, <2>3, <2>4, <2>5
<1>2. PInv /\ [Next]_vars => PInv'
  BY NextPInv
<1> QED
  BY <1>1, <1>2, PInitSound, PTL DEF Spec

(* So if no object is removed that is so of every path.                    *)
THEOREM UnsubscribedAlwaysGetsNothing ==
  ASSUME Removable = {}, Paired
  PROVE  Spec => UnsubscribedGetsNothing
<1>1. KeptPaths = Paths
  BY KeptFacts
<1>2. [GetsNothing(KeptPaths)]_vars =>
        [\A c \in Clients, p \in Paths :
           asked[c][p] = 0 /\ asked'[c][p] = 0
             => Cardinality(Backlog(c, p)') <= Cardinality(Backlog(c, p))]_vars
  BY <1>1 DEF GetsNothing
<1> QED
  BY <1>2, KeptGetsNothing, PTL DEF UnsubscribedGetsNothing

-----------------------------------------------------------------------------
(* Freshness.                                                              *)

(* Freshness of the paths whose object is not removed.                     *)
KeptFreshness ==
  \A c \in Clients, p \in KeptPaths :
    LET s == m_subscribedSensors[c][p] IN
    s # NoSensor /\ value[s] # Invalid /\ view[c][p] # Unknown
      => value[s] = IF Backlog(c, p) = {} THEN view[c][p] ELSE Latest(c, p)

(* The same, and that a batch ends with the current value also for a       *)
(* client that was told nothing yet.                                       *)
BatchEndsFresh ==
  \A c \in Clients, p \in KeptPaths :
    LET s == m_subscribedSensors[c][p] IN
    s # NoSensor /\ value[s] # Invalid
      => IF Backlog(c, p) = {} THEN view[c][p] \in {Unknown, value[s]}
         ELSE Latest(c, p) = value[s]

(* It is the stronger of the two.                                          *)
LEMMA FreshIfBatchFresh == BatchEndsFresh => KeptFreshness
BY DEF BatchEndsFresh, KeptFreshness

(* Books, values, batches and views that stay keep it.                     *)
LEMMA FreshFrameRule ==
  ASSUME BatchEndsFresh, UNCHANGED <<m_pendingUpdates, view>>,
         \A s \in KeptSensors : value'[s] = value[s],
         PInv,
         \A c \in Clients, p \in KeptPaths :
            m_subscribedSensors'[c][p] \in {NoSensor, m_subscribedSensors[c][p]}
  PROVE  BatchEndsFresh'
<1>1. \A c \in Clients, p \in Paths :
        Backlog(c, p)' = Backlog(c, p) /\ Latest(c, p)' = Latest(c, p)
  BY DEF Backlog, Latest
<1>2. \A c \in Clients, p \in KeptPaths :
        m_subscribedSensors[c][p] # NoSensor => m_subscribedSensors[c][p] \in KeptSensors
  BY KeptFacts, BookedPath DEF PInv
<1> QED
  BY <1>1, <1>2, KeptFacts DEF BatchEndsFresh

(* Whoever subscribes knows nothing of the path, and has no backlog of it. *)
LEMMA SubscribeFresh ==
  ASSUME PInv, BatchEndsFresh, Patient,
         NEW c \in Clients, NEW P \in SUBSET Paths, Subscribe(c, P)
  PROVE  BatchEndsFresh'
<1>1. TypeOK
  BY DEF PInv, IInv
<1>2. \A d \in Clients, p \in Paths :
        /\ m_subscribedSensors'[d][p] =
             IF d = c /\ p \in Found(P) THEN findSensor(p)
             ELSE m_subscribedSensors[d][p]
        /\ view'[d][p] = IF d = c /\ p \in Found(P) THEN Unknown ELSE view[d][p]
  BY <1>1 DEF Subscribe, TypeOK
<1>3. \A d \in Clients, p \in Paths :
        Backlog(d, p)' = Backlog(d, p) /\ Latest(d, p)' = Latest(d, p)
  BY DEF Subscribe, batchVars, Backlog, Latest
<1>4. \A p \in Found(P) : Backlog(c, p) = {}
  BY DEF Subscribe, WellBehaved, Found
<1>5. UNCHANGED value
  BY DEF Subscribe
<1> QED
  BY <1>2, <1>3, <1>4, <1>5, KeptFacts DEF BatchEndsFresh

(* A reply to sensorData() is current, and does not overtake the batch.    *)
LEMMA SensorDataFresh ==
  ASSUME PInv, BatchEndsFresh,
         NEW c \in Clients, NEW P \in SUBSET Paths, SensorData(c, P)
  PROVE  BatchEndsFresh'
<1>1. IInv /\ TypeOK
  BY DEF PInv, IInv
<1>2. \A d \in Clients, p \in Paths :
        view'[d][p] = IF d = c /\ p \in Found(P) /\ value[findSensor(p)] # Invalid
                      THEN value[findSensor(p)] ELSE view[d][p]
  BY <1>1 DEF SensorData, TypeOK
<1>3. \A d \in Clients, p \in Paths :
        Backlog(d, p)' = Backlog(d, p) /\ Latest(d, p)' = Latest(d, p)
  BY DEF SensorData, batchVars, Backlog, Latest
<1>4. UNCHANGED <<value, m_subscribedSensors>>
  BY DEF SensorData, objectVars, bookVars
<1>5. \A d \in Clients, p \in Paths :
        m_subscribedSensors[d][p] # NoSensor => m_subscribedSensors[d][p] = findSensor(p)
  BY <1>1, BookedPath
<1> QED
  BY <1>2, <1>3, <1>4, <1>5, KeptFacts DEF BatchEndsFresh

(* A client that is deleted is subscribed to nothing.                      *)
LEMMA DeleteClientsFresh ==
  ASSUME PInv, BatchEndsFresh, NEW C \in SUBSET Clients, DeleteClients(C),
         UNCHANGED <<value, view>>
  PROVE  BatchEndsFresh'
<1> SUFFICES ASSUME NEW c \in Clients, NEW p \in KeptPaths,
                    m_subscribedSensors'[c][p] # NoSensor,
                    value[m_subscribedSensors'[c][p]] # Invalid
             PROVE  IF Backlog(c, p)' = {}
                    THEN view[c][p] \in {Unknown, value[m_subscribedSensors'[c][p]]}
                    ELSE Latest(c, p)' = value[m_subscribedSensors'[c][p]]
  BY DEF BatchEndsFresh
<1>1. c \notin C /\ m_subscribedSensors'[c][p] = m_subscribedSensors[c][p]
  BY KeptFacts DEF DeleteClients, EmptyBook
<1>2. m_pendingUpdates'[c] = m_pendingUpdates[c]
  BY <1>1 DEF DeleteClients
<1>3. Backlog(c, p)' = Backlog(c, p) /\ Latest(c, p)' = Latest(c, p)
  BY <1>2 DEF Backlog, Latest
<1> QED
  BY <1>1, <1>3 DEF BatchEndsFresh

(* A change of value ends the batch of every subscriber.                   *)
LEMMA SetValueFresh ==
  ASSUME PInv, BatchEndsFresh,
         NEW s \in Sensors, NEW v \in Values \union {Invalid}, SetValue(s, v)
  PROVE  BatchEndsFresh'
<1>1. IInv /\ TypeOK
  BY DEF PInv, IInv
<1>2. /\ value' = [value EXCEPT ![s] = v]
      /\ UNCHANGED <<m_subscribedSensors, view>>
  BY DEF SetValue, bookVars, peerVars
<1>3. value \in [Sensors -> Values \union {Invalid}]
  BY <1>1 DEF TypeOK
<1> SUFFICES ASSUME NEW c \in Clients, NEW p \in KeptPaths,
                    m_subscribedSensors[c][p] # NoSensor,
                    value'[m_subscribedSensors[c][p]] # Invalid
             PROVE  IF Backlog(c, p)' = {}
                    THEN view[c][p] \in {Unknown, value'[m_subscribedSensors[c][p]]}
                    ELSE Latest(c, p)' = value'[m_subscribedSensors[c][p]]
  BY <1>2 DEF BatchEndsFresh
<1>4. /\ p \in Paths
      /\ m_subscribedSensors[c][p] \in Sensors /\ path(m_subscribedSensors[c][p]) = p
      /\ m_subscribedSensors[c][p] \in KeptSensors
  BY <1>1, BookedPath, KeptFacts
<1>5. CASE m_subscribedSensors[c][p] = s
  <2>1. v \in Values /\ value'[s] = v
    BY <1>2, <1>3, <1>5
  <2>2. Backlog(c, p)' # {} /\ Latest(c, p)' = v
    BY <1>4, <1>5, <2>1, ChangeQueued
  <2> QED
    BY <1>5, <2>1, <2>2
<1>6. CASE m_subscribedSensors[c][p] # s
  <2>1. value'[m_subscribedSensors[c][p]] = value[m_subscribedSensors[c][p]]
    BY <1>2, <1>3, <1>4, <1>6
  <2>2. Backlog(c, p)' = Backlog(c, p) /\ Latest(c, p)' = Latest(c, p)
    BY <1>6, OthersStay
  <2> QED
    BY <2>1, <2>2 DEF BatchEndsFresh
<1> QED
  BY <1>5, <1>6

(* What a frame of updates f changes of a path a client is subscribed to,  *)
(* and what the client is told of any path.                                *)
LEMMA FrameNews ==
  ASSUME PInv, NEW S \in SUBSET Registered,
         NEW f \in [S -> Values \union {Invalid}], SendFrame(f),
         NEW c \in Clients, NEW p \in KeptPaths
  PROVE  LET s == m_subscribedSensors[c][p] IN
         view'[c][p] = IF s # NoSensor /\ s \in S /\ f[s] # Invalid THEN f[s]
                       ELSE IF Backlog(c, p) # {} THEN Latest(c, p) ELSE view[c][p]
<1> DEFINE s == m_subscribedSensors[c][p]
           news == {t \in DOMAIN f : listeners[c][t] > 0 /\ f[t] # Invalid}
<1>1. IInv /\ DOMAIN f = S /\ S \subseteq Sensors
  BY DEF PInv, Registered
<1>0. p \in Paths /\ \A t \in Sensors : path(t) = p => t \in KeptSensors
  BY KeptFacts
<1>2. \A t \in Sensors : path(t) = p =>
        (listeners[c][t] > 0 <=> m_subscribedSensors[c][p] = t)
  BY <1>0 DEF PInv, ListensOnce
<1>3. s # NoSensor => s \in Sensors /\ path(s) = p
  BY <1>0, <1>1, BookedPath
<1>4. \A t \in news : path(t) = p => t = s /\ t # NoSensor
  BY <1>1, <1>2, ObjectAssumption
<1>5. s # NoSensor /\ s \in S /\ f[s] # Invalid => s \in news /\ path(s) = p
  BY <1>1, <1>2, <1>3
<1>6. view'[c][p] = IF \E t \in news : path(t) = p
                    THEN f[CHOOSE t \in news : path(t) = p]
                    ELSE IF Backlog(c, p) # {} THEN Latest(c, p) ELSE view[c][p]
  BY <1>0 DEF SendFrame
<1>7. CASE s # NoSensor /\ s \in S /\ f[s] # Invalid
  <2>1. (CHOOSE t \in news : path(t) = p) = s
    BY <1>4, <1>5, <1>7
  <2> QED
    BY <1>5, <1>6, <1>7, <2>1
<1>8. CASE ~ (s # NoSensor /\ s \in S /\ f[s] # Invalid)
  <2>1. ~ \E t \in news : path(t) = p
    BY <1>1, <1>4, <1>8
  <2> QED
    BY <1>6, <1>8, <2>1
<1> QED
  BY <1>7, <1>8

(* A frame hands over the end of the batch, which is current.              *)
LEMMA SendFrameFresh ==
  ASSUME PInv, BatchEndsFresh, NEW S \in SUBSET Registered,
         NEW f \in [S -> Values \union {Invalid}], SendFrame(f)
  PROVE  BatchEndsFresh'
<1>1. IInv /\ S \subseteq Sensors /\ DOMAIN f = S
  BY DEF PInv, Registered
<1>2. /\ value' = [t \in Sensors |-> IF t \in S THEN f[t] ELSE value[t]]
      /\ UNCHANGED m_subscribedSensors
      /\ \A c \in Clients : m_pendingUpdates'[c] = <<>>
  BY <1>1 DEF SendFrame, bookVars, ClearBatches
<1> SUFFICES ASSUME NEW c \in Clients, NEW p \in KeptPaths,
                    m_subscribedSensors[c][p] # NoSensor,
                    value'[m_subscribedSensors[c][p]] # Invalid
             PROVE  /\ Backlog(c, p)' = {}
                    /\ view'[c][p] \in {Unknown, value'[m_subscribedSensors[c][p]]}
  BY <1>2 DEF BatchEndsFresh
<1> DEFINE s == m_subscribedSensors[c][p]
<1>3. Backlog(c, p)' = {}
  BY <1>2 DEF Backlog
<1>4. s \in Sensors
  BY <1>1, KeptFacts, BookedPath
<1>5. view'[c][p] = IF s \in S /\ f[s] # Invalid THEN f[s]
                    ELSE IF Backlog(c, p) # {} THEN Latest(c, p) ELSE view[c][p]
  BY FrameNews
<1>6. CASE s \in S
  BY <1>2, <1>3, <1>4, <1>5, <1>6
<1>7. CASE s \notin S
  BY <1>2, <1>3, <1>4, <1>5, <1>7 DEF BatchEndsFresh
<1> QED
  BY <1>6, <1>7

(* Every step keeps it.                                                    *)
LEMMA NextFresh ==
  ASSUME Paired, Patient, PInv, BatchEndsFresh, [Next]_vars
  PROVE  BatchEndsFresh'
<1>1. TypeOK
  BY DEF PInv, IInv
<1>2. ASSUME NEW c \in Clients, NEW P \in SUBSET Paths, Subscribe(c, P)
      PROVE  BatchEndsFresh'
  BY <1>2, SubscribeFresh
<1>3. ASSUME NEW c \in Clients, NEW P \in SUBSET Paths, Unsubscribe(c, P)
      PROVE  BatchEndsFresh'
  <2>1. \A d \in Clients, p \in KeptPaths :
          m_subscribedSensors'[d][p] \in {NoSensor, m_subscribedSensors[d][p]}
    BY <1>1, <1>3, KeptFacts DEF Unsubscribe, TakePaths, TypeOK
  <2> QED
    BY <1>3, <2>1, FreshFrameRule DEF Unsubscribe, batchVars
<1>4. ASSUME NEW c \in Clients, NEW P \in SUBSET Paths, SensorData(c, P)
      PROVE  BatchEndsFresh'
  BY <1>4, SensorDataFresh
<1>5. ASSUME NEW c \in Clients, ServiceDisconnected(c)
      PROVE  BatchEndsFresh'
  <2>1. {c} \in SUBSET Clients /\ DeleteClients({c}) /\ UNCHANGED <<value, view>>
    BY <1>5 DEF ServiceDisconnected
  <2> QED
    BY <2>1, DeleteClientsFresh
<1>6. CASE Stop
  <2>1. m_clients \in SUBSET Clients /\ DeleteClients(m_clients)
        /\ UNCHANGED <<value, view>>
    BY <1>1, <1>6 DEF Stop, TypeOK
  <2> QED
    BY <2>1, DeleteClientsFresh
<1>7. ASSUME NEW o \in Objects, AddObject(o)
      PROVE  BatchEndsFresh'
  BY <1>7, FreshFrameRule DEF AddObject, bookVars, batchVars, peerVars
<1>8. ASSUME NEW o \in Objects, RemoveObject(o)
      PROVE  BatchEndsFresh'
  <2>1. \A d \in Clients, p \in KeptPaths :
          m_subscribedSensors'[d][p] \in {NoSensor, m_subscribedSensors[d][p]}
    BY <1>1, <1>8, KeptFacts DEF RemoveObject, ForgetRemoved, TypeOK
  <2> QED
    BY <1>8, <2>1, FreshFrameRule DEF RemoveObject, batchVars, peerVars
<1>9. ASSUME NEW o \in Objects, DeleteObject(o)
      PROVE  BatchEndsFresh'
  <2>1. \A s \in KeptSensors : s \notin SensorsOf(o)
    BY <1>9, DeletedIsNotKept
  <2>2. \A s \in KeptSensors : value'[s] = value[s]
    BY <1>9, <2>1, KeptFacts DEF DeleteObject
  <2>3. \A d \in Clients, p \in KeptPaths :
          m_subscribedSensors'[d][p] \in {NoSensor, m_subscribedSensors[d][p]}
    BY <1>9, KeptFacts DEF DeleteObject, ForgetDestroyed
  <2> QED
    BY <1>9, <2>2, <2>3, FreshFrameRule DEF DeleteObject, batchVars, peerVars
<1>10. ASSUME NEW s \in Sensors, NEW v \in Values \union {Invalid}, SetValue(s, v)
       PROVE  BatchEndsFresh'
  BY <1>10, SetValueFresh
<1>11. ASSUME NEW s \in Sensors, InfoChanged(s)
       PROVE  BatchEndsFresh'
  BY <1>11, FreshFrameRule DEF InfoChanged, objectVars, bookVars, peerVars
<1>12. CASE ServiceNameLost
  BY <1>12, FreshFrameRule DEF ServiceNameLost, objectVars, bookVars, batchVars, peerVars
<1>13. CASE Frame
  BY <1>13, SendFrameFresh DEF Frame
<1>14. CASE UNCHANGED vars
  BY <1>14, FreshFrameRule DEF vars, objectVars, bookVars, batchVars, peerVars
<1> QED
  BY <1>2, <1>3, <1>4, <1>5, <1>6, <1>7, <1>8, <1>9, <1>10, <1>11, <1>12, <1>13, <1>14
  DEF Next

(* What a subscriber was told is current, unless its batch is, for a path  *)
(* whose object is not removed.                                            *)
THEOREM KeptAlwaysFresh ==
  ASSUME Paired, Patient
  PROVE  Spec => []KeptFreshness
<1>1. Init => BatchEndsFresh
  BY KeptFacts DEF Init, BatchEndsFresh, EmptyBook
<1>2. PInv /\ [Next]_vars => PInv'
  BY NextPInv
<1>3. PInv /\ BatchEndsFresh /\ [Next]_vars => BatchEndsFresh'
  BY NextFresh
<1>4. BatchEndsFresh => KeptFreshness
  BY FreshIfBatchFresh
<1> QED
  BY <1>1, <1>2, <1>3, <1>4, PInitSound, PTL DEF Spec

(* So if no object is removed that is so of every path.                    *)
THEOREM AlwaysFresh ==
  ASSUME Removable = {}, Paired, Patient
  PROVE  Spec => []Freshness
<1>1. KeptFreshness => Freshness
  BY KeptFacts DEF KeptFreshness, Freshness
<1> QED
  BY <1>1, KeptAlwaysFresh, PTL

-----------------------------------------------------------------------------
(* The refinement of SubscriptionService, while no object is removed.      *)

(* The mapped state.                                                       *)
ValueAt(p) == IF findSensor(p) = NoSensor THEN Invalid ELSE value[findSensor(p)]
BookedBy(c) == {p \in Paths : m_subscribedSensors[c][p] # NoSensor}
OwedTo(c) == [p \in Paths |-> Latest(c, p)]

(* Sensors, values and batches that stay map to what is published and owed *)
(* as before.                                                              *)
LEMMA MappedUnchanged ==
  /\ UNCHANGED container => UNCHANGED Found(Paths)
  /\ UNCHANGED <<container, value>> => UNCHANGED [p \in Paths |-> ValueAt(p)]
  /\ UNCHANGED m_pendingUpdates => UNCHANGED [c \in Clients |-> OwedTo(c)]
  /\ UNCHANGED m_subscribedSensors => UNCHANGED [c \in Clients |-> BookedBy(c)]
<1>1. UNCHANGED container => UNCHANGED Found(Paths)
  BY DEF Found, findSensor
<1>2. UNCHANGED <<container, value>> => UNCHANGED [p \in Paths |-> ValueAt(p)]
  BY DEF ValueAt, findSensor
<1>3. UNCHANGED m_pendingUpdates => UNCHANGED [c \in Clients |-> OwedTo(c)]
  BY DEF OwedTo, Latest, Backlog
<1>4. UNCHANGED m_subscribedSensors => UNCHANGED [c \in Clients |-> BookedBy(c)]
  BY DEF BookedBy
<1> QED
  BY <1>1, <1>2, <1>3, <1>4

(* Nothing is published, subscribed to or owed at the start.               *)
LEMMA InitMaps == Init => Service!Init
<1> SUFFICES ASSUME Init PROVE Service!Init
  OBVIOUS
<1>1. \A p \in Paths : findSensor(p) = NoSensor
  BY DEF Init, findSensor, Paths
<1>2. \A c \in Clients, p \in Paths : Latest(c, p) = Unknown
  BY EmptyBatch DEF Init
<1>3. \A c \in Clients, p \in Paths : m_subscribedSensors[c][p] = NoSensor
  BY DEF Init, EmptyBook
<1> QED
  BY <1>1, <1>2, <1>3 DEF Init, Service!Init, Found

(* subscribe() of a peer is that of the service.                           *)
LEMMA SubscribeMaps ==
  ASSUME PInv, NEW c \in Clients, NEW P \in SUBSET Paths, Subscribe(c, P)
  PROVE  Service!Subscribe(c, P)
<1>1. TypeOK
  BY DEF PInv, IInv
<1>2. P \intersect Found(Paths) = Found(P)
  BY DEF Found
<1>3. \A d \in Clients : BookedBy(d)' = IF d = c THEN BookedBy(d) \union Found(P)
                                        ELSE BookedBy(d)
  <2>1. \A d \in Clients, p \in Paths :
          m_subscribedSensors'[d][p] =
             IF d = c /\ p \in Found(P) THEN findSensor(p)
             ELSE m_subscribedSensors[d][p]
    BY <1>1 DEF Subscribe, TypeOK
  <2>2. \A p \in Found(P) : p \in Paths /\ findSensor(p) # NoSensor
    BY DEF Found
  <2> QED
    BY <2>1, <2>2 DEF BookedBy
<1>4. [d \in Clients |-> BookedBy(d)]' =
        [[d \in Clients |-> BookedBy(d)] EXCEPT ![c] = @ \union Found(P)]
  BY <1>3
<1>5. UNCHANGED <<container, value, m_pendingUpdates>>
  BY DEF Subscribe, batchVars
<1>6. view' = [view EXCEPT ![c] =
                 [p \in Paths |-> IF p \in Found(P) THEN Unknown ELSE @[p]]]
  BY DEF Subscribe
<1>7. /\ UNCHANGED Found(Paths)
      /\ UNCHANGED [p \in Paths |-> ValueAt(p)]
      /\ UNCHANGED [d \in Clients |-> OwedTo(d)]
  BY <1>5, MappedUnchanged
<1> QED
  BY <1>2, <1>4, <1>6, <1>7 DEF Service!Subscribe, BookedBy, OwedTo, ValueAt

(* unsubscribe() ends subscriptions and leaves what is owed.               *)
LEMMA UnsubscribeMaps ==
  ASSUME PInv, NEW c \in Clients, NEW P \in SUBSET Paths, Unsubscribe(c, P)
  PROVE  Service!Unsubscribe(c, P)
<1>1. TypeOK
  BY DEF PInv, IInv
<1>2. \A d \in Clients : BookedBy(d)' = IF d = c THEN BookedBy(d) \ P ELSE BookedBy(d)
  BY <1>1 DEF Unsubscribe, TakePaths, TypeOK, BookedBy
<1>3. [d \in Clients |-> BookedBy(d)]' =
        [[d \in Clients |-> BookedBy(d)] EXCEPT ![c] = @ \ P]
  BY <1>2
<1>4. UNCHANGED <<container, value, m_pendingUpdates, view>>
  BY DEF Unsubscribe, batchVars
<1>5. /\ UNCHANGED Found(Paths)
      /\ UNCHANGED [p \in Paths |-> ValueAt(p)]
      /\ UNCHANGED [d \in Clients |-> OwedTo(d)]
  BY <1>4, MappedUnchanged
<1> QED
  BY <1>3, <1>4, <1>5 DEF Service!Unsubscribe, BookedBy, OwedTo, ValueAt

(* sensorData() answers with what is published.                            *)
LEMMA SensorDataMaps ==
  ASSUME NEW c \in Clients, NEW P \in SUBSET Paths, SensorData(c, P)
  PROVE  Service!Ask(c, P)
<1>1. UNCHANGED <<container, value, m_pendingUpdates, m_subscribedSensors>>
  BY DEF SensorData, objectVars, bookVars, batchVars
<1>2. \A p \in Paths :
        /\ p \in P /\ ValueAt(p) # Invalid <=>
             p \in Found(P) /\ value[findSensor(p)] # Invalid
        /\ p \in Found(P) => ValueAt(p) = value[findSensor(p)]
  BY DEF ValueAt, Found
<1>3. view' = [view EXCEPT ![c] = [p \in Paths |->
        IF p \in P /\ ValueAt(p) # Invalid THEN ValueAt(p) ELSE @[p]]]
  BY <1>2 DEF SensorData
<1>4. /\ UNCHANGED Found(Paths)
      /\ UNCHANGED [p \in Paths |-> ValueAt(p)]
      /\ UNCHANGED [d \in Clients |-> OwedTo(d)]
      /\ UNCHANGED [d \in Clients |-> BookedBy(d)]
  BY <1>1, MappedUnchanged
<1> QED
  BY <1>3, <1>4 DEF Service!Ask, BookedBy, OwedTo, ValueAt

(* Clients that are deleted leave the service.                             *)
LEMMA DeleteClientsMaps ==
  ASSUME NEW C \in SUBSET Clients, DeleteClients(C), UNCHANGED <<container, value, view>>
  PROVE  Service!Next
<1>1. \A c \in Clients : BookedBy(c)' = IF c \in C THEN {} ELSE BookedBy(c)
  BY DEF DeleteClients, EmptyBook, BookedBy
<1>2. \A c \in Clients : OwedTo(c)' = IF c \in C THEN [p \in Paths |-> Unknown]
                                      ELSE OwedTo(c)
  <2> SUFFICES ASSUME NEW c \in Clients, NEW p \in Paths
               PROVE  Latest(c, p)' = IF c \in C THEN Unknown ELSE Latest(c, p)
    BY DEF OwedTo
  <2>1. m_pendingUpdates'[c] = IF c \in C THEN <<>> ELSE m_pendingUpdates[c]
    BY DEF DeleteClients
  <2>2. CASE c \in C
    <3>1. Backlog(c, p)' = {}
      BY <2>1, <2>2 DEF Backlog
    <3> QED
      BY <2>2, <3>1 DEF Latest
  <2>3. CASE c \notin C
    BY <2>1, <2>3 DEF Latest, Backlog
  <2> QED
    BY <2>2, <2>3
<1>3. /\ UNCHANGED Found(Paths)
      /\ UNCHANGED [p \in Paths |-> ValueAt(p)]
  BY MappedUnchanged
<1>4. Service!Leave(C)
  BY <1>1, <1>2, <1>3 DEF Service!Leave, BookedBy, OwedTo, ValueAt
<1> QED
  BY <1>4 DEF Service!Next

(* A new object publishes the paths of its id.                             *)
LEMMA AddObjectMaps ==
  ASSUME PInv, NEW o \in Objects, AddObject(o)
  PROVE  \E f \in Service!Changes : Service!Publish(DOMAIN f, f)
<1> DEFINE P == {p \in Paths : p[1] = IdOf[o]}
           f == [p \in P |-> value[<<o, p[2]>>]]
<1>1. TypeOK
  BY DEF PInv, IInv
<1>2. /\ container[IdOf[o]] = NoObject
      /\ container' = [container EXCEPT ![IdOf[o]] = o]
      /\ UNCHANGED <<value, m_subscribedSensors, m_pendingUpdates, view>>
      /\ o # NoObject
  BY ObjectAssumption DEF AddObject, bookVars, batchVars, peerVars
<1>3. container \in [Ids -> Objects \union {NoObject}]
  BY <1>1 DEF TypeOK
<1>4. \A p \in Paths :
        /\ p[1] \in Ids /\ p[2] \in Props
        /\ p \in P => /\ findSensor(p) = NoSensor
                      /\ findSensor(p)' = <<o, p[2]>>
                      /\ <<o, p[2]>> \in Sensors
        /\ p \notin P => findSensor(p)' = findSensor(p)
  BY <1>2, <1>3 DEF findSensor, Paths, Sensors
<1>5. f \in [P -> Values \union {Invalid}] /\ P \in SUBSET Paths /\ DOMAIN f = P
  BY <1>1, <1>4 DEF TypeOK
<1>6. f \in Service!Changes
  BY <1>5 DEF Service!Changes
<1>7. P \intersect Found(Paths) = {} /\ Found(Paths)' = Found(Paths) \union P
  BY <1>4, ObjectAssumption DEF Found
<1>8. [p \in Paths |-> ValueAt(p)]' =
        [p \in Paths |-> IF p \in P THEN f[p] ELSE ValueAt(p)]
  BY <1>2, <1>4, ObjectAssumption DEF ValueAt
<1>9. /\ UNCHANGED [d \in Clients |-> OwedTo(d)]
      /\ UNCHANGED [d \in Clients |-> BookedBy(d)]
  BY <1>2, MappedUnchanged
<1>10. Service!Publish(P, f)
  <2> HIDE DEF P, f
  <2> QED
    BY <1>2, <1>7, <1>8, <1>9 DEF Service!Publish, BookedBy, OwedTo, ValueAt
<1> QED
  BY <1>5, <1>6, <1>10

(* A change of a registered sensor changes its path and what is owed; no   *)
(* other sensor is published.                                              *)
LEMMA SetValueMaps ==
  ASSUME Removable = {}, PInv,
         NEW s \in Sensors, NEW v \in Values \union {Invalid}, SetValue(s, v)
  PROVE  \E f \in Service!Changes : Service!Change(f)
<1> DEFINE q == path(s)
           f == [p \in {q} |-> v]
<1>1. IInv /\ TypeOK /\ q \in Paths
  BY PathType DEF PInv, IInv
<1>0. s \in KeptSensors /\ KeptPaths = Paths
  BY KeptFacts
<1>2. findSensor(q) = s /\ q \in Found(Paths)
  BY <1>0, RegisteredFound DEF SetValue
<1>3. /\ value' = [value EXCEPT ![s] = v]
      /\ UNCHANGED <<container, m_subscribedSensors, view>>
  BY DEF SetValue, bookVars, peerVars
<1>4. f \in Service!Changes
  <2>1. {q} \in SUBSET Paths /\ f \in [{q} -> Values \union {Invalid}]
    BY <1>1
  <2> HIDE DEF f
  <2> QED
    BY <2>1 DEF Service!Changes
<1>5. DOMAIN f = {q} /\ f[q] = v
  OBVIOUS
<1> HIDE DEF f
<1>6. [p \in Paths |-> ValueAt(p)]' =
        [p \in Paths |-> IF p \in DOMAIN f THEN f[p] ELSE ValueAt(p)]
  <2> SUFFICES ASSUME NEW p \in Paths
               PROVE  ValueAt(p)' = IF p \in DOMAIN f THEN f[p] ELSE ValueAt(p)
    OBVIOUS
  <2>1. findSensor(p)' = findSensor(p)
    BY <1>3 DEF findSensor
  <2>2. CASE p = q
    BY <1>1, <1>2, <1>3, <1>5, <2>1, <2>2, ObjectAssumption DEF ValueAt, TypeOK
  <2>3. CASE p # q
    <3>1. findSensor(p) # NoSensor => findSensor(p) \in Sensors /\ findSensor(p) # s
      BY <1>1, <2>3, FoundSensor, FindSensorType DEF IInv
    <3> QED
      BY <1>1, <1>3, <1>5, <2>1, <2>3, <3>1 DEF ValueAt, TypeOK
  <2> QED
    BY <2>2, <2>3
<1>7. \A c \in Clients : OwedTo(c)' =
        [p \in Paths |-> IF p \in DOMAIN f /\ p \in BookedBy(c) /\ f[p] # Invalid
                         THEN f[p] ELSE OwedTo(c)[p]]
  <2> SUFFICES ASSUME NEW c \in Clients, NEW p \in Paths
               PROVE  Latest(c, p)' =
                        IF p \in DOMAIN f /\ p \in BookedBy(c) /\ f[p] # Invalid
                        THEN f[p] ELSE Latest(c, p)
    BY DEF OwedTo
  <2>1. p = q /\ p \in BookedBy(c) <=> p = q /\ m_subscribedSensors[c][p] = s
    BY <1>1, <1>2, BookedPath, ObjectAssumption DEF BookedBy
  <2>2. CASE p = q /\ m_subscribedSensors[c][p] = s /\ v # Invalid
    BY <1>0, <1>5, <2>1, <2>2, ChangeQueued
  <2>3. CASE ~ (p = q /\ m_subscribedSensors[c][p] = s /\ v # Invalid)
    <3>1. Latest(c, p)' = Latest(c, p)
      BY <1>0, <2>3, OthersStay
    <3> QED
      BY <1>5, <2>1, <2>3, <3>1
  <2> QED
    BY <2>2, <2>3
<1>8. /\ UNCHANGED Found(Paths)
      /\ UNCHANGED [d \in Clients |-> BookedBy(d)]
  BY <1>3, MappedUnchanged
<1>9. DOMAIN f \subseteq Found(Paths)
  BY <1>2, <1>5
<1>10. Service!Change(f)
  BY <1>3, <1>6, <1>7, <1>8, <1>9
  DEF Service!Change, Service!Changed, Service!Owed, BookedBy, OwedTo, ValueAt
<1> QED
  BY <1>4, <1>10

(* Providers update, then every batch is handed over: the service's frame. *)
LEMMA SendFrameMaps ==
  ASSUME Removable = {}, PInv, NEW S \in SUBSET Registered,
         NEW f \in [S -> Values \union {Invalid}], SendFrame(f)
  PROVE  \E g \in Service!Changes : Service!Frame(g)
<1> DEFINE Q == {p \in Found(Paths) : findSensor(p) \in S}
           g == [p \in Q |-> f[findSensor(p)]]
<1>1. IInv /\ TypeOK /\ S \subseteq Sensors /\ DOMAIN f = S
  BY DEF PInv, IInv, Registered
<1>2. /\ value' = [t \in Sensors |-> IF t \in S THEN f[t] ELSE value[t]]
      /\ UNCHANGED <<container, m_subscribedSensors>>
      /\ \A c \in Clients : m_pendingUpdates'[c] = <<>>
  BY <1>1 DEF SendFrame, bookVars, ClearBatches
<1>3. /\ Q \in SUBSET Paths /\ Q \subseteq Found(Paths)
      /\ g \in [Q -> Values \union {Invalid}]
  BY DEF Found
<1>4. g \in Service!Changes
  <2> HIDE DEF g, Q
  <2> QED
    BY <1>3 DEF Service!Changes
<1>5. DOMAIN g = Q /\ \A p \in Q : g[p] = f[findSensor(p)]
  OBVIOUS
<1>6. \A p \in Paths : p \in Q <=> findSensor(p) # NoSensor /\ findSensor(p) \in S
  BY DEF Found
<1> HIDE DEF g, Q
<1>7. [p \in Paths |-> ValueAt(p)]' =
        [p \in Paths |-> IF p \in DOMAIN g THEN g[p] ELSE ValueAt(p)]
  <2> SUFFICES ASSUME NEW p \in Paths
               PROVE  ValueAt(p)' = IF p \in DOMAIN g THEN g[p] ELSE ValueAt(p)
    OBVIOUS
  <2>1. findSensor(p)' = findSensor(p)
    BY <1>2 DEF findSensor
  <2>2. findSensor(p) # NoSensor => findSensor(p) \in Sensors
    BY <1>1, FindSensorType
  <2> QED
    BY <1>2, <1>5, <1>6, <2>1, <2>2 DEF ValueAt
<1> DEFINE Owed(c) == [p \in Paths |->
             IF p \in DOMAIN g /\ p \in BookedBy(c) /\ g[p] # Invalid THEN g[p]
             ELSE OwedTo(c)[p]]
<1>8. view' = [c \in Clients |-> [p \in Paths |->
                 IF Owed(c)[p] # Unknown THEN Owed(c)[p] ELSE view[c][p]]]
  <2> SUFFICES ASSUME NEW c \in Clients, NEW p \in Paths
               PROVE  view'[c][p] = IF Owed(c)[p] # Unknown THEN Owed(c)[p]
                                    ELSE view[c][p]
    BY DEF SendFrame
  <2> DEFINE s == m_subscribedSensors[c][p]
  <2>1. view'[c][p] = IF s # NoSensor /\ s \in S /\ f[s] # Invalid THEN f[s]
                      ELSE IF Backlog(c, p) # {} THEN Latest(c, p) ELSE view[c][p]
    BY KeptFacts, FrameNews
  <2>2. s # NoSensor => s = findSensor(p)
    BY <1>1, BookedPath
  <2>3. p \in DOMAIN g /\ p \in BookedBy(c) <=> s # NoSensor /\ s \in S
    BY <1>5, <1>6, <2>2 DEF BookedBy
  <2>4. Owed(c)[p] = IF s # NoSensor /\ s \in S /\ f[s] # Invalid THEN f[s]
                     ELSE Latest(c, p)
    BY <1>5, <2>2, <2>3 DEF OwedTo
  <2>5. Backlog(c, p) = {} <=> Latest(c, p) = Unknown
    BY <1>1, BacklogFacts
  <2>6. s # NoSensor /\ s \in S /\ f[s] # Invalid => f[s] # Unknown
    BY ValueAssumption
  <2> QED
    BY <2>1, <2>4, <2>5, <2>6
<1>9. \A c \in Clients : OwedTo(c)' = [p \in Paths |-> Unknown]
  <2> SUFFICES ASSUME NEW c \in Clients, NEW p \in Paths
               PROVE  Latest(c, p)' = Unknown
    BY DEF OwedTo
  <2>1. Backlog(c, p)' = {}
    BY <1>2 DEF Backlog
  <2> QED
    BY <2>1 DEF Latest
<1>10. /\ UNCHANGED Found(Paths)
       /\ UNCHANGED [d \in Clients |-> BookedBy(d)]
  BY <1>2, MappedUnchanged
<1>11. Service!Frame(g)
  BY <1>3, <1>5, <1>7, <1>8, <1>9, <1>10
  DEF Service!Frame, Service!Changed, Service!Owed, BookedBy, OwedTo, ValueAt
<1> QED
  BY <1>4, <1>11

(* Every step of the daemon is one of the service, or changes nothing it   *)
(* knows of.                                                               *)
LEMMA NextMaps ==
  ASSUME Removable = {}, PInv, [Next]_vars
  PROVE  [Service!Next]_(Service!vars)
<1>1. TypeOK
  BY DEF PInv, IInv
<1>2. ASSUME UNCHANGED <<container, value, m_pendingUpdates, m_subscribedSensors, view>>
      PROVE  UNCHANGED Service!vars
  <2>1. /\ UNCHANGED Found(Paths)
        /\ UNCHANGED [p \in Paths |-> ValueAt(p)]
        /\ UNCHANGED [d \in Clients |-> OwedTo(d)]
        /\ UNCHANGED [d \in Clients |-> BookedBy(d)]
    BY <1>2, MappedUnchanged
  <2> QED
    BY <1>2, <2>1 DEF Service!vars, BookedBy, OwedTo, ValueAt
<1>3. ASSUME NEW c \in Clients, NEW P \in SUBSET Paths,
             Subscribe(c, P) \/ Unsubscribe(c, P) \/ SensorData(c, P)
      PROVE  Service!Next
  BY <1>3, SubscribeMaps, UnsubscribeMaps, SensorDataMaps DEF Service!Next
<1>4. ASSUME NEW c \in Clients, ServiceDisconnected(c)
      PROVE  Service!Next
  <2>1. {c} \in SUBSET Clients /\ DeleteClients({c})
        /\ UNCHANGED <<container, value, view>>
    BY <1>4 DEF ServiceDisconnected
  <2> QED
    BY <2>1, DeleteClientsMaps
<1>5. CASE Stop
  <2>1. m_clients \in SUBSET Clients /\ DeleteClients(m_clients)
        /\ UNCHANGED <<container, value, view>>
    BY <1>1, <1>5 DEF Stop, TypeOK
  <2> QED
    BY <2>1, DeleteClientsMaps
<1>6. ASSUME NEW o \in Objects, AddObject(o)
      PROVE  Service!Next
  BY <1>6, AddObjectMaps DEF Service!Next
<1>7. ASSUME NEW o \in Objects, RemoveObject(o)
      PROVE  FALSE
  BY <1>7 DEF RemoveObject
<1>8. ASSUME NEW o \in Objects, DeleteObject(o)
      PROVE  FALSE
  <2>1. IdOf[o] \in KeptIds
    BY ObjectAssumption DEF KeptIds
  <2> QED
    BY <1>8, <2>1, DeletedIsNotKept
<1>9. ASSUME NEW s \in Sensors, NEW v \in Values \union {Invalid}, SetValue(s, v)
      PROVE  Service!Next
  BY <1>9, SetValueMaps DEF Service!Next
<1>10. ASSUME NEW s \in Sensors, InfoChanged(s)
       PROVE  UNCHANGED Service!vars
  BY <1>2, <1>10 DEF InfoChanged, objectVars, bookVars, peerVars
<1>11. CASE ServiceNameLost
  BY <1>2, <1>11 DEF ServiceNameLost, objectVars, bookVars, batchVars, peerVars
<1>12. CASE Frame
  BY <1>12, SendFrameMaps DEF Frame, Service!Next
<1>13. CASE UNCHANGED vars
  BY <1>2, <1>13 DEF vars, objectVars, bookVars, batchVars, peerVars
<1> QED
  BY <1>3, <1>4, <1>5, <1>6, <1>7, <1>8, <1>9, <1>10, <1>11, <1>12, <1>13 DEF Next

(* The daemon keeps its promise to clients that subscribe once.            *)
THEOREM KeepsPromise ==
  ASSUME Removable = {}, Paired
  PROVE  Spec => ImplementsService
<1>1. PInv /\ [Next]_vars => PInv'
  BY NextPInv
<1>2. PInv /\ [Next]_vars => [Service!Next]_(Service!vars)
  BY NextMaps
<1> QED
  BY <1>1, <1>2, PInitSound, InitMaps, PTL DEF Spec, ImplementsService, Service!Spec
=============================================================================
