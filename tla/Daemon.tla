------------------------------- MODULE Daemon -------------------------------
(***************************************************************************)
(* The subscription core of ksystemstats: class Daemon (src/src/daemon.cpp)*)
(* with one Client object per D-Bus peer (src/src/client.cpp), on top of   *)
(* the SensorContainer / SensorObject / SensorProperty classes of          *)
(* libksysguard, which are external and modelled from how this repository  *)
(* uses them.                                                              *)
(*                                                                         *)
(* The daemon has one thread: a D-Bus call, a timer tick, a bus notice and *)
(* a provider callback each run to completion, so each is one action.      *)
(* Two objects may carry the same id (a volume that is unmounted and       *)
(* mounted again is a new SensorObject under its old id), hence a path and *)
(* a sensor are different things here, as they are in the code.            *)
(***************************************************************************)
EXTENDS Naturals, Sequences, FiniteSets, FiniteSetsExt

CONSTANTS
  Clients,          \* unique bus names; the bus never reuses one
  Ids,              \* object ids ("container/object"), one container each
  Objects,          \* SensorObject instances, as pointers
  Props,            \* property ids of an object
  IdOf,             \* the id of each object
  Values,           \* valid sensor values
  Invalid,          \* the invalid QVariant a fresh property holds
  Unknown,          \* a client has not been told the value of a sensor
  NoObject,         \* null SensorObject pointer
  NoSensor,         \* null SensorProperty pointer
  Removable,        \* the objects their provider may remove at run time
  Paired,           \* clients subscribe to a path again only after unsubscribing
  Patient,          \* clients let the next frame pass before they do so
  QuitOnLast,       \* m_quitOnLastClientDisconnect: started without --remain
  MaxSubscriptions, \* bound on one client's calls of subscribe() on one path
  MaxPending        \* bound on the updates a client object batches

Sensors == Objects \X Props
Paths == Ids \X Props

ASSUME ObjectAssumption ==
  /\ IdOf \in [Objects -> Ids]
  /\ NoObject \notin Objects
  /\ NoSensor \notin Sensors
  /\ Removable \subseteq Objects

ASSUME ValueAssumption == Invalid \notin Values /\ Unknown \notin Values

ASSUME BoundAssumption ==
  /\ Paired \in BOOLEAN /\ Patient \in BOOLEAN /\ QuitOnLast \in BOOLEAN
  /\ MaxSubscriptions \in Nat /\ MaxPending \in Nat

VARIABLES
  running,                  \* the event loop: running, quitting or stopped
  container,                \* SensorContainer: the object registered under an id
  alive,                    \* the objects not yet deleted
  value,                    \* SensorProperty::value()
  subscribers,              \* SensorProperty's subscriber count, per origin
  departed,                 \* the clients whose disconnection was noticed
  m_clients,                \* the keys of Daemon::m_clients
  m_subscribedSensors,      \* Client::m_subscribedSensors
  m_connections,            \* the keys of Client::m_connections
  listeners,                \* live Qt connection triples from sensor to client
  m_pendingUpdates,         \* Client::m_pendingUpdates
  m_pendingMetaDataChanges, \* the keys of Client::m_pendingMetaDataChanges
  view,                     \* what the peer was last told of each path
  asked                     \* subscribe() minus unsubscribe() calls of the peer

objectVars == <<container, alive, value, subscribers>>
bookVars == <<m_clients, m_subscribedSensors, m_connections, listeners>>
batchVars == <<m_pendingUpdates, m_pendingMetaDataChanges>>
peerVars == <<departed, view, asked>>
vars == <<running, objectVars, bookVars, batchVars, peerVars>>

Update == [sensorProperty : Paths, payload : Values]

(* What is written down of every variable; the only typing invariant.      *)
TypeOK ==
  /\ running \in {"running", "quitting", "stopped"}
  /\ container \in [Ids -> Objects \union {NoObject}]
  /\ alive \subseteq Objects
  /\ value \in [Sensors -> Values \union {Invalid}]
  /\ subscribers \in [Sensors -> [Clients -> Nat]]
  /\ departed \subseteq Clients
  /\ m_clients \subseteq Clients
  /\ m_subscribedSensors \in [Clients -> [Paths -> Sensors \union {NoSensor}]]
  /\ m_connections \in [Clients -> SUBSET Sensors]
  /\ listeners \in [Clients -> [Sensors -> Nat]]
  /\ m_pendingUpdates \in [Clients -> Seq(Update)]
  /\ m_pendingMetaDataChanges \in [Clients -> SUBSET Paths]
  /\ view \in [Clients -> [Paths -> Values \union {Unknown}]]
  /\ asked \in [Clients -> [Paths -> Nat]]

-----------------------------------------------------------------------------

path(s) == <<IdOf[s[1]], s[2]>>

(* Daemon::findSensor: container, then object, then property.              *)
findSensor(p) ==
  IF container[p[1]] = NoObject THEN NoSensor ELSE <<container[p[1]], p[2]>>

Found(P) == {p \in P : findSensor(p) # NoSensor}

SensorsOf(o) == {o} \X Props
Registered == {s \in Sensors : container[IdOf[s[1]]] = s[1]}

isSubscribed(s) == \E c \in Clients : subscribers[s][c] > 0

(* The entries a list holds for a path, and the newest of them.            *)
Backlog(c, p) == {i \in DOMAIN m_pendingUpdates[c] :
                    m_pendingUpdates[c][i].sensorProperty = p}
Latest(c, p) == IF Backlog(c, p) = {} THEN Unknown
                ELSE m_pendingUpdates[c][Max(Backlog(c, p))].payload

EmptyBook == [p \in Paths |-> NoSensor]
NoListeners == [s \in Sensors |-> 0]

Init ==
  /\ running = "running"
  /\ container = [i \in Ids |-> NoObject]
  /\ alive = {}
  /\ value = [s \in Sensors |-> Invalid]
  /\ subscribers = [s \in Sensors |-> [c \in Clients |-> 0]]
  /\ departed = {}
  /\ m_clients = {}
  /\ m_subscribedSensors = [c \in Clients |-> EmptyBook]
  /\ m_connections = [c \in Clients |-> {}]
  /\ listeners = [c \in Clients |-> NoListeners]
  /\ m_pendingUpdates = [c \in Clients |-> <<>>]
  /\ m_pendingMetaDataChanges = [c \in Clients |-> {}]
  /\ view = [c \in Clients |-> [p \in Paths |-> Unknown]]
  /\ asked = [c \in Clients |-> [p \in Paths |-> 0]]

-----------------------------------------------------------------------------
(* The pieces of the handlers. Some are preceded by a faulty variant, a    *)
(* slip a maintainer could make, that the properties are seen to notice.   *)

(* Client::subscribeSensors opens one more triple of connections.          *)
Connect(c, S) == listeners' = [listeners EXCEPT ![c] =
  [s \in Sensors |-> IF s \in S THEN @[s] + 1 ELSE @[s]]]

(* Client::unsubscribeSensors closes the stored triple, if there is one.   *)
DisconnectNothing(c, S) == UNCHANGED listeners
Disconnect(c, S) == listeners' = [listeners EXCEPT ![c] =
  [s \in Sensors |-> IF s \in S \intersect m_connections[c]
                     THEN @[s] - 1 ELSE @[s]]]

(* It takes the paths out of the book.                                     *)
LookUpPaths(c, P) == UNCHANGED m_subscribedSensors
TakePaths(c, P) == m_subscribedSensors' = [m_subscribedSensors EXCEPT ![c] =
  [p \in Paths |-> IF p \in P THEN NoSensor ELSE @[p]]]

(* SensorProperty::unsubscribe, of every book entry of the clients of C.   *)
ReleaseNothing(C) == UNCHANGED subscribers
ReleaseAll(C) == subscribers' = [s \in Sensors |-> [c \in Clients |->
  IF c \in C /\ m_subscribedSensors[c][path(s)] = s
  THEN subscribers[s][c] - 1 ELSE subscribers[s][c]]]

(* Client's lambda on sensorRemoved: the path leaves the book, and that is *)
(* all that happens.                                                       *)
IgnoreRemoved(o) == UNCHANGED m_subscribedSensors
ForgetRemoved(o) == m_subscribedSensors' = [c \in Clients |-> [p \in Paths |->
  IF p[1] = IdOf[o] THEN NoSensor ELSE m_subscribedSensors[c][p]]]

(* Client's lambda on destroyed, run for the clients with live connections.*)
Heard(c, o) == {s \in SensorsOf(o) : listeners[c][s] > 0}
ForgetEntryOnly(o) ==
  /\ m_subscribedSensors' = [c \in Clients |-> [p \in Paths |->
       IF m_subscribedSensors[c][p] \in Heard(c, o) THEN NoSensor
       ELSE m_subscribedSensors[c][p]]]
  /\ UNCHANGED m_connections
ForgetDestroyed(o) ==
  /\ m_subscribedSensors' = [c \in Clients |-> [p \in Paths |->
       IF m_subscribedSensors[c][p] \in Heard(c, o) THEN NoSensor
       ELSE m_subscribedSensors[c][p]]]
  /\ m_connections' = [c \in Clients |-> m_connections[c] \ Heard(c, o)]

(* The valueChanged lambda of subscribeSensors, once per live connection.  *)
EnqueuedOnce(c, s, v) ==
  IF v = Invalid \/ Backlog(c, path(s)) # {} \/ listeners[c][s] = 0 THEN <<>>
  ELSE <<[sensorProperty |-> path(s), payload |-> v]>>
Enqueued(c, s, v) ==
  IF v = Invalid THEN <<>>
  ELSE [i \in 1 .. listeners[c][s] |-> [sensorProperty |-> path(s), payload |-> v]]

(* The end of Client::sendFrame.                                           *)
KeepBatches == UNCHANGED batchVars
ClearBatches ==
  /\ m_pendingUpdates' = [c \in Clients |-> <<>>]
  /\ m_pendingMetaDataChanges' = [c \in Clients |-> {}]

-----------------------------------------------------------------------------
(* D-Bus calls of a client.                                                *)

(* How the clients of a run behave: not a condition of the daemon.         *)
WellBehaved(c, P) ==
  /\ Paired => \A p \in P : asked[c][p] = 0
  /\ Patient => \A p \in P : Backlog(c, p) = {}

(* Daemon::subscribe and Client::subscribeSensors: a fresh set of three    *)
(* connections, which replaces the stored ones without closing them, one   *)
(* more subscriber and the book entry; unknown paths are skipped.          *)
Subscribe(c, P) ==
  LET wanted == {findSensor(p) : p \in Found(P)} IN
  /\ running # "stopped"
  /\ c \notin departed
  /\ WellBehaved(c, P)
  /\ \A s \in wanted : /\ subscribers[s][c] < MaxSubscriptions
                       /\ asked[c][path(s)] < MaxSubscriptions
  /\ m_clients' = m_clients \union {c}
  /\ Connect(c, wanted)
  /\ m_connections' = [m_connections EXCEPT ![c] = @ \union wanted]
  /\ subscribers' = [s \in Sensors |->
       IF s \in wanted THEN [subscribers[s] EXCEPT ![c] = @ + 1]
       ELSE subscribers[s]]
  /\ m_subscribedSensors' = [m_subscribedSensors EXCEPT ![c] =
       [p \in Paths |-> IF p \in Found(P) THEN findSensor(p) ELSE @[p]]]
  /\ asked' = [asked EXCEPT ![c] =
       [p \in Paths |-> IF p \in Found(P) THEN @[p] + 1 ELSE @[p]]]
  /\ view' = [view EXCEPT ![c] =
       [p \in Paths |-> IF p \in Found(P) THEN Unknown ELSE @[p]]]
  /\ UNCHANGED <<running, container, alive, value, departed, batchVars>>

(* Daemon::unsubscribe and Client::unsubscribeSensors: takes the book entry*)
(* and the stored connections, closes those, and drops one subscriber.     *)
Unsubscribe(c, P) ==
  LET taken == {m_subscribedSensors[c][p] : p \in P} \ {NoSensor} IN
  /\ running # "stopped"
  /\ c \in m_clients
  /\ Disconnect(c, taken)
  /\ m_connections' = [m_connections EXCEPT ![c] = @ \ taken]
  /\ subscribers' = [s \in Sensors |->
       IF s \in taken THEN [subscribers[s] EXCEPT ![c] = @ - 1]
       ELSE subscribers[s]]
  /\ TakePaths(c, P)
  /\ asked' = [asked EXCEPT ![c] =
       [p \in Paths |-> IF p \in P /\ @[p] > 0 THEN @[p] - 1 ELSE @[p]]]
  /\ UNCHANGED <<running, container, alive, value, m_clients, batchVars,
                 departed, view>>

(* Daemon::sensorData: answered from the sensors, not from the batch.      *)
SensorData(c, P) ==
  /\ running # "stopped"
  /\ c \notin departed
  /\ view' = [view EXCEPT ![c] = [p \in Paths |->
       IF p \in Found(P) /\ value[findSensor(p)] # Invalid
       THEN value[findSensor(p)] ELSE @[p]]]
  /\ UNCHANGED <<running, objectVars, bookVars, batchVars, departed, asked>>

-----------------------------------------------------------------------------
(* The end of a client and of the daemon.                                  *)

(* Client::~Client for every client of a set: one unsubscribe() for every  *)
(* book entry; its connections close with it.                              *)
DeleteClients(C) ==
  /\ m_clients' = m_clients \ C
  /\ ReleaseAll(C)
  /\ m_subscribedSensors' = [c \in Clients |->
       IF c \in C THEN EmptyBook ELSE m_subscribedSensors[c]]
  /\ m_connections' = [c \in Clients |-> IF c \in C THEN {} ELSE m_connections[c]]
  /\ listeners' = [c \in Clients |-> IF c \in C THEN NoListeners ELSE listeners[c]]
  /\ m_pendingUpdates' = [c \in Clients |->
       IF c \in C THEN <<>> ELSE m_pendingUpdates[c]]
  /\ m_pendingMetaDataChanges' = [c \in Clients |->
       IF c \in C THEN {} ELSE m_pendingMetaDataChanges[c]]

(* Daemon::onServiceDisconnected.                                          *)
ServiceDisconnected(c) ==
  /\ running # "stopped"
  /\ c \in m_clients
  /\ departed' = departed \union {c}
  /\ DeleteClients({c})
  /\ asked' = [asked EXCEPT ![c] = [p \in Paths |-> 0]]
  /\ running' = IF m_clients' = {} /\ QuitOnLast THEN "quitting" ELSE running
  /\ UNCHANGED <<container, alive, value, view>>

(* Another instance took the service name (registerDBusService's lambda).  *)
ServiceNameLost ==
  /\ running = "running"
  /\ running' = "quitting"
  /\ UNCHANGED <<objectVars, bookVars, batchVars, peerVars>>

(* The event loop returns and Daemon::~Daemon deletes every client.        *)
Stop ==
  /\ running = "quitting"
  /\ running' = "stopped"
  /\ DeleteClients(m_clients)
  /\ asked' = [c \in Clients |-> [p \in Paths |-> 0]]
  /\ UNCHANGED <<container, alive, value, departed, view>>

-----------------------------------------------------------------------------
(* What the providers do outside a frame.                                  *)

(* SensorContainer::addObject, of a new object or of one that was removed. *)
(* An id is never registered twice. objectAdded is only announced.         *)
AddObject(o) ==
  /\ running # "stopped"
  /\ container[IdOf[o]] = NoObject
  /\ container' = [container EXCEPT ![IdOf[o]] = o]
  /\ alive' = alive \union {o}
  /\ UNCHANGED <<running, value, subscribers, bookVars, batchVars, peerVars>>

(* SensorContainer::removeObject: the daemon emits sensorRemoved for every *)
(* sensor of the object, and every Client drops that path from its book -  *)
(* and nothing else.                                                       *)
RemoveObject(o) ==
  /\ running # "stopped"
  /\ o \in Removable
  /\ container[IdOf[o]] = o
  /\ container' = [container EXCEPT ![IdOf[o]] = NoObject]
  /\ ForgetRemoved(o)
  /\ UNCHANGED <<running, alive, value, subscribers, m_clients, m_connections,
                 listeners, batchVars, peerVars>>

(* A removed object is deleted: SensorProperty::destroyed runs once per    *)
(* live connection, and forgets the sensor in the book and the connections.*)
DeleteObject(o) ==
  /\ running # "stopped"
  /\ o \in alive
  /\ container[IdOf[o]] # o
  /\ alive' = alive \ {o}
  /\ value' = [s \in Sensors |-> IF s \in SensorsOf(o) THEN Invalid ELSE value[s]]
  /\ subscribers' = [s \in Sensors |->
       IF s \in SensorsOf(o) THEN [c \in Clients |-> 0] ELSE subscribers[s]]
  /\ ForgetDestroyed(o)
  /\ listeners' = [c \in Clients |-> [s \in Sensors |->
       IF s \in SensorsOf(o) THEN 0 ELSE listeners[c][s]]]
  /\ UNCHANGED <<running, container, m_clients, batchVars, peerVars>>

(* SensorProperty::setValue by a provider between two frames: a callback,  *)
(* a process that printed a line, an asynchronous reply.                   *)
SetValue(s, v) ==
  /\ running # "stopped"
  /\ s[1] \in alive
  /\ \A c \in Clients :
       Len(m_pendingUpdates[c] \o Enqueued(c, s, v)) <= MaxPending
  /\ value' = [value EXCEPT ![s] = v]
  /\ m_pendingUpdates' = [c \in Clients |->
       m_pendingUpdates[c] \o Enqueued(c, s, v)]
  /\ UNCHANGED <<running, container, alive, subscribers, bookVars,
                 m_pendingMetaDataChanges, peerVars>>

(* SensorProperty::sensorInfoChanged and its lambda.                       *)
InfoChanged(s) ==
  /\ running # "stopped"
  /\ s[1] \in alive
  /\ m_pendingMetaDataChanges' = [c \in Clients |->
       IF listeners[c][s] > 0 THEN m_pendingMetaDataChanges[c] \union {path(s)}
       ELSE m_pendingMetaDataChanges[c]]
  /\ UNCHANGED <<running, objectVars, bookVars, m_pendingUpdates, peerVars>>

-----------------------------------------------------------------------------
(* Daemon::sendFrame: every provider updates some of its registered        *)
(* sensors (f), then every client sends its batch and clears it. A client  *)
(* reads the list in order, so the last entry of a path is what it keeps.  *)
SendFrame(f) ==
  LET news(c) == {s \in DOMAIN f : listeners[c][s] > 0 /\ f[s] # Invalid} IN
  /\ running # "stopped"
  /\ value' = [s \in Sensors |-> IF s \in DOMAIN f THEN f[s] ELSE value[s]]
  /\ view' = [c \in Clients |-> [p \in Paths |->
       IF \E s \in news(c) : path(s) = p
         THEN f[CHOOSE s \in news(c) : path(s) = p]
       ELSE IF Backlog(c, p) # {} THEN Latest(c, p) ELSE view[c][p]]]
  /\ ClearBatches
  /\ UNCHANGED <<running, container, alive, subscribers, bookVars, departed, asked>>

Frame == \E S \in SUBSET Registered :
           \E f \in [S -> Values \union {Invalid}] : SendFrame(f)

Next ==
  \/ \E c \in Clients, P \in SUBSET Paths : Subscribe(c, P)
  \/ \E c \in Clients, P \in SUBSET Paths : Unsubscribe(c, P)
  \/ \E c \in Clients, P \in SUBSET Paths : SensorData(c, P)
  \/ \E c \in Clients : ServiceDisconnected(c)
  \/ ServiceNameLost
  \/ Stop
  \/ \E o \in Objects : AddObject(o)
  \/ \E o \in Objects : RemoveObject(o)
  \/ \E o \in Objects : DeleteObject(o)
  \/ \E s \in Sensors, v \in Values \union {Invalid} : SetValue(s, v)
  \/ \E s \in Sensors : InfoChanged(s)
  \/ Frame

Spec == Init /\ [][Next]_vars

(* The 500 ms QTimer of Daemon::Daemon keeps firing while the loop runs,   *)
(* and a loop that was told to quit returns.                               *)
FairSpec == Spec /\ WF_vars(Frame) /\ WF_vars(Stop)

-----------------------------------------------------------------------------
(* Properties.                                                             *)

(* Every entry of a client's book is the sensor registered under that path *)
(* now, has a stored connection, and that connection is live: the three    *)
(* tables subscribeSensors fills, and the two signals that erase from them *)
(* (sensorRemoved by path, destroyed by pointer), never disagree.          *)
BooksAgree ==
  \A c \in Clients, p \in Paths :
    LET s == m_subscribedSensors[c][p] IN
    s # NoSensor => /\ c \in m_clients
                    /\ s = findSensor(p)
                    /\ s \in m_connections[c]
                    /\ listeners[c][s] > 0

(* No client holds a pointer to a deleted SensorProperty, in the book that *)
(* unsubscribeSensors and ~Client dereference or as a key of m_connections,*)
(* and the container registers no deleted object.                          *)
NoDanglingPointer ==
  /\ \A c \in Clients :
       \A s \in m_connections[c] \union
                {m_subscribedSensors[c][p] : p \in Paths} :
         s # NoSensor => s[1] \in alive
  /\ \A i \in Ids : container[i] # NoObject => container[i] \in alive

(* As long as a client still receives a sensor's changes the sensor counts *)
(* as subscribed, so that its provider goes on sampling it: unsubscribing, *)
(* by this client or by another, never stops a sensor somebody hears.      *)
ListenersKeepSensorActive ==
  \A c \in Clients, s \in Sensors : listeners[c][s] > 0 => isSubscribed(s)

(* "we're not subscribed to property 2 so if that updates we should not    *)
(* get anything" (src/autotests/main.cpp:181): a client that has undone    *)
(* each of its subscribe() calls on a path is not queued another update of *)
(* that path.                                                              *)
UnsubscribedGetsNothing ==
  [][\A c \in Clients, p \in Paths :
       asked[c][p] = 0 /\ asked'[c][p] = 0
         => Cardinality(Backlog(c, p)') <= Cardinality(Backlog(c, p))]_vars

(* A sensor's subscriber count is the number of clients with a book entry  *)
(* for it, so a provider stops sampling once nobody is left: neither a     *)
(* repeated call nor the end of a client leaks a count.                    *)
SubscribersAreClients ==
  \A s \in Sensors, c \in Clients :
    subscribers[s][c] = IF m_subscribedSensors[c][path(s)] = s THEN 1 ELSE 0

(* What a subscriber was told of a sensor, by a reply to sensorData or by  *)
(* a frame, is the sensor's value unless the client's batch ends with it:  *)
(* batching and replies that overtake the batch lose and reorder nothing.  *)
Freshness ==
  \A c \in Clients, p \in Paths :
    LET s == m_subscribedSensors[c][p] IN
    s # NoSensor /\ value[s] # Invalid /\ view[c][p] # Unknown
      => value[s] = IF Backlog(c, p) = {} THEN view[c][p] ELSE Latest(c, p)

(* If a subscribed sensor settles on a valid value, every client that once *)
(* learnt a value of it since it subscribed ends up with the settled one.  *)
EventuallyConsistent ==
  \A c \in Clients, p \in Paths, v \in Values :
    <>[](/\ m_subscribedSensors[c][p] # NoSensor
         /\ value[m_subscribedSensors[c][p]] = v
         /\ view[c][p] # Unknown)
      => <>[](view[c][p] = v)
-----------------------------------------------------------------------------
(* What the daemon implements for well-behaved clients while no object is  *)
(* removed: pointers, connections and lists refine to subscriptions and    *)
(* coalesced debts, whatever the order of calls, changes and frames.       *)
Service == INSTANCE SubscriptionService WITH
  published <- Found(Paths),
  value <- [p \in Paths |->
             IF findSensor(p) = NoSensor THEN Invalid ELSE value[findSensor(p)]],
  subs <- [c \in Clients |-> {p \in Paths : m_subscribedSensors[c][p] # NoSensor}],
  due <- [c \in Clients |-> [p \in Paths |-> Latest(c, p)]]

(* The daemon keeps the promise of SubscriptionService: what reaches a     *)
(* client is what it is owed, no more, no less, and nothing out of date.   *)
ImplementsService == Service!Spec
=============================================================================
