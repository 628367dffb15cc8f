--------------------------- MODULE LifecycleProofs ---------------------------
(***************************************************************************)
(* Theorems about Lifecycle for any number of instances and clients,       *)
(* started together or not, with clients that leave at any time.           *)
(*                                                                         *)
(* What is queued at an instance bounds what may be true when it handles   *)
(* it: a notice about a client means that the client is gone, the notice   *)
(* that the name is lost means that another instance took it, and nothing  *)
(* is queued at an instance that does not run.                             *)
(*                                                                         *)
(* If instances start one after the other, what one learned about the name *)
(* holds until it registers (NameIsFree). If clients leave only when the bus *)
(* knows of them, whoever is gone is announced (GoneIsAnnounced).          *)
(***************************************************************************)
EXTENDS Lifecycle, TLAPS

Has(q, m) == \E k \in DOMAIN q : q[k] = m

(* The owner of the name has an event loop, which may be about to end.     *)
OwnerServes == owner # Nobody => phase[owner] \in Running

(* A notice about a client is never premature.                             *)
NoticesTrue ==
  \A i \in Instances, c \in Clients : Has(queue[i], Unregistered(c)) => c \notin peers

(* NameLost is only ever queued at an instance that is not the owner.      *)
LostIsLost == \A i \in Instances : Has(queue[i], NameLost) => owner # i

(* An instance forgets a client it watches only when the client is gone.   *)
WatchedIsClient ==
  \A i \in Instances : watched[i] \intersect peers \subseteq m_clients[i]

(* The bus has nothing for an instance that does not run.                  *)
IdleIsEmpty ==
  \A i \in Instances : phase[i] \notin Running =>
    queue[i] = <<>> /\ watched[i] = {} /\ matched[i] = {}

IInv ==
  /\ TypeOK
  /\ OwnerServes
  /\ DisplacedIsTold
  /\ NoticesTrue
  /\ LostIsLost
  /\ WatchedIsClient
  /\ IdleIsEmpty

-----------------------------------------------------------------------------
(* Queues.                                                                 *)

LEMMA HasAppend ==
  ASSUME NEW q \in Seq(Message), NEW m \in Message, NEW x
  PROVE  /\ Append(q, m) \in Seq(Message)
         /\ Has(Append(q, m), x) <=> Has(q, x) \/ x = m
<1>1. /\ Append(q, m) \in Seq(Message)
      /\ Len(Append(q, m)) = Len(q) + 1
      /\ Append(q, m)[Len(q) + 1] = m
      /\ \A k \in 1 .. Len(q) : Append(q, m)[k] = q[k]
  OBVIOUS
<1>2. Has(q, x) => Has(Append(q, m), x)
  BY <1>1 DEF Has
<1>3. Has(Append(q, m), m)
  BY <1>1 DEF Has
<1>4. ASSUME Has(Append(q, m), x) PROVE Has(q, x) \/ x = m
  <2>1. PICK k \in 1 .. Len(q) + 1 : Append(q, m)[k] = x
    BY <1>1, <1>4 DEF Has
  <2>2. CASE k = Len(q) + 1
    BY <1>1, <2>1, <2>2
  <2>3. CASE k \in 1 .. Len(q)
    BY <1>1, <2>1, <2>3 DEF Has
  <2> QED
    BY <2>1, <2>2, <2>3
<1> QED
  BY <1>1, <1>2, <1>3, <1>4

LEMMA HasTail ==
  ASSUME NEW q \in Seq(Message), q # <<>>, NEW x
  PROVE  /\ Tail(q) \in Seq(Message)
         /\ Has(q, Head(q))
         /\ Has(Tail(q), x) => Has(q, x)
         /\ Has(q, x) /\ x # Head(q) => Has(Tail(q), x)
<1>1. /\ Tail(q) \in Seq(Message)
      /\ Len(q) \in Nat /\ Len(q) > 0 /\ Len(Tail(q)) = Len(q) - 1
      /\ Head(q) = q[1]
      /\ \A k \in 1 .. Len(q) - 1 : Tail(q)[k] = q[k + 1]
  OBVIOUS
<1>2. Has(q, Head(q))
  BY <1>1 DEF Has
<1>3. ASSUME Has(Tail(q), x) PROVE Has(q, x)
  <2>1. PICK k \in 1 .. Len(q) - 1 : Tail(q)[k] = x
    BY <1>1, <1>3 DEF Has
  <2>2. k + 1 \in 1 .. Len(q) /\ q[k + 1] = x
    BY <1>1, <2>1
  <2> QED
    BY <2>2 DEF Has
<1>4. ASSUME Has(q, x), x # Head(q) PROVE Has(Tail(q), x)
  <2>1. PICK k \in 1 .. Len(q) : q[k] = x
    BY <1>4 DEF Has
  <2>2. k - 1 \in 1 .. Len(q) - 1 /\ Tail(q)[k - 1] = x
    BY <1>1, <1>4, <2>1
  <2>3. DOMAIN Tail(q) = 1 .. Len(q) - 1
    BY <1>1
  <2> QED
    BY <2>2, <2>3 DEF Has
<1> QED
  BY <1>1, <1>2, <1>3, <1>4

LEMMA HasNone == \A x : ~ Has(<<>>, x)
BY DEF Has

LEMMA MessageTypes ==
  ASSUME NEW c \in Clients
  PROVE  /\ Subscribe(c) \in Message /\ Unregistered(c) \in Message
         /\ NameLost \in Message
         /\ NameLost # Subscribe(c) /\ NameLost # Unregistered(c)
         /\ \A d \in Clients : Subscribe(c) # Unregistered(d)
         /\ \A d \in Clients : Unregistered(c) = Unregistered(d) => c = d
<1>1. /\ NameLost.type = "nameLost" /\ Subscribe(c).type = "subscribe"
      /\ \A d \in Clients : /\ Unregistered(d).type = "serviceUnregistered"
                            /\ Unregistered(d).client = d
  BY DEF NameLost, Subscribe, Unregistered
<1>2. Subscribe(c) \in Message /\ Unregistered(c) \in Message /\ NameLost \in Message
  BY DEF Message
<1> QED
  BY <1>1, <1>2

LEMMA NameLostType == NameLost \in Message
BY DEF Message

(* What taking a message does to the queues.                               *)
LEMMA TakenMessage ==
  ASSUME TypeOK, NEW i \in Instances, NEW m, TakeMessage(i, m)
  PROVE  /\ queue' \in [Instances -> Seq(Message)]
         /\ Has(queue[i], m)
         /\ \A x : \A j \in Instances :
              /\ Has(queue[j]', x) => Has(queue[j], x)
              /\ Has(queue[j], x) /\ (j # i \/ x # m) => Has(queue[j]', x)
<1>1. /\ queue[i] \in Seq(Message) /\ queue[i] # <<>> /\ m = Head(queue[i])
      /\ queue' = [queue EXCEPT ![i] = Tail(@)]
  BY DEF TypeOK, TakeMessage
<1>2. queue'[i] = Tail(queue[i]) /\ \A j \in Instances \ {i} : queue'[j] = queue[j]
  BY <1>1 DEF TypeOK
<1>3. Tail(queue[i]) \in Seq(Message)
  BY <1>1, HasTail
<1>4. queue' \in [Instances -> Seq(Message)]
  BY <1>1, <1>3 DEF TypeOK
<1>5. \A x : /\ Has(Tail(queue[i]), x) => Has(queue[i], x)
             /\ Has(queue[i], x) /\ x # m => Has(Tail(queue[i]), x)
  BY <1>1, HasTail
<1> QED
  BY <1>1, <1>2, <1>4, <1>5, HasTail

-----------------------------------------------------------------------------
(* The invariant holds initially and is kept by every action.              *)

(* The parts in terms of Has.                                              *)
LEMMA Displaced ==
  DisplacedIsTold <=> \A i \in Instances :
    phase[i] = "serving" /\ owner # i => Has(queue[i], NameLost)
BY DEF DisplacedIsTold, Has

LEMMA DisplacedNext ==
  DisplacedIsTold' <=> \A i \in Instances :
    phase'[i] = "serving" /\ owner' # i => Has(queue'[i], NameLost)
BY DEF DisplacedIsTold, Has

LEMMA InitIInv == Init => IInv
<1> SUFFICES ASSUME Init PROVE IInv
  OBVIOUS
<1>1. TypeOK
  BY LifecycleAssumption DEF Init, TypeOK
<1>2. OwnerServes /\ DisplacedIsTold
  BY DEF Init, OwnerServes, DisplacedIsTold
<1>3. NoticesTrue /\ LostIsLost
  BY HasNone DEF Init, NoticesTrue, LostIsLost
<1>4. WatchedIsClient /\ IdleIsEmpty
  BY DEF Init, WatchedIsClient, IdleIsEmpty
<1> QED
  BY <1>1, <1>2, <1>3, <1>4 DEF IInv

(* Before it serves an instance owns nothing and is known to nobody.       *)
LEMMA StartIInv ==
  ASSUME IInv, NEW i \in Instances, Start(i) \/ Probe(i) \/ RegisterRefused(i)
  PROVE  IInv'
<1> USE DEF IInv
<1>1. /\ phase[i] \notin Running /\ phase'[i] \notin Running
      /\ \A j \in Instances \ {i} : phase'[j] = phase[j]
      /\ UNCHANGED <<owner, replace, queue, m_clients, watched, matched, peers, calls>>
  BY DEF Start, Probe, RegisterRefused, Enter, Running, TypeOK
<1>2. TypeOK'
  BY DEF TypeOK, Start, Probe, RegisterRefused, Enter
<1>3. OwnerServes'
  BY <1>1 DEF OwnerServes, TypeOK
<1>4. DisplacedIsTold'
  BY <1>1, Displaced, DisplacedNext DEF Running
<1>5. NoticesTrue' /\ LostIsLost' /\ WatchedIsClient'
  BY <1>1 DEF NoticesTrue, LostIsLost, WatchedIsClient
<1>6. IdleIsEmpty'
  BY <1>1 DEF IdleIsEmpty
<1> QED
  BY <1>2, <1>3, <1>4, <1>5, <1>6

LEMMA RegisterIInv ==
  ASSUME IInv, NEW i \in Instances, Register(i)
  PROVE  IInv'
<1> USE DEF IInv
<1>1. /\ phase[i] \notin Running /\ owner # i /\ queue[i] = <<>>
      /\ owner' = i /\ phase'[i] = "serving"
      /\ \A j \in Instances \ {i} : phase'[j] = phase[j]
      /\ UNCHANGED <<replace, m_clients, watched, matched, peers, calls>>
  BY LifecycleAssumption DEF Register, Enter, Running, TypeOK, OwnerServes, IdleIsEmpty
<1>2. /\ queue' \in [Instances -> Seq(Message)]
      /\ \A x : \A j \in Instances :
           Has(queue'[j], x) <=> Has(queue[j], x) \/ (j = owner /\ x = NameLost)
  <2>1. CASE owner = Nobody
    BY <2>1, LifecycleAssumption DEF Register, TypeOK
  <2>2. CASE owner # Nobody
    <3>1. owner \in Instances /\ queue' = [queue EXCEPT ![owner] = Append(@, NameLost)]
      BY <2>2 DEF TypeOK, Register
    <3>2. queue[owner] \in Seq(Message)
      BY <3>1 DEF TypeOK
    <3>3. /\ queue'[owner] = Append(queue[owner], NameLost)
          /\ \A j \in Instances \ {owner} : queue'[j] = queue[j]
      BY <3>1 DEF TypeOK
    <3>4. /\ Append(queue[owner], NameLost) \in Seq(Message)
          /\ \A x : Has(Append(queue[owner], NameLost), x)
                      <=> Has(queue[owner], x) \/ x = NameLost
      BY <3>2, HasAppend, NameLostType
    <3>5. queue' \in [Instances -> Seq(Message)]
      BY <3>1, <3>4 DEF TypeOK
    <3> QED
      BY <3>3, <3>4, <3>5
  <2> QED
    BY <2>1, <2>2
<1>3. TypeOK'
  BY <1>1, <1>2 DEF TypeOK, Register, Enter
<1>4. OwnerServes'
  BY <1>1 DEF OwnerServes, Running
<1>5. DisplacedIsTold'
  BY <1>1, <1>2, Displaced, DisplacedNext
<1>6. NoticesTrue'
  BY <1>1, <1>2, MessageTypes DEF NoticesTrue
<1>7. LostIsLost'
  BY <1>1, <1>2, HasNone DEF LostIsLost
<1>8. WatchedIsClient'
  BY <1>1 DEF WatchedIsClient
<1>9. IdleIsEmpty'
  <2> SUFFICES ASSUME NEW j \in Instances, phase'[j] \notin Running
               PROVE  queue'[j] = <<>> /\ watched'[j] = {} /\ matched'[j] = {}
    BY DEF IdleIsEmpty
  <2>1. j # i /\ phase[j] \notin Running
    BY <1>1 DEF Running
  <2>2. j # owner \/ owner = Nobody
    BY <2>1 DEF OwnerServes
  <2>3. queue'[j] = queue[j]
    BY <2>2 DEF Register, TypeOK
  <2> QED
    BY <1>1, <2>1, <2>3 DEF IdleIsEmpty
<1> QED
  BY <1>3, <1>4, <1>5, <1>6, <1>7, <1>8, <1>9

LEMMA HandleSubscribeIInv ==
  ASSUME IInv, NEW i \in Instances, NEW c \in Clients, HandleSubscribe(i, c)
  PROVE  IInv'
<1> USE DEF IInv
<1>1. TakeMessage(i, Subscribe(c)) /\ phase[i] \in Running
  BY DEF HandleSubscribe, TakeMessage
<1>2. UNCHANGED <<owner, phase, replace, matched, peers, calls>>
  BY DEF HandleSubscribe
<1>3. \A j \in Instances :
        /\ watched'[j] = IF j = i THEN watched[j] \union {c} ELSE watched[j]
        /\ m_clients'[j] = IF j = i THEN m_clients[j] \union {c} ELSE m_clients[j]
        /\ j # i => queue'[j] = queue[j]
  BY DEF HandleSubscribe, TakeMessage, TypeOK
<1>4. TypeOK'
  <2>1. queue' \in [Instances -> Seq(Message)]
    BY <1>1, TakenMessage
  <2>2. /\ watched' \in [Instances -> SUBSET Clients]
        /\ m_clients' \in [Instances -> SUBSET Clients]
    BY DEF HandleSubscribe, TypeOK
  <2>3. \A j \in Instances : m_clients'[j] \union matched'[j] \subseteq watched'[j]
    BY <1>2, <1>3 DEF TypeOK
  <2> QED
    BY <1>2, <2>1, <2>2, <2>3 DEF TypeOK
<1>5. OwnerServes'
  BY <1>2 DEF OwnerServes
<1>6. DisplacedIsTold'
  BY <1>1, <1>2, TakenMessage, MessageTypes, Displaced, DisplacedNext
<1>7. NoticesTrue' /\ LostIsLost'
  BY <1>1, <1>2, TakenMessage DEF NoticesTrue, LostIsLost
<1>8. WatchedIsClient'
  BY <1>2, <1>3 DEF WatchedIsClient
<1>9. IdleIsEmpty'
  BY <1>1, <1>2, <1>3 DEF IdleIsEmpty
<1> QED
  BY <1>4, <1>5, <1>6, <1>7, <1>8, <1>9

(* Only a client that is gone is forgotten, by NoticesTrue.                *)
LEMMA HandleUnregisteredIInv ==
  ASSUME IInv, NEW i \in Instances, NEW c \in Clients, HandleUnregistered(i, c)
  PROVE  IInv'
<1> USE DEF IInv
<1>1. TakeMessage(i, Unregistered(c)) /\ phase[i] \in Running /\ phase'[i] \in Running
  BY DEF HandleUnregistered, TakeMessage, TypeOK, Running
<1>2. UNCHANGED <<owner, replace, watched, matched, peers, calls>>
  BY DEF HandleUnregistered
<1>3. \A j \in Instances :
        /\ m_clients'[j] = IF j = i THEN m_clients[j] \ {c} ELSE m_clients[j]
        /\ j # i => queue'[j] = queue[j] /\ phase'[j] = phase[j]
  BY DEF HandleUnregistered, TakeMessage, TypeOK
<1>4. TypeOK'
  <2>1. queue' \in [Instances -> Seq(Message)]
    BY <1>1, TakenMessage
  <2>2. m_clients' \in [Instances -> SUBSET Clients]
    BY DEF HandleUnregistered, TypeOK
  <2>3. \A j \in Instances : m_clients'[j] \union matched'[j] \subseteq watched'[j]
    BY <1>2, <1>3 DEF TypeOK
  <2>4. phase' \in [Instances ->
          {"new", "probing", "registering", "serving", "quitting", "exited"}]
    BY DEF HandleUnregistered, TypeOK
  <2> QED
    BY <1>2, <2>1, <2>2, <2>3, <2>4 DEF TypeOK
<1>5. OwnerServes'
  BY <1>1, <1>2, <1>3 DEF OwnerServes, TypeOK
<1>6. DisplacedIsTold'
  <2>1. \A j \in Instances : phase'[j] = "serving" => phase[j] = "serving"
    BY <1>3 DEF HandleUnregistered, TypeOK
  <2> QED
    BY <1>1, <1>2, <2>1, TakenMessage, MessageTypes, Displaced, DisplacedNext
<1>7. NoticesTrue' /\ LostIsLost'
  BY <1>1, <1>2, TakenMessage DEF NoticesTrue, LostIsLost
<1>8. WatchedIsClient'
  <2>1. c \notin peers
    BY <1>1, TakenMessage DEF NoticesTrue
  <2> QED
    BY <1>2, <1>3, <2>1 DEF WatchedIsClient
<1>9. IdleIsEmpty'
  BY <1>1, <1>2, <1>3 DEF IdleIsEmpty
<1> QED
  BY <1>4, <1>5, <1>6, <1>7, <1>8, <1>9

LEMMA HandleNameLostIInv ==
  ASSUME IInv, NEW i \in Instances, HandleNameLost(i)
  PROVE  IInv'
<1> USE DEF IInv
<1>1. TakeMessage(i, NameLost) /\ phase[i] \in Running
  BY DEF HandleNameLost, TakeMessage
<1>2. UNCHANGED <<owner, replace, m_clients, watched, matched, peers, calls>>
  BY DEF HandleNameLost
<1>3. /\ phase'[i] = "quitting"
      /\ \A j \in Instances \ {i} : phase'[j] = phase[j] /\ queue'[j] = queue[j]
  BY DEF HandleNameLost, TakeMessage, Enter, TypeOK
<1>4. TypeOK'
  <2>1. queue' \in [Instances -> Seq(Message)]
    BY <1>1, TakenMessage
  <2> QED
    BY <1>2, <2>1 DEF HandleNameLost, Enter, TypeOK
<1>5. OwnerServes'
  BY <1>2, <1>3 DEF OwnerServes, TypeOK, Running
<1>6. DisplacedIsTold'
  BY <1>2, <1>3, Displaced, DisplacedNext
<1>7. NoticesTrue' /\ LostIsLost'
  BY <1>1, <1>2, TakenMessage DEF NoticesTrue, LostIsLost
<1>8. WatchedIsClient'
  BY <1>2 DEF WatchedIsClient
<1>9. IdleIsEmpty'
  BY <1>2, <1>3 DEF IdleIsEmpty, Running
<1> QED
  BY <1>4, <1>5, <1>6, <1>7, <1>8, <1>9

LEMMA ExitIInv ==
  ASSUME IInv, NEW i \in Instances, Exit(i)
  PROVE  IInv'
<1> USE DEF IInv
<1>1. /\ phase'[i] = "exited" /\ queue'[i] = <<>>
      /\ m_clients'[i] = {} /\ watched'[i] = {} /\ matched'[i] = {}
      /\ \A j \in Instances \ {i} :
           /\ phase'[j] = phase[j] /\ queue'[j] = queue[j]
           /\ m_clients'[j] = m_clients[j]
           /\ watched'[j] = watched[j] /\ matched'[j] = matched[j]
      /\ owner' = IF owner = i THEN Nobody ELSE owner
      /\ UNCHANGED <<replace, peers, calls>>
  BY DEF Exit, Enter, TypeOK
<1>2. TypeOK'
  <2>1. /\ queue' \in [Instances -> Seq(Message)]
        /\ m_clients' \in [Instances -> SUBSET Clients]
        /\ watched' \in [Instances -> SUBSET Clients]
        /\ matched' \in [Instances -> SUBSET Clients]
    BY DEF Exit, TypeOK
  <2>2. /\ owner' \in Instances \union {Nobody}
        /\ phase' \in [Instances ->
             {"new", "probing", "registering", "serving", "quitting", "exited"}]
    BY DEF Exit, Enter, TypeOK
  <2>3. \A j \in Instances : m_clients'[j] \union matched'[j] \subseteq watched'[j]
    BY <1>1 DEF TypeOK
  <2> QED
    BY <1>1, <2>1, <2>2, <2>3 DEF TypeOK
<1>3. OwnerServes'
  BY <1>1 DEF OwnerServes, TypeOK
<1>4. DisplacedIsTold'
  <2> SUFFICES ASSUME NEW j \in Instances, phase'[j] = "serving", owner' # j
               PROVE  Has(queue'[j], NameLost)
    BY DisplacedNext
  <2>1. j # i /\ phase[j] = "serving" /\ owner # j
    BY <1>1
  <2> QED
    BY <1>1, <2>1, Displaced
<1>5. NoticesTrue'
  BY <1>1, HasNone DEF NoticesTrue
<1>6. LostIsLost'
  BY <1>1, HasNone, LifecycleAssumption DEF LostIsLost
<1>7. WatchedIsClient'
  BY <1>1 DEF WatchedIsClient
<1>8. IdleIsEmpty'
  BY <1>1 DEF IdleIsEmpty
<1> QED
  BY <1>2, <1>3, <1>4, <1>5, <1>6, <1>7, <1>8

LEMMA MatchIInv ==
  ASSUME IInv, NEW i \in Instances, NEW c \in Clients, Match(i, c)
  PROVE  IInv'
<1> USE DEF IInv
<1>1. /\ phase[i] \in Running /\ c \in watched[i]
      /\ \A j \in Instances :
           matched'[j] = IF j = i THEN matched[j] \union {c} ELSE matched[j]
      /\ UNCHANGED <<owner, phase, replace, queue, m_clients, watched, peers, calls>>
  BY DEF Match, TypeOK
<1>2. TypeOK'
  <2>1. matched' \in [Instances -> SUBSET Clients]
    BY DEF Match, TypeOK
  <2> QED
    BY <1>1, <2>1 DEF TypeOK
<1>3. OwnerServes' /\ DisplacedIsTold'
  BY <1>1 DEF OwnerServes, DisplacedIsTold
<1>4. NoticesTrue' /\ LostIsLost' /\ WatchedIsClient'
  BY <1>1 DEF NoticesTrue, LostIsLost, WatchedIsClient
<1>5. IdleIsEmpty'
  BY <1>1 DEF IdleIsEmpty
<1> QED
  BY <1>2, <1>3, <1>4, <1>5

LEMMA CallIInv ==
  ASSUME IInv, NEW c \in Clients, Call(c)
  PROVE  IInv'
<1> USE DEF IInv
<1>1. /\ owner \in Instances /\ phase[owner] \in Running
      /\ queue' = [queue EXCEPT ![owner] = Append(@, Subscribe(c))]
      /\ UNCHANGED <<owner, phase, replace, m_clients, watched, matched, peers>>
  BY DEF Call, TypeOK, OwnerServes
<1>2. /\ queue'[owner] = Append(queue[owner], Subscribe(c))
      /\ \A j \in Instances \ {owner} : queue'[j] = queue[j]
      /\ queue[owner] \in Seq(Message)
  BY <1>1 DEF TypeOK
<1>3. /\ Append(queue[owner], Subscribe(c)) \in Seq(Message)
      /\ \A x : Has(queue'[owner], x) <=> Has(queue[owner], x) \/ x = Subscribe(c)
  BY <1>2, HasAppend, MessageTypes
<1>4. \A x : \A j \in Instances :
        /\ Has(queue[j], x) => Has(queue'[j], x)
        /\ Has(queue'[j], x) => Has(queue[j], x) \/ x = Subscribe(c)
  BY <1>2, <1>3
<1>5. TypeOK'
  <2>1. queue' \in [Instances -> Seq(Message)]
    BY <1>1, <1>2, <1>3 DEF TypeOK
  <2>2. calls' \in [Clients -> 0 .. MaxCalls]
    BY LifecycleAssumption DEF Call, TypeOK
  <2> QED
    BY <1>1, <2>1, <2>2 DEF TypeOK
<1>6. OwnerServes' /\ WatchedIsClient'
  BY <1>1 DEF OwnerServes, WatchedIsClient
<1>7. DisplacedIsTold'
  BY <1>1, <1>4, Displaced, DisplacedNext
<1>8. NoticesTrue' /\ LostIsLost'
  BY <1>1, <1>4, MessageTypes DEF NoticesTrue, LostIsLost
<1>9. IdleIsEmpty'
  BY <1>1, <1>2 DEF IdleIsEmpty
<1> QED
  BY <1>5, <1>6, <1>7, <1>8, <1>9

LEMMA LeaveIInv ==
  ASSUME IInv, NEW c \in Clients, Leave(c)
  PROVE  IInv'
<1> USE DEF IInv
<1>1. /\ peers' = peers \ {c}
      /\ UNCHANGED <<owner, phase, replace, m_clients, watched, matched, calls>>
  BY DEF Leave
<1>2. \A j \in Instances :
        /\ queue[j] \in Seq(Message)
        /\ queue'[j] = IF c \in matched[j] THEN Append(queue[j], Unregistered(c))
                       ELSE queue[j]
  BY DEF Leave, TypeOK
<1>3. \A x : \A j \in Instances :
        /\ queue'[j] \in Seq(Message)
        /\ Has(queue[j], x) => Has(queue'[j], x)
        /\ Has(queue'[j], x) => Has(queue[j], x) \/ x = Unregistered(c)
  <2> TAKE x
  <2> TAKE j \in Instances
  <2>1. CASE c \in matched[j]
    <3>1. /\ queue[j] \in Seq(Message)
          /\ queue'[j] = Append(queue[j], Unregistered(c))
      BY <1>2, <2>1
    <3>2. /\ Append(queue[j], Unregistered(c)) \in Seq(Message)
          /\ Has(Append(queue[j], Unregistered(c)), x)
               <=> Has(queue[j], x) \/ x = Unregistered(c)
      BY <3>1, HasAppend, MessageTypes
    <3> QED
      BY <3>1, <3>2
  <2>2. CASE c \notin matched[j]
    BY <1>2, <2>2
  <2> QED
    BY <2>1, <2>2
<1>4. TypeOK'
  <2>1. queue' \in [Instances -> Seq(Message)]
    <3>1. queue' = [j \in Instances |->
            IF c \in matched[j] THEN Append(queue[j], Unregistered(c)) ELSE queue[j]]
      BY DEF Leave
    <3> QED
      BY <1>3, <3>1
  <2> QED
    BY <1>1, <2>1 DEF TypeOK
<1>5. OwnerServes' /\ WatchedIsClient'
  BY <1>1 DEF OwnerServes, WatchedIsClient
<1>6. DisplacedIsTold'
  BY <1>1, <1>3, Displaced, DisplacedNext
<1>7. NoticesTrue'
  BY <1>1, <1>3, MessageTypes DEF NoticesTrue
<1>8. LostIsLost'
  BY <1>1, <1>3, MessageTypes DEF LostIsLost
<1>9. IdleIsEmpty'
  BY <1>1, <1>2 DEF IdleIsEmpty
<1> QED
  BY <1>4, <1>5, <1>6, <1>7, <1>8, <1>9

LEMMA StutterIInv == IInv /\ UNCHANGED vars => IInv'
BY DEF vars, IInv, TypeOK, OwnerServes, DisplacedIsTold, NoticesTrue, LostIsLost,
       WatchedIsClient, IdleIsEmpty

LEMMA NextIInv == IInv /\ [Next]_vars => IInv'
<1> SUFFICES ASSUME IInv, [Next]_vars PROVE IInv'
  OBVIOUS
<1>1. ASSUME NEW i \in Instances, Start(i) \/ Probe(i) \/ RegisterRefused(i)
      PROVE  IInv'
  BY <1>1, StartIInv
<1>2. ASSUME NEW i \in Instances, Register(i) PROVE IInv'
  BY <1>2, RegisterIInv
<1>3. ASSUME NEW i \in Instances, Handle(i) PROVE IInv'
  BY <1>3, HandleSubscribeIInv, HandleUnregisteredIInv, HandleNameLostIInv DEF Handle
<1>4. ASSUME NEW i \in Instances, Exit(i) PROVE IInv'
  BY <1>4, ExitIInv
<1>5. ASSUME NEW i \in Instances, NEW c \in Clients, Match(i, c) PROVE IInv'
  BY <1>5, MatchIInv
<1>6. ASSUME NEW c \in Clients, Call(c) \/ Leave(c) PROVE IInv'
  BY <1>6, CallIInv, LeaveIInv
<1>7. ASSUME UNCHANGED vars PROVE IInv'
  BY <1>7, StutterIInv
<1> QED
  BY <1>1, <1>2, <1>3, <1>4, <1>5, <1>6, <1>7 DEF Next

-----------------------------------------------------------------------------
(* The inductive invariant holds in every reachable state.                 *)
THEOREM Invariance == Spec => []IInv
<1>1. Init => IInv
  BY InitIInv
<1>2. IInv /\ [Next]_vars => IInv'
  BY NextIInv
<1> QED
  BY <1>1, <1>2, PTL DEF Spec

(* The type invariant; a daemon watches every client it has.               *)
THEOREM TypeCorrect == Spec => []TypeOK
<1>1. IInv => TypeOK
  BY DEF IInv
<1> QED
  BY <1>1, Invariance, PTL

(* Two daemons never both go on serving (registerDBusService connects to   *)
(* serviceUnregistered before it registers).                               *)
THEOREM DisplacedAlwaysTold == Spec => []DisplacedIsTold
<1>1. IInv => DisplacedIsTold
  BY DEF IInv
<1> QED
  BY <1>1, Invariance, PTL

-----------------------------------------------------------------------------
(* A daemon that is replaced.                                              *)

(* No call is queued behind the notice that the name is lost: only the     *)
(* owner is called, and it has no such notice, by LostIsLost.              *)
CallsFirst(q) ==
  \A c \in Clients : \A k, l \in DOMAIN q :
    q[k] = NameLost /\ q[l] = Subscribe(c) => l < k
CallsBeforeLoss == \A i \in Instances : CallsFirst(queue[i])

(* A message keeps this order, unless it is a call after the notice.       *)
LEMMA AppendCallsFirst ==
  ASSUME NEW q \in Seq(Message), CallsFirst(q), NEW m,
         Has(q, NameLost) => \A c \in Clients : m # Subscribe(c)
  PROVE  CallsFirst(Append(q, m))
<1>1. /\ DOMAIN q = 1 .. Len(q) /\ Len(q) \in Nat
      /\ DOMAIN Append(q, m) = 1 .. Len(q) + 1
      /\ Append(q, m)[Len(q) + 1] = m
      /\ \A k \in 1 .. Len(q) : Append(q, m)[k] = q[k]
  OBVIOUS
<1> SUFFICES ASSUME NEW c \in Clients, NEW k \in 1 .. Len(q) + 1, NEW l \in 1 .. Len(q) + 1,
                    Append(q, m)[k] = NameLost, Append(q, m)[l] = Subscribe(c)
             PROVE  l < k
  BY <1>1 DEF CallsFirst
<1>2. CASE l = Len(q) + 1
  <2>1. m = Subscribe(c) /\ m # NameLost
    BY <1>1, <1>2, MessageTypes
  <2>2. k \in 1 .. Len(q) /\ q[k] = NameLost
    BY <1>1, <2>1
  <2> QED
    BY <1>1, <2>1, <2>2 DEF Has
<1>3. CASE k = Len(q) + 1 /\ l # Len(q) + 1
  BY <1>1, <1>3
<1>4. CASE k # Len(q) + 1 /\ l # Len(q) + 1
  BY <1>1, <1>4 DEF CallsFirst
<1> QED
  BY <1>2, <1>3, <1>4

(* Behind the notice at the head of a queue there is no call.              *)
LEMMA TailCallsFirst ==
  ASSUME NEW q \in Seq(Message), q # <<>>, CallsFirst(q)
  PROVE  /\ CallsFirst(Tail(q))
         /\ Head(q) = NameLost =>
              \A c \in Clients, k \in DOMAIN Tail(q) : Tail(q)[k] # Subscribe(c)
<1>1. /\ DOMAIN q = 1 .. Len(q) /\ Len(q) \in Nat /\ Len(q) > 0
      /\ DOMAIN Tail(q) = 1 .. Len(q) - 1
      /\ Head(q) = q[1]
      /\ \A k \in 1 .. Len(q) - 1 : Tail(q)[k] = q[k + 1]
  OBVIOUS
<1>2. \A k \in 1 .. Len(q) - 1 : k + 1 \in 1 .. Len(q)
  BY <1>1
<1>3. CallsFirst(Tail(q))
  BY <1>1, <1>2 DEF CallsFirst
<1>4. ASSUME Head(q) = NameLost, NEW c \in Clients, NEW k \in 1 .. Len(q) - 1,
             Tail(q)[k] = Subscribe(c)
      PROVE  FALSE
  <2>1. k + 1 < 1
    BY <1>1, <1>2, <1>4 DEF CallsFirst
  <2> QED
    BY <2>1
<1> QED
  BY <1>1, <1>3, <1>4

LEMMA CallsBeforeLossNext ==
  ASSUME IInv, CallsBeforeLoss, [Next]_vars
  PROVE  CallsBeforeLoss'
<1> USE DEF IInv, CallsBeforeLoss
<1>0. TypeOK /\ \A i \in Instances : queue[i] \in Seq(Message)
  BY DEF TypeOK
<1>1. ASSUME NEW i \in Instances, Start(i) \/ Probe(i) \/ RegisterRefused(i)
      PROVE  CallsBeforeLoss'
  BY <1>1 DEF Start, Probe, RegisterRefused
<1>2. ASSUME NEW i \in Instances, Register(i)
      PROVE  CallsBeforeLoss'
  <2>1. \A c \in Clients : NameLost # Subscribe(c)
    BY MessageTypes
  <2>2. \A j \in Instances : queue'[j] \in {queue[j], Append(queue[j], NameLost)}
    BY <1>0, <1>2 DEF Register, TypeOK
  <2> QED
    BY <1>0, <2>1, <2>2, AppendCallsFirst
<1>3. ASSUME NEW i \in Instances, NEW m, TakeMessage(i, m)
      PROVE  CallsBeforeLoss'
  <2>1. /\ queue[i] # <<>> /\ queue'[i] = Tail(queue[i])
        /\ \A j \in Instances \ {i} : queue'[j] = queue[j]
    BY <1>0, <1>3 DEF TakeMessage, TypeOK
  <2>2. CallsFirst(Tail(queue[i]))
    BY <1>0, <2>1, TailCallsFirst
  <2> QED
    BY <2>1, <2>2
<1>4. ASSUME NEW i \in Instances, Exit(i)
      PROVE  CallsBeforeLoss'
  <2>1. queue'[i] = <<>> /\ \A j \in Instances \ {i} : queue'[j] = queue[j]
    BY <1>0, <1>4 DEF Exit, TypeOK
  <2> QED
    BY <2>1 DEF CallsFirst
<1>5. ASSUME NEW i \in Instances, NEW c \in Clients, Match(i, c)
      PROVE  CallsBeforeLoss'
  BY <1>5 DEF Match
<1>6. ASSUME NEW c \in Clients, Call(c)
      PROVE  CallsBeforeLoss'
  <2>1. /\ owner \in Instances /\ queue'[owner] = Append(queue[owner], Subscribe(c))
        /\ \A j \in Instances \ {owner} : queue'[j] = queue[j]
    BY <1>0, <1>6 DEF Call, TypeOK
  <2>2. ~ Has(queue[owner], NameLost)
    BY <2>1 DEF LostIsLost
  <2> QED
    BY <1>0, <2>1, <2>2, AppendCallsFirst
<1>7. ASSUME NEW c \in Clients, Leave(c)
      PROVE  CallsBeforeLoss'
  <2>1. \A d \in Clients : Unregistered(c) # Subscribe(d)
    BY MessageTypes
  <2>2. \A j \in Instances : queue'[j] \in {queue[j], Append(queue[j], Unregistered(c))}
    BY <1>0, <1>7 DEF Leave, TypeOK
  <2> QED
    BY <1>0, <2>1, <2>2, AppendCallsFirst
<1>8. CASE UNCHANGED vars
  BY <1>8 DEF vars
<1>9. ASSUME NEW i \in Instances, Handle(i)
      PROVE  \E m : TakeMessage(i, m)
  BY <1>9 DEF Handle, HandleSubscribe, HandleUnregistered, HandleNameLost
<1> QED
  BY <1>1, <1>2, <1>3, <1>4, <1>5, <1>6, <1>7, <1>8, <1>9 DEF Next

(* A daemon ended by the loss of its name has handled every call it got    *)
(* (the lambda on serviceUnregistered in registerDBusService).             *)
THEOREM ReplacedAlwaysHandledAllCalls == Spec => ReplacedHandlesAllCalls
<1>1. Init => CallsBeforeLoss
  BY DEF Init, CallsBeforeLoss, CallsFirst
<1>2. IInv /\ CallsBeforeLoss /\ [Next]_vars => CallsBeforeLoss'
  BY CallsBeforeLossNext
<1>3. IInv /\ CallsBeforeLoss /\ [Next]_vars =>
        [\A i \in Instances :
           phase[i] = "serving" /\ phase'[i] = "quitting" /\ Head(queue[i]) = NameLost
             => \A c \in Clients, k \in DOMAIN queue'[i] : queue'[i][k] # Subscribe(c)]_vars
  <2> SUFFICES ASSUME IInv, CallsBeforeLoss, Next, NEW i \in Instances,
                      phase[i] = "serving", phase'[i] = "quitting",
                      Head(queue[i]) = NameLost,
                      NEW c \in Clients, NEW k \in DOMAIN queue'[i]
               PROVE  queue'[i][k] # Subscribe(c)
    OBVIOUS
  <2>1. PICK m : TakeMessage(i, m)
    <3>1. ASSUME NEW j \in Instances, \/ Start(j) \/ Probe(j) \/ Exit(j)
                                      \/ Register(j) \/ RegisterRefused(j)
          PROVE  FALSE
      BY <3>1 DEF Start, Probe, Register, RegisterRefused, Exit, Enter, IInv, TypeOK
    <3>2. ASSUME NEW j \in Instances, NEW d \in Clients, Match(j, d) PROVE FALSE
      BY <3>2 DEF Match
    <3>3. ASSUME NEW d \in Clients, Call(d) \/ Leave(d) PROVE FALSE
      BY <3>3 DEF Call, Leave
    <3>4. PICK j \in Instances : Handle(j)
      BY <3>1, <3>2, <3>3 DEF Next
    <3>5. j = i
      BY <3>4 DEF Handle, HandleSubscribe, HandleUnregistered, HandleNameLost, Enter,
                  IInv, TypeOK
    <3> QED
      BY <3>4, <3>5 DEF Handle, HandleSubscribe, HandleUnregistered, HandleNameLost
  <2>2. /\ queue[i] \in Seq(Message) /\ queue[i] # <<>>
        /\ queue'[i] = Tail(queue[i]) /\ CallsFirst(queue[i])
    BY <2>1 DEF TakeMessage, IInv, TypeOK, CallsBeforeLoss
  <2> QED
    BY <2>2, TailCallsFirst
<1> QED
  BY <1>1, <1>2, <1>3, Invariance, PTL DEF Spec, ReplacedHandlesAllCalls

(* A daemon that keeps its name quits only when no client it served is     *)
(* connected (onServiceDisconnected). The step is not a NameLost, by       *)
(* LostIsLost, so it empties m_clients, which has every watched client     *)
(* still connected, by WatchedIsClient.                                    *)
THEOREM NeverQuitsInUse == Spec => QuitsOnlyWhenUnused
<1>1. IInv /\ IInv' /\ [Next]_vars =>
        [\A i \in Instances :
           phase[i] = "serving" /\ phase'[i] = "quitting" /\ owner' = i
             => watched[i] \intersect peers = {}]_vars
  <2> SUFFICES ASSUME IInv, IInv', Next, NEW i \in Instances,
                      phase[i] = "serving", phase'[i] = "quitting", owner' = i
               PROVE  watched[i] \intersect peers = {}
    OBVIOUS
  <2>1. ~ HandleNameLost(i)
    <3> SUFFICES ASSUME HandleNameLost(i) PROVE FALSE
      OBVIOUS
    <3>1. Has(queue[i], NameLost) /\ owner = i
      BY TakenMessage DEF HandleNameLost, IInv
    <3> QED
      BY <3>1 DEF IInv, LostIsLost
  <2>2. PICK c \in Clients : HandleUnregistered(i, c)
    <3>1. ASSUME NEW j \in Instances, \/ Start(j) \/ Probe(j) \/ Exit(j)
                                      \/ Register(j) \/ RegisterRefused(j)
          PROVE  FALSE
      BY <3>1 DEF Start, Probe, Register, RegisterRefused, Exit, Enter, IInv, TypeOK
    <3>2. ASSUME NEW j \in Instances, NEW c \in Clients, Match(j, c) \/ HandleSubscribe(j, c)
          PROVE  FALSE
      BY <3>2 DEF Match, HandleSubscribe
    <3>3. ASSUME NEW c \in Clients, Call(c) \/ Leave(c) PROVE FALSE
      BY <3>3 DEF Call, Leave
    <3>4. ASSUME NEW j \in Instances, j # i, HandleNameLost(j) PROVE FALSE
      BY <3>4 DEF HandleNameLost, Enter, IInv, TypeOK
    <3>5. ASSUME NEW j \in Instances, NEW c \in Clients, j # i, HandleUnregistered(j, c)
          PROVE  FALSE
      BY <3>5 DEF HandleUnregistered, IInv, TypeOK
    <3> QED
      BY <2>1, <3>1, <3>2, <3>3, <3>4, <3>5 DEF Next, Handle
  <2>3. m_clients'[i] = {} /\ watched' = watched /\ peers' = peers
    BY <2>2 DEF HandleUnregistered, IInv, TypeOK
  <2> QED
    BY <2>3 DEF IInv, WatchedIsClient
<1> QED
  BY <1>1, Invariance, PTL DEF Spec, QuitsOnlyWhenUnused

-----------------------------------------------------------------------------
(* Instances that start one after the other.                               *)

\* Between finding out who has the name and registering it.
Starting(i) == phase[i] \in {"probing", "registering"}

(* One instance at a time is between its two round trips, and what it      *)
(* learned in the first still holds in the second.                         *)
OneAtATime == \A i, j \in Instances : Starting(i) /\ Starting(j) => i = j
NameIsFree == \A i \in Instances : phase[i] = "registering" /\ i \notin replace
                                      => owner = Nobody

(* Nobody takes the name from under an instance that found it free.        *)
LEMMA StaggeredNext ==
  ASSUME Staggered, TypeOK, OneAtATime, NameIsFree, [Next]_vars
  PROVE  OneAtATime' /\ NameIsFree'
<1> USE DEF OneAtATime, NameIsFree, Starting
<1>1. ASSUME NEW i \in Instances, \/ Start(i) \/ Probe(i) \/ Exit(i)
                                  \/ Register(i) \/ RegisterRefused(i)
      PROVE  OneAtATime' /\ NameIsFree'
  <2>1. \A j \in Instances \ {i} : phase'[j] = phase[j]
    BY <1>1 DEF Start, Probe, Register, RegisterRefused, Exit, Enter, TypeOK
  <2>2. CASE Start(i)
    <3>1. \A j \in Instances : ~Starting(j)
      BY <2>2 DEF Start
    <3>2. phase'[i] = "probing" /\ owner' = owner /\ replace' = replace
      BY <2>2 DEF Start, Enter, TypeOK
    <3> QED
      BY <2>1, <3>1, <3>2
  <2>3. CASE Probe(i)
    <3>1. /\ phase[i] = "probing" /\ owner' = owner /\ replace' = replace
          /\ phase'[i] = "registering" => owner = Nobody \/ i \in replace
      BY <2>3 DEF Probe, Enter, TypeOK
    <3>2. phase'[i] \in {"registering", "exited"}
      BY <2>3 DEF Probe, Enter, TypeOK
    <3> QED
      BY <2>1, <3>1, <3>2
  <2>4. CASE Register(i)
    <3>1. phase[i] = "registering" /\ phase'[i] = "serving" /\ replace' = replace
      BY <2>4 DEF Register, Enter, TypeOK
    <3> QED
      BY <2>1, <3>1
  <2>5. CASE Exit(i)
    <3>1. /\ phase'[i] = "exited" /\ replace' = replace
          /\ owner = Nobody => owner' = Nobody
      BY <2>5 DEF Exit, Enter, TypeOK
    <3> QED
      BY <2>1, <3>1
  <2>6. CASE RegisterRefused(i)
    <3>1. phase'[i] = "exited" /\ owner' = owner /\ replace' = replace
      BY <2>6 DEF RegisterRefused, Enter, TypeOK
    <3> QED
      BY <2>1, <3>1
  <2> QED
    BY <1>1, <2>2, <2>3, <2>4, <2>5, <2>6
<1>2. ASSUME NEW i \in Instances, Handle(i)
      PROVE  OneAtATime' /\ NameIsFree'
  <2>1. \A j \in Instances : phase'[j] = phase[j] \/ phase'[j] = "quitting"
    BY <1>2 DEF Handle, HandleSubscribe, HandleUnregistered, HandleNameLost, Enter, TypeOK
  <2>2. UNCHANGED <<owner, replace>>
    BY <1>2 DEF Handle, HandleSubscribe, HandleUnregistered, HandleNameLost
  <2> QED
    BY <2>1, <2>2
<1>3. ASSUME NEW i \in Instances, NEW c \in Clients, Match(i, c) \/ Call(c) \/ Leave(c)
      PROVE  OneAtATime' /\ NameIsFree'
  BY <1>3 DEF Match, Call, Leave
<1>4. ASSUME NEW c \in Clients, Call(c) \/ Leave(c)
      PROVE  OneAtATime' /\ NameIsFree'
  BY <1>4 DEF Call, Leave
<1>5. CASE UNCHANGED vars
  BY <1>5 DEF vars
<1> QED
  BY <1>1, <1>2, <1>3, <1>4, <1>5 DEF Next

(* As long as no two instances start at the same time, one without         *)
(* --replace never takes the name from another (registerDBusService asks   *)
(* for the owner first and registers with ReplaceExistingService).         *)
THEOREM NeverReplacesUnasked ==
  ASSUME Staggered
  PROVE  Spec => ReplacesOnlyOnRequest
<1>1. Init => OneAtATime /\ NameIsFree
  BY DEF Init, OneAtATime, NameIsFree, Starting
<1>2. TypeOK /\ OneAtATime /\ NameIsFree /\ [Next]_vars => (OneAtATime /\ NameIsFree)'
  BY StaggeredNext
<1>3. TypeOK /\ NameIsFree /\ [Next]_vars =>
        [\A i \in Instances :
           owner' = i /\ owner \notin {i, Nobody} => i \in replace]_owner
  <2> SUFFICES ASSUME TypeOK, NameIsFree, [Next]_vars, owner' # owner,
                      NEW i \in Instances, owner' = i, owner \notin {i, Nobody}
               PROVE  i \in replace
    OBVIOUS
  <2>1. PICK j \in Instances : Register(j) \/ Exit(j)
    BY DEF Next, vars, Start, Probe, RegisterRefused, Handle, HandleSubscribe,
           HandleUnregistered, HandleNameLost, Match, Call, Leave
  <2>2. Register(j) /\ j = i
    BY <2>1, LifecycleAssumption DEF Register, Exit
  <2> QED
    BY <2>2 DEF NameIsFree, Register
<1> QED
  BY <1>1, <1>2, <1>3, TypeCorrect, PTL DEF Spec, ReplacesOnlyOnRequest

-----------------------------------------------------------------------------
(* Clients that leave when the bus knows of them.                          *)

(* A client whose call is under way is there, and of every client that is  *)
(* gone the notice is queued at each instance that still has it: an        *)
(* instance keeps no client it will not hear the end of.                   *)
CallersThere ==
  \A i \in Instances, c \in Clients : Has(queue[i], Subscribe(c)) => c \in peers
GoneIsAnnounced ==
  \A i \in Instances, c \in Clients :
    c \in m_clients[i] /\ c \notin peers => Has(queue[i], Unregistered(c))

(* What the bus and the instances do keeps it so, if nobody leaves early.  *)
LEMMA AnnouncedNext ==
  ASSUME ~LeaveEarly, IInv, CallersThere, GoneIsAnnounced, [Next]_vars
  PROVE  CallersThere' /\ GoneIsAnnounced'
<1> USE DEF CallersThere, GoneIsAnnounced
<1>0. TypeOK
  BY DEF IInv
<1>1. ASSUME NEW i \in Instances, Start(i) \/ Probe(i) \/ RegisterRefused(i)
      PROVE  CallersThere' /\ GoneIsAnnounced'
  BY <1>1 DEF Start, Probe, RegisterRefused
<1>2. ASSUME NEW i \in Instances, Register(i)
      PROVE  CallersThere' /\ GoneIsAnnounced'
  <2>1. ASSUME NEW j \in Instances, NEW x
        PROVE  /\ Has(queue[j], x) => Has(queue'[j], x)
               /\ Has(queue'[j], x) => Has(queue[j], x) \/ x = NameLost
    <3>1. CASE j = owner
      <4>1. /\ queue[j] \in Seq(Message) /\ owner # Nobody
            /\ queue'[j] = Append(queue[j], NameLost)
        BY <1>0, <1>2, <3>1, LifecycleAssumption DEF Register, TypeOK
      <4> QED
        BY <4>1, HasAppend, NameLostType
    <3>2. CASE j # owner
      BY <1>0, <1>2, <3>2 DEF Register, TypeOK
    <3> QED
      BY <3>1, <3>2
  <2>2. UNCHANGED <<m_clients, peers>>
    BY <1>2 DEF Register
  <2> QED
    BY <2>1, <2>2, MessageTypes
<1>3. ASSUME NEW i \in Instances, NEW c \in Clients, HandleSubscribe(i, c)
      PROVE  CallersThere' /\ GoneIsAnnounced'
  <2>1. TakeMessage(i, Subscribe(c)) /\ peers' = peers
    BY <1>3 DEF HandleSubscribe
  <2>2. \A x : \A j \in Instances :
          /\ Has(queue'[j], x) => Has(queue[j], x)
          /\ Has(queue[j], x) /\ x # Subscribe(c) => Has(queue'[j], x)
    BY <1>0, <2>1, TakenMessage
  <2>3. c \in peers
    BY <1>0, <2>1, TakenMessage
  <2>4. \A j \in Instances : m_clients'[j] \subseteq m_clients[j] \union {c}
    BY <1>0, <1>3 DEF HandleSubscribe, TypeOK
  <2> QED
    BY <2>1, <2>2, <2>3, <2>4, MessageTypes
<1>4. ASSUME NEW i \in Instances, NEW c \in Clients, HandleUnregistered(i, c)
      PROVE  CallersThere' /\ GoneIsAnnounced'
  <2>1. TakeMessage(i, Unregistered(c)) /\ peers' = peers
    BY <1>4 DEF HandleUnregistered
  <2>2. \A x : \A j \in Instances :
          /\ Has(queue'[j], x) => Has(queue[j], x)
          /\ Has(queue[j], x) /\ (j # i \/ x # Unregistered(c)) => Has(queue'[j], x)
    BY <1>0, <2>1, TakenMessage
  <2>3. \A j \in Instances :
          m_clients'[j] = IF j = i THEN m_clients[j] \ {c} ELSE m_clients[j]
    BY <1>0, <1>4 DEF HandleUnregistered, TypeOK
  <2> QED
    BY <2>1, <2>2, <2>3, MessageTypes
<1>5. ASSUME NEW i \in Instances, HandleNameLost(i)
      PROVE  CallersThere' /\ GoneIsAnnounced'
  <2>1. TakeMessage(i, NameLost) /\ peers' = peers /\ m_clients' = m_clients
    BY <1>5 DEF HandleNameLost
  <2>2. \A x : \A j \in Instances :
          /\ Has(queue'[j], x) => Has(queue[j], x)
          /\ Has(queue[j], x) /\ x # NameLost => Has(queue'[j], x)
    BY <1>0, <2>1, TakenMessage
  <2> QED
    BY <2>1, <2>2, MessageTypes
<1>6. ASSUME NEW i \in Instances, Exit(i)
      PROVE  CallersThere' /\ GoneIsAnnounced'
  <2>1. /\ queue'[i] = <<>> /\ m_clients'[i] = {} /\ peers' = peers
        /\ \A j \in Instances \ {i} :
              queue'[j] = queue[j] /\ m_clients'[j] = m_clients[j]
    BY <1>0, <1>6 DEF Exit, TypeOK
  <2> QED
    BY <2>1, HasNone
<1>7. ASSUME NEW i \in Instances, NEW c \in Clients, Match(i, c)
      PROVE  CallersThere' /\ GoneIsAnnounced'
  BY <1>7 DEF Match
<1>8. ASSUME NEW c \in Clients, Call(c)
      PROVE  CallersThere' /\ GoneIsAnnounced'
  <2>1. c \in peers /\ peers' = peers /\ m_clients' = m_clients /\ owner \in Instances
    BY <1>0, <1>8 DEF Call, TypeOK
  <2>2. ASSUME NEW j \in Instances, NEW x
        PROVE  /\ Has(queue[j], x) => Has(queue'[j], x)
               /\ Has(queue'[j], x) => Has(queue[j], x) \/ x = Subscribe(c)
    <3>1. CASE j = owner
      <4>1. queue[j] \in Seq(Message) /\ queue'[j] = Append(queue[j], Subscribe(c))
        BY <1>0, <1>8, <3>1 DEF Call, TypeOK
      <4> QED
        BY <4>1, HasAppend, MessageTypes
    <3>2. CASE j # owner
      BY <1>0, <1>8, <3>2 DEF Call, TypeOK
    <3> QED
      BY <3>1, <3>2
  <2>3. \A d \in Clients : Subscribe(d) = Subscribe(c) => d = c
    <3>1. \A d \in Clients : Subscribe(d).client = d
      BY DEF Subscribe
    <3> QED
      BY <3>1
  <2> QED
    BY <2>1, <2>2, <2>3
<1>9. ASSUME NEW c \in Clients, Leave(c)
      PROVE  CallersThere' /\ GoneIsAnnounced'
  <2>1. /\ peers' = peers \ {c} /\ m_clients' = m_clients
        /\ \A j \in Instances : Settled(j, c)
    BY <1>9 DEF Leave
  <2>2. ASSUME NEW j \in Instances
        PROVE  /\ c \in matched[j] => Has(queue'[j], Unregistered(c))
               /\ \A x : /\ Has(queue[j], x) => Has(queue'[j], x)
                         /\ Has(queue'[j], x) => Has(queue[j], x) \/ x = Unregistered(c)
    <3>1. /\ queue[j] \in Seq(Message)
          /\ queue'[j] = IF c \in matched[j] THEN Append(queue[j], Unregistered(c))
                         ELSE queue[j]
      BY <1>0, <1>9 DEF Leave, TypeOK
    <3>2. \A x : Has(Append(queue[j], Unregistered(c)), x)
                    <=> Has(queue[j], x) \/ x = Unregistered(c)
      BY <3>1, HasAppend, MessageTypes
    <3> QED
      BY <3>1, <3>2
  <2>3. \A j \in Instances : ~Has(queue[j], Subscribe(c))
    BY <2>1 DEF Settled, Has
  <2>4. \A j \in Instances : c \in m_clients[j] => c \in matched[j]
    BY <2>1 DEF Settled
  <2> QED
    BY <2>1, <2>2, <2>3, <2>4, MessageTypes
<1>10. CASE UNCHANGED vars
  BY <1>10 DEF vars
<1> QED
  BY <1>1, <1>2, <1>3, <1>4, <1>5, <1>6, <1>7, <1>8, <1>9, <1>10 DEF Next, Handle

(* What keeps a daemon from staying for ever: if clients leave only when   *)
(* the bus knows of them, an instance that has clients that are all gone   *)
(* has the notices in its queue that empty m_clients and end it.           *)
THEOREM GoneAlwaysAnnounced ==
  ASSUME ~LeaveEarly
  PROVE  Spec => []GoneIsAnnounced
<1>1. Init => CallersThere /\ GoneIsAnnounced
  BY HasNone DEF Init, CallersThere, GoneIsAnnounced
<1>2. IInv /\ CallersThere /\ GoneIsAnnounced /\ [Next]_vars
        => (CallersThere /\ GoneIsAnnounced)'
  BY AnnouncedNext
<1> QED
  BY <1>1, <1>2, Invariance, PTL DEF Spec
=============================================================================
