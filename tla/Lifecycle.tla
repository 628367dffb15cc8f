------------------------------ MODULE Lifecycle ------------------------------
(***************************************************************************)
(* Who runs and for how long: several instances of the ksystemstats        *)
(* process competing for the D-Bus service name (Daemon::init and          *)
(* Daemon::registerDBusService), and the way an instance learns that its   *)
(* clients are gone (QDBusServiceWatcher, Daemon::onServiceDisconnected).  *)
(*                                                                         *)
(* The bus is modelled as it is used: it gives a name to one connection,   *)
(* routes a call to the owner at the time it is sent, keeps each           *)
(* connection's messages in order, and reports a vanished client to those  *)
(* who asked it to (AddMatch), a request that is itself a message.         *)
(* What an instance does with sensors is in module Daemon.                 *)
(***************************************************************************)
EXTENDS Naturals, Sequences, FiniteSets

CONSTANTS
  Instances,   \* processes running the daemon's binary
  Clients,     \* unique bus names of its clients
  Nobody,      \* the service name has no owner
  Remain,      \* started with --remain: stay when the last client is gone
  Staggered,   \* no two instances start at the same time
  LeaveEarly,  \* a client may vanish before the bus was asked to report it
  MaxCalls     \* bound on the subscribe() calls of a client

ASSUME LifecycleAssumption ==
  /\ Nobody \notin Instances
  /\ Remain \in BOOLEAN /\ Staggered \in BOOLEAN /\ LeaveEarly \in BOOLEAN
  /\ MaxCalls \in Nat

VARIABLES
  owner,     \* the instance that owns the service name
  phase,     \* where main() and Daemon::init are, per instance
  replace,   \* the instances started with --replace
  queue,     \* the messages the bus has sent to each instance
  m_clients, \* the keys of Daemon::m_clients
  watched,   \* QDBusServiceWatcher: names it asked the bus to report
  matched,   \* those the bus has been asked about by now
  peers,     \* the clients connected to the bus
  calls      \* how often each client has called subscribe()

vars == <<owner, phase, replace, queue, m_clients, watched, matched, peers, calls>>

Subscribe(c) == [type |-> "subscribe", client |-> c]
Unregistered(c) == [type |-> "serviceUnregistered", client |-> c]
NameLost == [type |-> "nameLost"]
Message == {Subscribe(c) : c \in Clients} \union
           {Unregistered(c) : c \in Clients} \union {NameLost}

Running == {"serving", "quitting"}

TypeOK ==
  /\ owner \in Instances \union {Nobody}
  /\ phase \in [Instances ->
       {"new", "probing", "registering", "serving", "quitting", "exited"}]
  /\ replace \subseteq Instances
  /\ queue \in [Instances -> Seq(Message)]
  /\ m_clients \in [Instances -> SUBSET Clients]
  /\ watched \in [Instances -> SUBSET Clients]
  /\ matched \in [Instances -> SUBSET Clients]
  /\ peers \subseteq Clients
  /\ calls \in [Clients -> 0 .. MaxCalls]
  /\ \A i \in Instances : m_clients[i] \union matched[i] \subseteq watched[i]

Init ==
  /\ owner = Nobody
  /\ phase = [i \in Instances |-> "new"]
  /\ replace \in SUBSET Instances
  /\ queue = [i \in Instances |-> <<>>]
  /\ m_clients = [i \in Instances |-> {}]
  /\ watched = [i \in Instances |-> {}]
  /\ matched = [i \in Instances |-> {}]
  /\ peers = Clients
  /\ calls = [c \in Clients |-> 0]

Enter(i, p) == phase' = [phase EXCEPT ![i] = p]

-----------------------------------------------------------------------------
(* main() and Daemon::init.                                                *)

Start(i) ==
  /\ phase[i] = "new"
  /\ Staggered => \A j \in Instances : phase[j] \notin {"probing", "registering"}
  /\ Enter(i, "probing")
  /\ UNCHANGED <<owner, replace, queue, m_clients, watched, matched, peers, calls>>

(* registerDBusService, first round trip: isServiceRegistered. An instance *)
(* that may not replace gives up if there is an owner.                     *)
ProbeIgnored(i) ==
  /\ phase[i] = "probing"
  /\ Enter(i, "registering")
  /\ UNCHANGED <<owner, replace, queue, m_clients, watched, matched, peers, calls>>
Probe(i) ==
  /\ phase[i] = "probing"
  /\ Enter(i, IF owner # Nobody /\ i \notin replace THEN "exited" ELSE "registering")
  /\ UNCHANGED <<owner, replace, queue, m_clients, watched, matched, peers, calls>>

(* Second round trip: registerService, always with ReplaceExistingService  *)
(* and AllowReplacement. The bus tells the displaced owner. What comes on  *)
(* serviceUnregistered is NameLost, of the connection that loses the name: *)
(* the change of the owner itself is told to nobody who takes it over.     *)
RegisterSilently(i) ==
  /\ phase[i] = "registering"
  /\ owner' = i
  /\ Enter(i, "serving")
  /\ UNCHANGED <<replace, queue, m_clients, watched, matched, peers, calls>>
RegisterTellsItself(i) ==
  /\ phase[i] = "registering"
  /\ owner' = i
  /\ queue' = [j \in Instances |->
       IF j \in {i, owner} THEN Append(queue[j], NameLost) ELSE queue[j]]
  /\ Enter(i, "serving")
  /\ UNCHANGED <<replace, m_clients, watched, matched, peers, calls>>
Register(i) ==
  /\ phase[i] = "registering"
  /\ owner' = i
  /\ queue' = IF owner = Nobody THEN queue
              ELSE [queue EXCEPT ![owner] = Append(@, NameLost)]
  /\ Enter(i, "serving")
  /\ UNCHANGED <<replace, m_clients, watched, matched, peers, calls>>

(* The bus refuses the name, or the call fails: init() is false and main() *)
(* returns.                                                                *)
RegisterRefused(i) ==
  /\ phase[i] = "registering"
  /\ Enter(i, "exited")
  /\ UNCHANGED <<owner, replace, queue, m_clients, watched, matched, peers, calls>>

-----------------------------------------------------------------------------
(* The event loop takes the next message. A loop that was told to quit may *)
(* still handle what it has already read.                                  *)

TakeMessage(i, m) ==
  /\ phase[i] \in Running
  /\ queue[i] # <<>>
  /\ m = Head(queue[i])
  /\ queue' = [queue EXCEPT ![i] = Tail(@)]

(* Daemon::subscribe: watch the sender, make it a client.                  *)
HandleSubscribe(i, c) ==
  /\ TakeMessage(i, Subscribe(c))
  /\ watched' = [watched EXCEPT ![i] = @ \union {c}]
  /\ m_clients' = [m_clients EXCEPT ![i] = @ \union {c}]
  /\ UNCHANGED <<owner, phase, replace, matched, peers, calls>>

(* Daemon::onServiceDisconnected.                                          *)
QuitOnAnyClient(i, c) ==
  /\ TakeMessage(i, Unregistered(c))
  /\ m_clients' = [m_clients EXCEPT ![i] = @ \ {c}]
  /\ phase' = IF ~ Remain THEN [phase EXCEPT ![i] = "quitting"] ELSE phase
  /\ UNCHANGED <<owner, replace, watched, matched, peers, calls>>
QuitBeforeErasing(i, c) ==
  /\ TakeMessage(i, Unregistered(c))
  /\ m_clients' = [m_clients EXCEPT ![i] = @ \ {c}]
  /\ phase' = IF m_clients[i] = {} /\ ~ Remain
              THEN [phase EXCEPT ![i] = "quitting"] ELSE phase
  /\ UNCHANGED <<owner, replace, watched, matched, peers, calls>>
HandleUnregistered(i, c) ==
  /\ TakeMessage(i, Unregistered(c))
  /\ m_clients' = [m_clients EXCEPT ![i] = @ \ {c}]
  /\ phase' = IF m_clients'[i] = {} /\ ~ Remain
              THEN [phase EXCEPT ![i] = "quitting"] ELSE phase
  /\ UNCHANGED <<owner, replace, watched, matched, peers, calls>>

(* registerDBusService's lambda on serviceUnregistered(ServiceName).       *)
IgnoreNameLost(i) ==
  /\ TakeMessage(i, NameLost)
  /\ UNCHANGED <<owner, phase, replace, m_clients, watched, matched, peers, calls>>
HandleNameLost(i) ==
  /\ TakeMessage(i, NameLost)
  /\ Enter(i, "quitting")
  /\ UNCHANGED <<owner, replace, m_clients, watched, matched, peers, calls>>

Handle(i) ==
  \/ \E c \in Clients : HandleSubscribe(i, c)
  \/ \E c \in Clients : HandleUnregistered(i, c)
  \/ HandleNameLost(i)

(* app.exec() returns: the process and its bus connection end, which frees *)
(* the name if it still has it. What was queued is lost.                   *)
Exit(i) ==
  /\ phase[i] = "quitting"
  /\ Enter(i, "exited")
  /\ owner' = IF owner = i THEN Nobody ELSE owner
  /\ queue' = [queue EXCEPT ![i] = <<>>]
  /\ m_clients' = [m_clients EXCEPT ![i] = {}]
  /\ watched' = [watched EXCEPT ![i] = {}]
  /\ matched' = [matched EXCEPT ![i] = {}]
  /\ UNCHANGED <<replace, peers, calls>>

-----------------------------------------------------------------------------
(* The bus and the clients.                                                *)

(* The bus reads the instance's AddMatch for a watched client.             *)
Match(i, c) ==
  /\ phase[i] \in Running
  /\ c \in watched[i] \ matched[i]
  /\ matched' = [matched EXCEPT ![i] = @ \union {c}]
  /\ UNCHANGED <<owner, phase, replace, queue, m_clients, watched, peers, calls>>

(* A client calls subscribe() on the service name.                         *)
Call(c) ==
  /\ c \in peers
  /\ owner # Nobody
  /\ calls[c] < MaxCalls
  /\ calls' = [calls EXCEPT ![c] = @ + 1]
  /\ queue' = [queue EXCEPT ![owner] = Append(@, Subscribe(c))]
  /\ UNCHANGED <<owner, phase, replace, m_clients, watched, matched, peers>>

(* The bus knows of c's use of instance i: no call under way, and matched. *)
Settled(i, c) ==
  /\ \A k \in DOMAIN queue[i] : queue[i][k] # Subscribe(c)
  /\ c \in m_clients[i] => c \in matched[i]

(* A client's connection ends; those who asked are told.                   *)
Leave(c) ==
  /\ c \in peers
  /\ LeaveEarly \/ \A i \in Instances : Settled(i, c)
  /\ peers' = peers \ {c}
  /\ queue' = [i \in Instances |->
       IF c \in matched[i] THEN Append(queue[i], Unregistered(c)) ELSE queue[i]]
  /\ UNCHANGED <<owner, phase, replace, m_clients, watched, matched, calls>>

Next ==
  \/ \E i \in Instances : \/ Start(i) \/ Probe(i) \/ Register(i)
                          \/ RegisterRefused(i) \/ Handle(i) \/ Exit(i)
  \/ \E i \in Instances, c \in Clients : Match(i, c)
  \/ \E c \in Clients : Call(c) \/ Leave(c)

Spec == Init /\ [][Next]_vars

(* A process that was started runs, its loop takes queued messages, a loop *)
(* told to quit returns, and the bus reads what it is sent. Nothing makes  *)
(* a client call or leave.                                                 *)
Fairness ==
  /\ \A i \in Instances :
       /\ WF_vars(Probe(i)) /\ WF_vars(Register(i) \/ RegisterRefused(i))
       /\ WF_vars(Handle(i)) /\ WF_vars(Exit(i))
  /\ \A i \in Instances, c \in Clients : WF_vars(Match(i, c))

FairSpec == Spec /\ Fairness

-----------------------------------------------------------------------------
(* Properties.                                                             *)

(* An instance that serves without owning the name has the notice that     *)
(* makes it quit in its queue, so that two daemons never both go on        *)
(* sampling the machine (registerDBusService connects before it registers).*)
DisplacedIsTold ==
  \A i \in Instances : phase[i] = "serving" /\ owner # i =>
    \E k \in DOMAIN queue[i] : queue[i][k] = NameLost

(* A daemon that is ended by the loss of its name has handled every call   *)
(* that was routed to it while it had the name: no caller is left without  *)
(* an answer (the lambda on serviceUnregistered, whose signal comes in the *)
(* order of the bus after the last of those calls).                        *)
ReplacedHandlesAllCalls ==
  [][\A i \in Instances :
       phase[i] = "serving" /\ phase'[i] = "quitting" /\ Head(queue[i]) = NameLost
         => \A c \in Clients, k \in DOMAIN queue'[i] : queue'[i][k] # Subscribe(c)]_vars

(* main.cpp offers --replace to "Replace the running instance"             *)
(* (src/src/main.cpp:28), and daemon.h has ReplaceIfRunning::DoNotReplace: *)
(* without the option an instance never takes the name from another. It    *)
(* holds when instances start one after the other, and only then.          *)
ReplacesOnlyOnRequest ==
  [][\A i \in Instances :
       owner' = i /\ owner \notin {i, Nobody} => i \in replace]_owner

(* A displaced instance ends.                                              *)
DisplacedQuits ==
  \A i \in Instances :
    (phase[i] = "serving" /\ owner # i) ~> (phase[i] = "exited")

(* Without --remain ("Do not quit when last client has disconnected",      *)
(* src/src/main.cpp:29) a daemon whose clients have all disconnected ends. *)
QuitsAfterLastClient ==
  \A i \in Instances :
    (phase[i] = "serving" /\ m_clients[i] # {} /\ peers = {})
      ~> (phase[i] = "exited")

(* A daemon that still has the name quits only when none of the clients it *)
(* ever served is connected: no notice about another client, in whatever   *)
(* order, ends a daemon that is in use.                                    *)
QuitsOnlyWhenUnused ==
  [][\A i \in Instances :
       phase[i] = "serving" /\ phase'[i] = "quitting" /\ owner' = i
         => watched[i] \intersect peers = {}]_vars
=============================================================================
