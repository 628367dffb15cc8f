------------------------- MODULE SubscriptionService -------------------------
(***************************************************************************)
(* What ksystemstats promises its clients, without connections, sensor     *)
(* objects or lists: a client that subscribes to a published path is owed  *)
(* every later change of it, coalesced per path to the newest, and is paid *)
(* at the next frame. What is owed when it unsubscribes is still paid.     *)
(***************************************************************************)
CONSTANTS
  Clients,   \* the peers
  Paths,     \* the sensor paths
  Values,    \* valid values
  Invalid,   \* no value yet: never delivered
  Unknown    \* the client was told nothing, or is owed nothing

VARIABLES
  published, \* the paths that name a sensor
  value,     \* the value of every path, Invalid if unpublished
  subs,      \* the paths each client is subscribed to
  due,       \* the newest undelivered value of each path per client
  view       \* what each client was last told

vars == <<published, value, subs, due, view>>

Init ==
  /\ published = {}
  /\ value = [p \in Paths |-> Invalid]
  /\ subs = [c \in Clients |-> {}]
  /\ due = [c \in Clients |-> [p \in Paths |-> Unknown]]
  /\ view = [c \in Clients |-> [p \in Paths |-> Unknown]]

(* A provider registers an object: its paths appear with some value.       *)
Publish(P, f) ==
  /\ P \intersect published = {}
  /\ published' = published \union P
  /\ value' = [p \in Paths |-> IF p \in P THEN f[p] ELSE value[p]]
  /\ UNCHANGED <<subs, due, view>>

(* A client subscribes: unpublished paths are ignored, and whatever it     *)
(* knew of the others may be outdated.                                     *)
Subscribe(c, P) ==
  /\ subs' = [subs EXCEPT ![c] = @ \union (P \intersect published)]
  /\ view' = [view EXCEPT ![c] =
       [p \in Paths |-> IF p \in P \intersect published THEN Unknown ELSE @[p]]]
  /\ UNCHANGED <<published, value, due>>

Unsubscribe(c, P) ==
  /\ subs' = [subs EXCEPT ![c] = @ \ P]
  /\ UNCHANGED <<published, value, due, view>>

(* A client asks for the current values.                                   *)
Ask(c, P) ==
  /\ view' = [view EXCEPT ![c] = [p \in Paths |->
       IF p \in P /\ value[p] # Invalid THEN value[p] ELSE @[p]]]
  /\ UNCHANGED <<published, value, subs, due>>

(* What a client is owed after the paths in DOMAIN f changed.              *)
Owed(c, f) == [p \in Paths |->
  IF p \in DOMAIN f /\ p \in subs[c] /\ f[p] # Invalid THEN f[p] ELSE due[c][p]]

Changed(f) == [p \in Paths |-> IF p \in DOMAIN f THEN f[p] ELSE value[p]]

(* Published paths change between two frames.                              *)
Change(f) ==
  /\ DOMAIN f \subseteq published
  /\ value' = Changed(f)
  /\ due' = [c \in Clients |-> Owed(c, f)]
  /\ UNCHANGED <<published, subs, view>>

(* A frame: published paths change, then every client is paid.             *)
Frame(f) ==
  /\ DOMAIN f \subseteq published
  /\ value' = Changed(f)
  /\ view' = [c \in Clients |-> [p \in Paths |->
       IF Owed(c, f)[p] # Unknown THEN Owed(c, f)[p] ELSE view[c][p]]]
  /\ due' = [c \in Clients |-> [p \in Paths |-> Unknown]]
  /\ UNCHANGED <<published, subs>>

(* Clients end: they are owed nothing and subscribe to nothing.            *)
Leave(C) ==
  /\ subs' = [c \in Clients |-> IF c \in C THEN {} ELSE subs[c]]
  /\ due' = [c \in Clients |->
       IF c \in C THEN [p \in Paths |-> Unknown] ELSE due[c]]
  /\ UNCHANGED <<published, value, view>>

Changes == UNION {[P -> Values \union {Invalid}] : P \in SUBSET Paths}

Next ==
  \/ \E f \in Changes : Publish(DOMAIN f, f)
  \/ \E c \in Clients, P \in SUBSET Paths :
       Subscribe(c, P) \/ Unsubscribe(c, P) \/ Ask(c, P)
  \/ \E f \in Changes : Change(f) \/ Frame(f)
  \/ \E C \in SUBSET Clients : Leave(C)

Spec == Init /\ [][Next]_vars
=============================================================================
