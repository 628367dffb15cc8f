------------------------------- MODULE Viewer -------------------------------
(***************************************************************************)
(* kstatsviewer (tools/kstatsviewer/main.cpp): it subscribes to the paths  *)
(* named on its command line, asks the daemon one question after the other *)
(* while newSensorData signals queue up, and leaves as soon as every path  *)
(* has reported, unless it is to remain.  The daemon is modelled by what   *)
(* it answers (src/daemon.cpp): a frame sends the subscribed sensors that  *)
(* changed.                                                                *)
(***************************************************************************)
EXTENDS FiniteSets

CONSTANTS
    Sensors,    \* paths of sensors that may be there
    Objects,    \* paths of containers and objects, which have no value
    Typos       \* paths that lead nowhere

VARIABLES
    step,       \* where subscribe() is: "start", then the call it waits for,
                \* "data", "names" or "details", then "loop" and "exited"
    named,      \* the command line's paths
    remain,     \* --remain
    details,    \* --details
    unreported, \* m_unreportedSensors
    quitPosted, \* a single shot timer is going to quit
    printed,    \* the paths a value was printed for
    complained, \* the paths said not to exist
    present,    \* the daemon: the sensors there are
    valid,      \* the daemon: those that have a value
    booked4us,  \* the daemon: those the viewer is subscribed to
    dirty,      \* the daemon: those that changed since the last frame
    inbox       \* sensors in signals the viewer did not get to yet

viewerVars == <<step, named, remain, details, unreported, quitPosted, printed,
                complained, present, valid, booked4us, dirty, inbox>>
commandLine == <<named, remain, details>>
daemonVars == <<present, valid, booked4us, dirty>>

ViewerTypeOK ==
    /\ step \in {"start", "subscribe", "data", "names", "details", "loop", "exited"}
    /\ named \subseteq Sensors \union Objects \union Typos
    /\ remain \in BOOLEAN
    /\ details \in BOOLEAN
    /\ unreported \subseteq named
    /\ quitPosted \in BOOLEAN
    /\ printed \subseteq named \intersect Sensors
    /\ complained \subseteq named
    /\ present \subseteq Sensors
    /\ valid \subseteq present
    /\ booked4us \subseteq present
    /\ dirty \subseteq booked4us
    /\ inbox \subseteq named \intersect Sensors

ViewerInit ==
    /\ step = "start"
    /\ named = {}
    /\ remain = FALSE
    /\ details = FALSE
    /\ unreported = {}
    /\ quitPosted = FALSE
    /\ printed = {}
    /\ complained = {}
    /\ present = {}
    /\ valid = {}
    /\ booked4us = {}
    /\ dirty = {}
    /\ inbox = {}

-----------------------------------------------------------------------------
(* The viewer                                                              *)

ViewerStart ==
    /\ step = "start"
    /\ step' = "subscribe"
    /\ named' \in (SUBSET (Sensors \union Objects \union Typos)) \ {{}}
    /\ remain' \in BOOLEAN
    /\ details' \in BOOLEAN
    /\ present' \in SUBSET Sensors
    /\ valid' \in SUBSET present'
    /\ UNCHANGED <<unreported, quitPosted, printed, complained, booked4us, dirty, inbox>>

\* The daemon gets the subscription; paths that are no sensors are skipped.
Subscribed ==
    /\ step = "subscribe"
    /\ step' = "data"
    /\ unreported' = named
    /\ booked4us' = named \intersect present
    /\ UNCHANGED <<commandLine, quitPosted, printed, complained, present, valid,
                   dirty, inbox>>

\* The last check of subscribe(), done when it goes into the loop.
PostsOnData(next, left) == UNCHANGED quitPosted
Finishes(next, left) ==
    quitPosted' = (quitPosted \/ (next = "loop" /\ ~remain /\ left = {}))

Go(next, left) == step' = next /\ unreported' = left /\ Finishes(next, left)

AfterNames == IF details THEN "details" ELSE "loop"

\* onNewSensorData() with the values there are at first.
GotData ==
    /\ step = "data"
    /\ LET left == unreported \ (named \intersect valid) IN
       Go(IF ~remain /\ left # {} THEN "names" ELSE AfterNames, left)
    /\ printed' = printed \union (named \intersect valid)
    /\ UNCHANGED <<commandLine, complained, daemonVars, inbox>>

\* allSensors() lists containers and objects with the sensors.
Existing == present \union Objects

GotNames ==
    /\ step = "names"
    /\ Go(AfterNames, unreported \intersect Existing)
    /\ complained' = unreported \ Existing
    /\ UNCHANGED <<commandLine, printed, daemonVars, inbox>>

GotDetails ==
    /\ step = "details"
    /\ Go("loop", unreported)
    /\ UNCHANGED <<commandLine, printed, complained, daemonVars, inbox>>

\* onNewSensorData() from the event loop, with what the queued signals carry.
QuitsOnAny(left) == ~remain
QuitsOnLast(left) == ~remain /\ left = {}

NewSensorData ==
    /\ step = "loop"
    /\ inbox # {}
    /\ inbox' = {}
    /\ printed' = printed \union inbox
    /\ unreported' = unreported \ inbox
    /\ quitPosted' = (quitPosted \/ QuitsOnLast(unreported'))
    /\ UNCHANGED <<step, commandLine, complained, daemonVars>>

Quit ==
    /\ step = "loop"
    /\ quitPosted
    /\ step' = "exited"
    /\ UNCHANGED <<commandLine, unreported, quitPosted, printed, complained, daemonVars,
                   inbox>>

-----------------------------------------------------------------------------
(* The daemon                                                              *)

viewerSide == <<step, commandLine, unreported, quitPosted, printed, complained>>
Running == step \notin {"start", "exited"}

\* A sensor gets its first value, or another one.
ValueChanges(s) ==
    /\ Running
    /\ s \in present
    /\ valid' = valid \union {s}
    /\ dirty' = dirty \union ({s} \intersect booked4us)
    /\ UNCHANGED <<viewerSide, present, booked4us, inbox>>

SensorGoes(s) ==
    /\ Running
    /\ s \in present
    /\ present' = present \ {s}
    /\ valid' = valid \ {s}
    /\ booked4us' = booked4us \ {s}
    /\ dirty' = dirty \ {s}
    /\ UNCHANGED <<viewerSide, inbox>>

SensorComes(s) ==
    /\ Running
    /\ s \notin present
    /\ present' = present \union {s}
    /\ UNCHANGED <<viewerSide, valid, booked4us, dirty, inbox>>

SendFrame ==
    /\ Running
    /\ dirty # {}
    /\ dirty' = {}
    /\ inbox' = inbox \union dirty
    /\ UNCHANGED <<viewerSide, present, valid, booked4us>>

ViewerNext ==
    \/ ViewerStart \/ Subscribed
    \/ GotData \/ GotNames \/ GotDetails
    \/ NewSensorData \/ Quit
    \/ \E s \in Sensors : ValueChanges(s) \/ SensorGoes(s) \/ SensorComes(s)
    \/ SendFrame

\* The daemon answers and its frames go on, and the viewer's event loop runs.
ViewerFairness ==
    /\ WF_viewerVars(Subscribed \/ GotData \/ GotNames \/ GotDetails)
    /\ WF_viewerVars(NewSensorData)
    /\ WF_viewerVars(Quit)
    /\ WF_viewerVars(SendFrame)

ViewerSpec == ViewerInit /\ [][ViewerNext]_viewerVars /\ ViewerFairness

-----------------------------------------------------------------------------
(* Properties                                                              *)

\* It leaves only when it was not to remain and every path has printed a value or
\* a complaint, whatever signals queue up during the questions.
LeavesComplete ==
    step = "exited" \/ quitPosted => ~remain /\ named \subseteq printed \union complained

\* The sensors it waits for have a value and were there when it subscribed, and
\* ever since (nobody listens to sensorRemoved).
Reportable == unreported \intersect Sensors \subseteq booked4us \intersect valid

OneShot == step # "start" /\ ~remain

\* If the paths are sensors or nothing at all, a viewer that was not to remain
\* ends, once and for all there is nothing to wait for but reportable sensors.
SensorsEnd ==
    <>[](OneShot /\ named \intersect Objects = {} /\ Reportable) => <>(step = "exited")
=============================================================================
