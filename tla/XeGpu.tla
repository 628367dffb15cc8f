------------------------------- MODULE XeGpu -------------------------------
(***************************************************************************)
(* An Intel card with the xe driver (plugins/gpu/LinuxXeGpu.cpp).  Three   *)
(* of its sensors come from a helper process; whenever one of them becomes *)
(* subscribed or stops being so, updateHelperState() looks at all of them  *)
(* and at the state of the process.  Unlike for the i915 driver it waits,  *)
(* for up to three seconds, until the helper it told to terminate is gone. *)
(***************************************************************************)
EXTENDS Naturals

CONSTANT XeSensors      \* the sensors the helper provides

VARIABLES
    xeSubscribed,       \* those of them that are subscribed
    xeHelper,           \* m_helperProcess; "terminating" after terminate()
    xeLost              \* why a subscribed card may lack a running helper

xeVars == <<xeSubscribed, xeHelper, xeLost>>

XeInit ==
    /\ xeSubscribed = {}
    /\ xeHelper = "stopped"
    /\ xeLost = "no"

Starts(now) == now # {} /\ xeHelper = "stopped"

\* Mutant: the helper is stopped with the first sensor that is left.
StopsWithAny(now) == xeHelper # "stopped" /\ ~(xeSubscribed \subseteq now)

Stops(now) == now = {} /\ xeHelper # "stopped"

\* updateHelperState() with the sensors in now subscribed.  The wait may end
\* without the helper having ended.
UpdateHelperState(now) ==
    /\ xeSubscribed' = now
    /\ CASE Starts(now) -> xeHelper' = "running" /\ xeLost' = "no"
         [] Stops(now)  -> /\ xeHelper' \in {"stopped", "terminating"}
                           /\ xeLost' = "no"
         [] OTHER       -> /\ xeHelper' = xeHelper
                           /\ xeLost' = IF xeHelper = "terminating"
                                        THEN "raced" ELSE xeLost

XeSubscribe(s) == s \notin xeSubscribed /\ UpdateHelperState(xeSubscribed \cup {s})

XeUnsubscribe(s) == s \in xeSubscribed /\ UpdateHelperState(xeSubscribed \ {s})

\* A helper that outlived the wait ends after all.
XeEnd ==
    /\ xeHelper = "terminating"
    /\ xeHelper' = "stopped"
    /\ UNCHANGED <<xeSubscribed, xeLost>>

\* The helper ends by itself, as when it cannot open its counters.
XeDie ==
    /\ xeHelper = "running"
    /\ xeHelper' = "stopped"
    /\ xeLost' = "died"
    /\ UNCHANGED xeSubscribed

XeNext ==
    \/ \E s \in XeSensors : XeSubscribe(s) \/ XeUnsubscribe(s)
    \/ XeEnd
    \/ XeDie

XeFairness == WF_xeVars(XeEnd)

XeSpec == XeInit /\ [][XeNext]_xeVars

-----------------------------------------------------------------------------
\* Type invariant.
XeTypeOK ==
    /\ xeSubscribed \in SUBSET XeSensors
    /\ xeHelper \in {"stopped", "running", "terminating"}
    /\ xeLost \in {"no", "raced", "died"}

\* The helper runs for subscribed sensors only, and a card with subscribed
\* sensors lacks it for two reasons only: it ended by itself, or the wait for
\* the last one to end was over before it was gone.
XeHelperWanted ==
    /\ xeHelper = "running" => xeSubscribed # {}
    /\ xeSubscribed # {} /\ xeHelper # "running" => xeLost \in {"raced", "died"}

\* Without subscriptions the helper does not stay, however slow its end.
XeIdleEnds == (xeSubscribed = {}) ~> (xeHelper = "stopped" \/ xeSubscribed # {})
=============================================================================
