------------------------------ MODULE IntelGpu ------------------------------
(***************************************************************************)
(* An Intel card with the i915 driver (plugins/gpu/LinuxIntelGpu.cpp) and  *)
(* its helper process (plugins/gpu/IntelHelper.cpp), which prints counters *)
(* once a second.  The helper is started when the card becomes subscribed  *)
(* and told to terminate when it is no longer; terminate() does not wait.  *)
(* The daemon keeps the last counters and shows the difference as a share  *)
(* of the time that went by.  A helper counts from zero, and all counters  *)
(* are unsigned, here modulo Wrap instead of 2^64.                         *)
(***************************************************************************)
EXTENDS Integers

CONSTANTS
    MaxTime,    \* bound: how long one helper counts
    Wrap        \* the number of values of a counter

ASSUME IntelAssumption ==
    MaxTime \in Nat \ {0} /\ Wrap \in Nat /\ Wrap > MaxTime

VARIABLES
    intelSubscribed,    \* some sensor of the card is subscribed
    intelHelper,        \* m_helperProcess; "terminating" after terminate()
    lost,               \* why a subscribed card may lack a running helper
    counted,            \* the helper's counters: [time, busy]
    last,               \* lastTimeStamp and m_lastUsages: [time, busy]
    carried,            \* last is from an earlier helper
    reading             \* what the sensor shows: [busy, time, carried]

intelVars == <<intelSubscribed, intelHelper, lost, counted, last, carried,
               reading>>
intelData == <<counted, last, carried, reading>>

Zero == [time |-> 0, busy |-> 0]

IntelInit ==
    /\ intelSubscribed = FALSE
    /\ intelHelper = "stopped"
    /\ lost = "no"
    /\ counted = Zero
    /\ last = Zero
    /\ carried = FALSE
    /\ reading = [busy |-> 0, time |-> 0, carried |-> FALSE]

\* subscribedChanged(true): start() does nothing while there is a process,
\* also one that was told to terminate.
IntelSubscribe ==
    /\ ~intelSubscribed
    /\ intelSubscribed' = TRUE
    /\ IF intelHelper = "stopped"
       THEN /\ intelHelper' = "running"
            /\ lost' = "no"
            /\ counted' = Zero
            /\ carried' = (last # Zero)
            /\ UNCHANGED <<last, reading>>
       ELSE /\ lost' = "raced"
            /\ UNCHANGED <<intelHelper, intelData>>

\* Mutant: the last unsubscription does not terminate the helper.
Spared(helper) == helper

\* terminate() does nothing without a process.
Terminated(helper) == IF helper = "running" THEN "terminating" ELSE helper

\* subscribedChanged(false).
IntelUnsubscribe ==
    /\ intelSubscribed
    /\ intelSubscribed' = FALSE
    /\ intelHelper' = Terminated(intelHelper)
    /\ lost' = "no"
    /\ UNCHANGED intelData

\* The helper ends on the signal.
IntelEnd ==
    /\ intelHelper = "terminating"
    /\ intelHelper' = "stopped"
    /\ UNCHANGED <<intelSubscribed, lost, intelData>>

\* The helper ends by itself, as when it cannot read its counters.
IntelDie ==
    /\ intelHelper = "running"
    /\ intelHelper' = "stopped"
    /\ lost' = "died"
    /\ UNCHANGED <<intelSubscribed, intelData>>

\* The difference of two unsigned counters.
Minus(a, b) == IF a >= b THEN a - b ELSE a + Wrap - b

\* Mutant: the usage is not kept for the next line.
KeepTime(now) == [time |-> now.time, busy |-> last.busy]

\* What readPerfData() keeps of a line.
Kept(now) == now

\* The helper prints its counters, which were busy for part of the time that
\* went by, and readPerfData() takes the difference to the line before.
IntelLine(time, busy) ==
    /\ intelHelper # "stopped"
    /\ counted.time + time <= MaxTime
    /\ LET now == [time |-> counted.time + time, busy |-> counted.busy + busy]
       IN  /\ counted' = now
           /\ last' = Kept(now)
           /\ reading' = [busy |-> Minus(now.busy, last.busy),
                          time |-> Minus(now.time, last.time),
                          carried |-> carried]
    /\ carried' = FALSE
    /\ UNCHANGED <<intelSubscribed, intelHelper, lost>>

IntelNext ==
    \/ IntelSubscribe
    \/ IntelUnsubscribe
    \/ IntelEnd
    \/ IntelDie
    \/ \E time \in 1 .. MaxTime : \E busy \in 0 .. time : IntelLine(time, busy)

\* A helper that was sent SIGTERM has no handler for it and ends.
IntelFairness == WF_intelVars(IntelEnd)

IntelSpec == IntelInit /\ [][IntelNext]_intelVars

-----------------------------------------------------------------------------
Counters == [time : 0 .. MaxTime, busy : 0 .. MaxTime]

\* Type invariant.
IntelTypeOK ==
    /\ intelSubscribed \in BOOLEAN
    /\ intelHelper \in {"stopped", "running", "terminating"}
    /\ lost \in {"no", "raced", "died"}
    /\ counted \in Counters
    /\ last \in Counters
    /\ carried \in BOOLEAN
    /\ reading \in [busy : 0 .. Wrap - 1, time : 0 .. Wrap - 1,
                    carried : BOOLEAN]

\* No helper is left counting for a card nobody watches, and a watched card
\* lacks one for two reasons only: the helper ended by itself, or the card
\* was subscribed while the last helper was still terminating.
IntelHelperWanted ==
    /\ intelHelper = "running" => intelSubscribed
    /\ intelSubscribed /\ intelHelper # "running" => lost \in {"raced", "died"}

\* The usage shown is at most the whole of the time it was taken over, except
\* in the first line of a restarted helper, whose difference is to counters of
\* the helper before.
UsageWithinTime ==
    reading.carried \/ reading.busy <= reading.time

\* A card nobody watches is rid of its helper, if nobody comes back.
IntelIdleEnds == ~intelSubscribed ~> (intelSubscribed \/ intelHelper = "stopped")
=============================================================================
