------------------------------- MODULE Sysctl -------------------------------
(***************************************************************************)
(* The sysctl backend of FreeBSD (plugins/network/SysctlBackend.cpp): all  *)
(* interfaces are registered when the plugin starts, and each one samples  *)
(* its counters with a timer of its own while one of its statistics is     *)
(* subscribed.  Totals are modelled as zero or not; addresses are left out.*)
(***************************************************************************)
EXTENDS FiniteSets

CONSTANTS
    Interfaces, \* interfaces of type ether or wifi
    SysStats    \* the statistics sensors of a device

VARIABLES
    sysDevices,  \* m_devices, empty until start()
    sysMoved,    \* the kernel: the interfaces whose counters are not zero
    sysWanted,   \* the subscribed sensors
    sysTimer,    \* the devices whose m_statisticsTimer is active
    sysTotal,    \* the devices whose total is not zero
    sysMissed,   \* history: the devices with time that no tick measured since
    sysFailed    \* history: those of which a tick failed since the last that did not

sysVars == <<sysDevices, sysMoved, sysWanted, sysTimer, sysTotal, sysMissed, sysFailed>>

SysTypeOK ==
    /\ sysDevices \subseteq Interfaces
    /\ sysMoved \subseteq sysDevices
    /\ sysWanted \subseteq sysDevices \X SysStats
    /\ sysTimer \subseteq sysDevices
    /\ sysTotal \subseteq sysDevices
    /\ sysMissed \subseteq sysDevices
    /\ sysFailed \subseteq sysDevices

SysInit ==
    /\ sysDevices = {}
    /\ sysMoved = {}
    /\ sysWanted = {}
    /\ sysTimer = {}
    /\ sysTotal = {}
    /\ sysMissed = {}
    /\ sysFailed = {}

SysSubscribed(i) == \E s \in SysStats : <<i, s>> \in sysWanted

\* An interface the kernel does not answer for is left out.
SysStart ==
    /\ sysDevices = {}
    /\ sysDevices' \in SUBSET Interfaces
    /\ UNCHANGED <<sysMoved, sysWanted, sysTimer, sysTotal, sysMissed, sysFailed>>

\* resetStatistics(), after two slips: with the last sensor the total is zeroed
\* and the timer stops.
StopsAtOnce(i) == sysTimer' = sysTimer \ {i} /\ sysTotal' = sysTotal \ {i}
StopsOnly(i) ==
    /\ sysTimer' = IF SysSubscribed(i)' THEN sysTimer ELSE sysTimer \ {i}
    /\ UNCHANGED sysTotal
Stops(i) ==
    IF SysSubscribed(i)'
    THEN sysTimer' = sysTimer \union {i} /\ UNCHANGED sysTotal
    ELSE sysTimer' = sysTimer \ {i} /\ sysTotal' = sysTotal \ {i}

SysSubscribe(i, s) ==
    /\ <<i, s>> \notin sysWanted
    /\ sysWanted' = sysWanted \union {<<i, s>>}
    /\ sysTimer' = sysTimer \union {i}
    /\ UNCHANGED <<sysDevices, sysMoved, sysTotal, sysMissed, sysFailed>>

SysUnsubscribe(i, s) ==
    /\ <<i, s>> \in sysWanted
    /\ sysWanted' = sysWanted \ {<<i, s>>}
    /\ Stops(i)
    /\ UNCHANGED <<sysDevices, sysMoved, sysMissed, sysFailed>>

\* The timer ticks.
SysTick(i) ==
    /\ i \in sysTimer
    /\ sysTotal' = IF i \in sysMoved THEN sysTotal \union {i} ELSE sysTotal \ {i}
    /\ sysMissed' = sysMissed \ {i}
    /\ sysFailed' = sysFailed \ {i}
    /\ UNCHANGED <<sysDevices, sysMoved, sysWanted, sysTimer>>

\* If sysctl() fails nothing changes, and the next rate covers two intervals.
SysTickFails(i) ==
    /\ i \in sysTimer
    /\ sysMissed' = sysMissed \union {i}
    /\ sysFailed' = sysFailed \union {i}
    /\ UNCHANGED <<sysDevices, sysMoved, sysWanted, sysTimer, sysTotal>>

\* Time passes for the devices whose timer does not run.
SysTime ==
    /\ sysMissed' = sysMissed \union (sysDevices \ sysTimer)
    /\ UNCHANGED <<sysDevices, sysMoved, sysWanted, sysTimer, sysTotal, sysFailed>>

SysTraffic(i) ==
    /\ sysMoved' = sysMoved \union {i}
    /\ UNCHANGED <<sysDevices, sysWanted, sysTimer, sysTotal, sysMissed, sysFailed>>

SysNext ==
    \/ SysStart
    \/ \E i \in sysDevices : SysTick(i) \/ SysTickFails(i) \/ SysTraffic(i)
    \/ \E i \in sysDevices, s \in SysStats : SysSubscribe(i, s) \/ SysUnsubscribe(i, s)
    \/ SysTime

SysSpec == SysInit /\ [][SysNext]_sysVars

\* A device ticks exactly while one of its statistics is subscribed, in whatever
\* order its sensors are subscribed to and left.
SysTicksIffWanted == \A i \in sysDevices : i \in sysTimer <=> SysSubscribed(i)

\* The next rate is the growth over one interval: a total that is not zero was read
\* by the last tick (SysctlBackend.cpp divides by UpdateRate whatever the time), but
\* for ticks in a row that failed.
SysNoRateAcrossGap == sysTotal \intersect sysMissed \subseteq sysFailed

\* Both: every rate has the interval it is divided by.
SysSampling == SysTicksIffWanted /\ SysNoRateAcrossGap
=============================================================================
