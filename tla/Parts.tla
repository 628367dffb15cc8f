-------------------------------- MODULE Parts --------------------------------
(***************************************************************************)
(* The plugins and the viewer, one at a time.  The daemon loads every      *)
(* plugin once (Daemon::loadProviders(), src/daemon.cpp:93-108) and calls  *)
(* each one's update() in a frame; plugins share no state, nor do the      *)
(* parts of one that are modules of their own here, and the viewer is      *)
(* another process.  So whatever one part can do it can do while the       *)
(* others stand still, and a behaviour is modelled as one part's.          *)
(***************************************************************************)
EXTENDS NetworkPlugin, RefreshRate, Disks, FreeSpace, Power, Memory, Pressure,
        OsInfo, Cpu, CpuTopology, XeCounters, Viewer

VARIABLE part   \* the part that is looked at

PartNames == {"network", "rate", "disks", "space", "power", "memory", "pressure",
              "osinfo", "cpu", "topology", "xe", "viewer"}

partVars == <<part, networkVars, rateVars, disksVars, spaceOf, powerVars, memoryVars,
              pressureVars, osVars, cpuVars, topologyVars, xeCounterVars, viewerVars>>

PartsInit ==
    /\ part \in PartNames
    /\ NetworkInit
    /\ RateInit
    /\ DisksInit
    /\ SpaceInit
    /\ PowerInit
    /\ MemoryInit
    /\ PressureInit
    /\ OsInit
    /\ CpuInit
    /\ TopologyInit
    /\ XeCountersInit
    /\ ViewerInit

PartsNext ==
    /\ UNCHANGED part
    /\ IF part = "network" THEN NetworkNext ELSE UNCHANGED networkVars
    /\ IF part = "rate" THEN RateNext ELSE UNCHANGED rateVars
    /\ IF part = "disks" THEN DisksNext ELSE UNCHANGED disksVars
    /\ IF part = "space" THEN SpaceNext ELSE UNCHANGED spaceOf
    /\ IF part = "power" THEN PowerNext ELSE UNCHANGED powerVars
    /\ IF part = "memory" THEN MemoryNext ELSE UNCHANGED memoryVars
    /\ IF part = "pressure" THEN PressureNext ELSE UNCHANGED pressureVars
    /\ IF part = "osinfo" THEN OsNext ELSE UNCHANGED osVars
    /\ IF part = "cpu" THEN CpuNext ELSE UNCHANGED cpuVars
    /\ IF part = "topology" THEN TopologyNext ELSE UNCHANGED topologyVars
    /\ IF part = "xe" THEN XeCountersNext ELSE UNCHANGED xeCounterVars
    /\ IF part = "viewer" THEN ViewerNext ELSE UNCHANGED viewerVars

PartsSpec ==
    /\ PartsInit
    /\ [][PartsNext]_partVars
    /\ NmFairness
    /\ SpaceFairness
    /\ OsFairness
    /\ ViewerFairness

\* Type invariant of all the parts.
TypeOK ==
    /\ part \in PartNames
    /\ NetworkTypeOK
    /\ RateTypeOK
    /\ DisksTypeOK
    /\ SpaceTypeOK
    /\ PowerTypeOK
    /\ MemoryTypeOK
    /\ PressureTypeOK
    /\ OsTypeOK
    /\ CpuTypeOK
    /\ TopologyTypeOK
    /\ XeCountersTypeOK
    /\ ViewerTypeOK

-----------------------------------------------------------------------------
(* What the smaller parts promise, together: only one of them is looked at *)
(* in a behaviour, so each conjunct speaks of its own part.                *)

\* Values that are shown together fit together: one frame read them, or one
\* answer brought them, and they are the file's, the thread's or the host's own.
ValuesAgree ==
    /\ MemoryAddsUp
    /\ PressureIsOwn
    /\ OsNamesAgree
    /\ PartsWithinUsage

\* What is looked for once, at the start, is found: all engines of a card, a name of
\* its own for each thread, and the temperature of its own core or die wherever a chip
\* measures it, but for a later die's chip that takes the place of the own one's.
FoundAtStart ==
    /\ NamesDiffer
    /\ TemperatureIsOwn
    /\ AllEnginesFound

\* A usage is the share of the time since the last one, for CPUs and engines.
UsagesAreShares == UsageIsShareOfWindow /\ XeUsageIsShare

\* What others are asked for arrives, or an error does: free space in the end as it
\* is, whatever earlier questions are answered later, and plasmashell's version.
AnswersArrive == SpaceArrives /\ PlasmaVersionSettles
=============================================================================
