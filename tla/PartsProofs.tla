----------------------------- MODULE PartsProofs -----------------------------
(***************************************************************************)
(* Proofs about the composition: every part of it behaves as its own       *)
(* specification says, whatever part is looked at, so that what is proved  *)
(* of a part holds of the whole.  And the viewer, for any command line:    *)
(* a path leaves m_unreportedSensors only when a value or a complaint was  *)
(* printed for it (Reported), and the viewer quits only after that set is  *)
(* empty.                                                                  *)
(*                                                                         *)
(* The types, the usages and the refresh rate of the composition are those *)
(* of its parts.                                                           *)
(***************************************************************************)
EXTENDS Parts, NetworkManagerProofs, NetlinkSysctlProofs, DisksProofs,
        PluginProofs

\* The viewer's specification without its fairness.
ViewerSafety == ViewerInit /\ [][ViewerNext]_viewerVars

Reported ==
    step \notin {"start", "subscribe"} =>
        named \subseteq unreported \union printed \union complained

ViewerInv ==
    /\ quitPosted \in BOOLEAN
    /\ step = "exited" => quitPosted
    /\ quitPosted => step \in {"loop", "exited"} /\ ~remain /\ unreported = {}
    /\ step \in {"start", "subscribe", "data", "names"} => complained = {}
    /\ Reported

-----------------------------------------------------------------------------
(* The viewer                                                              *)

\* Before it starts nothing is to be reported.
LEMMA ViewerInitSound == ViewerInit => ViewerInv
  BY DEF ViewerInit, ViewerInv, Reported

\* Answers, signals and the daemon's steps keep the invariant in any order.
LEMMA ViewerNextSound ==
  ASSUME ViewerInv, [ViewerNext]_viewerVars
  PROVE  ViewerInv'
<1> USE DEF ViewerInv, Reported, commandLine, daemonVars, viewerSide
<1>1. CASE ViewerStart
  BY <1>1 DEF ViewerStart
<1>2. CASE Subscribed
  BY <1>2 DEF Subscribed
<1>3. CASE GotData
  BY <1>3 DEF GotData, Go, Finishes, AfterNames
<1>4. CASE GotNames
  BY <1>4 DEF GotNames, Go, Finishes, AfterNames, Existing
<1>5. CASE GotDetails
  BY <1>5 DEF GotDetails, Go, Finishes
<1>6. CASE NewSensorData
  BY <1>6 DEF NewSensorData, QuitsOnLast
<1>7. CASE Quit
  BY <1>7 DEF Quit
<1>8. ASSUME NEW s \in Sensors, ValueChanges(s) \/ SensorGoes(s) \/ SensorComes(s)
      PROVE  ViewerInv'
  BY <1>8 DEF ValueChanges, SensorGoes, SensorComes
<1>9. CASE SendFrame
  BY <1>9 DEF SendFrame
<1>10. CASE UNCHANGED viewerVars
  BY <1>10 DEF viewerVars
<1> QED
  BY <1>1, <1>2, <1>3, <1>4, <1>5, <1>6, <1>7, <1>8, <1>9, <1>10 DEF ViewerNext

\* The viewer leaves only when every path has printed a value or a complaint.
THEOREM ViewerAlwaysComplete == ViewerSafety => []LeavesComplete
<1>1. ViewerInv => LeavesComplete
  BY DEF ViewerInv, Reported, LeavesComplete
<1> QED
  BY <1>1, ViewerInitSound, ViewerNextSound, PTL DEF ViewerSafety

\* Before it starts the viewer has seen nothing.
NothingSeen ==
    step = "start" => unreported \union printed \union complained \union booked4us
                          \union dirty \union inbox = {}

\* The viewer's variables keep their types.
THEOREM ViewerTypeCorrect == ViewerSafety => []ViewerTypeOK
<1>1. ViewerInit => ViewerTypeOK /\ NothingSeen
  BY DEF ViewerInit, ViewerTypeOK, NothingSeen
<1>2. ASSUME ViewerTypeOK, NothingSeen, [ViewerNext]_viewerVars
      PROVE  (ViewerTypeOK /\ NothingSeen)'
  <2> USE <1>2 DEF ViewerTypeOK, NothingSeen, commandLine, daemonVars, viewerSide
  <2>1. CASE ViewerStart
    BY <2>1 DEF ViewerStart
  <2>2. CASE Subscribed
    BY <2>2 DEF Subscribed
  <2>3. CASE GotData
    BY <2>3 DEF GotData, Go, Finishes, AfterNames
  <2>4. CASE GotNames
    BY <2>4 DEF GotNames, Go, Finishes, AfterNames
  <2>5. CASE GotDetails
    BY <2>5 DEF GotDetails, Go, Finishes
  <2>6. CASE NewSensorData
    BY <2>6 DEF NewSensorData, QuitsOnLast
  <2>7. CASE Quit
    BY <2>7 DEF Quit
  <2>8. ASSUME NEW s \in Sensors, ValueChanges(s) \/ SensorGoes(s) \/ SensorComes(s)
        PROVE  (ViewerTypeOK /\ NothingSeen)'
    BY <2>8 DEF ValueChanges, SensorGoes, SensorComes, Running
  <2>9. CASE SendFrame
    BY <2>9 DEF SendFrame, Running
  <2>10. CASE UNCHANGED viewerVars
    BY <2>10 DEF viewerVars
  <2> QED
    BY <2>1, <2>2, <2>3, <2>4, <2>5, <2>6, <2>7, <2>8, <2>9, <2>10 DEF ViewerNext
<1> QED
  BY <1>1, <1>2, PTL DEF ViewerSafety

-----------------------------------------------------------------------------
(* The composition                                                         *)

\* The specifications of the parts that are proved about.
SpaceSafety == SpaceInit /\ [][SpaceNext]_spaceOf
OsSafety == OsInit /\ [][OsNext]_osVars
TopologySpec == TopologyInit /\ [][TopologyNext]_topologyVars
XeCountersSpec == XeCountersInit /\ [][XeCountersNext]_xeCounterVars

\* Each part of the composition takes its own steps or none.
THEOREM PartsImplementParts ==
  PartsSpec => /\ NmSpec /\ RtSpec /\ SysSpec /\ RateSpec
               /\ DisksSpec /\ SpaceSafety /\ PowerSpec /\ ViewerSafety
               /\ MemorySpec /\ PressureSpec /\ OsSafety
               /\ CpuSpec /\ TopologySpec /\ XeCountersSpec
<1>1. PartsInit => /\ NmInit /\ RtInit /\ SysInit /\ RateInit
                   /\ DisksInit /\ SpaceInit /\ PowerInit /\ ViewerInit
                   /\ MemoryInit /\ PressureInit /\ OsInit
                   /\ CpuInit /\ TopologyInit /\ XeCountersInit
  BY DEF PartsInit, NetworkInit
<1>2. [PartsNext]_partVars =>
          /\ [NmNext]_nmVars /\ [RtNext]_rtVars /\ [SysNext]_sysVars /\ [RateNext]_rateVars
          /\ [DisksNext]_disksVars /\ [PowerNext]_powerVars /\ [ViewerNext]_viewerVars
          /\ [MemoryNext]_memoryVars /\ [PressureNext]_pressureVars /\ [OsNext]_osVars
          /\ [CpuNext]_cpuVars /\ [TopologyNext]_topologyVars /\ [SpaceNext]_spaceOf
          /\ [XeCountersNext]_xeCounterVars
  <2> SUFFICES ASSUME [PartsNext]_partVars
               PROVE  /\ [NmNext]_nmVars /\ [RtNext]_rtVars /\ [SysNext]_sysVars
                      /\ [RateNext]_rateVars /\ [DisksNext]_disksVars
                      /\ [PowerNext]_powerVars /\ [ViewerNext]_viewerVars
                      /\ [MemoryNext]_memoryVars /\ [PressureNext]_pressureVars
                      /\ [OsNext]_osVars /\ [CpuNext]_cpuVars
                      /\ [TopologyNext]_topologyVars /\ [XeCountersNext]_xeCounterVars
                      /\ [SpaceNext]_spaceOf
    OBVIOUS
  <2>1. /\ NetworkNext \/ UNCHANGED networkVars
        /\ [RateNext]_rateVars /\ [DisksNext]_disksVars
        /\ [PowerNext]_powerVars /\ [ViewerNext]_viewerVars
    BY DEF PartsNext, partVars
  <2>2. [NmNext]_nmVars /\ [RtNext]_rtVars /\ [SysNext]_sysVars
    BY <2>1 DEF NetworkNext, NetworkLoad, networkVars
  <2>3. /\ [MemoryNext]_memoryVars /\ [PressureNext]_pressureVars /\ [OsNext]_osVars
        /\ [CpuNext]_cpuVars /\ [TopologyNext]_topologyVars
        /\ [XeCountersNext]_xeCounterVars /\ [SpaceNext]_spaceOf
    BY DEF PartsNext, partVars
  <2> QED
    BY <2>1, <2>2, <2>3
<1> QED
  BY <1>1, <1>2, PTL
  DEF PartsSpec, NmSpec, RtSpec, SysSpec, RateSpec, DisksSpec, PowerSpec, ViewerSafety,
      MemorySpec, PressureSpec, OsSafety, CpuSpec, TopologySpec, XeCountersSpec,
      SpaceSafety

\* What memory, pressure, CPU and host show together fits together.
THEOREM PartsValuesAgree == PartsSpec => []ValuesAgree
<1>1. MemoryAddsUp /\ PressureIsOwn /\ OsNamesAgree /\ PartsWithinUsage => ValuesAgree
  BY DEF ValuesAgree
<1> QED
  BY <1>1, PartsImplementParts, MemoryAlwaysAddsUp, PressureAlwaysOwn, OsNamesAlwaysAgree,
     PartsAlwaysWithin, PTL DEF OsSafety

\* Threads, temperatures and engines are found as FoundAtStart says.
THEOREM PartsFoundAtStart == PartsSpec => []FoundAtStart
<1>1. NamesDiffer /\ TemperatureIsOwn /\ AllEnginesFound => FoundAtStart
  BY DEF FoundAtStart
<1> QED
  BY <1>1, PartsImplementParts, ThreadsAlwaysApart, EnginesAlwaysFound, PTL
  DEF TopologySpec, XeCountersSpec

\* What is proved of the parts holds of the composition, which the run checks.
THEOREM PartsAlwaysSound ==
  PartsSpec => [](/\ RegisteredIffConnected
                  /\ SubscribedIsSampled
                  /\ NoRateAcrossGap
                  /\ RtReadings
                  /\ SysSampling
                  /\ VolumesAgree
                  /\ RatesCoverTheirTime
                  /\ BatteriesRight
                  /\ ValuesAgree
                  /\ FoundAtStart
                  /\ LeavesComplete)
  BY PartsImplementParts, AlwaysRegistered, AlwaysSampled, NeverAcrossGap,
     RtAlwaysReadings, SysAlwaysSampling, VolumesAlwaysAgree, RatesAlwaysCover,
     BatteriesAlwaysRight, ViewerAlwaysComplete, PartsValuesAgree, PartsFoundAtStart, PTL

\* Every usage, of a CPU or of a card's engines, is the share of its own window.
THEOREM PartsUsagesAreShares == PartsSpec => UsagesAreShares
<1>1. PartsSpec => UsageIsShareOfWindow /\ XeUsageIsShare
  BY PartsImplementParts, UsagesAlwaysShares, XeUsagesAlwaysShares, PTL DEF XeCountersSpec
<1> QED
  BY <1>1 DEF UsagesAreShares

\* All devices share NetworkManager's refresh rates, but for the slips of the flag.
THEOREM PartsRateShared == PartsSpec => []RateShared
  BY PartsImplementParts, RateAlwaysShared, PTL

\* The backend is one of those there are, if any.
LEMMA FirstOfIsBackend ==
  ASSUME NEW candidates
  PROVE  FirstOf(candidates) \in {Backends[i] : i \in DOMAIN Backends} \union {"none"}
<1> DEFINE at == {i \in DOMAIN Backends : Backends[i] \in candidates}
<1>1. DOMAIN Backends = 1 .. 3
  BY DEF Backends
<1>2. CASE at = {}
  BY <1>2 DEF FirstOf
<1>3. CASE at # {}
  <2>1. at \in SUBSET Nat
    BY <1>1
  <2>2. \E i \in at : \A j \in at : i <= j
    BY <1>3, <2>1, LeastNatural
  <2>3. (CHOOSE i \in at : \A j \in at : i <= j) \in at
    BY <2>2
  <2>4. FirstOf(candidates) = Backends[CHOOSE i \in at : \A j \in at : i <= j]
    BY <1>3 DEF FirstOf
  <2> QED
    BY <2>3, <2>4
<1> QED
  BY <1>2, <1>3

\* What the composition keeps of its own: the part and the backend.
ChoicesOK ==
    /\ part \in PartNames
    /\ networkBackend \in {Backends[i] : i \in DOMAIN Backends} \union {"unloaded", "none"}

\* The variables of all the parts keep their types.
THEOREM PartsTypeCorrect == PartsSpec => []TypeOK
<1>1. PartsInit => ChoicesOK
  BY DEF PartsInit, NetworkInit, ChoicesOK
<1>2. ASSUME ChoicesOK, [PartsNext]_partVars
      PROVE  ChoicesOK'
  <2>1. part' = part
    BY <1>2 DEF PartsNext, partVars
  <2>2. CASE UNCHANGED networkBackend
    BY <1>2, <2>1, <2>2 DEF ChoicesOK
  <2>3. CASE NetworkLoad
    BY <1>2, <2>1, <2>3, FirstOfIsBackend DEF NetworkLoad, ChoicesOK
  <2>4. NetworkLoad \/ UNCHANGED networkBackend
    BY <1>2 DEF PartsNext, partVars, NetworkNext, networkVars
  <2> QED
    BY <2>2, <2>3, <2>4
<1>3. PartsSpec => []ChoicesOK
  BY <1>1, <1>2, PTL DEF PartsSpec
<1>4. ChoicesOK /\ NmTypeOK /\ RtTypeOK /\ SysTypeOK /\ RateTypeOK /\ DisksTypeOK
      /\ SpaceTypeOK /\ PowerTypeOK /\ MemoryTypeOK /\ PressureTypeOK /\ OsTypeOK /\ CpuTypeOK
      /\ TopologyTypeOK /\ XeCountersTypeOK /\ ViewerTypeOK
          => TypeOK
  BY DEF ChoicesOK, TypeOK, NetworkTypeOK
<1>5. /\ RtInv => RtTypeOK
      /\ SysInv => SysTypeOK
      /\ DisksInv => DisksTypeOK
      /\ PowerInv => PowerTypeOK
      /\ MemoryInv => MemoryTypeOK
      /\ CpuInv => CpuTypeOK
  BY DEF RtInv, SysInv, DisksInv, PowerInv, MemoryInv, CpuInv
<1>6. (MemorySpec => []MemoryInv) /\ (CpuSpec => []CpuInv)
  BY MemoryInitSound, MemoryNextSound, CpuInitSound, CpuNextSound, PTL
  DEF MemorySpec, CpuSpec
<1>7. PartsSpec => /\ []NmTypeOK /\ []RateTypeOK /\ []PressureTypeOK /\ []OsTypeOK
                   /\ []TopologyTypeOK /\ []XeCountersTypeOK /\ []ViewerTypeOK
                   /\ []SpaceTypeOK
  BY PartsImplementParts, TypeCorrect, RateTypeCorrect, PressureTypeCorrect,
     OsTypeCorrect, TopologyTypeCorrect, XeCountersTypeCorrect, ViewerTypeCorrect,
     SpaceTypeCorrect, PTL
  DEF OsSafety, SpaceSafety, TopologySpec, XeCountersSpec
<1>8. PartsSpec => []RtInv /\ []SysInv /\ []DisksInv /\ []PowerInv /\ []MemoryInv /\ []CpuInv
  BY <1>6, PartsImplementParts, RtInvariance, SysInvariance, DisksInvariance,
     PowerInvariance, PTL
<1> QED
  BY <1>3, <1>4, <1>5, <1>7, <1>8, PTL
=============================================================================
