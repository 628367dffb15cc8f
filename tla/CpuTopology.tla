----------------------------- MODULE CpuTopology -----------------------------
(***************************************************************************)
(* The start of the CPU plugin on Linux (plugins/cpu/linuxcpuplugin.cpp):  *)
(* /proc/cpuinfo gives a record for each hardware thread that is online,   *)
(* in any order, with or without the package and the core it belongs to;   *)
(* the thread's name is made of them, and libsensors' chips are searched   *)
(* for its temperature.  Text is modelled by the numbers it carries.       *)
(***************************************************************************)
EXTENDS Integers, Sequences, FiniteSets

CONSTANTS
    Threads,    \* numbers of hardware threads
    Packages,   \* physical ids
    Cores       \* core ids, unique in a package

ASSUME TopologyAssumption ==
    Threads \subseteq Nat /\ Packages \subseteq Nat /\ Cores \subseteq Nat

VARIABLES
    topologyLoaded,
    cpuinfo,        \* the records: id, cpu and core, -1 if they are not given
    chips,          \* libsensors' chips
    cpuCount,       \* value of m_cpuCount
    names,          \* id -> name
    temperature     \* id -> the feature m_temperature reads, or NoFeature

topologyVars == <<topologyLoaded, cpuinfo, chips, cpuCount, names, temperature>>

\* What a feature measures: a core's temperature or, by its label, a package's.
NoFeature == [package |-> -1, label |-> "none", core |-> -1]
Records == [id : Threads, cpu : Packages \union {-1}, core : Cores \union {-1}]

\* A coretemp chip lists the package, if it has a label for it, before its cores.
ChipSet == [prefix : {"coretemp", "k10temp"}, package : Packages,
            labels : SUBSET {"Package", "Tctl", "Tdie"}, cores : SUBSET Cores]

TopologyTypeOK ==
    /\ topologyLoaded \in BOOLEAN
    /\ \A i \in DOMAIN cpuinfo : cpuinfo[i] \in Records
    /\ \A i \in DOMAIN chips : chips[i] \in ChipSet
    /\ cpuCount \in Nat
    /\ DOMAIN names = {cpuinfo[i].id : i \in DOMAIN cpuinfo}
    /\ DOMAIN temperature = DOMAIN names

TopologyInit ==
    /\ topologyLoaded = FALSE
    /\ cpuinfo = <<>>
    /\ chips = <<>>
    /\ cpuCount = 0
    /\ names = [t \in {} |-> <<>>]
    /\ temperature = [t \in {} |-> NoFeature]

Greatest(S) == CHOOSE x \in S : \A y \in S : y <= x
HasCore(r) == r.cpu # -1 /\ r.core # -1

\* Physical ids count from 0.
CpuCount(info) == Greatest({0} \union {info[i].cpu : i \in DOMAIN info}) + 1

\* The records of the i-th one's package before it.
SamePackage(info, i) ==
    {j \in 1 .. i - 1 : HasCore(info[j]) /\ info[j].cpu = info[i].cpu}

\* makeCpuNames(), the name of the i-th record; the slip numbers it by its core id,
\* which hyperthreads share.
CoreIdName(info, i) ==
    IF CpuCount(info) = 1 \/ ~HasCore(info[i])
    THEN <<"Core", info[i].id + 1>>
    ELSE <<"CPU", info[i].cpu + 1, "Core", info[i].core + 1>>
CpuName(info, i) ==
    IF CpuCount(info) = 1 \/ ~HasCore(info[i])
    THEN <<"Core", info[i].id + 1>>
    ELSE <<"CPU", info[i].cpu + 1, "Core", Cardinality(SamePackage(info, i)) + 1>>

\* addSensorsIntel(), which files a chip's cores under the package it named, under
\* 0 if it named none; the slip looks at the core id only.
CoreFeature(chip, r) == [package |-> chip.package, label |-> "Core", core |-> r.core]
AnyPackageFeature(chip, r) ==
    IF r.core \in chip.cores THEN CoreFeature(chip, r) ELSE NoFeature
IntelFeature(chip, r) ==
    LET physicalId == IF "Package" \in chip.labels THEN chip.package ELSE 0 IN
    IF r.core \in chip.cores /\ r.cpu = physicalId THEN CoreFeature(chip, r) ELSE NoFeature

\* addSensorsAmd(): the chip's one temperature, the real one if there is one, which
\* setSingleSensor() gives every thread of a known core, whatever its package.
AmdFeature(chip) ==
    LET of(label) == [package |-> chip.package, label |-> label, core |-> -1] IN
    CASE "Tdie" \in chip.labels -> of("Tdie")
      [] "Tdie" \notin chip.labels /\ "Tctl" \in chip.labels -> of("Tctl")
      [] OTHER -> NoFeature

Feature(chip, r) ==
    IF chip.prefix = "coretemp" THEN IntelFeature(chip, r) ELSE AmdFeature(chip)

\* addSensors(): only threads of a known core are asked for, the last chip counts.
Temperature(C, r) ==
    LET found == {i \in DOMAIN C : Feature(C[i], r) # NoFeature} IN
    IF HasCore(r) /\ found # {} THEN Feature(C[Greatest(found)], r) ELSE NoFeature

Online(info) == {info[i].id : i \in DOMAIN info}
RecordOf(info, t) == CHOOSE i \in DOMAIN info : info[i].id = t

\* LinuxCpuPluginPrivate::LinuxCpuPluginPrivate()
Load(info, C) ==
    /\ cpuinfo' = info
    /\ chips' = C
    /\ cpuCount' = CpuCount(info)
    /\ names' = [t \in Online(info) |-> CpuName(info, RecordOf(info, t))]
    /\ temperature' = [t \in Online(info) |-> Temperature(C, info[RecordOf(info, t)])]

\* The machine: threads have different numbers, and either all of their records
\* have a package and a core or none has.  Packages are of one make and have a
\* chip each.
IsCpuinfo(info) ==
    /\ \A i, j \in DOMAIN info : info[i].id = info[j].id => i = j
    /\ \/ \A i \in DOMAIN info : HasCore(info[i])
       \/ \A i \in DOMAIN info : info[i].cpu = -1 /\ info[i].core = -1
IsChipList(C) ==
    /\ \A i, j \in DOMAIN C :
           C[i].prefix = C[j].prefix /\ (C[i].package = C[j].package => i = j)
    /\ \A i \in DOMAIN C : IF C[i].prefix = "coretemp"
                           THEN C[i].cores # {} /\ C[i].labels \subseteq {"Package"}
                           ELSE C[i].cores = {} /\ "Package" \notin C[i].labels

Lists(S, least, most) == UNION {[1 .. n -> S] : n \in least .. most}
Cpuinfos == {info \in Lists(Records, 1, Cardinality(Threads)) : IsCpuinfo(info)}
ChipLists == {C \in Lists(ChipSet, 0, Cardinality(Packages)) : IsChipList(C)}

TopologyLoad ==
    /\ ~topologyLoaded
    /\ topologyLoaded' = TRUE
    /\ \E info \in Cpuinfos, C \in ChipLists : Load(info, C)

TopologyNext == TopologyLoad

-----------------------------------------------------------------------------

\* No two threads have the same name, hyperthreads of one core included, in
\* whatever order their packages' records come.
NamesDiffer == \A t, u \in DOMAIN names : names[t] = names[u] => t = u

\* What chip c measures of the record's thread: its core, or the die as a whole, by
\* the real temperature rather than the one fans are controlled by.
Measures(c, r) == IF c.prefix = "coretemp" THEN r.core \in c.cores ELSE c.labels # {}
Measured(c, r) ==
    IF c.prefix = "coretemp"
    THEN [package |-> c.package, label |-> "Core", core |-> r.core]
    ELSE [package |-> c.package, core |-> -1,
          label |-> IF "Tdie" \in c.labels THEN "Tdie" ELSE "Tctl"]

\* The chips that measure the record's thread, and a die of another package whose
\* chip comes after all of them.
OwnChips(C, r) == {k \in DOMAIN C : C[k].package = r.cpu /\ Measures(C[k], r)}
IsLaterDie(C, k, r) ==
    /\ C[k].prefix = "k10temp"
    /\ C[k].package # r.cpu
    /\ Measures(C[k], r)
    /\ \A j \in OwnChips(C, r) : j < k

\* A thread of a known core shows the temperature of its own core, or of its own die,
\* if there is a chip that measures it, and none if there is none.  On AMD it may
\* show that of another package's die instead, whose chip comes later.  If a coretemp
\* chip has no label for its package, its cores are taken for package 0's: then
\* nothing is promised.
TemperatureIsOwn ==
    (\A k \in DOMAIN chips : chips[k].prefix = "coretemp" => "Package" \in chips[k].labels)
    => \A i \in DOMAIN cpuinfo :
           LET r == cpuinfo[i]
               f == temperature[r.id]
               Shows(k) == f = Measured(chips[k], r)
           IN /\ ~HasCore(r) => f = NoFeature
              /\ HasCore(r) =>
                     \/ \E k \in OwnChips(chips, r) : Shows(k)
                     \/ \E k \in DOMAIN chips : IsLaterDie(chips, k, r) /\ Shows(k)
                     \/ OwnChips(chips, r) = {} /\ f = NoFeature
=============================================================================
