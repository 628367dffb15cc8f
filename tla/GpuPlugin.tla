----------------------------- MODULE GpuPlugin -----------------------------
(***************************************************************************)
(* The GPU plugin (plugins/gpu/GpuPlugin.cpp) with the Linux backend: the  *)
(* class of a card is chosen once, when the daemon starts, from its driver *)
(* and its vendor, and from then on the cards of each class go their own   *)
(* way.  Classes share no state, so the plugin is modelled with the cards  *)
(* of one class at a time, whichever the machine has.                      *)
(***************************************************************************)
EXTENDS NvidiaSmi, IntelGpu, XeGpu

VARIABLES
    haveXe,     \* built with the headers of the xe driver
    device      \* the display controllers found: [driver, vendor]

gpuVars == <<haveXe, device, smiVars, intelVars, xeVars>>

PciDevices == [driver : {"xe", "other"},
               vendor : {"amd", "nvidia", "intel", "unknown"}]

\* The class LinuxBackend::start() makes of a device, "none" for a device it
\* passes over.  The driver decides before the vendor does.
GpuClass(dev) ==
    CASE dev.driver = "xe" -> IF haveXe THEN "LinuxXeGpu" ELSE "none"
      [] dev.vendor = "amd" -> "LinuxAmdGpu"
      [] dev.vendor = "nvidia" -> "LinuxNvidiaGpu"
      [] dev.vendor = "intel" -> "LinuxIntelGpu"
      [] OTHER -> "none"

Has(class) == GpuClass(device) = class

Init ==
    /\ haveXe \in BOOLEAN
    /\ device \in PciDevices
    /\ SmiInit
    /\ IntelInit
    /\ XeInit

Next ==
    /\ UNCHANGED <<haveXe, device>>
    /\ \/ Has("LinuxNvidiaGpu") /\ SmiNext /\ UNCHANGED <<intelVars, xeVars>>
       \/ Has("LinuxIntelGpu") /\ IntelNext /\ UNCHANGED <<smiVars, xeVars>>
       \/ Has("LinuxXeGpu") /\ XeNext /\ UNCHANGED <<smiVars, intelVars>>

Spec == Init /\ [][Next]_gpuVars

FairSpec == Spec /\ SmiFairness /\ IntelFairness /\ XeFairness

\* Type invariant of all the parts.
TypeOK == SmiTypeOK /\ IntelTypeOK /\ XeTypeOK
\* Of either driver the helper of an Intel card runs for its subscribers only, and
\* they lack it only after a death, or after a race that the card does not wait out.
HelpersWanted == IntelHelperWanted /\ XeHelperWanted

\* Nobody's process stays: nvidia-smi and the helpers end after the last
\* subscription, however they are shared and however slow their end is, and
\* nvidia-smi also when the daemon quits under its subscribers.
IdleProcessesEnd == IdleEnds /\ IntelIdleEnds /\ XeIdleEnds
=============================================================================
