------------------------------- MODULE Memory -------------------------------
(***************************************************************************)
(* The memory plugin on Linux (plugins/memory/linuxbackend.cpp): a frame   *)
(* reads /proc/meminfo if the physical or the swap object is subscribed,   *)
(* and works out both objects' sensors from it in unsigned arithmetic.     *)
(* The file is complete, as kernels write it since 3.14.                   *)
(***************************************************************************)
EXTENDS Integers

CONSTANTS
    MaxMemory,  \* the pages of memory
    MaxSwap     \* the pages of swap space

ASSUME MemoryAssumption == MaxMemory \in Nat /\ MaxSwap \in Nat

VARIABLES
    memoryObjects,  \* the plugin's objects, none before it is loaded
    memoryWanted,   \* those that are subscribed
    pages,          \* the kernel: how many pages are of each kind
    swapUsed,       \* the kernel: pages in the swap space
    physical,       \* values of the memory/physical sensors
    swap,           \* values of the memory/swap sensors
    lastRead        \* history: the kernel's state in the last frame that anything
                    \* was subscribed in

memoryVars == <<memoryObjects, memoryWanted, pages, swapUsed, physical, swap, lastRead>>

\* Every page is of one kind.  "other" is what programs have; it is not available,
\* nor is "pinned", the part of the caches that cannot be dropped.
Kinds == {"free", "buffers", "cached", "slab", "pinned", "other"}
MemoryObjects == {"physical", "swap"}
Word == 2 * (MaxMemory + MaxSwap + 1)   \* where unsigned numbers wrap around
Unsigned(x) == x % Word

MemoryTypeOK ==
    /\ memoryObjects \subseteq MemoryObjects
    /\ memoryWanted \subseteq memoryObjects
    /\ pages \in [Kinds -> 0 .. MaxMemory]
    /\ swapUsed \in 0 .. MaxSwap
    /\ physical \in [{"total", "used", "free", "application", "cache", "buffer"}
                       -> 0 .. Word - 1]
    /\ swap \in [{"total", "used", "free"} -> 0 .. Word - 1]
    /\ lastRead \in [pages : [Kinds -> 0 .. MaxMemory], swapUsed : 0 .. MaxSwap]

\* /proc/meminfo; pinned pages are cached ones.
Meminfo(p, s) ==
    [MemTotal |-> MaxMemory,
     MemFree |-> p["free"],
     MemAvailable |-> p["free"] + p["buffers"] + p["cached"] + p["slab"],
     Buffers |-> p["buffers"],
     Cached |-> p["cached"] + p["pinned"],
     Slab |-> p["slab"],
     SwapTotal |-> MaxSwap,
     SwapFree |-> MaxSwap - s]

\* The sensors after reading m; the slip counts the slab as the programs'.
ApplicationWithSlab(m) == Unsigned(m.MemTotal - m.MemFree - m.Cached - m.Buffers)
Application(m) == Unsigned(m.MemTotal - m.MemFree - m.Cached - m.Buffers - m.Slab)

PhysicalSensors(m) ==
    [total |-> m.MemTotal,
     used |-> Unsigned(m.MemTotal - m.MemAvailable),
     free |-> m.MemAvailable,
     application |-> Application(m),
     cache |-> Unsigned(m.Cached + m.Slab),
     buffer |-> m.Buffers]

SwapSensors(m) ==
    [total |-> m.SwapTotal,
     used |-> Unsigned(m.SwapTotal - m.SwapFree),
     free |-> m.SwapFree]

AllOther == [k \in Kinds |-> IF k = "other" THEN MaxMemory ELSE 0]

MemoryInit ==
    /\ memoryObjects = {}
    /\ memoryWanted = {}
    /\ pages = AllOther
    /\ swapUsed = 0
    /\ physical = [s \in {"total", "used", "free", "application", "cache", "buffer"} |-> 0]
    /\ swap = [s \in {"total", "used", "free"} |-> 0]
    /\ lastRead = [pages |-> AllOther, swapUsed |-> 0]

MemoryLoad ==
    /\ memoryObjects = {}
    /\ memoryObjects' = MemoryObjects
    /\ UNCHANGED <<memoryWanted, pages, swapUsed, physical, swap, lastRead>>

MemoryWants(o) ==
    /\ o \in memoryObjects
    /\ memoryWanted' =
           IF o \in memoryWanted THEN memoryWanted \ {o} ELSE memoryWanted \union {o}
    /\ UNCHANGED <<memoryObjects, pages, swapUsed, physical, swap, lastRead>>

PageBecomes(j, k) ==
    /\ memoryObjects # {}
    /\ j # k
    /\ pages[j] > 0
    /\ pages' = [pages EXCEPT ![j] = @ - 1, ![k] = @ + 1]
    /\ UNCHANGED <<memoryObjects, memoryWanted, swapUsed, physical, swap, lastRead>>

SwapBecomes(s) ==
    /\ memoryObjects # {}
    /\ swapUsed' = s
    /\ UNCHANGED <<memoryObjects, memoryWanted, pages, physical, swap, lastRead>>

\* LinuxMemoryBackend::update()
Skips == memoryWanted = {}

MemoryUpdate ==
    /\ memoryObjects # {}
    /\ LET m == Meminfo(pages, swapUsed) IN
       IF Skips THEN UNCHANGED <<physical, swap>>
       ELSE physical' = PhysicalSensors(m) /\ swap' = SwapSensors(m)
    /\ lastRead' =
           IF memoryWanted = {} THEN lastRead ELSE [pages |-> pages, swapUsed |-> swapUsed]
    /\ UNCHANGED <<memoryObjects, memoryWanted, pages, swapUsed>>

MemoryNext ==
    \/ MemoryLoad
    \/ \E o \in MemoryObjects : MemoryWants(o)
    \/ \E j, k \in Kinds : PageBecomes(j, k)
    \/ \E s \in 0 .. MaxSwap : SwapBecomes(s)
    \/ MemoryUpdate

MemorySpec == MemoryInit /\ [][MemoryNext]_memoryVars

\* The sensors are one moment's, that of the last frame with a subscriber to
\* either object: used and free make up the total, the parts are the pages of
\* their kinds, and no difference wraps around.
MemoryAddsUp ==
    physical["total"] # 0 =>
        /\ physical["used"] + physical["free"] = MaxMemory
        /\ physical["application"] = lastRead.pages["other"]
        /\ physical["application"] + physical["cache"] + physical["buffer"]
               = MaxMemory - lastRead.pages["free"]
        /\ swap["used"] = lastRead.swapUsed
        /\ swap["used"] + swap["free"] = MaxSwap
=============================================================================
