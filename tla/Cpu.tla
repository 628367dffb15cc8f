--------------------------------- MODULE Cpu ---------------------------------
(***************************************************************************)
(* The usage sensors of the CPU plugin (plugins/cpu): a frame in which any *)
(* of its objects is subscribed reads the kernel's tick counters and gives *)
(* each object's UsageComputer those of its own; on Linux a CPU that is    *)
(* not subscribed is passed over, so that computers look back to different *)
(* frames.  Usages are modelled in whole percents.                         *)
(***************************************************************************)
EXTENDS Integers

CONSTANTS
    Cpus,       \* the CPUs
    Wavering,   \* those whose time waiting for I/O may go back
    MaxTicks    \* bound on the ticks of all CPUs together

ASSUME CpuAssumption == "all" \notin Cpus /\ Wavering \subseteq Cpus /\ MaxTicks \in Nat

VARIABLES
    cpuLoaded,
    freeBsd,    \* the FreeBSD plugin, not the Linux one
    ticks,      \* the kernel: how each CPU, and all together, spent their time
    cpuWanted,  \* the subscribed objects
    computers,  \* what each object's UsageComputer remembers
    usage,      \* the values of each object's sensors
    window      \* history: the time since each computer's last setTicks()

cpuVars == <<cpuLoaded, freeBsd, ticks, cpuWanted, computers, usage, window>>

TickKinds == {"system", "user", "wait", "idle"}
CpuObjects == Cpus \union {"all"}
Spent == [TickKinds -> Int]
None == [k \in TickKinds |-> 0]
Total(t) == t["system"] + t["user"] + t["wait"] + t["idle"]

Shares == [{"system", "user", "wait", "total"} -> 0 .. 100]

CpuTypeOK ==
    /\ cpuLoaded \in BOOLEAN
    /\ freeBsd \in BOOLEAN
    /\ ticks \in [CpuObjects -> Spent]
    /\ cpuWanted \subseteq CpuObjects
    /\ computers \in [CpuObjects -> Spent]
    /\ window \in [CpuObjects -> Spent]
    /\ usage \in [CpuObjects -> Shares]

CpuInit ==
    /\ cpuLoaded = FALSE
    /\ freeBsd = FALSE
    /\ ticks = [o \in CpuObjects |-> None]
    /\ cpuWanted = {}
    /\ computers = [o \in CpuObjects |-> None]
    /\ usage = [o \in CpuObjects |-> [u \in {"system", "user", "wait", "total"} |-> 0]]
    /\ window = [o \in CpuObjects |-> None]

AtLeast0(x) == IF x < 0 THEN 0 ELSE x

\* UsageComputer::setTicks(): the percentages of t since the ticks it remembers,
\* where a counter that went back counts as one that stood still.  The slip takes
\* all the time since the start.
SinceStart(old, t) == [k \in TickKinds |-> t[k]]
Since(old, t) == [k \in TickKinds |-> AtLeast0(t[k] - old[k])]

Percentage(part, all) ==
    CASE part >= all -> 100
      [] part > 0 /\ all > part -> (100 * part) \div all
      [] OTHER -> 0

BusyPercentage(diff, all) == Percentage(diff["user"], all)
TotalPercentage(diff, all) == Percentage(diff["system"] + diff["user"], all)

Usages(old, t) ==
    LET diff == Since(old, t)
        all == AtLeast0(Total(t) - Total(old))
    IN [system |-> Percentage(diff["system"], all),
        user |-> Percentage(diff["user"], all),
        wait |-> Percentage(diff["wait"], all),
        total |-> TotalPercentage(diff, all)]

\* The objects that the kernel may have counters of: on FreeBSD either sysctl() may
\* fail; /proc/stat has no line of a CPU that is offline.
Answers(bsd) ==
    IF bsd THEN {{}, Cpus, {"all"}, CpuObjects}
    ELSE {{"all"} \union C : C \in SUBSET Cpus}

\* Whom a frame's counters are given to, if it reads them.
SampledObjects(answered) ==
    IF freeBsd THEN answered ELSE answered \intersect ({"all"} \union cpuWanted)

SetTicks(S) ==
    /\ usage' = [o \in CpuObjects |->
           IF o \in S THEN Usages(computers[o], ticks[o]) ELSE usage[o]]
    /\ computers' = [o \in CpuObjects |-> IF o \in S THEN ticks[o] ELSE computers[o]]
    /\ window' = [o \in CpuObjects |-> IF o \in S THEN None ELSE window[o]]

\* FreeBSD's constructor tries to read the CPUs' counters.
CpuLoad ==
    /\ ~cpuLoaded
    /\ cpuLoaded' = TRUE
    /\ freeBsd' \in BOOLEAN
    /\ \E S \in IF freeBsd' THEN {{}, Cpus} ELSE {{}} : SetTicks(S)
    /\ UNCHANGED <<ticks, cpuWanted>>

CpuWants(o) ==
    /\ cpuLoaded
    /\ cpuWanted' = IF o \in cpuWanted THEN cpuWanted \ {o} ELSE cpuWanted \union {o}
    /\ UNCHANGED <<cpuLoaded, freeBsd, ticks, computers, usage, window>>

\* The kernel counts for the CPU and for all of them.
Counted(counters, c, k, n) ==
    [o \in CpuObjects |->
        IF o \in {c, "all"} THEN [counters[o] EXCEPT ![k] = @ + n] ELSE counters[o]]

Passes(c, k, n) ==
    /\ ticks' = Counted(ticks, c, k, n)
    /\ window' = Counted(window, c, k, n)
    /\ UNCHANGED <<cpuLoaded, freeBsd, cpuWanted, computers, usage>>

\* FreeBSD knows no waiting for I/O.
Tick(c, k) ==
    /\ cpuLoaded
    /\ freeBsd => k # "wait"
    /\ Total(ticks["all"]) < MaxTicks
    /\ Passes(c, k, 1)

\* "some counters can go backwards in some circumstances" (usagecomputer.cpp:13):
\* the time a CPU waited for I/O does.
WaitGoesBack(c) == ticks[c]["wait"] > 0 /\ Passes(c, "wait", -1)

CpuUpdate ==
    /\ cpuLoaded
    /\ cpuWanted # {}
    /\ \E answered \in Answers(freeBsd) : SetTicks(SampledObjects(answered))
    /\ UNCHANGED <<cpuLoaded, freeBsd, ticks, cpuWanted>>

CpuNext ==
    \/ CpuLoad
    \/ \E o \in CpuObjects : CpuWants(o)
    \/ \E c \in Cpus, k \in TickKinds : Tick(c, k)
    \/ \E c \in Wavering : WaitGoesBack(c)
    \/ CpuUpdate

CpuSpec == CpuInit /\ [][CpuNext]_cpuVars

-----------------------------------------------------------------------------

\* When a frame samples an object its usages become the shares of exactly the time
\* since the object itself was sampled last, whenever that was and whoever else was
\* sampled in between, if any time passed and no counter of it went back.  (If none
\* did, percentage() takes 0 of 0 for everything: 100 %.)
IsShareOf(u, t) ==
    LET share(part) == (100 * part) \div Total(t) IN
    u = [system |-> share(t["system"]), user |-> share(t["user"]),
         wait |-> share(t["wait"]), total |-> share(t["system"] + t["user"])]

UsageIsShareOfWindow ==
    [][\A o \in CpuObjects :
           /\ usage'[o] # usage[o] \/ computers'[o] # computers[o]
           /\ Total(window[o]) > 0
           /\ window[o]["wait"] >= 0
           => IsShareOf(usage'[o], window[o])]_cpuVars

\* Even if counters went back, no part exceeds the total usage, and nothing 100 %.
PartsWithinUsage ==
    \A o \in CpuObjects : /\ usage[o]["system"] <= usage[o]["total"]
                          /\ usage[o]["user"] <= usage[o]["total"]
                          /\ usage[o]["total"] <= 100
=============================================================================
