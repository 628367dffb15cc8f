----------------------------- MODULE XeCounters -----------------------------
(***************************************************************************)
(* The helper of an xe card at work (plugins/gpu/XeHelper.cpp): it probes  *)
(* for engines, opens two counters of each, reads all of them once a       *)
(* second and prints the usage of each class, which the card shows         *)
(* (readPerfData() in plugins/gpu/LinuxXeGpu.cpp).  Usages are in whole    *)
(* percents; the frequency is left out.                                    *)
(***************************************************************************)
EXTENDS Integers, FiniteSets, Functions

CONSTANTS
    Gts,        \* numbers a GT may have, from 0
    Instances,  \* numbers an engine may have in its class, from 0
    EngineSets, \* the engines a card may have counters for
    MaxXeTicks  \* bound on the ticks of all engines together

\* Classes that are shown, and one of those that are not.
Exposed == {"Render", "Video"}
Classes == Exposed \union {"Copy"}
Engines == [gt : Gts, class : Classes, instance : Instances]

ASSUME XeCountersAssumption ==
    /\ Gts \subseteq Nat /\ Instances \subseteq Nat
    /\ \A P \in EngineSets : P \subseteq Engines /\ IsFiniteSet(P)
    /\ MaxXeTicks \in Nat

VARIABLES
    xeAt,       \* "off", "discovered" or "looping"
    xePresent,  \* the engines the kernel has counters for
    xeFound,    \* discoverEngines()
    xeUsed,     \* engineConfigs: the engines of which both counters were opened
    xeTicks,    \* the kernel's counters of each engine, since they were opened
    xeLast,     \* lastValues, of the engines that have one
    xeShown,    \* what the card shows of each class, -1 before the first line
    xeWindow,   \* history: the ticks since the helper's last line
    xeRestarted \* history: the card was reset since; then xeWindow is not kept

xeCounterVars == <<xeAt, xePresent, xeFound, xeUsed, xeTicks, xeLast, xeShown,
                   xeWindow, xeRestarted>>

Ticks == [active : Nat, total : Nat]
NoTicks == [active |-> 0, total |-> 0]

XeCountersTypeOK ==
    /\ xeAt \in {"off", "discovered", "looping"}
    /\ xePresent \subseteq Engines
    /\ xeFound \subseteq xePresent
    /\ xeUsed \subseteq xeFound
    /\ DOMAIN xeTicks = xePresent
    /\ DOMAIN xeLast \subseteq xeUsed
    /\ \A e \in DOMAIN xeLast : xeLast[e] \in Ticks
    /\ \A c \in Exposed : xeShown[c] \in Nat \union {-1}
    /\ xeRestarted \in BOOLEAN

XeCountersInit ==
    /\ xeAt = "off"
    /\ xePresent = {}
    /\ xeFound = {}
    /\ xeUsed = {}
    /\ xeTicks = [e \in {} |-> NoTicks]
    /\ xeLast = [e \in {} |-> NoTicks]
    /\ xeShown = [c \in Exposed |-> -1]
    /\ xeWindow = [e \in {} |-> NoTicks]
    /\ xeRestarted = FALSE

\* discoverEngines() when the kernel opens counters of the engines of P: the first
\* instance that fails ends a class, the first GT with nothing ends the search.
OfClass(P, g, c) ==
    {e \in P : /\ e.gt = g /\ e.class = c
               /\ \A i \in 0 .. e.instance : [gt |-> g, class |-> c, instance |-> i] \in P}
OfGt(P, g) == UNION {OfClass(P, g, c) : c \in Classes}

\* The slip takes the end of the first class for the end of a GT.
DiscoverFirstClass(P) ==
    UNION {OfGt(P, g) : g \in {h \in Gts : OfClass(P, h, "Render") # {}}}
Discover(P) == UNION {OfGt(P, g) : g \in {h \in Gts : \A k \in 0 .. h : OfGt(P, k) # {}}}

XeProbe ==
    /\ xeAt = "off"
    /\ xeAt' = "discovered"
    /\ IF xePresent = {}
       THEN /\ xePresent' \in EngineSets
            /\ xeTicks' = [e \in xePresent' |-> NoTicks]
            /\ xeWindow' = xeTicks'
       ELSE UNCHANGED <<xePresent, xeTicks, xeWindow>>
    /\ xeFound' = Discover(xePresent')
    /\ UNCHANGED <<xeUsed, xeLast, xeShown, xeRestarted>>

\* The counters are opened, any of which may fail; without any the helper ends.
XeOpen(S) ==
    /\ xeAt = "discovered"
    /\ xeUsed' = S
    /\ xeAt' \in IF S = {} THEN {"off", "looping"} ELSE {"looping"}
    /\ UNCHANGED <<xePresent, xeFound, xeTicks, xeLast, xeShown, xeWindow, xeRestarted>>

\* The ticks of e since the last line, if they count.
Diff(e) ==
    IF /\ e \in DOMAIN xeLast
       /\ xeTicks[e].active >= xeLast[e].active
       /\ xeTicks[e].total >= xeLast[e].total
    THEN [active |-> xeTicks[e].active - xeLast[e].active,
          total |-> xeTicks[e].total - xeLast[e].total]
    ELSE NoTicks

TotalActive(E) == SumFunction([e \in E |-> Diff(e).active])
TotalTicks(E) == SumFunction([e \in E |-> Diff(e).total])
CountedOf(c) == {e \in xeUsed : e.class = c /\ Diff(e).total > 0}

\* static_cast<std::uint64_t>(double(a) / t * 100.0): a share that is a whole number
\* of percents may come out just below it, so that 29 of 100 ticks are 28 %.
PercentsOf(a, t) ==
    LET q == (100 * a) \div t IN
    {q} \union (IF 100 * a = t * q /\ a % t # 0 THEN {q - 1} ELSE {})

\* What a line may have of a class that ticked.
UsagesOf(c) == PercentsOf(TotalActive(CountedOf(c)), TotalTicks(CountedOf(c)))

\* readPerfData(): a class the line does not have keeps its value.
ReadPerfData(line) ==
    xeShown' = [c \in Exposed |-> IF c \in DOMAIN line THEN line[c] ELSE xeShown[c]]

\* lastValues = currentValues, after a slip that keeps the first ones.
KeepLast == IF DOMAIN xeLast = xeUsed THEN xeLast ELSE [e \in xeUsed |-> xeTicks[e]]
CurrentValues == [e \in xeUsed |-> xeTicks[e]]

XeLine ==
    /\ xeAt = "looping"
    /\ LET counted == {c \in Exposed : CountedOf(c) # {}} IN
       \E line \in [counted -> UNION {UsagesOf(c) : c \in counted}] :
           /\ \A c \in counted : line[c] \in UsagesOf(c)
           /\ ReadPerfData(line)
    /\ xeLast' = CurrentValues
    /\ xeWindow' = [e \in xePresent |-> NoTicks]
    /\ xeRestarted' = FALSE
    /\ UNCHANGED <<xeAt, xePresent, xeTicks, xeFound, xeUsed>>

\* The helper fails to read, or is told to end; the card keeps what it showed.
XeHelperEnds ==
    /\ xeAt = "looping"
    /\ xeAt' = "off"
    /\ xeFound' = {}
    /\ xeUsed' = {}
    /\ xeLast' = [e \in {} |-> NoTicks]
    /\ xeTicks' = [e \in xePresent |-> NoTicks]
    /\ xeWindow' = xeTicks'
    /\ xeRestarted' = FALSE
    /\ UNCHANGED <<xePresent, xeShown>>

XeTicksLeft == SumFunction([d \in xePresent |-> xeTicks[d].total]) < MaxXeTicks

\* An engine that is looked at is busy or idle for a tick.
XeTick(e, busy) ==
    /\ xeAt = "looping"
    /\ XeTicksLeft
    /\ LET after(t) == [active |-> t.active + busy, total |-> t.total + 1] IN
       /\ xeTicks' = [xeTicks EXCEPT ![e] = after(@)]
       /\ xeWindow' = IF xeRestarted THEN xeWindow ELSE [xeWindow EXCEPT ![e] = after(@)]
    /\ UNCHANGED <<xeAt, xePresent, xeFound, xeUsed, xeLast, xeShown, xeRestarted>>

\* A reset of the card: its counters begin again.  The next line notices only if
\* it finds a smaller number; else a usage may be anything, over 100 % as well.
XeReset ==
    /\ xeAt = "looping"
    /\ ~xeRestarted
    /\ xeTicks' = [e \in xePresent |-> NoTicks]
    /\ xeRestarted' = TRUE
    /\ xeWindow' = [e \in xePresent |-> NoTicks]
    /\ UNCHANGED <<xeAt, xePresent, xeFound, xeUsed, xeLast, xeShown>>

XeCountersNext ==
    \/ XeProbe
    \/ \E S \in SUBSET xeFound : XeOpen(S)
    \/ XeLine
    \/ XeHelperEnds
    \/ \E e \in xeUsed, busy \in 0 .. 1 : XeTick(e, busy)
    \/ XeReset

-----------------------------------------------------------------------------

\* Of a card whose engines are numbered without gaps all are found, also those of a
\* GT that lacks the first classes, as media GTs do.
WithoutGaps(P) ==
    \A e \in P :
        /\ \A i \in 0 .. e.instance : [e EXCEPT !.instance = i] \in P
        /\ \A g \in 0 .. e.gt : \E d \in P : d.gt = g
AllEnginesFound == xeAt # "off" /\ WithoutGaps(xePresent) => xeFound = xePresent

\* A new number on the card is the share of the ticks since the helper's last line
\* in which the class's engines were busy, those that ticked counted alike, as doubles
\* have it, unless the card was reset in between.
WindowSum(field, E) == SumFunction([e \in E |-> xeWindow[e][field]])
XeUsageIsShare ==
    [][\A c \in Exposed :
           xeShown'[c] # xeShown[c] /\ ~xeRestarted =>
               LET E == {e \in xeUsed : e.class = c} IN
               xeShown'[c] \in
                   PercentsOf(WindowSum("active", E), WindowSum("total", E))]_xeCounterVars
=============================================================================
