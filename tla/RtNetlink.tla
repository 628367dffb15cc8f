------------------------------ MODULE RtNetlink ------------------------------
(***************************************************************************)
(* The rtnetlink backend (plugins/network/RtNetlinkBackend.cpp): every     *)
(* frame takes a snapshot of the kernel's links, addresses and routes and  *)
(* brings each device up to date with it.                                  *)
(*                                                                         *)
(* Totals are modelled as zero or not: a zero is what tells update() that  *)
(* there is nothing to compare with.                                       *)
(***************************************************************************)
EXTENDS Naturals, FiniteSets

CONSTANTS
    Links,      \* names of hardware links of type ether
    Pluggable,  \* those that may vanish and come back
    RtSensors,  \* a device's sensors
    RtStats,    \* the statistics among them (statisticSensors)
    RtMoving,   \* bound: the links that traffic comes over
    RtAsked,    \* bound: the sensors that clients subscribe to
    NoLink

ASSUME RtAssumption ==
    /\ RtStats \subseteq RtSensors
    /\ RtAsked \subseteq Links \X RtSensors
    /\ NoLink \notin Links

VARIABLES
    rtStarted,   \* start() was called
    carrier,     \* the kernel: of each link "none", "down" or "up"
    moved,       \* the kernel: the links whose counters are not zero
    addressOf,   \* the kernel: the link that has the address, or NoLink
    rtDevices,   \* m_devices: link -> RtNetlinkDevice
    rtHeld,      \* the sensors clients have booked
    rtLeaked,    \* those whose subscription the clients forgot
    rtRead       \* history: the devices the last complete frame read

rtVars == <<rtStarted, carrier, moved, addressOf, rtDevices, rtHeld, rtLeaked, rtRead>>

\* gap: frames restarted the timer after the total was read; "known" for the
\* reasons given below.  wrong: the last rate spans such a gap of another kind.
RtObjects == [connected : BOOLEAN, total : BOOLEAN, address : BOOLEAN,
              gap : {"none", "known", "other"}, wrong : BOOLEAN]

NewRt == [connected |-> FALSE, total |-> FALSE, address |-> FALSE,
          gap |-> "none", wrong |-> FALSE]

RtTypeOK ==
    /\ rtStarted \in BOOLEAN
    /\ carrier \in [Links -> {"none", "down", "up"}]
    /\ moved \subseteq Links
    /\ addressOf \in Links \union {NoLink}
    /\ DOMAIN rtDevices \subseteq Links
    /\ \A l \in DOMAIN rtDevices : rtDevices[l] \in RtObjects
    /\ rtHeld \subseteq Links \X RtSensors
    /\ rtLeaked \subseteq Links \X RtSensors
    /\ rtRead \subseteq Links

RtSubscribed(l, S) == \E s \in S : <<l, s>> \in rtHeld \union rtLeaked

\* The plugin's container has the devices that are connected.
RtContainer == {l \in DOMAIN rtDevices : rtDevices[l].connected}

RtInit ==
    /\ rtStarted = FALSE
    /\ carrier = [l \in Links |-> "none"]
    /\ moved = {}
    /\ addressOf = NoLink
    /\ rtDevices = [l \in {} |-> NewRt]
    /\ rtHeld = {}
    /\ rtLeaked = {}
    /\ rtRead = {}

-----------------------------------------------------------------------------
(* The kernel                                                              *)

kernelVars == <<carrier, moved, addressOf>>

Gap(e, why) == IF e.total /\ e.gap # "known" THEN [e EXCEPT !.gap = why] ELSE e

\* A link appears, vanishes, goes up or down.  A link that vanished may come
\* back under its name, with other counters.
LinkChanges(l, c) ==
    /\ rtStarted
    /\ carrier[l] # c
    /\ carrier[l] = "none" => c = "down"
    /\ c = "none" => l \in Pluggable
    /\ carrier' = [carrier EXCEPT ![l] = c]
    /\ moved' = IF c = "none" THEN moved \ {l} ELSE moved
    /\ addressOf' = IF c = "none" /\ addressOf = l THEN NoLink ELSE addressOf
    /\ rtDevices' = [k \in DOMAIN rtDevices |->
           IF k = l /\ c = "none" THEN Gap(rtDevices[k], "known") ELSE rtDevices[k]]
    /\ UNCHANGED <<rtStarted, rtHeld, rtLeaked, rtRead>>

LinkMoves(l) ==
    /\ rtStarted
    /\ carrier[l] = "up"
    /\ l \in RtMoving \ moved
    /\ moved' = moved \union {l}
    /\ UNCHANGED <<rtStarted, carrier, addressOf, rtDevices, rtHeld, rtLeaked, rtRead>>

AddressMoves(l) ==
    /\ rtStarted
    /\ addressOf # l
    /\ l # NoLink => carrier[l] = "up"
    /\ addressOf' = l
    /\ UNCHANGED <<rtStarted, carrier, moved, rtDevices, rtHeld, rtLeaked, rtRead>>

-----------------------------------------------------------------------------
(* Clients and frames                                                      *)

RtSubscribe(l, s) ==
    /\ l \in RtContainer
    /\ <<l, s>> \in RtAsked
    /\ ~RtSubscribed(l, {s})
    /\ rtHeld' = rtHeld \union {<<l, s>>}
    /\ UNCHANGED <<rtStarted, kernelVars, rtDevices, rtLeaked, rtRead>>

KeepsTotal(e, left) == e

\* resetStatistics(); left: some statistics sensor is still subscribed.
ResetStatistics(e, left) == IF left THEN e ELSE [e EXCEPT !.total = FALSE, !.gap = "none"]

\* Only the statistics sensors are connected to resetStatistics().  A total that
\* was read for another sensor outlives its subscription: a known gap.
RtUnsubscribe(l, s) ==
    /\ <<l, s>> \in rtHeld
    /\ rtHeld' = rtHeld \ {<<l, s>>}
    /\ LET left == \E t \in RtStats : <<l, t>> \in rtHeld' \union rtLeaked IN
       rtDevices' = [rtDevices EXCEPT ![l] =
           IF s \in RtStats THEN ResetStatistics(@, left)
           ELSE IF left THEN @ ELSE Gap(@, "known")]
    /\ UNCHANGED <<rtStarted, kernelVars, rtLeaked, rtRead>>

\* Device l's share of the snapshot: the addresses are emptied and read again.
ReadAddress(e, l) == [e EXCEPT !.address = @ \/ addressOf = l]
AddressOf(e, l) == [e EXCEPT !.address = (addressOf = l)]

ReadLink(e, l) ==
    AddressOf([e EXCEPT !.wrong = (e.total /\ e.gap = "other"),
                        !.total = (l \in moved), !.gap = "none"], l)

\* RtNetlinkDevice::update(); a device that goes offline with subscribers keeps
\* its total: a known gap.
UpdateDevice(e, l) ==
    LET up == carrier[l] = "up"
        left == RtSubscribed(l, RtStats)
        c == [e EXCEPT !.connected = up]
        d == IF e.connected /\ ~up THEN ResetStatistics(c, left) ELSE c
    IN IF up /\ RtSubscribed(l, RtSensors) THEN ReadLink(d, l)
       ELSE Gap(d, IF ~up /\ left THEN "known" ELSE "other")

\* deviceRemoved() makes the clients forget what they subscribed to.
Forget(L) ==
    LET gone == {h \in rtHeld : h[1] \in L} IN
    /\ rtHeld' = rtHeld \ gone
    /\ rtLeaked' = rtLeaked \union gone

\* RtNetlinkBackend::update(): a device whose link vanished is not looked at.
UpdateLinks ==
    LET seen == {l \in Links : carrier[l] # "none"}
        Device(l) == IF l \in DOMAIN rtDevices THEN rtDevices[l] ELSE NewRt
    IN /\ rtDevices' = [l \in DOMAIN rtDevices \union seen |->
              IF l \in seen THEN UpdateDevice(Device(l), l) ELSE Gap(Device(l), "known")]
       /\ Forget({l \in seen \intersect RtContainer : carrier[l] # "up"})
       /\ rtRead' = {l \in seen : carrier[l] = "up" /\ RtSubscribed(l, RtSensors)}
       /\ UNCHANGED kernelVars

\* The timer is restarted before the kernel is asked.
UpdateFails ==
    /\ rtDevices' = [l \in DOMAIN rtDevices |-> Gap(rtDevices[l], "known")]
    /\ UNCHANGED <<kernelVars, rtHeld, rtLeaked, rtRead>>

\* start() restarts a timer that never ran, which may return anything: the first
\* update() is skipped if it is not positive.
RtStart ==
    /\ ~rtStarted
    /\ rtStarted' = TRUE
    /\ carrier' \in {c \in [Links -> {"none", "down", "up"}] :
                       \A l \in Links \ Pluggable : c[l] # "none"}
    /\ rtDevices' \in {[l \in {} |-> NewRt],
                       [l \in {k \in Links : carrier'[k] # "none"} |->
                            [NewRt EXCEPT !.connected = (carrier'[l] = "up")]]}
    /\ UNCHANGED <<moved, addressOf, rtHeld, rtLeaked, rtRead>>

RtFrame == rtStarted /\ UNCHANGED rtStarted /\ (UpdateLinks \/ UpdateFails)

RtNext ==
    \/ RtStart
    \/ \E l \in Links, c \in {"none", "down", "up"} : LinkChanges(l, c)
    \/ \E l \in Links : LinkMoves(l)
    \/ \E l \in Links \union {NoLink} : AddressMoves(l)
    \/ \E l \in Links, s \in RtSensors : RtSubscribe(l, s) \/ RtUnsubscribe(l, s)
    \/ RtFrame

RtSpec == RtInit /\ [][RtNext]_rtVars

-----------------------------------------------------------------------------
(* Properties                                                              *)

\* A rate is the growth over the time it is divided by, that since the last
\* frame, however its subscribers come and go.  The code knows of no other time:
\* after a frame that failed, a time offline, a vanished link or a subscription to
\* other sensors only, all of which leave the total alone, a rate spans more.
RtRatesCoverInterval == \A l \in DOMAIN rtDevices : ~rtDevices[l].wrong

\* An address that moves from link to link is shown by one of those a frame
\* reads, never by two: all are read from one snapshot and emptied before.
RtAddressShownOnce ==
    \A l, k \in rtRead : rtDevices[l].address /\ rtDevices[k].address => l = k
\* What a device shows after a frame is of that frame, and of no other device.
RtReadings == RtRatesCoverInterval /\ RtAddressShownOnce
=============================================================================
