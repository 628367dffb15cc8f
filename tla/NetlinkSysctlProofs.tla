------------------------- MODULE NetlinkSysctlProofs -------------------------
(***************************************************************************)
(* Proofs of the safety properties of the network plugin's two backends    *)
(* that ask the kernel, for any links, interfaces and sensors.             *)
(*                                                                         *)
(* Sysctl: a total is only kept while its timer runs (TickedTotals), so no *)
(* time passes it by.  RtNetlink: a total without a known gap belongs to a *)
(* connected device with a subscriber, which every complete frame reads    *)
(* (DeviceSound); so no frame leaves a gap that is not known.              *)
(***************************************************************************)
EXTENDS RtNetlink, Sysctl, TLAPS

TickedTotals == sysTotal \subseteq sysTimer

SysInv ==
    /\ SysTypeOK
    /\ SysTicksIffWanted
    /\ TickedTotals
    /\ SysNoRateAcrossGap

\* What holds of the device of link l.
DeviceSound(e, l) ==
    /\ e \in RtObjects
    /\ ~e.wrong
    /\ e.gap # "other"
    /\ e.total /\ e.gap # "known" => e.connected /\ RtSubscribed(l, RtSensors)

DevicesSound == \A l \in DOMAIN rtDevices : DeviceSound(rtDevices[l], l)

ReadIsKnown ==
    /\ rtDevices = [l \in DOMAIN rtDevices |-> rtDevices[l]]
    /\ rtRead \subseteq DOMAIN rtDevices
    /\ ~rtStarted => rtRead = {}

RtInv ==
    /\ RtTypeOK
    /\ DevicesSound
    /\ ReadIsKnown
    /\ RtAddressShownOnce

-----------------------------------------------------------------------------
(* Sysctl                                                                  *)

\* Before the plugin starts there is nothing to sample.
LEMMA SysInitSound == SysInit => SysInv
  BY DEF SysInit, SysInv, SysTypeOK, SysTicksIffWanted, TickedTotals, SysNoRateAcrossGap,
     SysSubscribed

\* Every step of the backend and of the kernel keeps the invariant.
LEMMA SysNextSound ==
  ASSUME SysInv, [SysNext]_sysVars
  PROVE  SysInv'
<1> USE DEF SysInv, SysTypeOK, SysTicksIffWanted, TickedTotals, SysNoRateAcrossGap,
           SysSubscribed
<1>1. CASE SysStart
  BY <1>1 DEF SysStart
<1>2. ASSUME NEW i \in sysDevices, SysTick(i) \/ SysTickFails(i)
      PROVE  SysInv'
  BY <1>2 DEF SysTick, SysTickFails
<1>3. ASSUME NEW i \in sysDevices, SysTraffic(i)
      PROVE  SysInv'
  BY <1>3 DEF SysTraffic
<1>4. ASSUME NEW i \in sysDevices, NEW s \in SysStats, SysSubscribe(i, s)
      PROVE  SysInv'
  <2> USE <1>4 DEF SysSubscribe
  <2>1. SysTypeOK' /\ TickedTotals' /\ SysNoRateAcrossGap'
    OBVIOUS
  <2>2. SysTicksIffWanted'
    OBVIOUS
  <2> QED
    BY <2>1, <2>2
<1>5. ASSUME NEW i \in sysDevices, NEW s \in SysStats, SysUnsubscribe(i, s)
      PROVE  SysInv'
  <2> USE <1>5 DEF SysUnsubscribe, Stops
  <2>1. SysTypeOK' /\ TickedTotals' /\ SysNoRateAcrossGap'
    OBVIOUS
  <2>2. \A j \in sysDevices : j # i => (SysSubscribed(j)' <=> SysSubscribed(j))
    OBVIOUS
  <2>3. SysTicksIffWanted'
    BY <2>2
  <2> QED
    BY <2>1, <2>3
<1>6. CASE SysTime
  BY <1>6 DEF SysTime
<1>7. CASE UNCHANGED sysVars
  BY <1>7 DEF sysVars
<1> QED
  BY <1>1, <1>2, <1>3, <1>4, <1>5, <1>6, <1>7 DEF SysNext

\* Every reachable state of the sysctl backend is sound.
THEOREM SysInvariance == SysSpec => []SysInv
  BY SysInitSound, SysNextSound, PTL DEF SysSpec

\* The timer of a device runs exactly while one of its statistics is subscribed, and
\* no rate is computed from a total that time without ticks passed by.
THEOREM SysAlwaysSampling == SysSpec => []SysSampling
<1>1. SysInv => SysSampling
  BY DEF SysInv, SysSampling
<1> QED
  BY <1>1, SysInvariance, PTL

-----------------------------------------------------------------------------
(* RtNetlink                                                               *)

\* A known gap excuses the total and changes nothing else.
LEMMA GapKnown ==
  ASSUME NEW l, NEW e, DeviceSound(e, l)
  PROVE  /\ Gap(e, "known") \in RtObjects
         /\ ~Gap(e, "known").wrong
         /\ Gap(e, "known").gap # "other"
         /\ Gap(e, "known").total => Gap(e, "known").gap = "known"
         /\ Gap(e, "known").address = e.address
  BY DEF DeviceSound, RtObjects, Gap

\* A frame leaves each device it looks at sound, whoever subscribed to what.
LEMMA UpdateSound ==
  ASSUME NEW l \in Links, NEW e, DeviceSound(e, l)
  PROVE  DeviceSound(UpdateDevice(e, l), l)
<1> DEFINE up == carrier[l] = "up"
           left == RtSubscribed(l, RtStats)
           c == [e EXCEPT !.connected = up]
           d == IF e.connected /\ ~up THEN ResetStatistics(c, left) ELSE c
<1>1. left => RtSubscribed(l, RtSensors)
  BY RtAssumption DEF RtSubscribed
<1>2. /\ d \in RtObjects /\ ~d.wrong /\ d.gap # "other"
      /\ d.connected = up
      /\ d.total => e.total /\ d.gap = e.gap
      /\ d.total /\ e.connected /\ ~up => left
  BY DEF DeviceSound, RtObjects, ResetStatistics
<1> HIDE DEF d, c
<1>3. CASE up /\ RtSubscribed(l, RtSensors)
  <2>1. UpdateDevice(e, l) = ReadLink(d, l)
    BY <1>3 DEF UpdateDevice, d, c
  <2> DEFINE w == (d.total /\ d.gap = "other")
             t == (l \in moved)
             a == (addressOf = l)
             r == [[d EXCEPT !.wrong = w, !.total = t, !.gap = "none"] EXCEPT !.address = a]
  <2>2. ReadLink(d, l) = r
    BY DEF ReadLink, AddressOf
  <2>3. w \in BOOLEAN /\ ~w /\ t \in BOOLEAN /\ a \in BOOLEAN
    BY <1>2
  <2> HIDE DEF w, t, a
  <2>4. DeviceSound(r, l)
    BY <1>2, <1>3, <2>3 DEF DeviceSound, RtObjects
  <2> QED
    BY <2>1, <2>2, <2>4
<1>4. CASE ~up /\ left
  <2>1. UpdateDevice(e, l) = Gap(d, "known")
    BY <1>4 DEF UpdateDevice, d, c
  <2>2. DeviceSound(Gap(d, "known"), l)
    BY <1>2 DEF DeviceSound, RtObjects, Gap
  <2> QED
    BY <2>1, <2>2
<1>5. CASE ~(up /\ RtSubscribed(l, RtSensors)) /\ ~(~up /\ left)
  <2>1. UpdateDevice(e, l) = Gap(d, "other")
    BY <1>5 DEF UpdateDevice, d, c
  <2>2. d.total => d.gap = "known"
    BY <1>1, <1>2, <1>5 DEF DeviceSound
  <2>3. DeviceSound(Gap(d, "other"), l)
    BY <1>2, <2>2 DEF DeviceSound, Gap
  <2> QED
    BY <2>1, <2>3
<1> QED
  BY <1>3, <1>4, <1>5

\* A new device is sound, connected or not.
LEMMA NewSound ==
  ASSUME NEW l
  PROVE  DeviceSound(NewRt, l)
  BY DEF DeviceSound, NewRt, RtObjects

\* Gap keeps what is shown.
LEMMA GapSound ==
  ASSUME NEW l, NEW e, DeviceSound(e, l)
  PROVE  DeviceSound(Gap(e, "known"), l) /\ Gap(e, "known").address = e.address
  BY GapKnown DEF DeviceSound

\* Before the backend starts there is no device.
LEMMA RtInitSound == RtInit => RtInv
<1> SUFFICES ASSUME RtInit PROVE RtInv
  OBVIOUS
<1> USE DEF RtInit
<1>1. RtTypeOK
  BY DEF RtTypeOK
<1>2. DevicesSound /\ ReadIsKnown /\ RtAddressShownOnce
  BY DEF DevicesSound, ReadIsKnown, RtAddressShownOnce
<1> QED
  BY <1>1, <1>2 DEF RtInv

\* A step that marks some totals with a known gap, or none, and keeps the rest.
LEMMA GapsKeepSound ==
  ASSUME RtInv, NEW L,
         rtDevices' = [k \in DOMAIN rtDevices |->
             IF k \in L THEN Gap(rtDevices[k], "known") ELSE rtDevices[k]],
         UNCHANGED <<rtStarted, rtHeld, rtLeaked, rtRead>>
  PROVE  /\ DOMAIN rtDevices' = DOMAIN rtDevices
         /\ \A k \in DOMAIN rtDevices : rtDevices'[k] \in RtObjects
         /\ DevicesSound' /\ ReadIsKnown' /\ RtAddressShownOnce'
<1>1. DOMAIN rtDevices' = DOMAIN rtDevices
  OBVIOUS
<1>2. ASSUME NEW k \in DOMAIN rtDevices
      PROVE  DeviceSound(rtDevices'[k], k) /\ rtDevices'[k].address = rtDevices[k].address
  <2>1. DeviceSound(rtDevices[k], k)
    BY DEF RtInv, DevicesSound
  <2> QED
    BY <2>1, GapSound
<1>3. \A k : RtSubscribed(k, RtSensors)' <=> RtSubscribed(k, RtSensors)
  BY DEF RtSubscribed
<1>4. DevicesSound'
  BY <1>1, <1>2, <1>3 DEF DevicesSound, DeviceSound
<1>5. ReadIsKnown'
  BY <1>1 DEF ReadIsKnown, RtInv
<1>6. RtAddressShownOnce'
  BY <1>2 DEF RtAddressShownOnce, ReadIsKnown, RtInv
<1> QED
  BY <1>1, <1>2, <1>4, <1>5, <1>6 DEF DeviceSound

\* Devices, subscriptions and what was read stay as they are.
LEMMA KeepsSound ==
  ASSUME RtInv, UNCHANGED <<rtStarted, rtDevices, rtHeld, rtLeaked, rtRead>>
  PROVE  DevicesSound' /\ ReadIsKnown' /\ RtAddressShownOnce'
  BY DEF RtInv, DevicesSound, DeviceSound, ReadIsKnown, RtAddressShownOnce, RtSubscribed

\* The kernel's steps: a vanished link leaves a known gap.
LEMMA KernelSound ==
  ASSUME RtInv, NEW l \in Links \union {NoLink}, NEW c \in {"none", "down", "up"},
         \/ l \in Links /\ LinkChanges(l, c)
         \/ l \in Links /\ LinkMoves(l)
         \/ AddressMoves(l)
  PROVE  RtInv'
<1> USE DEF RtInv, RtTypeOK
<1>1. CASE l \in Links /\ LinkChanges(l, c)
  <2> DEFINE L == IF c = "none" THEN {l} ELSE {}
  <2> USE <1>1 DEF LinkChanges
  <2>1. rtDevices' = [k \in DOMAIN rtDevices |->
            IF k \in L THEN Gap(rtDevices[k], "known") ELSE rtDevices[k]]
    OBVIOUS
  <2>2. UNCHANGED <<rtStarted, rtHeld, rtLeaked, rtRead>>
    OBVIOUS
  <2> HIDE DEF L
  <2>3. /\ DOMAIN rtDevices' = DOMAIN rtDevices
        /\ \A k \in DOMAIN rtDevices : rtDevices'[k] \in RtObjects
        /\ DevicesSound' /\ ReadIsKnown' /\ RtAddressShownOnce'
    BY <2>1, <2>2, GapsKeepSound
  <2>4. carrier' \in [Links -> {"none", "down", "up"}]
    OBVIOUS
  <2>5. moved' \subseteq Links /\ addressOf' \in Links \union {NoLink}
    OBVIOUS
  <2>6. RtTypeOK'
    BY <2>2, <2>3, <2>4, <2>5
  <2> QED
    BY <2>3, <2>6
<1>2. CASE l \in Links /\ LinkMoves(l)
  <2>1. RtTypeOK'
    BY <1>2 DEF LinkMoves
  <2>2. DevicesSound' /\ ReadIsKnown' /\ RtAddressShownOnce'
    BY <1>2, KeepsSound DEF LinkMoves
  <2> QED
    BY <2>1, <2>2
<1>3. CASE AddressMoves(l)
  <2>1. RtTypeOK'
    BY <1>3 DEF AddressMoves
  <2>2. DevicesSound' /\ ReadIsKnown' /\ RtAddressShownOnce'
    BY <1>3, KeepsSound DEF AddressMoves
  <2> QED
    BY <2>1, <2>2
<1> QED
  BY <1>1, <1>2, <1>3

\* A subscription only adds to what devices are read for.
LEMMA RtSubscribeSound ==
  ASSUME RtInv, NEW l \in Links, NEW s \in RtSensors, RtSubscribe(l, s)
  PROVE  RtInv'
<1> USE DEF RtSubscribe, kernelVars
<1>1. RtTypeOK'
  BY DEF RtInv, RtTypeOK
<1>2. \A k : RtSubscribed(k, RtSensors) => RtSubscribed(k, RtSensors)'
  BY DEF RtSubscribed
<1>3. DevicesSound'
  BY <1>2 DEF RtInv, DevicesSound, DeviceSound
<1>4. ReadIsKnown' /\ RtAddressShownOnce'
  BY DEF RtInv, ReadIsKnown, RtAddressShownOnce
<1> QED
  BY <1>1, <1>3, <1>4 DEF RtInv

\* Who leaves takes the total along, unless another statistic is subscribed, or
\* leaves a total behind that was read for other sensors.
LEMMA RtUnsubscribeSound ==
  ASSUME RtInv, NEW l \in Links, NEW s \in RtSensors, RtUnsubscribe(l, s)
  PROVE  RtInv'
<1> DEFINE left == \E t \in RtStats : <<l, t>> \in rtHeld' \union rtLeaked
           New(e) == IF s \in RtStats THEN ResetStatistics(e, left)
                     ELSE IF left THEN e ELSE Gap(e, "known")
<1>1. /\ rtHeld' = rtHeld \ {<<l, s>>}
      /\ UNCHANGED <<rtStarted, kernelVars, rtLeaked, rtRead>>
      /\ rtDevices' = [rtDevices EXCEPT ![l] = New(rtDevices[l])]
  BY DEF RtUnsubscribe
<1>2. left => RtSubscribed(l, RtSensors)'
  BY <1>1, RtAssumption DEF RtSubscribed
<1>3. \A k : k # l => (RtSubscribed(k, RtSensors)' <=> RtSubscribed(k, RtSensors))
  BY <1>1 DEF RtSubscribed
<1>4. ASSUME NEW e, DeviceSound(e, l)
      PROVE  /\ New(e) \in RtObjects /\ ~New(e).wrong /\ New(e).gap # "other"
             /\ New(e).total /\ New(e).gap # "known" =>
                    New(e).connected /\ RtSubscribed(l, RtSensors)'
             /\ New(e).address = e.address
  <2>1. CASE s \in RtStats /\ ~left
    BY <1>4, <2>1 DEF ResetStatistics, DeviceSound, RtObjects
  <2>2. CASE left
    BY <1>4, <1>2, <2>2 DEF ResetStatistics, DeviceSound
  <2>3. CASE s \notin RtStats /\ ~left
    BY <1>4, <2>3, GapKnown
  <2> QED
    BY <2>1, <2>2, <2>3
<1> HIDE DEF New, left
<1>5. DOMAIN rtDevices' = DOMAIN rtDevices
  BY <1>1 DEF RtInv, ReadIsKnown
<1>6. \A k \in DOMAIN rtDevices :
          rtDevices'[k] = IF k = l THEN New(rtDevices[k]) ELSE rtDevices[k]
  BY <1>1 DEF RtInv, ReadIsKnown
<1>7. \A k \in DOMAIN rtDevices : DeviceSound(rtDevices[k], k)
  BY DEF RtInv, DevicesSound
<1>8. DevicesSound'
  BY <1>3, <1>4, <1>5, <1>6, <1>7 DEF DevicesSound, DeviceSound
<1>9. \A k \in DOMAIN rtDevices : rtDevices'[k].address = rtDevices[k].address
  BY <1>4, <1>6, <1>7
<1>10. RtAddressShownOnce'
  BY <1>1, <1>9 DEF RtAddressShownOnce, RtInv, ReadIsKnown
<1>11. ReadIsKnown'
  BY <1>1, <1>5 DEF RtInv, ReadIsKnown
<1>12. RtTypeOK'
  <2>1. \A k \in DOMAIN rtDevices' : rtDevices'[k] \in RtObjects
    BY <1>8 DEF DevicesSound, DeviceSound
  <2> QED
    BY <1>1, <1>5, <2>1 DEF RtInv, RtTypeOK, kernelVars
<1> QED
  BY <1>8, <1>10, <1>11, <1>12 DEF RtInv

\* A complete frame leaves no gap that is not known, and gives an address to no
\* more than one of the devices it reads.
LEMMA UpdateLinksSound ==
  ASSUME RtInv, UpdateLinks, UNCHANGED rtStarted, rtStarted
  PROVE  RtInv'
<1> DEFINE seen == {l \in Links : carrier[l] # "none"}
           Device(l) == IF l \in DOMAIN rtDevices THEN rtDevices[l] ELSE NewRt
           gone == {h \in rtHeld : h[1] \in {l \in seen \intersect RtContainer :
                                               carrier[l] # "up"}}
<1>1. /\ rtDevices' = [l \in DOMAIN rtDevices \union seen |->
             IF l \in seen THEN UpdateDevice(Device(l), l) ELSE Gap(Device(l), "known")]
      /\ rtHeld' = rtHeld \ gone
      /\ rtLeaked' = rtLeaked \union gone
      /\ rtRead' = {l \in seen : carrier[l] = "up" /\ RtSubscribed(l, RtSensors)}
      /\ UNCHANGED kernelVars
  BY DEF UpdateLinks, Forget
<1>2. rtHeld' \union rtLeaked' = rtHeld \union rtLeaked
  BY <1>1
<1>3. \A k : RtSubscribed(k, RtSensors)' <=> RtSubscribed(k, RtSensors)
  BY <1>2 DEF RtSubscribed
<1>4. \A l : DeviceSound(Device(l), l)
  BY NewSound DEF RtInv, DevicesSound
<1>5. ASSUME NEW l \in seen
      PROVE  DeviceSound(UpdateDevice(Device(l), l), l)
  BY <1>4, UpdateSound
<1>6. \A l : DeviceSound(Gap(Device(l), "known"), l)
  BY <1>4, GapSound
<1>7. ASSUME NEW l \in rtRead'
      PROVE  rtDevices'[l].address => addressOf = l
  <2>1. l \in seen /\ rtDevices'[l] = UpdateDevice(Device(l), l)
    BY <1>1
  <2>2. PICK d : UpdateDevice(Device(l), l) = ReadLink(d, l)
    BY <1>1 DEF UpdateDevice
  <2>3. ReadLink(d, l).address => addressOf = l
    <3> DEFINE f == [d EXCEPT !.wrong = (d.total /\ d.gap = "other"),
                              !.total = (l \in moved), !.gap = "none"]
               a == (addressOf = l)
    <3>1. ReadLink(d, l) = [f EXCEPT !.address = a]
      BY DEF ReadLink, AddressOf
    <3>2. UpdateDevice(Device(l), l) \in RtObjects
      BY <1>5, <2>1 DEF DeviceSound
    <3>3. "address" \in DOMAIN [f EXCEPT !.address = a]
      BY <2>2, <3>1, <3>2 DEF RtObjects
    <3> HIDE DEF f, a
    <3>4. [f EXCEPT !.address = a].address = a
      BY <3>3
    <3> QED
      BY <3>1, <3>4 DEF a
  <2> QED
    BY <2>1, <2>2, <2>3
<1> HIDE DEF Device, gone
<1>8. /\ DOMAIN rtDevices' = DOMAIN rtDevices \union seen
      /\ \A l \in DOMAIN rtDevices' : DeviceSound(rtDevices'[l], l)
  BY <1>1, <1>5, <1>6
<1>9. DevicesSound'
  BY <1>3, <1>8 DEF DevicesSound, DeviceSound
<1>10. ReadIsKnown'
  <2>1. rtDevices' = [l \in DOMAIN rtDevices' |-> rtDevices'[l]]
    BY <1>1, <1>8
  <2> QED
    BY <1>1, <1>8, <2>1 DEF ReadIsKnown
<1>11. RtAddressShownOnce'
  BY <1>7 DEF RtAddressShownOnce
<1>12. RtTypeOK'
  <2>1. \A l \in DOMAIN rtDevices' : rtDevices'[l] \in RtObjects
    BY <1>8 DEF DeviceSound
  <2>2. /\ rtHeld' \subseteq Links \X RtSensors
        /\ rtLeaked' \subseteq Links \X RtSensors
    BY <1>2 DEF RtInv, RtTypeOK
  <2> QED
    BY <1>1, <1>8, <2>1, <2>2 DEF RtInv, RtTypeOK, kernelVars
<1> QED
  BY <1>9, <1>10, <1>11, <1>12 DEF RtInv

\* A frame that failed leaves a known gap everywhere.
LEMMA UpdateFailsSound ==
  ASSUME RtInv, UpdateFails, UNCHANGED rtStarted
  PROVE  RtInv'
<1>1. rtDevices' = [k \in DOMAIN rtDevices |->
          IF k \in DOMAIN rtDevices THEN Gap(rtDevices[k], "known") ELSE rtDevices[k]]
  BY DEF UpdateFails
<1>2. UNCHANGED <<rtStarted, rtHeld, rtLeaked, rtRead>>
  BY DEF UpdateFails
<1>3. /\ DOMAIN rtDevices' = DOMAIN rtDevices
      /\ \A k \in DOMAIN rtDevices : rtDevices'[k] \in RtObjects
      /\ DevicesSound' /\ ReadIsKnown' /\ RtAddressShownOnce'
  BY <1>1, <1>2, GapsKeepSound
<1>4. RtTypeOK'
  BY <1>2, <1>3 DEF RtInv, RtTypeOK, UpdateFails, kernelVars
<1> QED
  BY <1>3, <1>4 DEF RtInv

\* What start() finds is new.
LEMMA RtStartSound ==
  ASSUME RtInv, RtStart
  PROVE  RtInv'
<1> DEFINE Found(l) == [NewRt EXCEPT !.connected = (carrier'[l] = "up")]
<1>1. \/ rtDevices' = [l \in {} |-> NewRt]
      \/ rtDevices' = [l \in {k \in Links : carrier'[k] # "none"} |-> Found(l)]
  BY DEF RtStart
<1>2. ASSUME NEW l
      PROVE  /\ Found(l) \in RtObjects /\ ~Found(l).wrong /\ Found(l).gap # "other"
             /\ ~Found(l).total
  <2> DEFINE c == (carrier'[l] = "up")
  <2>1. c \in BOOLEAN
    OBVIOUS
  <2> HIDE DEF c
  <2>2. /\ [NewRt EXCEPT !.connected = c] \in RtObjects
        /\ ~[NewRt EXCEPT !.connected = c].wrong
        /\ [NewRt EXCEPT !.connected = c].gap # "other"
        /\ ~[NewRt EXCEPT !.connected = c].total
    BY <2>1 DEF NewRt, RtObjects
  <2> QED
    BY <2>2 DEF c
<1> HIDE DEF Found
<1>3. /\ DOMAIN rtDevices' \subseteq Links
      /\ rtDevices' = [l \in DOMAIN rtDevices' |-> rtDevices'[l]]
      /\ \A l \in DOMAIN rtDevices' : rtDevices'[l] = Found(l)
  BY <1>1
<1>4. DevicesSound'
  BY <1>2, <1>3 DEF DevicesSound, DeviceSound
<1>5. rtRead' = {}
  BY DEF RtStart, RtInv, ReadIsKnown
<1>6. ReadIsKnown' /\ RtAddressShownOnce'
  BY <1>3, <1>5 DEF ReadIsKnown, RtAddressShownOnce
<1>7. RtTypeOK'
  BY <1>2, <1>3, <1>5 DEF RtInv, RtTypeOK, RtStart
<1> QED
  BY <1>4, <1>6, <1>7 DEF RtInv

\* Every step of the backend, the kernel and the clients keeps the invariant.
LEMMA RtNextSound ==
  ASSUME RtInv, [RtNext]_rtVars
  PROVE  RtInv'
<1>1. CASE RtStart
  BY <1>1, RtStartSound
<1>2. ASSUME NEW l \in Links, NEW c \in {"none", "down", "up"}, LinkChanges(l, c)
      PROVE  RtInv'
  BY <1>2, KernelSound
<1>3. ASSUME NEW l \in Links, LinkMoves(l)
      PROVE  RtInv'
  BY <1>3, KernelSound
<1>4. ASSUME NEW l \in Links \union {NoLink}, AddressMoves(l)
      PROVE  RtInv'
  BY <1>4, KernelSound
<1>5. ASSUME NEW l \in Links, NEW s \in RtSensors, RtSubscribe(l, s)
      PROVE  RtInv'
  BY <1>5, RtSubscribeSound
<1>6. ASSUME NEW l \in Links, NEW s \in RtSensors, RtUnsubscribe(l, s)
      PROVE  RtInv'
  BY <1>6, RtUnsubscribeSound
<1>7. CASE RtFrame
  BY <1>7, UpdateLinksSound, UpdateFailsSound DEF RtFrame
<1>8. CASE UNCHANGED rtVars
  <2>1. DevicesSound' /\ ReadIsKnown' /\ RtAddressShownOnce'
    BY <1>8, KeepsSound DEF rtVars
  <2>2. RtTypeOK'
    BY <1>8 DEF rtVars, RtInv, RtTypeOK
  <2> QED
    BY <2>1, <2>2 DEF RtInv
<1> QED
  BY <1>1, <1>2, <1>3, <1>4, <1>5, <1>6, <1>7, <1>8 DEF RtNext

\* Every reachable state of the rtnetlink backend is sound.
THEOREM RtInvariance == RtSpec => []RtInv
  BY RtInitSound, RtNextSound, PTL DEF RtSpec

\* Whatever links, clients and frames do, in whatever order: no rate spans a gap
\* the code could not have known of by its resets, and an address is shown once.
THEOREM RtAlwaysReadings == RtSpec => []RtReadings
<1>1. RtInv => RtReadings
  BY DEF RtInv, RtReadings, RtRatesCoverInterval, DevicesSound, DeviceSound
<1> QED
  BY <1>1, RtInvariance, PTL
=============================================================================
