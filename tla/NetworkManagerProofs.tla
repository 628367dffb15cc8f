------------------------ MODULE NetworkManagerProofs ------------------------
(***************************************************************************)
(* Proofs of the safety properties of NetworkManager, for any devices,     *)
(* statistics sensors and bounds.                                          *)
(*                                                                         *)
(* RegisteredIffConnected alone is not inductive: a reconnect must cancel  *)
(* the pending disconnect before the next frame acts on it, so a connected *)
(* device has none (NeverBoth). SubscribedIsSampled and NoRateAcrossGap    *)
(* speak of connected devices, but depend on what a disconnected one keeps *)
(* for its return: the promise to restore the timer (TimerPromised) and a  *)
(* total that is only kept when sampling goes on (TotalPromised).          *)
(*                                                                         *)
(* And of RefreshRate, for any devices on the one flag.  What a device     *)
(* remembers is what others last asked for or still in its queue, but for  *)
(* its slips (RateKept); and as long as nobody disturbs an exchange, a     *)
(* change of somebody's is alone under way and meets a lowered flag, which *)
(* one device on its own raises and lowers with its own calls (RateCalm).  *)
(***************************************************************************)
EXTENDS NetworkManager, RefreshRate, SequenceTheorems, TLAPS

ConnectedIsActive == m_connected = active \intersect m_devices

NeverBoth == m_connected \intersect m_pendingDisconnect = {}

(* Sampled now, or as soon as the connection is back.                      *)
Promised(d) ==
  d \in m_statisticsTimer \/ (d \notin m_connected /\ d \in m_restoreTimer)

TimerPromised == \A d \in m_devices : isSubscribed(d) => Promised(d)

TotalPromised ==
  \A d \in Devices : total[d] > 0 => d \in m_devices /\ Promised(d)

(* What a client can give back it has taken, and a deleted device has no   *)
(* subscribers left.                                                       *)
CountsSound ==
  /\ \A d \in Devices, s \in Stats : booked[d][s] <= count[d][s]
  /\ \A d \in Devices \ m_devices, s \in Stats : count[d][s] = 0

IInv ==
  /\ NmTypeOK
  /\ ConnectedIsActive
  /\ RegisteredIffConnected
  /\ NeverBoth
  /\ TimerPromised
  /\ TotalPromised
  /\ CountsSound
  /\ NoRateAcrossGap

-----------------------------------------------------------------------------

(* The initial state, in which NetworkManager knows no device, is sound.   *)
LEMMA InitSound == NmInit => IInv
  BY DEF NmInit, IInv, NmTypeOK, ConnectedIsActive, RegisteredIffConnected, NeverBoth,
     TimerPromised, TotalPromised, CountsSound, NoRateAcrossGap, Nobody

(* A lost connection keeps the promises: it stops the timer but remembers  *)
(* that it ran.                                                            *)
LEMMA ConnectionLostSound ==
  ASSUME IInv, NEW d \in Devices, ConnectionLost(d)
  PROVE  IInv'
<1> USE DEF IInv, ConnectionLost, nmVars, SetPending, flagVars, subscriberVars
<1>1. NmTypeOK'
  BY DEF NmTypeOK, ConnectedIsActive
<1>2. ConnectedIsActive'
  BY DEF NmTypeOK, ConnectedIsActive
<1>3. RegisteredIffConnected' /\ NeverBoth'
  BY DEF NmTypeOK, ConnectedIsActive, RegisteredIffConnected, NeverBoth
<1>4. TimerPromised'
  BY DEF NmTypeOK, TimerPromised, Promised, isSubscribed, ConnectedIsActive
<1>5. TotalPromised'
  BY DEF NmTypeOK, TotalPromised, Promised, ConnectedIsActive
<1>6. CountsSound' /\ NoRateAcrossGap'
  BY DEF NmTypeOK, CountsSound, NoRateAcrossGap
<1> QED
  BY <1>1, <1>2, <1>3, <1>4, <1>5, <1>6

(* A connection that comes up redeems the promise.                         *)
LEMMA ConnectionUpSound ==
  ASSUME IInv, NEW d \in Devices, ConnectionUp(d)
  PROVE  IInv'
<1> USE DEF IInv, ConnectionUp, CancelPending, RestoreTimer, Register, subscriberVars
<1>1. NmTypeOK'
  BY DEF NmTypeOK, ConnectedIsActive
<1>2. ConnectedIsActive'
  BY DEF NmTypeOK, ConnectedIsActive
<1>3. RegisteredIffConnected' /\ NeverBoth'
  BY DEF NmTypeOK, ConnectedIsActive, RegisteredIffConnected, NeverBoth
<1>4. TimerPromised'
  BY DEF NmTypeOK, TimerPromised, Promised, isSubscribed, ConnectedIsActive
<1>5. TotalPromised'
  BY DEF NmTypeOK, TotalPromised, Promised, ConnectedIsActive
<1>6. CountsSound' /\ NoRateAcrossGap'
  BY DEF NmTypeOK, CountsSound, NoRateAcrossGap
<1> QED
  BY <1>1, <1>2, <1>3, <1>4, <1>5, <1>6

(* A new device starts without subscribers, total or pending disconnect.   *)
LEMMA DeviceAddedSound ==
  ASSUME IInv, NEW d \in Devices, DeviceAdded(d)
  PROVE  IInv'
<1> USE DEF IInv, DeviceAdded, Register, externalVars, subscriberVars, samplingVars
<1>1. NmTypeOK' /\ ConnectedIsActive'
  BY DEF NmTypeOK, ConnectedIsActive
<1>2. RegisteredIffConnected' /\ NeverBoth'
  BY DEF NmTypeOK, ConnectedIsActive, RegisteredIffConnected, NeverBoth
<1>3. TimerPromised'
  BY DEF NmTypeOK, TimerPromised, Promised, isSubscribed, ConnectedIsActive, CountsSound
<1>4. TotalPromised'
  BY DEF NmTypeOK, TotalPromised, Promised, ConnectedIsActive
<1>5. CountsSound' /\ NoRateAcrossGap'
  BY DEF NmTypeOK, CountsSound, NoRateAcrossGap
<1> QED
  BY <1>1, <1>2, <1>3, <1>4, <1>5

(* A device that is unplugged leaves nothing behind, connected, pending or *)
(* neither.                                                                *)
LEMMA DeviceRemovedSound ==
  ASSUME IInv, NEW d \in Devices, DeviceRemoved(d)
  PROVE  IInv'
<1> USE DEF IInv, DeviceRemoved, Deregister, DisconnectedNow, ForgetBooks
<1>1. NmTypeOK'
  BY DEF NmTypeOK, RegisteredIffConnected, Nobody
<1>2. ConnectedIsActive'
  BY DEF NmTypeOK, ConnectedIsActive
<1>3. RegisteredIffConnected' /\ NeverBoth'
  BY DEF NmTypeOK, RegisteredIffConnected, NeverBoth
<1>4. TimerPromised'
  BY DEF NmTypeOK, TimerPromised, Promised, isSubscribed
<1>5. TotalPromised'
  BY DEF NmTypeOK, TotalPromised, Promised
<1>6. CountsSound'
  BY DEF NmTypeOK, CountsSound, Nobody
<1>7. NoRateAcrossGap'
  BY DEF NmTypeOK, NoRateAcrossGap
<1> QED
  BY <1>1, <1>2, <1>3, <1>4, <1>5, <1>6, <1>7

(* A subscriber's first act is to have the device sampled.                 *)
LEMMA SubscribeSound ==
  ASSUME IInv, NEW d \in Devices, NEW s \in Stats, Subscribe(d, s)
  PROVE  IInv'
<1> USE DEF IInv, Subscribe, externalVars, flagVars
<1>0. d \in m_devices
  BY DEF NmTypeOK, RegisteredIffConnected
<1>1. NmTypeOK'
  BY <1>0 DEF NmTypeOK
<1>2. ConnectedIsActive' /\ RegisteredIffConnected' /\ NeverBoth'
  BY DEF ConnectedIsActive, RegisteredIffConnected, NeverBoth
<1>3. TimerPromised'
  <2> SUFFICES ASSUME NEW e \in m_devices, isSubscribed(e)'
               PROVE  Promised(e)'
    BY DEF TimerPromised
  <2>1. CASE e = d /\ count[d][s] = 0
    BY <2>1 DEF Promised
  <2>2. CASE e = d /\ count[d][s] # 0
    <3>1. count[d][s] > 0
      BY <2>2 DEF NmTypeOK
    <3> QED
      BY <2>2, <3>1 DEF TimerPromised, isSubscribed, Promised
  <2>3. CASE e # d
    BY <2>3 DEF NmTypeOK, TimerPromised, isSubscribed, Promised
  <2> QED
    BY <2>1, <2>2, <2>3
<1>4. TotalPromised' /\ NoRateAcrossGap'
  BY DEF NmTypeOK, TotalPromised, Promised, NoRateAcrossGap
<1>5. CountsSound'
  BY <1>0 DEF NmTypeOK, CountsSound
<1> QED
  BY <1>1, <1>2, <1>3, <1>4, <1>5

(* The last subscriber stops the timer and, so that no rate spans the gap, *)
(* resets the total; any other leaves both alone.                          *)
LEMMA UnsubscribeSound ==
  ASSUME IInv, NEW d \in Devices, NEW s \in Stats, Unsubscribe(d, s)
  PROVE  IInv'
<1> USE DEF IInv, Unsubscribe, externalVars, flagVars, ResetTotal
<1>1. NmTypeOK'
  <2>1. count[d][s] > 0
    BY DEF NmTypeOK, CountsSound
  <2>2. count' \in [Devices -> [Stats -> Nat]] /\ booked' \in [Devices -> [Stats -> Nat]]
    BY <2>1 DEF NmTypeOK
  <2> QED
    BY <2>2 DEF NmTypeOK
<1>2. ConnectedIsActive' /\ RegisteredIffConnected' /\ NeverBoth'
  BY DEF ConnectedIsActive, RegisteredIffConnected, NeverBoth
<1>3. TimerPromised'
  <2> SUFFICES ASSUME NEW e \in m_devices, isSubscribed(e)'
               PROVE  Promised(e)'
    BY DEF TimerPromised
  <2>1. PICK t \in Stats : count'[e][t] > 0
    BY DEF isSubscribed
  <2>2. count[e][t] > 0
    BY <2>1 DEF NmTypeOK
  <2>3. Promised(e)
    BY <2>2 DEF TimerPromised, isSubscribed
  <2>4. e \in m_statisticsTimer => e \in m_statisticsTimer'
    BY <2>1
  <2> QED
    BY <2>3, <2>4 DEF Promised
<1>4. TotalPromised'
  BY DEF NmTypeOK, TotalPromised, Promised
<1>5. CountsSound'
  BY DEF NmTypeOK, CountsSound
<1>6. NoRateAcrossGap'
  BY DEF NmTypeOK, NoRateAcrossGap
<1> QED
  BY <1>1, <1>2, <1>3, <1>4, <1>5, <1>6

(* A tick starts the next interval.                                        *)
LEMMA TimerTickSound ==
  ASSUME IInv, NEW d \in Devices, TimerTick(d)
  PROVE  IInv'
  BY DEF IInv, TimerTick, externalVars, flagVars, subscriberVars, NmTypeOK,
     ConnectedIsActive, RegisteredIffConnected, NeverBoth, TimerPromised, Promised,
     isSubscribed, TotalPromised, CountsSound, NoRateAcrossGap

(* Traffic is only missed by devices that have no total to compare with.   *)
LEMMA TrafficSound ==
  ASSUME IInv, NEW d \in Devices, Traffic(d)
  PROVE  IInv'
<1> USE DEF IInv, Traffic, flagVars, subscriberVars
<1>1. NmTypeOK'
  BY DEF NmTypeOK
<1>2. NoRateAcrossGap'
  BY DEF NmTypeOK, NoRateAcrossGap, TotalPromised, Promised, ConnectedIsActive
<1>3. IInv!2' /\ IInv!3' /\ IInv!4' /\ IInv!5' /\ IInv!6' /\ IInv!7'
  BY DEF ConnectedIsActive, RegisteredIffConnected, NeverBoth, TimerPromised,
     Promised, isSubscribed, TotalPromised, CountsSound
<1> QED
  BY <1>1, <1>2, <1>3

(* A frame carries out the pending disconnects and nothing else.           *)
LEMMA FrameSound ==
  ASSUME IInv, Frame
  PROVE  IInv'
<1> USE DEF IInv, Frame, externalVars, samplingVars, ForgetBooks, DisconnectedNow
<1>1. NmTypeOK'
  BY DEF NmTypeOK, Nobody
<1>2. RegisteredIffConnected' /\ NeverBoth' /\ ConnectedIsActive'
  BY DEF NmTypeOK, RegisteredIffConnected, NeverBoth, ConnectedIsActive
<1>3. CountsSound'
  BY DEF NmTypeOK, CountsSound, Nobody
<1>4. TimerPromised' /\ TotalPromised' /\ NoRateAcrossGap'
  BY DEF TimerPromised, Promised, isSubscribed, TotalPromised, NoRateAcrossGap
<1> QED
  BY <1>1, <1>2, <1>3, <1>4

(* Every reachable state is sound.                                         *)
THEOREM Invariance == NmSpec => []IInv
<1>1. NmInit => IInv
  BY InitSound
<1>2. IInv /\ [NmNext]_nmVars => IInv'
  <2> SUFFICES ASSUME IInv, [NmNext]_nmVars
               PROVE  IInv'
    OBVIOUS
  <2>1. CASE NmNext
    BY <2>1, ConnectionUpSound, ConnectionLostSound, DeviceAddedSound,
       DeviceRemovedSound, SubscribeSound, UnsubscribeSound, TimerTickSound,
       TrafficSound, FrameSound DEF NmNext
  <2>2. CASE UNCHANGED nmVars
    BY <2>2 DEF nmVars, externalVars, flagVars, subscriberVars, samplingVars, IInv,
       NmTypeOK, ConnectedIsActive, RegisteredIffConnected, NeverBoth, TimerPromised,
       Promised, isSubscribed, TotalPromised, CountsSound, NoRateAcrossGap
  <2> QED
    BY <2>1, <2>2
<1> QED
  BY <1>1, <1>2, PTL DEF NmSpec

(* No deleted device stays registered with the plugin's container.         *)
THEOREM AlwaysLive == NmSpec => []ContainerIsLive
<1>1. IInv => ContainerIsLive
  BY DEF IInv, NmTypeOK, RegisteredIffConnected, ContainerIsLive
<1> QED
  BY <1>1, Invariance, PTL

(* Registered are exactly the connected devices and those whose removal    *)
(* waits for a frame.                                                      *)
THEOREM AlwaysRegistered == NmSpec => []RegisteredIffConnected
<1>1. IInv => RegisteredIffConnected
  BY DEF IInv
<1> QED
  BY <1>1, Invariance, PTL

(* A subscribed connected device is sampled.                               *)
THEOREM AlwaysSampled == NmSpec => []SubscribedIsSampled
<1>1. IInv => SubscribedIsSampled
  BY DEF IInv, NmTypeOK, TimerPromised, Promised, SubscribedIsSampled
<1> QED
  BY <1>1, Invariance, PTL

(* No rate covers time that was not sampled.                               *)
THEOREM NeverAcrossGap == NmSpec => []NoRateAcrossGap
<1>1. IInv => NoRateAcrossGap
  BY DEF IInv
<1> QED
  BY <1>1, Invariance, PTL

(* Typing, with subscriber counts that never become negative.              *)
THEOREM TypeCorrect == NmSpec => []NmTypeOK
<1>1. IInv => NmTypeOK
  BY DEF IInv
<1> QED
  BY <1>1, Invariance, PTL

-----------------------------------------------------------------------------
(* RefreshRate                                                             *)

(* A queue that one more joins.                                            *)
LEMMA AppendFacts ==
  ASSUME NEW S, NEW s \in Seq(S), NEW x \in S
  PROVE  /\ Append(s, x) \in Seq(S) /\ Len(s) \in Nat
         /\ Len(Append(s, x)) = Len(s) + 1
         /\ DOMAIN s = 1 .. Len(s) /\ DOMAIN Append(s, x) = 1 .. Len(s) + 1
         /\ \A i \in 1 .. Len(s) : Append(s, x)[i] = s[i]
         /\ Append(s, x)[Len(s) + 1] = x
         /\ Append(s, x) # <<>>
<1>1. /\ Append(s, x) \in Seq(S) /\ Len(s) \in Nat
      /\ Len(Append(s, x)) = Len(s) + 1
      /\ \A i \in 1 .. Len(s) : Append(s, x)[i] = s[i]
      /\ Append(s, x)[Len(s) + 1] = x
  BY AppendProperties, LenProperties
<1>2. DOMAIN s = 1 .. Len(s) /\ DOMAIN Append(s, x) = 1 .. Len(s) + 1
  BY <1>1, LenProperties
<1>3. Append(s, x) # <<>>
  BY <1>1, EmptySeq
<1> QED
  BY <1>1, <1>2, <1>3

(* And what is left when the first is taken.                               *)
LEMMA TailFacts ==
  ASSUME NEW S, NEW s \in Seq(S), s # <<>>
  PROVE  /\ Head(s) \in S /\ Head(s) = s[1]
         /\ Tail(s) \in Seq(S) /\ Len(s) \in Nat \ {0} /\ Len(Tail(s)) = Len(s) - 1
         /\ DOMAIN s = 1 .. Len(s) /\ DOMAIN Tail(s) = 1 .. Len(s) - 1
         /\ \A i \in 1 .. Len(s) - 1 : Tail(s)[i] = s[i + 1]
         /\ Tail(s) = <<>> <=> Len(s) = 1
<1>1. /\ Head(s) \in S /\ Head(s) = s[1] /\ Tail(s) \in Seq(S)
      /\ Len(Tail(s)) = Len(s) - 1
      /\ \A i \in 1 .. Len(Tail(s)) : Tail(s)[i] = s[i + 1]
  BY HeadTailProperties
<1>2. Len(s) \in Nat \ {0} /\ DOMAIN s = 1 .. Len(s)
  BY LenProperties, EmptySeq
<1>3. DOMAIN Tail(s) = 1 .. Len(s) - 1 /\ (Tail(s) = <<>> <=> Len(Tail(s)) = 0)
  BY <1>1, LenProperties, EmptySeq
<1> QED
  BY <1>1, <1>2, <1>3

(* The types hold for any number of devices and whatever others do.        *)
LEMMA RateTypeInductive ==
  ASSUME RateTypeOK, [RateNext]_rateVars
  PROVE  RateTypeOK'
<1> USE DEF RateTypeOK, Alive
<1>1. ASSUME NEW d \in Watched, NEW r \in Rates, NEW own \in BOOLEAN
      PROVE  /\ [rate |-> r, own |-> own] \in Signals
             /\ Append(rateCalls[d], r) \in Seq(Rates)
             /\ Append(rateSignals[d], [rate |-> r, own |-> own]) \in Seq(Signals)
  <2>1. [rate |-> r, own |-> own] \in Signals
    BY DEF Signals
  <2> QED
    BY <2>1
<1>2. ASSUME NEW d \in Watched
      PROVE  /\ rateCalls[d] # <<>> =>
                  Head(rateCalls[d]) \in Rates /\ Tail(rateCalls[d]) \in Seq(Rates)
             /\ rateSignals[d] # <<>> =>
                  /\ Head(rateSignals[d]).rate \in Rates
                  /\ Tail(rateSignals[d]) \in Seq(Signals)
  <2>1. rateSignals[d] # <<>> =>
          Head(rateSignals[d]) \in Signals /\ Tail(rateSignals[d]) \in Seq(Signals)
    OBVIOUS
  <2>2. rateCalls[d] # <<>> =>
          Head(rateCalls[d]) \in Rates /\ Tail(rateCalls[d]) \in Seq(Rates)
    OBVIOUS
  <2> QED
    BY <2>1, <2>2 DEF Signals
<1>3. ASSUME NEW d \in Watched, Construct(d) PROVE RateTypeOK'
  BY <1>1, <1>3, RateAssumption DEF Construct, Call
<1>4. ASSUME NEW d \in Watched, Apply(d) PROVE RateTypeOK'
  BY <1>1, <1>2, <1>4 DEF Apply, Signal, rateHistory
<1>5. ASSUME NEW d \in Watched, RateChanged(d) PROVE RateTypeOK'
  <2>1. /\ rateSignals' \in [Watched -> Seq(Signals)]
        /\ UNCHANGED <<watching, refreshRateMs, outsideRate, hurried>>
        /\ updatingRefreshRate' \in BOOLEAN
    BY <1>2, <1>5 DEF RateChanged
  <2>2. CASE updatingRefreshRate
    <3>1. /\ UNCHANGED <<m_initialStatisticsRate, rateCalls, mistaken>>
          /\ overlooked' \subseteq overlooked \union {d}
      BY <1>5, <2>2 DEF RateChanged, TakesForOwn
    <3> QED
      BY <2>1, <3>1
  <2>3. CASE ~ updatingRefreshRate
    <3>1. /\ m_initialStatisticsRate' =
               [m_initialStatisticsRate EXCEPT ![d] = Head(rateSignals[d]).rate]
          /\ rateCalls' = [rateCalls EXCEPT ![d] = Append(@, UpdateRate)]
          /\ mistaken' \subseteq mistaken \union {d} /\ overlooked' \subseteq overlooked
      BY <1>5, <2>3 DEF RateChanged, TakesForOwn, Call
    <3>2. /\ m_initialStatisticsRate' \in [Watched -> Rates]
          /\ rateCalls' \in [Watched -> Seq(Rates)]
      BY <1>1, <1>2, <1>5, <3>1, RateAssumption DEF RateChanged
    <3>3. mistaken' \subseteq Watched /\ overlooked' \subseteq Watched
      BY <3>1
    <3> QED
      BY <2>1, <3>2, <3>3
  <2> QED
    BY <2>2, <2>3
<1>6. ASSUME NEW d \in Watched, Destroy(d) PROVE RateTypeOK'
  BY <1>1, <1>6, EmptySeq DEF Destroy, RestoresRate, Call, Quiet
<1>7. ASSUME NEW d \in Watched, NEW r \in Rates, OutsideChange(d, r) PROVE RateTypeOK'
  BY <1>1, <1>7 DEF OutsideChange, Signal, Quiet
<1>8. CASE UNCHANGED rateVars
  BY <1>8 DEF rateVars, rateHistory
<1> QED
  BY <1>3, <1>4, <1>5, <1>6, <1>7, <1>8 DEF RateNext

(* The types hold at the start.                                            *)
LEMMA RateInitTypes == RateInit => RateTypeOK
BY RateAssumption, EmptySeq DEF RateInit, RateTypeOK

(* The handshake's types, for any devices.                                 *)
THEOREM RateTypeCorrect == RateSpec => []RateTypeOK
BY RateInitTypes, RateTypeInductive, PTL DEF RateSpec

(* What waits for an absent device, for one that is watched and for one    *)
(* that is destroyed, and how it fits what the device remembers.           *)
LastRemembered(d) ==
  m_initialStatisticsRate[d] = IF d \in mistaken THEN UpdateRate ELSE outsideRate[d]
ChangeWaits(d) ==
  /\ rateSignals[d] # <<>>
  /\ ~ rateSignals[d][Len(rateSignals[d])].own

RateUntouched(d) ==
  /\ Quiet(d)
  /\ refreshRateMs[d] = outsideRate[d]
  /\ d \notin mistaken /\ d \notin overlooked
AnswersAreOurs(d) ==
  /\ \A i \in DOMAIN rateCalls[d] : rateCalls[d][i] = UpdateRate
  /\ \A i \in DOMAIN rateSignals[d] :
       rateSignals[d][i].own => rateSignals[d][i].rate = UpdateRate
LastChangeIsTheirs(d) ==
  \A i \in DOMAIN rateSignals[d] :
    /\ ~ rateSignals[d][i].own
    /\ \A j \in DOMAIN rateSignals[d] : j > i => rateSignals[d][j].own
    => rateSignals[d][i].rate = outsideRate[d]
RateOverridden(d) ==
  d \notin overlooked =>
    refreshRateMs[d] = UpdateRate \/ rateCalls[d] # <<>> \/ ChangeWaits(d)
Remembers(d) == d \notin overlooked /\ ~ ForeignWaits(d) => LastRemembered(d)
RateWatched(d) ==
  AnswersAreOurs(d) /\ LastChangeIsTheirs(d) /\ RateOverridden(d) /\ Remembers(d)
RatePutBack(d) ==
  /\ rateSignals[d] = <<>>
  /\ IF rateCalls[d] = <<>> THEN refreshRateMs[d] = m_initialStatisticsRate[d]
     ELSE rateCalls[d][Len(rateCalls[d])] = m_initialStatisticsRate[d]
  /\ d \notin overlooked => LastRemembered(d)

RateKept ==
  \A d \in Watched :
    /\ watching[d] = "absent" => RateUntouched(d)
    /\ watching[d] = "alive" => RateWatched(d)
    /\ watching[d] = "destroyed" => RatePutBack(d)

(* The flag between exchanges, in somebody's change and in our own calls.  *)
Alone ==
  ~ \E d, e \in Watched : d # e /\ watching[d] # "absent" /\ watching[e] # "absent"
FlagRaised ==
  updatingRefreshRate =>
    \/ \A d \in Watched : watching[d] = "absent"
    \/ \E d \in Alive : ~ Quiet(d)
ChangeIsAlone ==
  \A d \in Alive : ForeignWaits(d) =>
    /\ Len(rateSignals[d]) = 1 /\ rateCalls[d] = <<>>
    /\ ~ updatingRefreshRate
    /\ \A e \in Alive \ {d} : Quiet(e)
OneIsEnough ==
  Alone =>
    /\ mistaken = {}
    /\ (\A d \in Watched : watching[d] = "absent") => updatingRefreshRate
    /\ \A d \in Alive : ~ Quiet(d) /\ ~ ForeignWaits(d) =>
         updatingRefreshRate /\ Len(rateCalls[d]) + Len(rateSignals[d]) = 1

RateCalm ==
  ~ hurried => overlooked = {} /\ FlagRaised /\ ChangeIsAlone /\ OneIsEnough

RateInv == RateTypeOK /\ RateKept /\ RateCalm

(* RateKept of one device.                                                 *)
KeptAt(d) ==
  /\ watching[d] = "absent" => RateUntouched(d)
  /\ watching[d] = "alive" => RateWatched(d)
  /\ watching[d] = "destroyed" => RatePutBack(d)

(* A step that does not touch this device.                                 *)
SameAt(e) ==
  /\ watching'[e] = watching[e] /\ refreshRateMs'[e] = refreshRateMs[e]
  /\ rateCalls'[e] = rateCalls[e] /\ rateSignals'[e] = rateSignals[e]
  /\ m_initialStatisticsRate'[e] = m_initialStatisticsRate[e]
  /\ outsideRate'[e] = outsideRate[e]
  /\ (e \in mistaken' <=> e \in mistaken) /\ (e \in overlooked' <=> e \in overlooked)

(* A device whose state is left alone keeps what it keeps.                 *)
LEMMA SameIsKept ==
  ASSUME NEW e \in Watched, SameAt(e), KeptAt(e)
  PROVE  KeptAt(e)'
<1> USE DEF SameAt
<1>1. RateUntouched(e) => RateUntouched(e)'
  BY DEF RateUntouched, Quiet
<1>2. RatePutBack(e) => RatePutBack(e)'
  BY DEF RatePutBack, LastRemembered
<1>3. AnswersAreOurs(e) /\ LastChangeIsTheirs(e)
        => (AnswersAreOurs(e) /\ LastChangeIsTheirs(e))'
  BY DEF AnswersAreOurs, LastChangeIsTheirs
<1>4. RateOverridden(e) /\ Remembers(e) => (RateOverridden(e) /\ Remembers(e))'
  BY DEF RateOverridden, Remembers, ChangeWaits, ForeignWaits, LastRemembered
<1> QED
  BY <1>1, <1>2, <1>3, <1>4 DEF KeptAt, RateWatched

(* A step of one device leaves the others' state alone.                    *)
LEMMA OthersSame ==
  ASSUME RateTypeOK, NEW d \in Watched, NEW e \in Watched, e # d,
         \/ Construct(d) \/ Apply(d) \/ RateChanged(d) \/ Destroy(d)
         \/ \E r \in Rates : OutsideChange(d, r)
  PROVE  SameAt(e)
<1> USE DEF RateTypeOK, SameAt, Call, Signal
<1>1. CASE Construct(d)
  BY <1>1 DEF Construct
<1>2. CASE Apply(d)
  BY <1>2 DEF Apply, rateHistory
<1>3. CASE RateChanged(d)
  <2>1. /\ UNCHANGED <<watching, refreshRateMs, outsideRate>>
        /\ rateSignals' = [rateSignals EXCEPT ![d] = Tail(@)]
    BY <1>3 DEF RateChanged
  <2>2. CASE updatingRefreshRate
    <3>1. /\ UNCHANGED <<m_initialStatisticsRate, rateCalls, mistaken>>
          /\ overlooked' = overlooked \/ overlooked' = overlooked \union {d}
      BY <1>3, <2>2 DEF RateChanged, TakesForOwn
    <3> QED
      BY <2>1, <3>1
  <2>3. CASE ~ updatingRefreshRate
    <3>1. /\ m_initialStatisticsRate' =
               [m_initialStatisticsRate EXCEPT ![d] = Head(rateSignals[d]).rate]
          /\ rateCalls' = [rateCalls EXCEPT ![d] = Append(@, UpdateRate)]
          /\ mistaken' = mistaken \union {d} \/ mistaken' = mistaken \ {d}
          /\ overlooked' = overlooked \ {d}
      BY <1>3, <2>3 DEF RateChanged, TakesForOwn
    <3> QED
      BY <2>1, <3>1
  <2> QED
    BY <2>2, <2>3
<1>4. CASE Destroy(d)
  BY <1>4 DEF Destroy, RestoresRate
<1>5. ASSUME NEW r \in Rates, OutsideChange(d, r) PROVE SameAt(e)
  BY <1>5 DEF OutsideChange
<1> QED
  BY <1>1, <1>2, <1>3, <1>4, <1>5

(* The constructor remembers what others last asked for.                   *)
LEMMA ConstructKept ==
  ASSUME RateTypeOK, NEW d \in Watched, KeptAt(d), Construct(d)
  PROVE  KeptAt(d)'
<1>1. /\ watching[d] = "absent" /\ watching'[d] = "alive"
      /\ rateCalls'[d] = Append(rateCalls[d], UpdateRate)
      /\ m_initialStatisticsRate'[d] = refreshRateMs[d]
      /\ UNCHANGED <<refreshRateMs, rateSignals, outsideRate, mistaken, overlooked>>
  BY DEF Construct, Call, RateTypeOK
<1>2. RateUntouched(d)
  BY <1>1 DEF KeptAt
<1>3. /\ rateCalls'[d] = <<UpdateRate>> /\ rateSignals'[d] = <<>>
      /\ m_initialStatisticsRate'[d] = outsideRate[d]
      /\ d \notin mistaken'
  BY <1>1, <1>2 DEF RateUntouched, Quiet
<1>4. AnswersAreOurs(d)' /\ LastChangeIsTheirs(d)'
  BY <1>3 DEF AnswersAreOurs, LastChangeIsTheirs
<1>5. RateOverridden(d)' /\ Remembers(d)'
  BY <1>1, <1>3 DEF RateOverridden, Remembers, LastRemembered
<1> QED
  BY <1>1, <1>4, <1>5 DEF KeptAt, RateWatched

(* An answered call makes the rate this program's, or puts it back.        *)
LEMMA ApplyKept ==
  ASSUME RateTypeOK, NEW d \in Watched, KeptAt(d), Apply(d)
  PROVE  KeptAt(d)'
<1> DEFINE calls == rateCalls[d]
           signals == rateSignals[d]
           r == Head(calls)
           signal == [rate |-> r, own |-> TRUE]
<1>0. /\ calls # <<>> /\ calls \in Seq(Rates) /\ signals \in Seq(Signals)
      /\ refreshRateMs'[d] = r /\ rateCalls'[d] = Tail(calls)
      /\ UNCHANGED <<watching, m_initialStatisticsRate, outsideRate, mistaken, overlooked>>
      /\ rateSignals'[d] = IF watching[d] = "alive" THEN Append(signals, signal) ELSE signals
  BY DEF Apply, Signal, Alive, rateHistory, RateTypeOK
<1>1. /\ r \in Rates /\ r = calls[1] /\ Len(calls) \in Nat \ {0}
      /\ DOMAIN calls = 1 .. Len(calls) /\ DOMAIN Tail(calls) = 1 .. Len(calls) - 1
      /\ Len(Tail(calls)) = Len(calls) - 1
      /\ \A i \in 1 .. Len(calls) - 1 : Tail(calls)[i] = calls[i + 1]
      /\ (Tail(calls) = <<>> <=> Len(calls) = 1)
  <2> HIDE DEF calls
  <2> QED
    BY <1>0, TailFacts
<1>2. CASE watching[d] = "absent"
  BY <1>0, <1>2 DEF KeptAt, RateUntouched, Quiet
<1>3. CASE watching[d] = "alive"
  <2> DEFINE more == Append(signals, signal)
  <2>1. signal \in Signals /\ signal.own /\ signal.rate = r
    BY <1>1 DEF Signals
  <2>2. /\ Len(signals) \in Nat /\ DOMAIN signals = 1 .. Len(signals)
        /\ DOMAIN more = 1 .. Len(signals) + 1
        /\ \A i \in 1 .. Len(signals) : more[i] = signals[i]
        /\ more[Len(signals) + 1] = signal
    <3> HIDE DEF signals, signal
    <3> QED
      BY <1>0, <2>1, AppendFacts
  <2>3. RateWatched(d) /\ rateSignals'[d] = more /\ r = UpdateRate
    BY <1>0, <1>1, <1>3 DEF KeptAt, RateWatched, AnswersAreOurs
  <2> HIDE DEF calls, signals, signal, more, r
  <2>4. AnswersAreOurs(d)'
    <3>1. \A i \in DOMAIN Tail(calls) : Tail(calls)[i] = UpdateRate
      BY <1>1, <2>3 DEF RateWatched, AnswersAreOurs, calls
    <3>2. \A i \in DOMAIN more : more[i].own => more[i].rate = UpdateRate
      BY <2>1, <2>2, <2>3 DEF RateWatched, AnswersAreOurs, signals
    <3> QED
      BY <1>0, <2>3, <3>1, <3>2 DEF AnswersAreOurs
  <2>5. LastChangeIsTheirs(d)'
    <3> SUFFICES ASSUME NEW i \in DOMAIN more, ~ more[i].own,
                        \A j \in DOMAIN more : j > i => more[j].own
                 PROVE  more[i].rate = outsideRate[d]
      BY <1>0, <2>3 DEF LastChangeIsTheirs
    <3>1. i \in 1 .. Len(signals)
      BY <2>1, <2>2
    <3> QED
      BY <2>2, <2>3, <3>1 DEF RateWatched, LastChangeIsTheirs, signals
  <2>6. RateOverridden(d)' /\ Remembers(d)'
    <3>1. ForeignWaits(d) => ForeignWaits(d)'
      BY <2>2, <2>3 DEF ForeignWaits, signals
    <3> QED
      BY <1>0, <2>3, <3>1 DEF RateWatched, RateOverridden, Remembers, LastRemembered
  <2> QED
    BY <1>0, <1>3, <2>4, <2>5, <2>6 DEF KeptAt, RateWatched
<1>4. CASE watching[d] = "destroyed"
  <2>1. RatePutBack(d)
    BY <1>4 DEF KeptAt
  <2>2. rateSignals'[d] = <<>>
    BY <1>0, <1>4, <2>1 DEF RatePutBack
  <2>3. IF Tail(calls) = <<>> THEN r = m_initialStatisticsRate[d]
        ELSE Tail(calls)[Len(Tail(calls))] = m_initialStatisticsRate[d]
    BY <1>0, <1>1, <2>1 DEF RatePutBack
  <2>4. d \notin overlooked' => LastRemembered(d)'
    BY <1>0, <2>1 DEF RatePutBack, LastRemembered
  <2> QED
    BY <1>0, <1>4, <2>2, <2>3, <2>4 DEF KeptAt, RatePutBack
<1> QED
  BY <1>2, <1>3, <1>4 DEF RateTypeOK

(* What the lambda does to a watched device, by whose signal it takes it   *)
(* for.                                                                    *)
LEMMA LambdaFacts ==
  ASSUME RateTypeOK, NEW d \in Watched, RateChanged(d)
  PROVE  /\ watching[d] = "alive" /\ rateSignals[d] # <<>>
         /\ rateSignals[d] \in Seq(Signals) /\ rateSignals'[d] = Tail(rateSignals[d])
         /\ UNCHANGED <<watching, refreshRateMs, outsideRate, hurried>>
         /\ updatingRefreshRate =>
              /\ UNCHANGED <<m_initialStatisticsRate, rateCalls, mistaken>>
              /\ ~ updatingRefreshRate'
              /\ overlooked' = IF Head(rateSignals[d]).own THEN overlooked
                               ELSE overlooked \union {d}
         /\ ~ updatingRefreshRate =>
              /\ m_initialStatisticsRate'[d] = Head(rateSignals[d]).rate
              /\ rateCalls'[d] = Append(rateCalls[d], UpdateRate)
              /\ updatingRefreshRate'
              /\ mistaken' = IF Head(rateSignals[d]).own THEN mistaken \union {d}
                             ELSE mistaken \ {d}
              /\ overlooked' = overlooked \ {d}
<1>1. /\ watching[d] = "alive" /\ rateSignals[d] # <<>>
      /\ rateSignals[d] \in Seq(Signals) /\ rateSignals'[d] = Tail(rateSignals[d])
      /\ UNCHANGED <<watching, refreshRateMs, outsideRate, hurried>>
      /\ updatingRefreshRate' = ~ updatingRefreshRate
  BY DEF RateChanged, RateTypeOK
<1>2. ASSUME updatingRefreshRate
      PROVE  /\ UNCHANGED <<m_initialStatisticsRate, rateCalls, mistaken>>
             /\ overlooked' = IF Head(rateSignals[d]).own THEN overlooked
                              ELSE overlooked \union {d}
  BY <1>2 DEF RateChanged, TakesForOwn
<1>3. ASSUME ~ updatingRefreshRate
      PROVE  /\ m_initialStatisticsRate'[d] = Head(rateSignals[d]).rate
             /\ rateCalls'[d] = Append(rateCalls[d], UpdateRate)
             /\ mistaken' = IF Head(rateSignals[d]).own THEN mistaken \union {d}
                            ELSE mistaken \ {d}
             /\ overlooked' = overlooked \ {d}
  BY <1>3 DEF RateChanged, TakesForOwn, Call, RateTypeOK
<1> QED
  BY <1>1, <1>2, <1>3

(* Whatever the flag says of the first signal, the device keeps its due,   *)
(* or is listed.                                                           *)
LEMMA RateChangedKept ==
  ASSUME RateTypeOK, NEW d \in Watched, KeptAt(d), RateChanged(d)
  PROVE  KeptAt(d)'
<1> DEFINE calls == rateCalls[d]
           signals == rateSignals[d]
           rest == Tail(signals)
<1>0. /\ watching[d] = "alive" /\ signals # <<>> /\ signals \in Seq(Signals)
      /\ calls \in Seq(Rates) /\ rateSignals'[d] = rest
      /\ UNCHANGED <<watching, refreshRateMs, outsideRate>>
  BY LambdaFacts DEF RateTypeOK
<1>1. /\ signals[1] = Head(signals) /\ Len(signals) \in Nat \ {0}
      /\ DOMAIN signals = 1 .. Len(signals) /\ DOMAIN rest = 1 .. Len(signals) - 1
      /\ Len(rest) = Len(signals) - 1
      /\ \A i \in 1 .. Len(signals) - 1 : rest[i] = signals[i + 1]
      /\ (rest = <<>> <=> Len(signals) = 1)
  <2> HIDE DEF signals
  <2> QED
    BY <1>0, TailFacts
<1>2. RateWatched(d)
  BY <1>0 DEF KeptAt
<1> DEFINE first == signals[1]
<1>3. /\ first.own => first.rate = UpdateRate
      /\ ForeignWaits(d) <=> (~ first.own \/ \E i \in DOMAIN rest : ~ rest[i].own)
      /\ ~ first.own /\ (\A i \in DOMAIN rest : rest[i].own)
           => first.rate = outsideRate[d]
  <2>1. \A i \in DOMAIN signals : i = 1 \/ (i - 1 \in DOMAIN rest /\ signals[i] = rest[i - 1])
    <3> HIDE DEF signals, rest
    <3> QED
      BY <1>1
  <2>2. first.own => first.rate = UpdateRate
    BY <1>1, <1>2 DEF RateWatched, AnswersAreOurs
  <2>3. ForeignWaits(d) <=> (~ first.own \/ \E i \in DOMAIN rest : ~ rest[i].own)
    <3>1. ForeignWaits(d) <=> \E i \in DOMAIN signals : ~ signals[i].own
      BY DEF ForeignWaits
    <3>2. \A i \in DOMAIN rest : i + 1 \in DOMAIN signals /\ rest[i] = signals[i + 1]
      <4> HIDE DEF signals, rest
      <4> QED
        BY <1>1
    <3>3. 1 \in DOMAIN signals
      <4> HIDE DEF signals, rest
      <4> QED
        BY <1>1
    <3> HIDE DEF signals, rest
    <3> QED
      BY <2>1, <3>1, <3>2, <3>3
  <2>4. ASSUME ~ first.own, \A i \in DOMAIN rest : rest[i].own
        PROVE  first.rate = outsideRate[d]
    <3>1. \A j \in DOMAIN signals : j > 1 => signals[j].own
      <4> HIDE DEF signals, rest
      <4> QED
        BY <1>1, <2>1, <2>4
    <3> QED
      BY <1>1, <1>2, <2>4, <3>1 DEF RateWatched, LastChangeIsTheirs
  <2> QED
    BY <2>2, <2>3, <2>4
<1>4. LastChangeIsTheirs(d)'
  <2> SUFFICES ASSUME NEW i \in DOMAIN rest, ~ rest[i].own,
                      \A j \in DOMAIN rest : j > i => rest[j].own
               PROVE  rest[i].rate = outsideRate[d]
    BY <1>0 DEF LastChangeIsTheirs
  <2>1. i \in Nat /\ i + 1 \in DOMAIN signals /\ rest[i] = signals[i + 1]
    <3> HIDE DEF signals, rest
    <3> QED
      BY <1>1
  <2>2. \A j \in DOMAIN signals : j > i + 1 => signals[j].own
    <3>1. ASSUME NEW j \in DOMAIN signals, j > i + 1
          PROVE  j - 1 \in DOMAIN rest /\ j - 1 > i /\ rest[j - 1] = signals[j]
      <4> HIDE DEF signals, rest
      <4> QED
        BY <1>1, <2>1, <3>1
    <3> QED
      BY <3>1
  <2> QED
    BY <1>2, <2>1, <2>2 DEF RateWatched, LastChangeIsTheirs
<1>5. \A i \in DOMAIN rest : rest[i].own => rest[i].rate = UpdateRate
  <2>1. \A i \in DOMAIN rest : i + 1 \in DOMAIN signals /\ rest[i] = signals[i + 1]
    <3> HIDE DEF signals, rest
    <3> QED
      BY <1>1
  <2> QED
    BY <1>2, <2>1 DEF RateWatched, AnswersAreOurs
<1>6. CASE updatingRefreshRate
  <2>1. /\ UNCHANGED <<m_initialStatisticsRate, rateCalls, mistaken>>
        /\ overlooked' = IF first.own THEN overlooked ELSE overlooked \union {d}
    BY <1>1, <1>6, LambdaFacts
  <2>2. AnswersAreOurs(d)'
    BY <1>0, <1>2, <1>5, <2>1 DEF RateWatched, AnswersAreOurs
  <2>3. Remembers(d)'
    <3> SUFFICES ASSUME d \notin overlooked', ~ ForeignWaits(d)'
                 PROVE  LastRemembered(d)'
      BY DEF Remembers
    <3>1. first.own /\ d \notin overlooked /\ ~ ForeignWaits(d)
      BY <1>0, <1>3, <2>1 DEF ForeignWaits
    <3> QED
      BY <1>0, <1>2, <2>1, <3>1 DEF RateWatched, Remembers, LastRemembered
  <2>4. RateOverridden(d)'
    <3> SUFFICES ASSUME d \notin overlooked', refreshRateMs[d] # UpdateRate,
                        rateCalls[d] = <<>>
                 PROVE  ChangeWaits(d)'
      BY <1>0, <2>1 DEF RateOverridden
    <3>1. first.own /\ ChangeWaits(d)
      BY <1>2, <2>1 DEF RateWatched, RateOverridden
    <3>2. Len(signals) # 1 /\ ~ signals[Len(signals)].own
      BY <3>1 DEF ChangeWaits
    <3>3. rest # <<>> /\ rest[Len(rest)] = signals[Len(signals)]
      <4> HIDE DEF signals, rest, first
      <4> QED
        BY <1>1, <3>2
    <3> QED
      BY <1>0, <3>2, <3>3 DEF ChangeWaits
  <2> QED
    BY <1>0, <1>4, <2>2, <2>3, <2>4 DEF KeptAt, RateWatched
<1>7. CASE ~ updatingRefreshRate
  <2>1. /\ m_initialStatisticsRate'[d] = first.rate
        /\ rateCalls'[d] = Append(calls, UpdateRate)
        /\ mistaken' = IF first.own THEN mistaken \union {d} ELSE mistaken \ {d}
        /\ overlooked' = overlooked \ {d}
    BY <1>1, <1>7, LambdaFacts
  <2>2. /\ Append(calls, UpdateRate) # <<>>
        /\ DOMAIN calls = 1 .. Len(calls) /\ Len(calls) \in Nat
        /\ DOMAIN Append(calls, UpdateRate) = 1 .. Len(calls) + 1
        /\ \A i \in 1 .. Len(calls) : Append(calls, UpdateRate)[i] = calls[i]
        /\ Append(calls, UpdateRate)[Len(calls) + 1] = UpdateRate
    <3> HIDE DEF calls
    <3> QED
      BY <1>0, RateAssumption, AppendFacts
  <2>3. AnswersAreOurs(d)'
    <3>1. \A i \in DOMAIN calls : calls[i] = UpdateRate
      BY <1>2 DEF RateWatched, AnswersAreOurs
    <3>2. \A i \in DOMAIN Append(calls, UpdateRate) : Append(calls, UpdateRate)[i] = UpdateRate
      <4> HIDE DEF calls
      <4> QED
        BY <2>2, <3>1
    <3> QED
      BY <1>0, <1>5, <2>1, <3>2 DEF AnswersAreOurs
  <2>4. RateOverridden(d)'
    BY <2>1, <2>2 DEF RateOverridden
  <2>5. Remembers(d)'
    <3> SUFFICES ASSUME ~ ForeignWaits(d)'
                 PROVE  LastRemembered(d)'
      BY DEF Remembers
    <3>1. \A i \in DOMAIN rest : rest[i].own
      BY <1>0 DEF ForeignWaits
    <3> QED
      BY <1>0, <1>3, <2>1, <3>1 DEF LastRemembered
  <2> QED
    BY <1>0, <1>4, <2>3, <2>4, <2>5 DEF KeptAt, RateWatched
<1> QED
  BY <1>6, <1>7

(* The destructor's call is the last and carries what is remembered.       *)
LEMMA DestroyKept ==
  ASSUME RateTypeOK, NEW d \in Watched, KeptAt(d), Destroy(d)
  PROVE  KeptAt(d)'
<1> DEFINE calls == rateCalls[d]
           rate == m_initialStatisticsRate[d]
<1>1. /\ watching[d] = "alive" /\ watching'[d] = "destroyed"
      /\ calls \in Seq(Rates) /\ rate \in Rates
      /\ rateSignals'[d] = <<>> /\ rateCalls'[d] = Append(calls, rate)
      /\ UNCHANGED <<m_initialStatisticsRate, outsideRate, mistaken>>
      /\ overlooked' = IF ForeignWaits(d) THEN overlooked \union {d} ELSE overlooked
  BY DEF Destroy, RestoresRate, Call, RateTypeOK
<1>2. Append(calls, rate) # <<>> /\ Append(calls, rate)[Len(Append(calls, rate))] = rate
  <2> HIDE DEF calls, rate
  <2> QED
    BY <1>1, AppendFacts
<1>3. d \notin overlooked' => LastRemembered(d)'
  BY <1>1 DEF KeptAt, RateWatched, Remembers, LastRemembered
<1> QED
  BY <1>1, <1>2, <1>3 DEF KeptAt, RatePutBack

(* Somebody's change waits behind the others to be heard.                  *)
LEMMA OutsideChangeKept ==
  ASSUME RateTypeOK, NEW d \in Watched, NEW r \in Rates, KeptAt(d), OutsideChange(d, r)
  PROVE  KeptAt(d)'
<1> DEFINE signals == rateSignals[d]
           signal == [rate |-> r, own |-> FALSE]
           more == Append(signals, signal)
<1>1. /\ watching[d] # "destroyed" /\ signals \in Seq(Signals)
      /\ refreshRateMs'[d] = r /\ outsideRate'[d] = r
      /\ UNCHANGED <<watching, rateCalls, m_initialStatisticsRate, mistaken, overlooked>>
      /\ rateSignals'[d] = IF watching[d] = "alive" THEN more ELSE signals
  BY DEF OutsideChange, Signal, Alive, RateTypeOK
<1>2. CASE watching[d] = "absent"
  BY <1>1, <1>2 DEF KeptAt, RateUntouched, Quiet
<1>3. CASE watching[d] = "alive"
  <2>1. signal \in Signals /\ ~ signal.own /\ signal.rate = r
    BY DEF Signals
  <2>2. /\ Len(signals) \in Nat /\ DOMAIN signals = 1 .. Len(signals)
        /\ DOMAIN more = 1 .. Len(signals) + 1 /\ Len(more) = Len(signals) + 1
        /\ \A i \in 1 .. Len(signals) : more[i] = signals[i]
        /\ more[Len(signals) + 1] = signal /\ more # <<>>
    <3> HIDE DEF signals, signal
    <3> QED
      BY <1>1, <2>1, AppendFacts
  <2>3. RateWatched(d) /\ rateSignals'[d] = more
    BY <1>1, <1>3 DEF KeptAt
  <2> HIDE DEF signals, signal, more
  <2>4. AnswersAreOurs(d)'
    <3>1. \A i \in DOMAIN more : more[i].own => more[i].rate = UpdateRate
      BY <2>1, <2>2, <2>3 DEF RateWatched, AnswersAreOurs, signals
    <3> QED
      BY <1>1, <2>3, <3>1 DEF RateWatched, AnswersAreOurs
  <2>5. LastChangeIsTheirs(d)'
    <3> SUFFICES ASSUME NEW i \in DOMAIN more,
                        \A j \in DOMAIN more : j > i => more[j].own
                 PROVE  more[i].rate = r
      BY <1>1, <2>3 DEF LastChangeIsTheirs
    <3>1. i = Len(signals) + 1
      BY <2>1, <2>2
    <3> QED
      BY <2>1, <2>2, <3>1
  <2>6. ForeignWaits(d)' /\ ChangeWaits(d)'
    BY <2>1, <2>2, <2>3 DEF ForeignWaits, ChangeWaits
  <2> QED
    BY <1>1, <1>3, <2>4, <2>5, <2>6 DEF KeptAt, RateWatched, RateOverridden, Remembers
<1> QED
  BY <1>1, <1>2, <1>3 DEF RateTypeOK

(* Every step keeps what every device keeps.                               *)
LEMMA RateKeptInductive ==
  ASSUME RateTypeOK, RateKept, [RateNext]_rateVars
  PROVE  RateKept'
<1>0. RateKept <=> \A d \in Watched : KeptAt(d)
  BY DEF RateKept, KeptAt
<1>1. SUFFICES ASSUME NEW e \in Watched PROVE KeptAt(e)'
  BY DEF RateKept, KeptAt
<1>2. KeptAt(e)
  BY <1>0
<1>3. CASE UNCHANGED rateVars
  <2>1. SameAt(e)
    BY <1>3 DEF rateVars, rateHistory, SameAt
  <2> QED
    BY <1>2, <2>1, SameIsKept
<1>4. ASSUME NEW d \in Watched,
             \/ Construct(d) \/ Apply(d) \/ RateChanged(d) \/ Destroy(d)
             \/ \E r \in Rates : OutsideChange(d, r)
      PROVE  KeptAt(e)'
  <2>1. CASE e # d
    <3>1. SameAt(e)
      BY <1>4, <2>1, OthersSame
    <3> QED
      BY <1>2, <3>1, SameIsKept
  <2>2. CASE e = d
    BY <1>2, <1>4, <2>2, ConstructKept, ApplyKept, RateChangedKept, DestroyKept,
       OutsideChangeKept
  <2> QED
    BY <2>1, <2>2
<1> QED
  BY <1>3, <1>4 DEF RateNext

(* RateCalm when nobody disturbs an exchange.                              *)
Calm == overlooked = {} /\ FlagRaised /\ ChangeIsAlone /\ OneIsEnough

(* Devices that are not watched have nothing to hear.                      *)
LEMMA OnlyWatchedHear ==
  ASSUME RateTypeOK, RateKept, NEW d \in Watched
  PROVE  /\ watching[d] = "absent" => Quiet(d) /\ d \notin mistaken
         /\ watching[d] # "alive" => rateSignals[d] = <<>>
         /\ Quiet(d) => ~ ForeignWaits(d)
<1>1. watching[d] = "absent" => Quiet(d) /\ d \notin mistaken
  BY DEF RateKept, RateUntouched
<1>2. watching[d] = "destroyed" => rateSignals[d] = <<>>
  BY DEF RateKept, RatePutBack
<1>3. Quiet(d) => ~ ForeignWaits(d)
  BY EmptySeq DEF Quiet, ForeignWaits
<1> QED
  BY <1>1, <1>2, <1>3 DEF RateTypeOK, Quiet

(* A device that comes alone finds the flag raised.                        *)
LEMMA ConstructCalm ==
  ASSUME RateTypeOK, RateKept, Calm, NEW d \in Watched, Construct(d), ~ hurried'
  PROVE  Calm'
<1>1. /\ watching[d] = "absent" /\ watching' = [watching EXCEPT ![d] = "alive"]
      /\ rateCalls' = [rateCalls EXCEPT ![d] = Append(@, UpdateRate)]
      /\ UNCHANGED <<rateSignals, updatingRefreshRate, mistaken, overlooked>>
      /\ \A e \in Alive : ~ ForeignWaits(e)
  BY DEF Construct, Call
<1>2. rateCalls[d] = <<>> /\ rateSignals[d] = <<>> /\ ~ ForeignWaits(d)
  BY <1>1, OnlyWatchedHear DEF Quiet
<1>3. rateCalls'[d] = <<UpdateRate>> /\ Alive' = Alive \union {d}
  BY <1>1, <1>2 DEF RateTypeOK, Alive
<1>4. ~ Quiet(d)' /\ Len(rateCalls'[d]) + Len(rateSignals'[d]) = 1
  BY <1>1, <1>2, <1>3 DEF Quiet
<1>5. \A e \in Alive' : ~ ForeignWaits(e)'
  BY <1>1, <1>2, <1>3 DEF ForeignWaits
<1>6. ASSUME Alone'
      PROVE  Alone /\ (\A e \in Watched : watching[e] = "absent") /\ Alive' = {d}
  BY <1>1, <1>6 DEF Alone, Alive, RateTypeOK
<1>7. overlooked' = {} /\ FlagRaised' /\ ChangeIsAlone'
  BY <1>1, <1>3, <1>4, <1>5 DEF Calm, FlagRaised, ChangeIsAlone
<1>8. OneIsEnough'
  BY <1>1, <1>4, <1>6 DEF Calm, OneIsEnough
<1> QED
  BY <1>7, <1>8 DEF Calm

(* A call that is carried out becomes a signal, behind nobody's change.    *)
LEMMA ApplyCalm ==
  ASSUME RateTypeOK, RateKept, Calm, NEW d \in Watched, Apply(d)
  PROVE  Calm'
<1> DEFINE calls == rateCalls[d]
           signals == rateSignals[d]
           signal == [rate |-> Head(calls), own |-> TRUE]
<1>1. /\ calls # <<>> /\ calls \in Seq(Rates) /\ signals \in Seq(Signals)
      /\ rateCalls' = [rateCalls EXCEPT ![d] = Tail(calls)]
      /\ rateSignals' = IF d \in Alive
                        THEN [rateSignals EXCEPT ![d] = Append(signals, signal)]
                        ELSE rateSignals
      /\ UNCHANGED <<watching, updatingRefreshRate, mistaken, overlooked>>
  BY DEF Apply, Signal, rateHistory, RateTypeOK
<1>2. /\ Len(calls) \in Nat /\ Len(Tail(calls)) = Len(calls) - 1 /\ signal \in Signals
  <2>1. Head(calls) \in Rates /\ Len(calls) \in Nat /\ Len(Tail(calls)) = Len(calls) - 1
    <3> HIDE DEF calls
    <3> QED
      BY <1>1, TailFacts
  <2> QED
    BY <2>1 DEF Signals
<1>3. /\ Len(signals) \in Nat /\ Len(Append(signals, signal)) = Len(signals) + 1
      /\ DOMAIN signals = 1 .. Len(signals)
      /\ DOMAIN Append(signals, signal) = 1 .. Len(signals) + 1
      /\ \A i \in 1 .. Len(signals) : Append(signals, signal)[i] = signals[i]
      /\ Append(signals, signal)[Len(signals) + 1] = signal
      /\ Append(signals, signal) # <<>>
  <2> HIDE DEF signals, signal
  <2> QED
    BY <1>1, <1>2, AppendFacts
<1>4. signal.own
  OBVIOUS
<1>5. watching[d] # "absent" /\ ~ Quiet(d)
  BY <1>1, OnlyWatchedHear DEF Quiet
<1>6. ASSUME d \in Alive
      PROVE  /\ rateSignals'[d] = Append(signals, signal)
             /\ ForeignWaits(d)' <=> ForeignWaits(d)
             /\ ~ Quiet(d)'
             /\ Len(rateCalls'[d]) + Len(rateSignals'[d]) = Len(calls) + Len(signals)
  <2>1. rateSignals'[d] = Append(signals, signal) /\ rateCalls'[d] = Tail(calls)
    BY <1>1, <1>6 DEF RateTypeOK
  <2>2. ForeignWaits(d)' <=> ForeignWaits(d)
    <3>1. ForeignWaits(d)' <=> \E i \in DOMAIN Append(signals, signal) :
                                 ~ Append(signals, signal)[i].own
      BY <2>1 DEF ForeignWaits
    <3>2. ForeignWaits(d) <=> \E i \in DOMAIN signals : ~ signals[i].own
      BY DEF ForeignWaits
    <3> HIDE DEF signals, signal
    <3> QED
      BY <1>3, <1>4, <3>1, <3>2
  <2>3. ~ Quiet(d)'
    BY <1>3, <2>1 DEF Quiet
  <2>4. Len(rateCalls'[d]) + Len(rateSignals'[d]) = Len(calls) + Len(signals)
    <3>1. Len(rateCalls'[d]) = Len(calls) - 1 /\ Len(rateSignals'[d]) = Len(signals) + 1
      BY <1>2, <1>3, <2>1
    <3> HIDE DEF calls, signals
    <3> QED
      BY <1>2, <1>3, <3>1
  <2> QED
    BY <2>1, <2>2, <2>3, <2>4
<1>7. \A e \in Watched \ {d} : /\ rateSignals'[e] = rateSignals[e]
                               /\ rateCalls'[e] = rateCalls[e]
  BY <1>1 DEF RateTypeOK
<1>8. \A e \in Watched \ {d} : /\ ForeignWaits(e)' <=> ForeignWaits(e)
                               /\ Quiet(e)' <=> Quiet(e)
  BY <1>7 DEF ForeignWaits, Quiet
<1>9. Alive' = Alive /\ (Alone' <=> Alone)
  BY <1>1 DEF Alive, Alone
<1>10. overlooked' = {} /\ FlagRaised'
  <2>1. \A e \in Alive : ~ Quiet(e) => ~ Quiet(e)'
    BY <1>6, <1>8 DEF Alive
  <2> QED
    BY <1>1, <1>9, <2>1 DEF Calm, FlagRaised
<1>11. ChangeIsAlone'
  <2> SUFFICES ASSUME NEW e \in Alive, ForeignWaits(e)'
               PROVE  /\ Len(rateSignals'[e]) = 1 /\ rateCalls'[e] = <<>>
                      /\ ~ updatingRefreshRate'
                      /\ \A f \in Alive \ {e} : Quiet(f)'
    BY <1>9 DEF ChangeIsAlone
  <2>1. ForeignWaits(e)
    BY <1>6, <1>8 DEF Alive
  <2>2. /\ Len(rateSignals[e]) = 1 /\ rateCalls[e] = <<>> /\ ~ updatingRefreshRate
        /\ \A f \in Alive \ {e} : Quiet(f)
    BY <2>1 DEF Calm, ChangeIsAlone
  <2>3. d \notin Alive
    BY <1>1, <1>5, <2>2
  <2> QED
    BY <1>1, <1>7, <1>8, <2>2, <2>3 DEF Alive
<1>12. OneIsEnough'
  <2> SUFFICES ASSUME Alone
               PROVE  /\ mistaken = {}
                      /\ \A e \in Alive : ~ Quiet(e)' /\ ~ ForeignWaits(e)' =>
                           /\ updatingRefreshRate
                           /\ Len(rateCalls'[e]) + Len(rateSignals'[e]) = 1
    BY <1>1, <1>5, <1>9 DEF OneIsEnough
  <2>1. \A e \in Alive : e = d
    BY <1>5 DEF Alone, Alive
  <2>2. /\ mistaken = {}
        /\ d \in Alive /\ ~ ForeignWaits(d) =>
             updatingRefreshRate /\ Len(calls) + Len(signals) = 1
    BY <1>5 DEF Calm, OneIsEnough
  <2> QED
    BY <1>6, <2>1, <2>2
<1> QED
  BY <1>10, <1>11, <1>12 DEF Calm

(* A change of somebody's meets a lowered flag; a device alone its own     *)
(* answer with a raised one.                                               *)
LEMMA RateChangedCalm ==
  ASSUME RateTypeOK, RateKept, Calm, NEW d \in Watched, RateChanged(d)
  PROVE  Calm'
<1> DEFINE calls == rateCalls[d]
           signals == rateSignals[d]
           rest == Tail(signals)
           first == signals[1]
<1>1. /\ watching[d] = "alive" /\ d \in Alive /\ signals # <<>> /\ signals \in Seq(Signals)
      /\ calls \in Seq(Rates) /\ ~ Quiet(d)
      /\ rateSignals' = [rateSignals EXCEPT ![d] = rest]
      /\ UNCHANGED watching
  BY DEF RateChanged, RateTypeOK, Alive, Quiet
<1>2. /\ first = Head(signals) /\ Len(signals) \in Nat /\ Len(rest) = Len(signals) - 1
      /\ 1 \in DOMAIN signals
      /\ \A i \in DOMAIN rest : i + 1 \in DOMAIN signals /\ rest[i] = signals[i + 1]
      /\ DOMAIN signals = 1 .. Len(signals)
      /\ rest = <<>> <=> Len(signals) = 1
  <2> HIDE DEF signals
  <2> QED
    BY <1>1, TailFacts
<1>3. \A e \in Watched \ {d} :
        rateSignals'[e] = rateSignals[e] /\ rateCalls'[e] = rateCalls[e]
  <2>1. SUFFICES ASSUME NEW e \in Watched, e # d
                 PROVE  rateSignals'[e] = rateSignals[e] /\ rateCalls'[e] = rateCalls[e]
    OBVIOUS
  <2> QED
    BY <2>1, OthersSame DEF SameAt
<1>4. \A e \in Watched \ {d} : /\ ForeignWaits(e)' <=> ForeignWaits(e)
                               /\ Quiet(e)' <=> Quiet(e)
  BY <1>3 DEF ForeignWaits, Quiet
<1>5. Alive' = Alive /\ (Alone' <=> Alone) /\ (Alone => Alive = {d})
  BY <1>1 DEF Alive, Alone
<1>6. rateSignals'[d] = rest
  BY <1>1 DEF RateTypeOK
<1>7. CASE ForeignWaits(d)
  <2>1. /\ Len(signals) = 1 /\ calls = <<>> /\ ~ updatingRefreshRate
        /\ \A e \in Alive \ {d} : Quiet(e)
    BY <1>1, <1>7 DEF Calm, ChangeIsAlone
  <2>2. ~ first.own /\ rest = <<>>
    <3>1. \E i \in DOMAIN signals : ~ signals[i].own
      BY <1>7 DEF ForeignWaits
    <3> HIDE DEF signals, rest
    <3> QED
      BY <1>2, <2>1, <3>1
  <2>3. /\ rateCalls'[d] = <<UpdateRate>> /\ updatingRefreshRate'
        /\ mistaken' = mistaken \ {d} /\ overlooked' = overlooked \ {d}
    <3>1. Append(<<>>, UpdateRate) = <<UpdateRate>>
      OBVIOUS
    <3> QED
      BY <1>2, <2>1, <2>2, <3>1, LambdaFacts
  <2>4. ~ Quiet(d)' /\ ~ ForeignWaits(d)'
        /\ Len(rateCalls'[d]) + Len(rateSignals'[d]) = 1
    <3>1. rateSignals'[d] = <<>> /\ rateCalls'[d] # <<>>
      BY <1>6, <2>2, <2>3
    <3>2. Len(rateCalls'[d]) = 1 /\ Len(rateSignals'[d]) = 0
      BY <2>3, <3>1
    <3>3. ~ Quiet(d)' /\ ~ ForeignWaits(d)'
      BY <3>1 DEF Quiet, ForeignWaits
    <3> QED
      BY <3>2, <3>3
  <2>5. \A e \in Alive : ~ ForeignWaits(e)'
    BY <1>4, <2>1, <2>4, OnlyWatchedHear DEF Alive
  <2>6. overlooked' = {} /\ FlagRaised' /\ ChangeIsAlone'
    BY <1>1, <1>5, <2>3, <2>4, <2>5 DEF Calm, FlagRaised, ChangeIsAlone
  <2>7. OneIsEnough'
    BY <1>5, <2>3, <2>4 DEF Calm, OneIsEnough
  <2> QED
    BY <2>6, <2>7 DEF Calm
<1>8. CASE ~ ForeignWaits(d)
  <2>1. \A i \in DOMAIN signals : signals[i].own
    BY <1>8 DEF ForeignWaits
  <2>2. first.own /\ ~ ForeignWaits(d)'
    <3>1. first.own /\ \A i \in DOMAIN rest : rest[i].own
      <4> HIDE DEF signals, rest
      <4> QED
        BY <1>2, <2>1
    <3> QED
      BY <1>6, <3>1 DEF ForeignWaits
  <2>3. \A e \in Alive : ~ ForeignWaits(e)'
    <3>1. \A e \in Alive \ {d} : ~ ForeignWaits(e)
      BY <1>1 DEF Calm, ChangeIsAlone
    <3> QED
      BY <1>4, <2>2, <3>1 DEF Alive
  <2>4. CASE updatingRefreshRate
    <3>1. /\ UNCHANGED <<rateCalls, mistaken>> /\ ~ updatingRefreshRate'
          /\ overlooked' = overlooked
      BY <1>2, <2>2, <2>4, LambdaFacts
    <3>2. overlooked' = {} /\ FlagRaised' /\ ChangeIsAlone'
      BY <1>5, <2>3, <3>1 DEF Calm, FlagRaised, ChangeIsAlone
    <3>3. ASSUME Alone PROVE mistaken = {} /\ Quiet(d)'
      <4>1. mistaken = {} /\ Len(calls) + Len(signals) = 1
        BY <1>1, <1>8, <3>3 DEF Calm, OneIsEnough
      <4>2. Len(signals) # 0 /\ Len(calls) \in Nat /\ (Len(calls) = 0 => calls = <<>>)
        BY <1>1, EmptySeq, LenProperties
      <4>3. Len(signals) = 1 /\ calls = <<>>
        <5> HIDE DEF calls, signals
        <5> QED
          BY <1>2, <4>1, <4>2
      <4> QED
        BY <1>2, <1>6, <3>1, <4>1, <4>3 DEF Quiet
    <3>4. OneIsEnough'
      BY <1>1, <1>5, <3>1, <3>3 DEF OneIsEnough
    <3> QED
      BY <3>2, <3>4 DEF Calm
  <2>5. CASE ~ updatingRefreshRate
    <3>1. /\ rateCalls'[d] = Append(calls, UpdateRate) /\ updatingRefreshRate'
          /\ overlooked' = overlooked \ {d}
      BY <2>5, LambdaFacts
    <3>2. Append(calls, UpdateRate) # <<>>
      BY <1>1, RateAssumption, AppendFacts
    <3>3. ~ Quiet(d)'
      BY <3>1, <3>2 DEF Quiet
    <3>4. overlooked' = {} /\ FlagRaised' /\ ChangeIsAlone'
      BY <1>1, <1>5, <2>3, <3>1, <3>3 DEF Calm, FlagRaised, ChangeIsAlone
    <3>5. ~ Alone
      BY <1>1, <1>8, <2>5 DEF Calm, OneIsEnough
    <3>6. OneIsEnough'
      BY <1>5, <3>5 DEF OneIsEnough
    <3> QED
      BY <3>4, <3>6 DEF Calm
  <2> QED
    BY <2>4, <2>5
<1> QED
  BY <1>7, <1>8

(* A device that goes between exchanges leaves the flag as it found it.    *)
LEMMA DestroyCalm ==
  ASSUME RateTypeOK, RateKept, Calm, NEW d \in Watched, Destroy(d), ~ hurried'
  PROVE  Calm'
<1>1. /\ d \in Alive /\ watching' = [watching EXCEPT ![d] = "destroyed"] /\ Quiet(d)
      /\ UNCHANGED <<updatingRefreshRate, mistaken>>
      /\ overlooked' = IF ForeignWaits(d) THEN overlooked \union {d} ELSE overlooked
  BY DEF Destroy, Alive
<1>2. overlooked' = {}
  BY <1>1, OnlyWatchedHear DEF Calm
<1>3. \A e \in Watched \ {d} :
        rateSignals'[e] = rateSignals[e] /\ rateCalls'[e] = rateCalls[e]
  <2>1. SUFFICES ASSUME NEW e \in Watched, e # d
                 PROVE  rateSignals'[e] = rateSignals[e] /\ rateCalls'[e] = rateCalls[e]
    OBVIOUS
  <2> QED
    BY <2>1, OthersSame DEF SameAt
<1>4. \A e \in Watched \ {d} : /\ ForeignWaits(e)' <=> ForeignWaits(e)
                               /\ Quiet(e)' <=> Quiet(e)
  BY <1>3 DEF ForeignWaits, Quiet
<1>5. /\ Alive' = Alive \ {d} /\ (Alone' <=> Alone) /\ (Alone => Alive = {d})
      /\ \A e \in Watched : watching[e] = "absent" <=> watching'[e] = "absent"
  BY <1>1 DEF Alive, Alone, RateTypeOK
<1>6. FlagRaised'
  BY <1>1, <1>4, <1>5 DEF Calm, FlagRaised, Alive
<1>7. ChangeIsAlone'
  BY <1>1, <1>3, <1>4, <1>5 DEF Calm, ChangeIsAlone, Alive
<1>8. OneIsEnough'
  BY <1>1, <1>5 DEF Calm, OneIsEnough, Alive
<1> QED
  BY <1>2, <1>6, <1>7, <1>8 DEF Calm

(* A change that meets no exchange is alone, and the flag is lowered.      *)
LEMMA OutsideChangeCalm ==
  ASSUME RateTypeOK, RateKept, Calm, NEW d \in Watched, NEW r \in Rates,
         OutsideChange(d, r), ~ hurried'
  PROVE  Calm'
<1> DEFINE signal == [rate |-> r, own |-> FALSE]
<1>1. /\ UNCHANGED <<watching, rateCalls, updatingRefreshRate, mistaken, overlooked>>
      /\ d \notin Alive => UNCHANGED rateSignals
      /\ d \in Alive =>
           /\ rateSignals' = [rateSignals EXCEPT ![d] = Append(@, signal)]
           /\ \A e \in Alive : Quiet(e)
  BY DEF OutsideChange, Signal
<1>2. Alive' = Alive /\ (Alone' <=> Alone)
  BY <1>1 DEF Alive, Alone
<1>3. CASE d \notin Alive
  <2>1. /\ UNCHANGED <<watching, rateCalls, rateSignals, updatingRefreshRate>>
        /\ UNCHANGED <<mistaken, overlooked>>
    BY <1>1, <1>3
  <2> QED
    BY <2>1 DEF Calm, FlagRaised, ChangeIsAlone, OneIsEnough, Quiet, ForeignWaits, Alive, Alone
<1>4. CASE d \in Alive
  <2>1. rateSignals[d] = <<>> /\ rateCalls[d] = <<>> /\ watching[d] # "absent"
    BY <1>1, <1>4 DEF Quiet, Alive
  <2>2. rateSignals'[d] = <<signal>>
    BY <1>1, <1>4, <2>1 DEF RateTypeOK, Alive
  <2>3. Len(rateSignals'[d]) = 1 /\ ForeignWaits(d)'
    BY <2>2 DEF ForeignWaits
  <2>4. \A e \in Alive \ {d} : Quiet(e)' /\ ~ ForeignWaits(e)'
    <3>1. \A e \in Alive \ {d} : rateSignals'[e] = <<>> /\ rateCalls'[e] = <<>>
      BY <1>1, <1>4 DEF Quiet, RateTypeOK, Alive
    <3> QED
      BY <3>1, EmptySeq DEF Quiet, ForeignWaits
  <2>5. ~ updatingRefreshRate
    BY <1>1, <1>4, <2>1 DEF Calm, FlagRaised
  <2>6. overlooked' = {} /\ FlagRaised'
    BY <1>1, <2>5 DEF Calm, FlagRaised
  <2>7. ChangeIsAlone'
    BY <1>1, <1>2, <2>1, <2>3, <2>4, <2>5 DEF ChangeIsAlone
  <2>8. OneIsEnough'
    <3>1. Alone => Alive = {d}
      BY <1>4 DEF Alone, Alive
    <3> QED
      BY <1>1, <1>2, <2>1, <2>3, <3>1 DEF Calm, OneIsEnough
  <2> QED
    BY <2>6, <2>7, <2>8 DEF Calm
<1> QED
  BY <1>3, <1>4

(* As long as nobody disturbs an exchange, the flag is right.              *)
LEMMA RateCalmInductive ==
  ASSUME RateTypeOK, RateKept, RateCalm, [RateNext]_rateVars
  PROVE  RateCalm'
<1> SUFFICES ASSUME ~ hurried' PROVE Calm'
  BY DEF RateCalm, Calm
<1>1. ~ hurried
  BY DEF RateNext, Construct, Apply, RateChanged, Destroy, OutsideChange, rateVars,
     rateHistory
<1>2. Calm
  BY <1>1 DEF RateCalm, Calm
<1>3. CASE UNCHANGED rateVars
  <2>1. /\ UNCHANGED <<watching, rateCalls, rateSignals, updatingRefreshRate>>
        /\ UNCHANGED <<mistaken, overlooked>>
    BY <1>3 DEF rateVars, rateHistory
  <2> QED
    BY <1>2, <2>1 DEF Calm, FlagRaised, ChangeIsAlone, OneIsEnough, Quiet, ForeignWaits, Alive,
       Alone
<1> QED
  BY <1>2, <1>3, ConstructCalm, ApplyCalm, RateChangedCalm, DestroyCalm, OutsideChangeCalm
  DEF RateNext

(* The rate of every device of any number on the one flag, whoever else    *)
(* changes it and whenever: this program's as long as it watches, theirs   *)
(* afterwards, but for the slips, which take a disturbed exchange or two   *)
(* devices.                                                                *)
THEOREM RateAlwaysShared == RateSpec => []RateShared
<1>1. RateInit => RateInv
  <2>1. RateInit => RateTypeOK
    BY RateInitTypes
  <2>2. RateInit => RateKept
    BY DEF RateInit, RateKept, RateUntouched, Quiet
  <2>3. RateInit => RateCalm
    BY DEF RateInit, RateCalm, FlagRaised, ChangeIsAlone, OneIsEnough, Alive
  <2> QED
    BY <2>1, <2>2, <2>3 DEF RateInv
<1>2. RateInv /\ [RateNext]_rateVars => RateInv'
  BY RateTypeInductive, RateKeptInductive, RateCalmInductive DEF RateInv
<1>3. RateInv => RateShared
  <2> SUFFICES ASSUME RateInv PROVE RateShared
    OBVIOUS
  <2>1. OverridesChanges
    BY DEF RateInv, RateKept, RateWatched, RateOverridden, ChangeWaits, Quiet,
           OverridesChanges, Alive
  <2>2. RestoresUnlessMistaken
    BY DEF RateInv, RateKept, RatePutBack, LastRemembered, Quiet, RestoresUnlessMistaken
  <2>3. SlipsExplained
    BY DEF RateInv, RateCalm, OneIsEnough, Alone, SlipsExplained
  <2> QED
    BY <2>1, <2>2, <2>3 DEF RateShared
<1> QED
  BY <1>1, <1>2, <1>3, PTL DEF RateSpec
=============================================================================
