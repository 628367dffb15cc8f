----------------------------- MODULE RefreshRate -----------------------------
(***************************************************************************)
(* How NetworkManagerDevice shares the statistics refresh rate of its      *)
(* device with the rest of the desktop (NetworkManagerBackend.cpp:51-71,   *)
(* 122-126): it remembers the rate others want, overrides it with its own  *)
(* and puts it back when it is destroyed. One flag, static in the lambda   *)
(* and so shared by the lambdas of all devices, tells the change signals   *)
(* it caused from those of others.                                         *)
(*                                                                         *)
(* The rate lives in NetworkManager: a call reaches it later, and every    *)
(* change is signalled back later, in order for each device.               *)
(***************************************************************************)
EXTENDS Naturals, Sequences

CONSTANTS
  Watched,     \* NetworkManagerDevice objects, each for a device of its own
  Rates,       \* refresh rates, in ms
  UpdateRate,  \* the rate this program wants
  MaxSignals   \* others wait while a device has that many calls and signals in flight

ASSUME RateAssumption == UpdateRate \in Rates
ASSUME RateBoundAssumption == MaxSignals \in Nat

VARIABLES
  watching,               \* of a device: "absent", "alive" or "destroyed"
  refreshRateMs,          \* NetworkManager's property
  rateCalls,              \* setRefreshRateMs calls on their way to it
  rateSignals,            \* refreshRateMsChanged signals on their way back, with
                          \* whether a call of this program caused them
  m_initialStatisticsRate,
  updatingRefreshRate,    \* the static flag
  outsideRate,            \* the rate somebody else last asked for

  \* History: the devices that last took an answer to their own call for somebody's
  \* change, those that took somebody's change for such an answer or never heard of
  \* it, and whether anything was done while an exchange that it meets was under way.
  mistaken, overlooked, hurried

rateHistory == <<mistaken, overlooked, hurried>>
rateVars == <<watching, refreshRateMs, rateCalls, rateSignals, m_initialStatisticsRate,
              updatingRefreshRate, outsideRate, rateHistory>>

Signals == [rate: Rates, own: BOOLEAN]

(* Typing.                                                                 *)
RateTypeOK ==
  /\ watching \in [Watched -> {"absent", "alive", "destroyed"}]
  /\ refreshRateMs \in [Watched -> Rates]
  /\ rateCalls \in [Watched -> Seq(Rates)]
  /\ rateSignals \in [Watched -> Seq(Signals)]
  /\ m_initialStatisticsRate \in [Watched -> Rates]
  /\ updatingRefreshRate \in BOOLEAN
  /\ outsideRate \in [Watched -> Rates]
  /\ mistaken \subseteq Watched /\ overlooked \subseteq Watched /\ hurried \in BOOLEAN

Alive == {d \in Watched : watching[d] = "alive"}
Quiet(d) == rateCalls[d] = <<>> /\ rateSignals[d] = <<>>
ForeignWaits(d) == \E i \in DOMAIN rateSignals[d] : ~ rateSignals[d][i].own

Call(d, r) == rateCalls' = [rateCalls EXCEPT ![d] = Append(@, r)]
Signal(d, r, own) ==
  rateSignals' = IF d \in Alive
                 THEN [rateSignals EXCEPT ![d] = Append(@, [rate |-> r, own |-> own])]
                 ELSE rateSignals

RateInit ==
  /\ watching = [d \in Watched |-> "absent"]
  /\ refreshRateMs = [d \in Watched |-> UpdateRate]
  /\ rateCalls = [d \in Watched |-> <<>>]
  /\ rateSignals = [d \in Watched |-> <<>>]
  /\ m_initialStatisticsRate = refreshRateMs
  /\ updatingRefreshRate = TRUE
  /\ outsideRate = refreshRateMs
  /\ mistaken = {} /\ overlooked = {} /\ hurried = FALSE

-----------------------------------------------------------------------------

(* The constructor reads the rate, connects and calls with its own rate.   *)
Construct(d) ==
  /\ watching[d] = "absent"
  /\ watching' = [watching EXCEPT ![d] = "alive"]
  /\ m_initialStatisticsRate' = [m_initialStatisticsRate EXCEPT ![d] = refreshRateMs[d]]
  /\ Call(d, UpdateRate)
  /\ hurried' = (hurried \/ \E e \in Alive : ForeignWaits(e))
  /\ UNCHANGED <<refreshRateMs, rateSignals, updatingRefreshRate, outsideRate,
                 mistaken, overlooked>>

(* NetworkManager carries out a call and signals it to those listening.    *)
Apply(d) ==
  /\ rateCalls[d] # <<>>
  /\ refreshRateMs' = [refreshRateMs EXCEPT ![d] = Head(rateCalls[d])]
  /\ rateCalls' = [rateCalls EXCEPT ![d] = Tail(@)]
  /\ Signal(d, Head(rateCalls[d]), TRUE)
  /\ UNCHANGED <<watching, m_initialStatisticsRate, updatingRefreshRate, outsideRate,
                 rateHistory>>

(* The refreshRateMsChanged lambda, which cannot see whose signal it is;   *)
(* the variant takes every one for an answer to a call of its own.         *)
TakesAllForOwn == TRUE
TakesForOwn == updatingRefreshRate
RateChanged(d) ==
  /\ watching[d] = "alive"
  /\ rateSignals[d] # <<>>
  /\ rateSignals' = [rateSignals EXCEPT ![d] = Tail(@)]
  /\ LET signal == Head(rateSignals[d]) IN
       IF TakesForOwn
       THEN /\ overlooked' = IF signal.own THEN overlooked ELSE overlooked \union {d}
            /\ UNCHANGED <<m_initialStatisticsRate, rateCalls, mistaken>>
       ELSE /\ m_initialStatisticsRate' =
                 [m_initialStatisticsRate EXCEPT ![d] = signal.rate]
            /\ Call(d, UpdateRate)
            /\ mistaken' = IF signal.own THEN mistaken \union {d} ELSE mistaken \ {d}
            /\ overlooked' = overlooked \ {d}
  /\ updatingRefreshRate' = ~updatingRefreshRate
  /\ UNCHANGED <<watching, refreshRateMs, outsideRate, hurried>>

(* The destructor disconnects and puts the remembered rate back.           *)
LeavesRate(d) == UNCHANGED rateCalls
DisablesRate(d) == Call(d, 0)
RestoresRate(d) == Call(d, m_initialStatisticsRate[d])
Destroy(d) ==
  /\ watching[d] = "alive"
  /\ watching' = [watching EXCEPT ![d] = "destroyed"]
  /\ rateSignals' = [rateSignals EXCEPT ![d] = <<>>]
  /\ RestoresRate(d)
  /\ overlooked' = IF ForeignWaits(d) THEN overlooked \union {d} ELSE overlooked
  /\ hurried' = (hurried \/ ~ Quiet(d))
  /\ UNCHANGED <<refreshRateMs, m_initialStatisticsRate, updatingRefreshRate, outsideRate,
                 mistaken>>

(* Somebody else changes the rate of a device.                             *)
OutsideChange(d, r) ==
  /\ watching[d] # "destroyed"
  /\ Len(rateCalls[d]) + Len(rateSignals[d]) < MaxSignals
  /\ refreshRateMs[d] # r
  /\ refreshRateMs' = [refreshRateMs EXCEPT ![d] = r]
  /\ outsideRate' = [outsideRate EXCEPT ![d] = r]
  /\ Signal(d, r, FALSE)
  /\ hurried' = (hurried \/ (d \in Alive /\ \E e \in Alive : ~ Quiet(e)))
  /\ UNCHANGED <<watching, rateCalls, m_initialStatisticsRate, updatingRefreshRate,
                 mistaken, overlooked>>

RateNext ==
  \/ \E d \in Watched : Construct(d)
  \/ \E d \in Watched : Apply(d)
  \/ \E d \in Watched : RateChanged(d)
  \/ \E d \in Watched : Destroy(d)
  \/ \E d \in Watched, r \in Rates : OutsideChange(d, r)

RateSpec == RateInit /\ [][RateNext]_rateVars

-----------------------------------------------------------------------------

(* "So we store the oustide rate. override any changes and restore it when *)
(* we are destroyed" (NetworkManagerBackend.cpp:53-54): once a destroyed   *)
(* device's last call is carried out, its rate is the one others last      *)
(* asked for, if nobody disturbed an exchange.                             *)
RestoresOutsideRate ==
  \A d \in Watched : ~hurried /\ watching[d] = "destroyed" /\ Quiet(d)
                       => refreshRateMs[d] = outsideRate[d]

(* What the one flag leaves of this.  "override any changes": between      *)
(* exchanges a watched device runs at this program's rate, so that a tick  *)
(* of UpdateRate finds new numbers, unless its last change was overlooked. *)
OverridesChanges ==
  \A d \in Alive \ overlooked : Quiet(d) => refreshRateMs[d] = UpdateRate

(* "restore it when we are destroyed": the rate others last asked for; of  *)
(* a device that mistook an answer for a change, this program's own.       *)
RestoresUnlessMistaken ==
  \A d \in Watched \ overlooked :
    watching[d] = "destroyed" /\ Quiet(d) =>
      refreshRateMs[d] = IF d \in mistaken THEN UpdateRate ELSE outsideRate[d]

(* As long as nobody disturbs an exchange no change is overlooked, however *)
(* the exchanges of several devices overlap, and one device alone is never *)
(* mistaken: it takes two on the one flag.                                 *)
SlipsExplained ==
  ~hurried => /\ overlooked = {}
              /\ mistaken # {} => \E d, e \in Watched :
                   d # e /\ watching[d] # "absent" /\ watching[e] # "absent"

(* The rate of every device is this program's as long as it watches and    *)
(* theirs afterwards, but for the slips of the one flag.                   *)
RateShared == OverridesChanges /\ RestoresUnlessMistaken /\ SlipsExplained
=============================================================================
