-------------------------------- MODULE Power --------------------------------
(***************************************************************************)
(* The power plugin (plugins/power/power.cpp): an object for each battery  *)
(* Solid has, whose sensors follow the battery's signals.  Of the sensors  *)
(* only the charge rate is more than what its signal carries.              *)
(***************************************************************************)
EXTENDS Integers, FiniteSets

CONSTANTS
    Batteries,  \* devices, by udi
    Serials,    \* object ids: the serial number, or the end of the udi
    SerialOf,   \* of a battery
    MaxPower    \* bound on the power that flows into or out of a battery

ASSUME PowerAssumption == SerialOf \in [Batteries -> Serials] /\ MaxPower \in Nat

VARIABLES
    powerLoaded,    \* the constructor has listed the batteries
    signed,         \* the system reports charging as negative, as documented
    supply,         \* of each battery: the power into it, negative when it
                    \* discharges, and Solid's charge state
    batteriesByUdi, \* m_batteriesByUdi: the batteries that have an object
    listed,         \* the container: id -> the battery of the object it lists
    chargeRate,     \* value of each object's sensor
    unheard,        \* history: no rate was signalled since it was added or turned
    raw,            \* history: the last rate came in neither of the two states
    twins           \* history: ids that two batteries had at a time

powerVars == <<powerLoaded, signed, supply, batteriesByUdi, listed, chargeRate, unheard,
               raw, twins>>

Powers == -MaxPower .. MaxPower

\* Solid's NoCharge and FullyCharged are "other": a battery near its end may still
\* report some power then, either way.
Supplies ==
    {r \in [power : Powers, state : {"charging", "discharging", "other"}] :
        /\ r.state = "charging" => r.power >= 0
        /\ r.state = "discharging" => r.power <= 0}

NoSupply == [power |-> 0, state |-> "other"]

PowerTypeOK ==
    /\ powerLoaded \in BOOLEAN
    /\ signed \in BOOLEAN
    /\ supply \in [Batteries -> Supplies]
    /\ batteriesByUdi \subseteq Batteries
    /\ DOMAIN listed \subseteq Serials
    /\ \A id \in DOMAIN listed : listed[id] \in Batteries /\ SerialOf[listed[id]] = id
    /\ chargeRate \in [Batteries -> Powers]
    /\ unheard \subseteq Batteries
    /\ raw \subseteq Batteries
    /\ twins \subseteq Serials

PowerInit ==
    /\ powerLoaded = FALSE
    /\ signed = TRUE
    /\ supply = [b \in Batteries |-> NoSupply]
    /\ batteriesByUdi = {}
    /\ listed = [id \in {} |-> CHOOSE b \in Batteries : TRUE]
    /\ chargeRate = [b \in Batteries |-> 0]
    /\ unheard = {}
    /\ raw = {}
    /\ twins = {}

Magnitude(x) == IF x < 0 THEN -x ELSE x

\* Solid::Battery::energyRate(): "positive both when charging and discharging" on
\* some systems (power.cpp:99), which s tells.
EnergyRate(s, x) == IF s THEN -x ELSE Magnitude(x)

\* The energyRateChanged lambda.
NegatedRate(rate, state) == -rate
RateFor(rate, state) ==
    CASE state = "charging" -> Magnitude(rate)
      [] state = "discharging" -> -Magnitude(rate)
      [] OTHER -> rate

\* new Battery(...) for each of B.  Which of two objects with one id a container
\* lists is its own affair.
CreateBatteries(B) ==
    /\ batteriesByUdi' = batteriesByUdi \union B
    /\ chargeRate' = [b \in Batteries |->
           IF b \in B THEN -EnergyRate(signed', supply'[b].power) ELSE chargeRate[b]]
    /\ unheard' = unheard \union B
    /\ raw' = raw \ B
    /\ twins' = twins \union {id \in Serials :
           \E b \in B, c \in batteriesByUdi' :
               b # c /\ SerialOf[b] = id /\ SerialOf[c] = id}
    /\ listed' \in
           {f \in [DOMAIN listed \union {SerialOf[b] : b \in B} -> Batteries] :
               \A id \in DOMAIN f :
                   \/ id \in DOMAIN listed /\ f[id] = listed[id]
                   \/ f[id] \in B /\ SerialOf[f[id]] = id}

PowerLoad ==
    /\ ~powerLoaded
    /\ powerLoaded' = TRUE
    /\ signed' \in BOOLEAN
    /\ \E B \in SUBSET Batteries :
           /\ supply' \in {f \in [Batteries -> Supplies] :
                              \A b \in Batteries \ B : f[b] = NoSupply}
           /\ CreateBatteries(B)

BatteryAdded(b, r) ==
    /\ powerLoaded
    /\ b \notin batteriesByUdi
    /\ supply' = [supply EXCEPT ![b] = r]
    /\ UNCHANGED <<powerLoaded, signed>>
    /\ CreateBatteries({b})

\* removeObject() takes out whichever object has the id.
KeepListed(b) == UNCHANGED listed
Unlist(b) == listed' = [id \in DOMAIN listed \ {SerialOf[b]} |-> listed[id]]

BatteryRemoved(b) ==
    /\ b \in batteriesByUdi
    /\ batteriesByUdi' = batteriesByUdi \ {b}
    /\ Unlist(b)
    /\ chargeRate' = [chargeRate EXCEPT ![b] = 0]
    /\ supply' = [supply EXCEPT ![b] = NoSupply]
    /\ unheard' = unheard \ {b}
    /\ raw' = raw \ {b}
    /\ UNCHANGED <<powerLoaded, signed, twins>>

\* The power or the charge state changes, or both; Solid signals the rate if the
\* number it reports is another one, and the lambda looks at the state as it is now.
PowerFlows(b, r) ==
    /\ b \in batteriesByUdi
    /\ supply[b] # r
    /\ supply' = [supply EXCEPT ![b] = r]
    /\ LET reported == EnergyRate(signed, r.power)
       IN  IF EnergyRate(signed, supply[b].power) # reported
           THEN /\ chargeRate' = [chargeRate EXCEPT ![b] = RateFor(reported, r.state)]
                /\ unheard' = unheard \ {b}
                /\ raw' = IF r.state = "other" THEN raw \union {b} ELSE raw \ {b}
           ELSE /\ unheard' = IF supply[b].power # r.power THEN unheard \union {b}
                                                           ELSE unheard
                /\ UNCHANGED <<chargeRate, raw>>
    /\ UNCHANGED <<powerLoaded, signed, batteriesByUdi, listed, twins>>

PowerNext ==
    \/ PowerLoad
    \/ \E b \in Batteries : BatteryRemoved(b)
    \/ \E b \in Batteries, r \in Supplies : BatteryAdded(b, r) \/ PowerFlows(b, r)

PowerSpec == PowerInit /\ [][PowerNext]_powerVars

\* Every battery is listed as long as it is there, unless another one had its id,
\* and nothing is listed that is gone: removal goes by udi, listing by id.
BatteriesListed ==
    /\ \A id \in DOMAIN listed : listed[id] \in batteriesByUdi
    /\ \A b \in batteriesByUdi :
           SerialOf[b] \notin twins => SerialOf[b] \in DOMAIN listed

\* The charge rate is the power, with its sign, if the last rate was signalled while
\* the battery charged or discharged, or none was since it was added and the system
\* reports signs.  A rate signalled in neither state is shown as it was reported and
\* not negated as in the constructor: where the system reports signs, the other way
\* round than the sensor's description says (power.cpp:92 and 107).
ChargeRateRight ==
    \A b \in batteriesByUdi :
        /\ b \notin raw /\ (signed \/ b \notin unheard) => chargeRate[b] = supply[b].power
        /\ b \in raw => chargeRate[b] = EnergyRate(signed, supply[b].power)

\* Both: a battery that is there is listed, and with the power it takes.
BatteriesRight == BatteriesListed /\ ChargeRateRight

\* "So ensure we have the right sign here by checking state" (power.cpp:100-101).
ChargeRateSign ==
    \A b \in batteriesByUdi :
        /\ supply[b].state = "charging" => chargeRate[b] >= 0
        /\ supply[b].state = "discharging" => chargeRate[b] <= 0
=============================================================================
