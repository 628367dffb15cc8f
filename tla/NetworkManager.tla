--------------------------- MODULE NetworkManager ---------------------------
(***************************************************************************)
(* NetworkManagerBackend with its NetworkManagerDevices                    *)
(* (src/plugins/network/NetworkManagerBackend.cpp) and the NetworkPlugin   *)
(* that registers them: how a device comes and goes as NetworkManager      *)
(* plugs, connects and disconnects it, and when its statistics are sampled.*)
(*                                                                         *)
(* Everything runs on the daemon's thread: a NetworkManager signal, a tick *)
(* of a device's timer, a client's call and a frame are one action each.   *)
(* A device is of a hardware type (onDeviceAdded ignores the others) and   *)
(* interface names, the keys of the container, are unique.                 *)
(***************************************************************************)
EXTENDS Naturals, FiniteSets

CONSTANTS
  Devices,     \* NetworkManager's devices, by uni
  Stats,       \* the statistics sensors of a device (statisticSensors)
  MaxBytes,    \* bound on the traffic of a device while it is plugged in
  MaxCount     \* bound on the subscribers of one sensor

ASSUME NmAssumption == MaxBytes \in Nat /\ MaxCount \in Nat

VARIABLES
  active,              \* NetworkManager: the devices with an active connection
  rxBytes,             \* NetworkManager: the counter a tick reads
  m_devices,           \* NetworkManagerBackend::m_devices, the live objects
  container,           \* the objects the network SensorContainer registers
  m_connected,         \* the devices whose m_connected is set
  m_pendingDisconnect, \* ... whose m_pendingDisconnect is set
  m_restoreTimer,      \* ... whose m_restoreTimer is set
  m_statisticsTimer,   \* ... whose m_statisticsTimer is active
  total,               \* value of m_totalDownloadSensor, 0 after a reset
  count,               \* subscribers of each statistics sensor
  booked,              \* how many of them some client's book still holds
  unsampled            \* bytes since the total was set that no tick was there for

externalVars == <<active, rxBytes>>
flagVars == <<m_connected, m_pendingDisconnect, m_restoreTimer>>
subscriberVars == <<count, booked>>
samplingVars == <<m_statisticsTimer, total, unsampled>>
nmVars == <<externalVars, m_devices, container, flagVars, subscriberVars, samplingVars>>

(* Typing; a device that is not in m_devices has no state left.            *)
NmTypeOK ==
  /\ active \subseteq Devices
  /\ rxBytes \in [Devices -> Nat]
  /\ m_devices \subseteq Devices
  /\ container \subseteq Devices
  /\ m_connected \subseteq m_devices
  /\ m_pendingDisconnect \subseteq m_devices
  /\ m_restoreTimer \subseteq m_devices
  /\ m_statisticsTimer \subseteq m_devices
  /\ total \in [Devices -> Nat]
  /\ count \in [Devices -> [Stats -> Nat]]
  /\ booked \in [Devices -> [Stats -> Nat]]
  /\ unsampled \in [Devices -> Nat]

Nobody == [s \in Stats |-> 0]
isSubscribed(d) == \E s \in Stats : count[d][s] > 0

NmInit ==
  /\ active = {}
  /\ rxBytes = [d \in Devices |-> 0]
  /\ m_devices = {}
  /\ container = {}
  /\ m_connected = {}
  /\ m_pendingDisconnect = {}
  /\ m_restoreTimer = {}
  /\ m_statisticsTimer = {}
  /\ total = [d \in Devices |-> 0]
  /\ count = [d \in Devices |-> Nobody]
  /\ booked = [d \in Devices |-> Nobody]
  /\ unsampled = [d \in Devices |-> 0]

-----------------------------------------------------------------------------
(* Pieces of the handlers, some after a slip a maintainer could make.      *)

(* The plugin's slots. Leaving the container makes every client forget the *)
(* sensor, without giving its subscriber back (Daemon!RemoveObject).       *)
Register(D) == container' = container \union D
KeepBooks(D) == UNCHANGED booked
ForgetBooks(D) ==
  booked' = [d \in Devices |-> IF d \in D THEN Nobody ELSE booked[d]]

(* processPendingDisconnect, for the devices of D.                         *)
DisconnectedNow(D) == D \intersect m_pendingDisconnect

(* The container after onDeviceRemoved: a pending disconnect is processed  *)
(* first, then a device that is still connected is taken out as well.      *)
DeregisterConnected(d) ==
  container' = IF d \in m_connected THEN container \ {d} ELSE container
Deregister(d) ==
  container' = container \ (DisconnectedNow({d}) \union ({d} \intersect m_connected))

(* What a lost connection leaves in m_pendingDisconnect, and a new one.    *)
KeepPending(d) == UNCHANGED m_pendingDisconnect
CancelPending(d) == m_pendingDisconnect' = m_pendingDisconnect \ {d}
DropPending(d) == UNCHANGED m_pendingDisconnect
SetPending(d) == m_pendingDisconnect' = m_pendingDisconnect \union {d}

(* The timer when the connection is back.                                  *)
LeaveTimer(d) == UNCHANGED m_statisticsTimer
RestoreTimer(d) ==
  m_statisticsTimer' = m_statisticsTimer \union ({d} \intersect m_restoreTimer)

(* The totals when the last subscriber of the statistics is gone.          *)
KeepTotal(d) == UNCHANGED total
ResetTotal(d) == total' = [total EXCEPT ![d] = 0]

-----------------------------------------------------------------------------
(* NetworkManagerDevice::update on a change of the active connection.      *)

(* The connection is gone: the device stays registered until the next      *)
(* frame, so that a short interruption does not take its sensors away.     *)
ConnectionLost(d) ==
  /\ d \in active
  /\ active' = active \ {d}
  /\ IF d \in m_connected
     THEN /\ m_connected' = m_connected \ {d}
          /\ m_restoreTimer' = IF d \in m_statisticsTimer
                               THEN m_restoreTimer \union {d}
                               ELSE m_restoreTimer \ {d}
          /\ m_statisticsTimer' = m_statisticsTimer \ {d}
          /\ SetPending(d)
     ELSE UNCHANGED <<flagVars, m_statisticsTimer>>
  /\ UNCHANGED <<rxBytes, m_devices, container, subscriberVars, total, unsampled>>

(* A connection came up: `connected` is emitted, and the plugin registers  *)
(* the device, also when the frame has not taken it out yet.               *)
ConnectionUp(d) ==
  /\ d \notin active
  /\ active' = active \union {d}
  /\ IF d \in m_devices /\ d \notin m_connected
     THEN /\ m_connected' = m_connected \union {d}
          /\ CancelPending(d)
          /\ RestoreTimer(d)
          /\ Register({d})
     ELSE UNCHANGED <<m_connected, m_pendingDisconnect, m_statisticsTimer, container>>
  /\ UNCHANGED <<rxBytes, m_devices, m_restoreTimer, subscriberVars, total, unsampled>>

-----------------------------------------------------------------------------
(* NetworkManager's deviceAdded and deviceRemoved.                         *)

(* onDeviceAdded of a device it does not know yet: the constructor runs    *)
(* update() before anybody listens, so the backend asks isConnected().     *)
DeviceAdded(d) ==
  /\ d \notin m_devices
  /\ m_devices' = m_devices \union {d}
  /\ m_connected' = m_connected \union ({d} \intersect active)
  /\ Register({d} \intersect active)
  /\ UNCHANGED <<externalVars, m_pendingDisconnect, m_restoreTimer,
                 subscriberVars, samplingVars>>

(* onDeviceRemoved: the device leaves the container and is deleted.        *)
DeviceRemoved(d) ==
  /\ d \in m_devices
  /\ m_devices' = m_devices \ {d}
  /\ Deregister(d)
  /\ m_connected' = m_connected \ {d}
  /\ m_pendingDisconnect' = m_pendingDisconnect \ {d}
  /\ m_restoreTimer' = m_restoreTimer \ {d}
  /\ m_statisticsTimer' = m_statisticsTimer \ {d}
  /\ total' = [total EXCEPT ![d] = 0]
  /\ count' = [count EXCEPT ![d] = Nobody]
  /\ ForgetBooks({d})
  /\ unsampled' = [unsampled EXCEPT ![d] = 0]
  /\ active' = active \ {d}
  /\ rxBytes' = [rxBytes EXCEPT ![d] = 0]

-----------------------------------------------------------------------------
(* Clients and timers.                                                     *)

(* A client subscribes to a registered statistics sensor. The first        *)
(* subscriber of a sensor triggers subscribedChanged(true).                *)
Subscribe(d, s) ==
  /\ d \in container
  /\ count[d][s] < MaxCount
  /\ count' = [count EXCEPT ![d][s] = @ + 1]
  /\ booked' = [booked EXCEPT ![d][s] = @ + 1]
  /\ m_statisticsTimer' = IF count[d][s] = 0 THEN m_statisticsTimer \union {d}
                          ELSE m_statisticsTimer
  /\ UNCHANGED <<externalVars, m_devices, container, flagVars, total, unsampled>>

(* A client that still holds the sensor unsubscribes or disconnects. The   *)
(* last one of a sensor triggers subscribedChanged(false), and with the    *)
(* last one of all the statistics sensors sampling stops.                  *)
Unsubscribe(d, s) ==
  /\ booked[d][s] > 0
  /\ count' = [count EXCEPT ![d][s] = @ - 1]
  /\ booked' = [booked EXCEPT ![d][s] = @ - 1]
  /\ IF \A t \in Stats : count'[d][t] = 0
     THEN m_statisticsTimer' = m_statisticsTimer \ {d} /\ ResetTotal(d)
     ELSE UNCHANGED <<m_statisticsTimer, total>>
  /\ UNCHANGED <<externalVars, m_devices, container, flagVars, unsampled>>

(* The timeout lambda of m_statisticsTimer: from the second sample on the  *)
(* rates are the growth since the last one.                                *)
TimerTick(d) ==
  /\ d \in m_statisticsTimer
  /\ total' = [total EXCEPT ![d] = rxBytes[d]]
  /\ unsampled' = [unsampled EXCEPT ![d] = 0]
  /\ UNCHANGED <<externalVars, m_devices, container, flagVars, subscriberVars,
                 m_statisticsTimer>>

(* A connected device moves a byte.                                        *)
Traffic(d) ==
  /\ d \in active
  /\ rxBytes[d] < MaxBytes
  /\ rxBytes' = [rxBytes EXCEPT ![d] = @ + 1]
  /\ unsampled' = [unsampled EXCEPT ![d] =
       IF d \in m_statisticsTimer THEN @ ELSE @ + 1]
  /\ UNCHANGED <<active, m_devices, container, flagVars, subscriberVars,
                 m_statisticsTimer, total>>

(* NetworkManagerBackend::update, once per frame of the daemon.            *)
Frame ==
  LET D == DisconnectedNow(m_devices) IN
  /\ m_pendingDisconnect' = m_pendingDisconnect \ D
  /\ container' = container \ D
  /\ ForgetBooks(D)
  /\ UNCHANGED <<externalVars, m_devices, m_connected, m_restoreTimer, count,
                 samplingVars>>

NmNext ==
  \/ \E d \in Devices : ConnectionUp(d)
  \/ \E d \in Devices : ConnectionLost(d)
  \/ \E d \in Devices : DeviceAdded(d)
  \/ \E d \in Devices : DeviceRemoved(d)
  \/ \E d \in Devices, s \in Stats : Subscribe(d, s)
  \/ \E d \in Devices, s \in Stats : Unsubscribe(d, s)
  \/ \E d \in Devices : TimerTick(d)
  \/ \E d \in Devices : Traffic(d)
  \/ Frame

NmSpec == NmInit /\ [][NmNext]_nmVars

(* The daemon's frame timer keeps firing.                                  *)
NmFairness == WF_nmVars(Frame)

NmFairSpec == NmSpec /\ NmFairness

-----------------------------------------------------------------------------
(* Properties.                                                             *)

(* The container registers no deleted device. "Otherwise SensorObject's    *)
(* destructor ... would leave a dangling pointer behind and the next       *)
(* AggregateSensor::updateSensors() would crash"                           *)
(* (NetworkManagerBackend.cpp:312-314).                                    *)
ContainerIsLive == container \subseteq m_devices

(* A known device with a connection is registered, however its comings and *)
(* goings interleave with frames; and a registered one that has none is    *)
(* only there because its removal still waits for the next frame.          *)
RegisteredIffConnected ==
  container = m_connected \union m_pendingDisconnect

(* While a connected device has a subscriber to any of its statistics it is*)
(* sampled, whether the subscription came before, during or after an       *)
(* interruption of the connection, and in whatever order others leave.     *)
SubscribedIsSampled ==
  \A d \in m_connected : isSubscribed(d) => d \in m_statisticsTimer

(* The next rate is the growth over sampled time only: bytes that went by  *)
(* while nobody was subscribed never show up as one interval's traffic (a  *)
(* total of 0 makes the next tick skip the rate), whatever interruptions   *)
(* and late subscriptions lie between.                                     *)
NoRateAcrossGap == \A d \in Devices : total[d] > 0 => unsampled[d] = 0

(* A device that stays disconnected leaves the list of sensors.            *)
DisconnectedLeaves ==
  \A d \in Devices : <>[](d \notin active) => <>[](d \notin container)
=============================================================================
