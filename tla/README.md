# Formal models of ksystemstats

TLA+ models of the system statistics daemon of KDE Plasma, checked with TLC on
small instances and, where marked, proved with TLAPS for every instance. Paths
are relative to the repository. The daemon is `src/src`, its plugins are
`src/plugins`, the command line client is `src/tools/kstatsviewer`.

## 1. The system

`ksystemstats` is one process with one thread and a Qt event loop. Plugins
declare *sensor containers*, which hold *sensor objects* (a disk, a network
device), which hold *sensor properties* (a number with a unit). A client calls
the daemon over D-Bus to list sensors, subscribe to some by path
(`container/object/property`) and gets their changes in batches, twice a second.
The sensor classes and the D-Bus interface are in libksysguard, outside this
repository; the models take from them only what the code here relies on.

### Components

| component | state | operations | hard behaviour |
|---|---|---|---|
| `Daemon` (`daemon.cpp`) | `m_containers`, `m_clients`, `m_providers`, frame timer | `subscribe`, `unsubscribe`, `sensorData`, `sensors`, `allSensors`, `sendFrame`, `onServiceDisconnected`, forwarding of object hotplug | calls, frames, hotplug and client exits interleave in any order |
| `Client` (`client.cpp`) | `m_subscribedSensors` (path to pointer), `m_connections` (pointer to three Qt connections), two pending batches | `subscribeSensors`, `unsubscribeSensors`, `sendFrame`, lambdas on `sensorRemoved`, `destroyed`, `valueChanged`, `sensorInfoChanged` | three tables and the subscriber counts of the sensors must agree when paths, pointers and connections end in different orders |
| Service lifecycle (`main.cpp`, `Daemon::init`, `registerDBusService`, `onServiceDisconnected`) | ownership of the bus name, `QDBusServiceWatcher`'s names | start with `--replace` / `--remain`, register, quit when displaced, quit with the last client | several processes, one name; check and registration are two round trips; notices are queued |
| Network plugin, NetworkManager backend | `m_devices`; per device `m_connected`, `m_pendingDisconnect`, `m_restoreTimer`, `m_statisticsTimer`, totals; a static flag | plug, unplug, connect, disconnect, frame, timer, subscription changes, refresh rate | delayed disconnects against unplugging and reconnecting; a timer that has to survive interruptions; a rate shared with other programs |
| Network plugin, rtnetlink backend | devices by name, one elapsed timer, totals | one snapshot of links, addresses and routes per frame | rates over intervals without sampling; one address on several devices |
| Network plugin, sysctl backend (FreeBSD) | devices by name, a timer and totals each | tick, subscription changes | a timer shared by six sensors |
| Network plugin: sensors, all devices | none | none of its own | - |
| GPU plugin: NVIDIA | one `nvidia-smi dmon` process, its reference count, column indices | `ref`, `unref`, read a line, process death | every sensor of every card shares it |
| GPU plugin: Intel, Xe, AMD | one helper process per card, last counters | start and terminate on subscription, read a line | termination is asynchronous; counters restart |
| GPU plugin: enumeration | cards by index | none after start | - |
| Disks plugin | volumes by block device, byte counters, one elapsed timer | Solid hotplug, (un)mount, frame, free-space answers | late answers, volumes that come later, shared mount points and ids |
| CPU plugin: usage | tick counters of the last sample, per object | frame | counters that go backwards; windows of different length |
| CPU plugin: topology | names and temperature features | start | three numberings of the same threads |
| CPU plugin: load averages | none | frame | - |
| Memory plugin | none | frame | unsigned differences of overlapping numbers |
| OS information | two asynchronous answers | start, answers, frame (uptime) | answers in any order, in part, or errors |
| Power plugin | batteries by udi, objects by serial number | Solid hotplug, property changes | sign of the charge rate; shared serial numbers |
| Pressure plugin | none | frame | three files read into one variable |
| Hardware sensors (lmsensors) | none | frame | - |
| kstatsviewer | the paths that have not reported | three questions, signals, exit | calls and signals race; decides when it is done |

### What makes them correct

- *Daemon and Client*: no dangling pointers and no tables that contradict each
  other under any hotplug; a subscriber hears everything, in order, and finally
  the current value; somebody who unsubscribed hears nothing; counts neither
  leak nor underflow, as providers sample by them.
- *Lifecycle*: one daemon serves in the end; it leaves when it is displaced or
  unused, and not while it is in use; nobody is displaced unasked.
- *NetworkManager backend*: the container has exactly the connected devices
  (short interruptions aside) and never a deleted one; who is subscribed is
  sampled; rates cover one interval; the refresh rate others wanted comes back.
- *rtnetlink, sysctl, disks*: rates cover the time they are divided by; tables of
  devices, mount points and ids agree whatever comes and goes.
- *Helpers*: one runs if and only if somebody is subscribed.
- *CPU, xe, memory, pressure, power, OS information*: numbers are the shares and sums
  they claim to be, of one moment and of the right object, for all readings.
- *Topology, engines*: what is looked for once is found, and named apart.
- *kstatsviewer*: the one-shot mode ends, and not before everything has reported.

How they interact: a plugin changes containers and properties from its own
callbacks or inside `Daemon::sendFrame`; `Daemon` turns `objectRemoved` into
`sensorRemoved` for the clients; a `Client` connects to properties and raises
their subscriber count; `subscribedChanged` of a property starts and stops
timers and processes of the plugin. There are no locks; everything hard is in
the order of events, and in what other processes (the bus, NetworkManager,
helpers) do between them.

## 2. The modules

| module | models | role |
|---|---|---|
| `SubscriptionService` | the promise to clients, without pointers, connections or lists | abstract specification |
| `Daemon` | `Daemon`, `Client`, and the containers they see | detailed specification; `Service!Spec` is its refinement |
| `Lifecycle` | processes, the bus name, watchers, message queues | detailed specification |
| `NetworkManager` | `NetworkManagerBackend`, `NetworkManagerDevice`, `NetworkPlugin`'s slots | part of the network plugin |
| `RtNetlink` | `RtNetlinkBackend`, `RtNetlinkDevice` | part of the network plugin |
| `Sysctl` | `SysctlBackend`, `SysctlNetDevice` | part of the network plugin |
| `NetworkPlugin` | the choice of a backend | composes the three |
| `RefreshRate` | the refresh rate handshake of `NetworkManagerDevice` | part |
| `NvidiaSmi` | `NvidiaGpu`, `NvidiaSmiProcess` | part of the GPU plugin |
| `IntelGpu` | `LinuxIntelGpu` with its helper | part of the GPU plugin |
| `XeGpu` | `LinuxXeGpu::updateHelperState` with its helper | part of the GPU plugin |
| `GpuPlugin` | the choice of a class in `LinuxBackend::start` | composes the three |
| `XeCounters` | the xe helper at work, `LinuxXeGpu::readPerfData` | part |
| `Disks` | `DisksPlugin`: volumes, container, rates | part |
| `FreeSpace` | `VolumeObject::update()`: the jobs for free space | part |
| `Power` | `PowerPlugin`, `Battery` | part |
| `Memory` | `LinuxMemoryBackend` | part |
| `Pressure` | `PressurePlugin` | part |
| `OsInfo` | `OSInfoPrivate`, `LinuxPrivate` | part |
| `Cpu` | `UsageComputer`, the CPU objects of both systems | part |
| `CpuTopology` | the constructor of `LinuxCpuPluginPrivate` | part |
| `Viewer` | kstatsviewer's `SensorWatcher` | part |
| `Parts` | the plugins and the viewer | composes the parts |
| `DaemonProofs`, `LifecycleProofs`, `GpuPluginProofs`, `NetworkManagerProofs`, `NetlinkSysctlProofs`, `DisksProofs`, `PluginProofs`, `PartsProofs` | | theorems, see section 4 |
| `MC*` | model values, tables, symmetry | instances for TLC |

Actions have the names of the handlers, variables those of the members. Every
handler of the single-threaded daemon is one atomic action, as it is in the
event loop. Next to a definition there is sometimes a variant with the slip of a
maintainer (`KeepPending` beside `CancelPending`); no specification uses the
variants, they show that a property notices the slip.

### Daemon

`container`, `alive`, `value` and `subscribers` are the libksysguard classes:
which object is registered under an id, which pointers are valid, and the
property's value and its subscriber count (kept per client to see whose count
leaks). Two objects may have the same id, since a volume that is unmounted and
mounted is a new object under its old uuid; so a *path* (id and property) and a
*sensor* (pointer and property) differ, and `findSensor` maps the one to the
other through the container. `m_subscribedSensors`, `m_connections` and the
pending batches are the members of `Client`; `listeners` counts the live
connections, which are more than those stored if a client subscribes twice.
`view` and `asked` are the client's side.

`Subscribe`, `Unsubscribe`, `SensorData`, `ServiceDisconnected`, `Stop`
(`~Daemon`), `AddObject`, `RemoveObject`, `DeleteObject`, `SetValue`,
`InfoChanged` and `SendFrame` are whole handlers with everything they trigger
synchronously: `RemoveObject` includes the daemon's `sensorRemoved` and the
clients' lambdas, `DeleteObject` the `destroyed` lambdas, `SetValue` the
`valueChanged` lambdas. In `SendFrame` every provider updates first and every
client sends afterwards, in one step, as in the code. `setValue` emits for equal
values too in the model; a test for equality would only leave steps out.

`SubscriptionService` has a set of subscriptions and the newest undelivered
value per path. The refinement maps book entries to subscriptions and the last
entry of a path in `m_pendingUpdates` to the debt.

### Lifecycle

An instance goes through `new`, `probing` (before `isServiceRegistered`),
`registering` (before `registerService`), `serving`, `quitting` and `exited`. The
bus is external: it gives the name to whoever registers last, as every instance
registers with `ReplaceExistingService` and `AllowReplacement`, sends `NameLost`
to the one that had it, routes calls to the owner, keeps the order of one
connection's messages, and reports a vanished client to the instances whose
match request (`Match`) it has read by then. It may also refuse the name
(`RegisterRefused`), which ends the instance. A loop that was told to quit may
still handle queued messages or drop them.

### NetworkManager and RefreshRate

In `NetworkManager` sets of devices stand for boolean members. One statistics
value and its total stand for the two directions, which are handled alike.
`count` is the subscriber count of the sensors, `booked` the part of it that
clients can still give back: when the object leaves the container clients forget
it without giving back (`Daemon!RemoveObject`), so after a reconnection counts
may be positive without anybody to lower them. `unsampled` is a history variable:
the bytes that passed since the total was set while the timer was stopped.

`NetworkPlugin` chooses a backend when it is loaded, of those a build has and the
machine supports, in the order of the code, and takes that one's steps from then on.

`RefreshRate` has the calls and signals between the device objects and
NetworkManager in flight, and the flag that is static in a lambda and therefore
one for all devices. Others change the rate whenever they like. A signal carries
who caused it, which the lambda cannot see; the history tells when it guessed
wrong: `mistaken` devices took an answer to their own call for somebody's change,
`overlooked` ones the reverse, and `hurried` says whether anybody acted while an
exchange that it meets was under way.

### NvidiaSmi, IntelGpu, XeGpu, GpuPlugin

In `NvidiaSmi` `process` is `m_process`: `"none"` is the null pointer, `"dead"` a
process that ended while it was referenced, which `ref()` does not tell from a
running one. `unref()` waits for the end inside a handler; output is delivered
meanwhile and nothing else happens, which is `"ending"`, left by `Reap`. `pipe`
holds what was printed and not read. A line is the ordinal of its card or one of
the two headers, a reading the ordinal it came from; so `SamplesRouted` tells
whose numbers a card shows. `index` is what `query()` made of the cards: any
order, and some may be missing. `DaemonQuits` is the end of the event loop, after which
`~Daemon` deletes the clients, which give back their sensors one after the other; the
cards are not destroyed by anybody.

`IntelGpu` and `XeGpu` have the helper's `QProcess`, told to terminate or not.
`lost` and `xeLost` are history variables: why a subscribed card has no running
helper. `IntelGpu` also has the counters in a helper's line and those of the line
before, with unsigned differences modulo `Wrap`; `carried` and `reading.carried`
mark a difference taken across two helpers. A line is printed and read in one step,
as its numbers are compared with those of the line before, whenever it is read.

The parts share no variable and no process, and `GpuClass` is decided once. So
`GpuPlugin` has the cards of one class at a time (`device`, chosen in `Init`);
AMD cards have no behaviour of their own and only stutter.

### RtNetlink and Sysctl

A frame of the rtnetlink backend restarts the one timer, takes a snapshot and looks at
the device of every link in it: `UpdateLinks`, or `UpdateFails` if the kernel does not
answer after the restart. Counters and totals are zero or not; zero is what the code
takes for "nothing to compare with". What a rate is divided by is the time since
the last frame, so the history `gap` of a device says that frames went by since its
total was read: `"known"` for the four reasons the code does not handle (a failed frame,
time offline, a vanished link, subscribers to other sensors only), `"other"` for any
different one, which must not happen. `rtLeaked` are subscriptions that clients forgot
when an object left the container, as in `NetworkManager`.

`Sysctl` has a timer per device; `sysMissed` is the history of time that no tick
measured, `sysFailed` of ticks whose `sysctl()` failed and changed nothing.

### Disks

A device is the volume on a block device; its udi names the block device, so
`m_volumesByDevice` is `entries`, from block devices to objects. The container is
`registered`, its ids, and for each tracked object whether it is the one listed: two
volumes may have one id. `AddDevice`, `CreateAccessible`, `Erase` are `addDevice`,
`createAccessibleVolumeObject` and the removals. `ListDevices` and `AddListed` are
the constructor, one device after the other, since an encrypted volume and its
clear one are told apart by who comes first. `VolumeRemoved` lets Solid answer or not
what the device was. Bytes are left out: a rate is right if the time since the
counters were last read (`fresh`) is the one the timer shows; `wrong`, `excused`,
`gone`, `skipped` and `lostIds` are history.

Of an object that a frame asks for its free space nothing matters but whether it is
tracked, mounted and subscribed. So the jobs are a module of their own, `FreeSpace`:
several may be out for an object, they are answered in any order, with errors, and for
objects that were removed, which nothing deletes. What was asked before the space changed
may be answered with the old number (`stale`).

### Power, Memory, Pressure, OsInfo

`Power` has the batteries by udi and what the container lists by serial number, the
power into each battery with Solid's charge state (`supply`), and whether the system
reports it with a sign (`signed`). The constructor negates what is reported, the signal's
lambda looks at the state and shows the number as it is in the states that are neither
charging nor discharging (`"other"`). `unheard` and `raw` are the history of which of
these a rate came from. In
`Memory` every page is of one kind and `Meminfo` is the kernel's file; differences are
taken modulo `Word`. In `Pressure` a file is a sequence of kinds of lines; an
uninitialised number is the value `"anything"`. In `OsInfo` a value is where it comes
from. `PlasmaReplies` and `HostnamedReplies` are the two pending calls, with all
subsets of properties and with errors.

### Cpu, CpuTopology, XeCounters

`Cpu` translates `UsageComputer::setTicks` and `percentage` in whole percents, and
who is given the counters in a frame: on Linux the total, which has a line of the kernel's
own (`"all"`), and the subscribed CPUs, on FreeBSD all, but none that the kernel does not
answer for (`Answers`: a `sysctl()` may fail, a CPU have no line in `/proc/stat`). `window` is the
history of what really passed since an object's last sample. Waiting for I/O may go back, as the code's comment says. `CpuTopology` is one
step from any `/proc/cpuinfo` and any list of chips to names and features.
`XeCounters` is the helper: probing, opening counters (any may fail), a line a
second with the usage of each class, its end, a reset of the card; and what
the card shows of a line. The helper truncates a double, so a whole number of percents
may come out as one less (`PercentsOf`).

### Viewer and Parts

`step` says which of the blocking questions kstatsviewer waits for; the daemon may
change sensors and queue signals meanwhile, which the viewer gets to in its event loop.
The daemon's side is what `Daemon` answers, for one client, without its tables.

Plugins share no variable, the daemon calls their `update()` one after the other, and
the viewer is another process. So `Parts` looks at one part in a behaviour (`part`):
whatever it can do it can do while the others stand still, and a property of
one part does not see the others move. The state space is the sum of the parts'
and not their product, which lets one run check all of them.

## 3. What is checked

Every run finishes in less than five minutes, `parts` in about three and the others in
less than one. Every property has a variant of one definition that TLC finds it to
notice (`mutants` in `PROJECT.json`). Where small parts of one kind promise
the same sort of thing, the run checks the conjunction, and `PROJECT.json` has a
variant for the conjuncts: `ValuesAgree`, `FoundAtStart`, `UsagesAreShares`,
`AnswersArrive`, `VolumesAgree`, `ProcessHeld`, `HelpersWanted`, `IdleProcessesEnd`,
`SysSampling`, `RtReadings`, `RateShared`, `BatteriesRight`.

| run | instance | distinct states | shows |
|---|---|---|---|
| `daemon_hotplug` | 2 clients, 2 objects with one id, 2 subscriptions of a path each, no values | 52 920 | tables, pointers, counts and container agree under any calls, removal, replacement, deletion |
| `daemon_service` | 2 well-behaved clients, 1 sensor, 2 values, batches of 2, fair frames | 33 478 | no leaked counts, fresh values, silence after unsubscribing, `SubscriptionService` is implemented, a settled value reaches its subscribers |
| `daemon_two_sensors` | 1 client, 2 sensors, 2 values, batches of 2 | 39 900 | the same refinement with updates of two sensors interleaved in a batch and lists of paths in calls |
| `lifecycle_races` | 2 instances, 2 clients, 2 calls each | 33 365 | a displaced instance has been told, and answers the calls it got before; nobody quits while in use |
| `lifecycle_orderly` | 2 instances that start one after the other, 2 clients, 1 call each, fair processes | 3 668 | nobody is displaced unasked; displaced and unused daemons end |
| `gpu_helpers` | 2 NVIDIA cards with 2 sensors and 2 lines in the pipe, or 1 card with an i915 helper of 3 time units, or 1 xe card with 2 sensors; fair processes | 49 436 | processes run for subscribers and no longer; a first subscription starts one after any history; readings reach the right card; which races leave a card without helper |
| `parts` | every other plugin and the viewer, see below | 531 230 | see below |

What `parts` checks, by part:

| part | properties | what they say |
|---|---|---|
| NetworkManager | `RegisteredIffConnected`, `SubscribedIsSampled`, `NoRateAcrossGap`, `DisconnectedLeaves` | registration, sampling and rates across interruptions; a disconnected device leaves the list |
| refresh rate | `RateShared` | the rate is ours while we watch, and in the end what others asked for last, but for the slips of the one flag, of which it says when they happen |
| rtnetlink | `RtReadings` | subscribers that come and go spoil no rate; an address is shown once |
| sysctl | `SysSampling` | the timer runs for subscribers only, and no rate spans a pause but that of failed ticks |
| disks | `VolumesAgree`, `RatesCoverTheirTime`, `AnswersArrive` | devices, objects, ids and mount points agree; rates are right but for late and vanished volumes; free space arrives, and as it is in the end, however answers overlap |
| power | `BatteriesRight` | what is there is listed, with its power and its sign once a rate was signalled while it charged or discharged; otherwise with the number that was reported, of which it says when its sign is another |
| memory, pressure, OS information, CPU usage | `ValuesAgree`, `AnswersArrive`, `UsagesAreShares` | numbers of one moment that add up; no file's numbers in another's object; names that agree after partial answers; usages as shares of the object's own window, parts within the whole |
| topology, xe | `FoundAtStart`, `UsagesAreShares` | no two threads have one name; a thread shows its own core's or die's temperature if a chip has it, or a later AMD die's; all engines found; usage of a class from the counters that count |
| viewer | `LeavesComplete`, `SensorsEnd` | it leaves when everything is said, and does so |

Five more runs end in a counterexample: there the code does not do what its own
comments, options or tests say.

| run | property | what happens |
|---|---|---|
| `daemon_replug` | `UnsubscribedGetsNothing` | the object is removed while subscribed, the book entry goes, the connections stay (`client.cpp:26`), and unsubscribing does nothing |
| `lifecycle_replace` | `ReplacesOnlyOnRequest` | two instances start at once without `--replace`; both pass the check (`daemon.cpp:242`), the second takes the name |
| `lifecycle_ghost` | `QuitsAfterLastClient` | a client that is gone before it is watched (`daemon.cpp:172`) stays in `m_clients` for ever |
| `refresh_shared_flag` | `RestoresOutsideRate` | with two devices the static flag (`NetworkManagerBackend.cpp:60`) takes an own signal for a foreign one |
| `power_sign` | `ChargeRateSign` | the comment promises the right sign by checking the state (`power.cpp:99-101`), the lambda below it does; the constructor negates whatever it reads (`power.cpp:96`), so a charging battery starts with a negative rate on systems that report no sign |

### Bounds

- *Two clients* are enough to have one that stays while another goes; nothing in
  the daemon relates three. *Two objects with one id* are the case of a
  replacement; a third would repeat it.
- `MaxSubscriptions = 2` is the smallest number with an orphaned connection.
  `MaxPending = 2` gives batches in which an update follows another of the same
  or of a different path; it is a guard of `SetValue` only, the frame is never
  held up.
- *Two values* tell an old from a new one. `daemon_hotplug` has no values, as its
  properties are about pointers.
- *Two instances* race for the name; with the bus serializing registrations a
  third could only displace again. `MaxCalls` bounds calls per client, two allow
  a call after an answered one.
- `parts` has for each part the least with which its cases happen:
  - NetworkManager: one device, as devices share nothing but the frame and the
    container; `MaxBytes = 3` lets bytes pass before, in and after a gap, and
    `MaxCount = 2` lets the subscribers of a sensor not all leave at once.
  - rtnetlink: two links for an address to move between, one of which may vanish and
    has traffic; sysctl: two interfaces with two statistics.
  - refresh rate: two devices on the one flag and two rates, ours and theirs;
    `MaxSignals = 2` lets somebody change a rate in the middle of an exchange.
  - disks: an encrypted volume, its clear volume, a RAID member that has the uuid of
    the first and appears on the block device of the second, and a clone of the clear
    volume on that of the first; two mount points. Free space: two objects, as one frame
    asks for all, with two jobs each (`MaxJobs`), so that answers can overtake.
  - power: two batteries that share a serial number; the power is -1, 0 or 1, as only
    signs matter, in each of the three charge states.
  - memory: 2 pages and 1 of swap, which make every difference zero, positive and, if
    it were wrong, negative. `Word` is larger than any sum that is right.
  - CPU: two CPUs, one with a counter that goes back, 2 ticks in all: enough for
    windows of two objects to differ. Topology: 3 threads, 2 packages, 2 cores, so that
    hyperthreads, interleaved packages and missing threads occur.
  - xe: a card of one GT, one with a media GT that lacks the first classes, and one with
    a gap; 2 ticks between lines.
  - viewer: two sensors, an object and a path that leads nowhere, in every
    combination on the command line.
- `Paired` and `Patient` describe clients, not the daemon: subscribe again only
  after unsubscribing, and after the next frame. `daemon_hotplug` and the
  first half of `DaemonProofs` do without them. `Freshness` needs both, the refinement and
  the counts the first. Without it,
  the connections of an earlier subscription are orphaned (`client.cpp:60` overwrites
  them in `m_connections`) and go on queueing updates after any number of
  `unsubscribe()` calls; without `Patient` an update that was
  batched before unsubscribing may overtake a newer answer of `sensorData`.
- *Two NVIDIA cards* are the least that can show each other's readings, *two
  sensors* the least of which one can be left.
  `MaxLines = 2` leaves half a table in the pipe when a process ends. `MaxTime` and
  `Wrap` only have to let a counter lag behind its predecessor.

### Fairness

- The frame timer repeats for as long as the loop runs (`Daemon::Daemon` starts a
  `QTimer` that nothing stops): weak fairness of `Frame`.
- `QCoreApplication::quit()` ends the loop: weak fairness of `Stop` and `Exit`.
- A started process proceeds and its loop takes messages: weak fairness of
  `Probe`, `Register`, `Handle`; the bus reads what it is sent: of `Match`.
- `nvidia-smi dmon -d 2` prints every two seconds, the loop delivers what it reads,
  and `waitForFinished()` returns after 30 seconds at most: weak fairness of `PrintLine`,
  `ReadLine`, `Reap`. The helpers do not handle SIGTERM and end: of `IntelEnd`,
  `XeEnd`.
- `NmFairness`, `SpaceFairness`: the same frame timer calls `update()`; KIO answers a
  job, be it with an error.
- `SmiFairness` also lets `~Daemon` get through its clients.
- `OsFairness`: a D-Bus call is answered, if only by the bus's timeout.
- `ViewerFairness`: the daemon answers and sends its frames; the viewer's loop takes
  signals and fires its timer.
- Nothing makes a client call, a client leave, a value change, a device connect or a
  process die.

`CHECK_DEADLOCK FALSE` is set where everything may come to a rest: a stopped
daemon, exited instances, destroyed devices, a topology that was read, a viewer that
left.

## 4. What is proved

For all values of the constants, from the assumptions named in the modules:
`ObjectAssumption`, `ValueAssumption`, `BoundAssumption` (`Daemon`),
`LifecycleAssumption`, `NmAssumption`, `SmiAssumption`, `IntelAssumption`,
`RtAssumption`, `SpaceAssumption`, `DisksAssumption` and `EntryAssumption` (what stands
for "no entry" is not an entry), `PowerAssumption`, `MemoryAssumption`, `CpuAssumption` (which also says
that the kernel's own line for all CPUs, `"all"` in `ticks`, is not a CPU's),
`PressureAssumption` (a file is unreadable or a list of lines), `TopologyAssumption`,
`XeCountersAssumption` (a card has finitely many engines), `RateAssumption` and
`RateBoundAssumption`. The bounds appear in guards only, so the theorems hold for every
bound, too. Where a theorem needs more than that, as clients of a certain kind, it says
so in its `ASSUME`, and a run shows what happens otherwise.

**`DaemonProofs`**: `TypeCorrect`, `BooksAlwaysAgree`, `NoDangling`,
`HeardIsActive`. The properties are not inductive alone; `IInv` ties the tables
into a chain: a book entry is the registered sensor of its path and has a stored
connection (`BookBacked`), a stored connection is live (`StoredIsLive`), a live
connection has an existing client and sensor (`ListenersExist`) and was paid for
with a subscription (`ListenersCounted`), and the container registers existing
objects under their id (`ContainerSound`). `TypeOK` is part of the argument: that a
count never falls below zero on `unsubscribe()` follows from the chain. The type
of `view` after a frame needs that a nonempty set of list positions has a greatest
element (`MaxPosition`), which follows from the well-foundedness of `<`.

Its second half is about clients that subscribe once (`Paired`) and the paths no object
of whose id can be removed (`KeptPaths`). Without these `daemon_replug` and the orphaned
connections of a double subscription (see the bounds) refute what follows; with them the
chain is one of equalities (`PInv`): asked once, one entry, one connection, one count
(`AskedIsBooked`, `ListensOnce`, `CountedOnce`), and an object that exists is registered
(`AliveIsRegistered`). `Removable` is any set: `RemoveObjectPInv` and `DeleteObjectPInv`
show that removing, deleting and re-adding objects of other ids costs these paths no
subscription and leaves them none too many. So `KeptCountsAreClients`; so
`KeptGetsNothing`, as a sensor that changes is appended to the batches of those who have it
in their book and to no others (`ChangeQueued`, `OthersStay`). If clients are `Patient`
as well, `KeptAlwaysFresh`: a batch ends with the current value, and where it is empty the
client knows it (`BatchEndsFresh`, which is inductive as `KeptFreshness` is not). The
properties the runs check, of all paths, are the case `Removable = {}`:
`CountsAreClients`, `UnsubscribedAlwaysGetsNothing`, `AlwaysFresh`. And, in that case,
`KeepsPromise`, the refinement of `SubscriptionService`, one lemma per action: `Stop` and
a client that disconnects are both its `Leave`, an object publishes the paths of its id,
a change is owed to the book's clients, and `FrameNews` says that what a frame
delivers is what was owed with the changes of that frame. It needs no `Patient`: what
overtakes what is the same in both.

**`LifecycleProofs`**: `TypeCorrect`, `DisplacedAlwaysTold` and the action properties
`ReplacedAlwaysHandledAllCalls` and `NeverQuitsInUse`, for any number of instances, started
together or not. The invariant says what a queued message proves: a notice about a
client that it is gone (`NoticesTrue`), a lost name that another has it
(`LostIsLost`), and nothing is queued for an instance that does not run
(`IdleIsEmpty`). A watched client that is connected is then a client in `m_clients`
(`WatchedIsClient`), so an empty `m_clients` means that nobody watched is left. A call
stands before the notice of a lost name in its queue (`CallsBeforeLoss`), as the bus routes
no call to an instance after that.

Two more theorems are the other side of what `lifecycle_replace` and `lifecycle_ghost`
refute. `NeverReplacesUnasked`: if instances start one after the other (`Staggered`), what
one learned about the name still holds when it registers (`OneAtATime`, `NameIsFree`),
so only `--replace` takes it from another. `GoneAlwaysAnnounced`: if clients leave only
when the bus knows of them (not `LeaveEarly`), the notice about each client that is gone is
queued at every instance that still has it (`GoneIsAnnounced`, with `CallersThere`). So
the way to an empty `m_clients` is always open; that it is taken, `QuitsAfterLastClient`,
is for TLC.

**`NetworkManagerProofs`**: `TypeCorrect`, `AlwaysLive`, `AlwaysRegistered`,
`AlwaysSampled`, `NeverAcrossGap`. A connected device has no pending disconnect
(`NeverBoth`), a device that is subscribed is sampled or will be on its return
(`TimerPromised`), a total is kept only under that promise (`TotalPromised`), and
what clients can give back has been taken (`CountsSound`). And of `RefreshRate`:
`RateTypeCorrect` and `RateAlwaysShared`, for any number of devices and others who change
rates at any time. What `RateShared` says of the quiet moments of a device follows from what
is on its way in the others: the last of its calls and signals decides which rate it will
have (`RateKept`), and what it remembers is somebody's last change unless a slip of the
flag is on record. The last conjunct needs an account of the flag itself (`RateCalm`): as
long as nobody is in a hurry every change in flight is an answer or the only one, so that the
flag, which turns with every signal, takes none of somebody's for its own; and one device
alone has its answers in step with it. What the slips cost is what `refresh_shared_flag`
shows.

**`NetlinkSysctlProofs`**: `SysAlwaysSampling` and `RtAlwaysReadings`. A sysctl total
is only kept while its timer runs (`TickedTotals`), so no time passes it by. An
rtnetlink total without a known gap belongs to a connected device with a subscriber
(`DeviceSound`), which every complete frame reads; so no frame leaves a gap of another
kind. Devices that read an address read the one snapshot (`ReadIsKnown`).

**`DisksProofs`**: `VolumesAlwaysAgree`, `RatesAlwaysCover` and `SpaceTypeCorrect`, for any
volumes, block devices, ids and mount points. A tracked object that was not removed unanswered is
that of a volume Solid has on its block device (`EntriesSound`), of which there is
one (`PluggedApart`): so `insert()` over another object only hits one that is gone, and a
removal by block device takes the right one. A rate can only be wrong where the timer
ran without the counters being read, and that is excused (`RatesKnown`).

**`PluginProofs`**: `BatteriesAlwaysRight`, for any batteries that share any serial
numbers. Batteries with an id in common have had it in `twins` since the second came
(`TwinsKnown`), so taking one out can only take out another that is excused. A rate is
what `RateFor` makes of the last number that was signalled, which is the power in the two
states it looks for, and the constructor's until then.
`MemoryAlwaysAddsUp`: pages that go from one use to another keep their sum, so no
difference wraps around. `PressureAlwaysOwn`: an object shows its own file, or
zeros. `OsNamesAlwaysAgree`: whatever answers came, in part or not at all.
`PartsAlwaysWithin` and `UsagesAlwaysShares`: the counters a computer keeps and what
passed since (`window`) make the kernel's (`WindowSound`), and `Percentage` is monotonic,
where it clamps, too. `ThreadsAlwaysApart`: names differ by the number of the thread or
by the count of records of the package that came before it; a coretemp chip is its
package's only one, and of k10temp chips the last that measures anything wins, which is
the own die's or a later one's. `EnginesAlwaysFound`: the search that stops at the first
missing instance misses none when instances have no gaps, which is what the property claims.
`XeUsagesAlwaysShares`: unless the card was reset, its counters have grown by `xeWindow`
since the last line (`XeWindowed`), so a line shows the window's share as the helper
truncates it (`PercentsFacts`); engines that
did not tick are left out of the code's sum and add nothing to the window's
(`SumOfNonzero`). `XeUsagesWithinHundred`: so no line shows more than 100 %
(`SumMonotonic`). The sums are the community modules' folds over finite sets. What
would be an induction over the set is an argument by a least counterexample: among the
sets of which a claim is false there is one no proper part of which is (`SmallestSet`,
from `WFMin` and the cardinalities), and taking one element out of it refutes it. The
same gives finite sets of integers their greatest one (`GreatestOfFinite`).

**`PartsProofs`**: `PartsImplementParts`, that every part of the composition takes its own
steps or none; `ViewerAlwaysComplete`, for any command line (`Reported`: a path leaves
`m_unreportedSensors` only when something was printed for it); and, from those and
the theorems of the parts, `PartsValuesAgree`, `PartsFoundAtStart` and
`PartsAlwaysSound`, `PartsTypeCorrect` and `PartsRateShared`: the invariants of the run
`parts`, for every instance; and `PartsUsagesAreShares`, its action property.

**`GpuPluginProofs`**: `PluginImplementsParts` (the plugin's steps are those of a part
and stuttering of the others), and with it for all parameters `TypeCorrect`,
`ReferencesAlwaysHeld`, `ProcessAlwaysReferenced`, `AlwaysRouted`, the action property
`AlwaysFresh`, `IntelAlwaysWanted`, `AlwaysWithinTime` and `XeAlwaysWanted`, and the
conjunctions the run checks, `ProcessAlwaysHeld` and `AlwaysWanted`. That `references` counts
`subscribed` is about cardinalities of sets that change by one sensor
(`SubscribedIsFinite`). Readings are routed
because what a process prints begins with the names (`HeaderFirst`), so no line of
data is read without. For the i915 helper, `last` is the helper's own count unless
it was carried over, and no helper is busy for longer than it counts (`CountsSound`).

Only model-checked is what holds under fairness: `EventuallyConsistent`,
`DisplacedQuits`, `QuitsAfterLastClient`, `DisconnectedLeaves`, `IdleProcessesEnd`,
`SampleArrives`, `AnswersArrive`, `SensorsEnd`. Liveness is out of the prover's reach; what
is proved is the safety part of most of them, that the state from which the system
would have to go on is never lost: `AlwaysFresh`, `DisplacedAlwaysTold`,
`GoneAlwaysAnnounced`, `AlwaysRegistered`, `ProcessAlwaysHeld`. Every invariant and every
action property of a passing run is also proved, those that need `Removable = {}`,
`Paired`, `Patient` or `Staggered` under the conditions their runs have.

## 5. What is not modelled

- `allSensors()`, `sensors()` and `sensorAdded`: they read or announce and change
  nothing. Registration of providers is done before the loop runs.
- The text of paths, names and units, and D-Bus marshalling.
- libksysguard, Qt, NetworkManager and the bus, except as they are used here.
- lmsensors, the load averages, the objects that aggregate all CPUs, GPUs, disks or network
  devices, and the tests: they have no behaviour over time that a model could add to,
  or it is libksysguard's.
- Of the network plugin: names, gateway and DNS, which are copied with the address;
  wifi signals; the addresses of the sysctl backend, which every frame reads and copies.
- Of the GPU plugin: the limits `nvidia-smi --query` prints, frequencies, vram regions,
  the sysfs files of AMD and xe cards, FreeBSD.
- Of the other plugins: CPU frequencies and FreeBSD's temperatures, AMD's core dies
  (`Tccd`), FreeBSD's memory backend and its lookup of disk counters, the power plugin's
  copied sensors, uptime, URL and logo of the system.
- kstatsviewer's `--list`, and everything about what is printed but that it is.

Some things the models show are not at odds with anything the repository says,
so no run refutes them; the properties name them as the exceptions they are. A
quick resubscription of an i915 card meets a helper that is still terminating and
gets none (`LinuxIntelGpu.cpp:29`, `lost = "raced"`); `LinuxXeGpu` waits and does not
have the problem. The first line of a restarted i915 helper is compared with the
counters of the one before (`LinuxIntelGpu.cpp:63`, `reading.carried`). A rate
of the rtnetlink backend spans the gap that a failed frame, a time offline or
subscribers to other sensors left (`gap = "known"`); a disk's first rate after it
appeared is its whole counter over one interval (`excused`). A device whose answer was
taken for somebody's change puts back this program's own refresh rate (`mistaken`), and a
change that was taken for an answer is not overridden (`overlooked`). Every thread of a
machine with two k10temp chips shows the die that libsensors lists last
(`linuxcpuplugin.cpp:273`, `IsLaterDie`). A battery that neither charges nor discharges
shows its rate as it is reported, with the opposite sign of the one it had when it was
added (`power.cpp:96` and `107`, `raw`). A volume that is mounted
where another is stays without object even after the other was unmounted
(`skipped`). A file without a `full` line leaves that group of a pressure object
uninitialised (`"anything"`). kstatsviewer waits in vain for the path of an object,
which `allSensors()` lists and nothing reports, and for a sensor that left while it was
waiting (`Reportable`).

## 6. Plan

Done, in this order: the core (`Daemon`, `SubscriptionService`), the lifecycle, the
NetworkManager backend, the processes of the GPU plugin, with proofs; then the other
plugins and the viewer, their composition, and proofs for the network backends and for
each of these parts; then the proofs for clients that subscribe once, with the
refinement; then those of the types and usages of all parts, the handshake
about the refresh rate, and what holds where the lifecycle's races are excluded; then which
subscriptions survive while other objects are removed. What is left, in the order of what
it would add:

1. `Viewer` composed with `Daemon` instead of its answers, and `Daemon` with
   `NetworkManager` through `subscribedChanged` and hotplug, in place of `booked`.
2. An abstract rate (difference over the time since the same counter was read) as the
   common specification of the network backends and the disks.
3. The readings of AMD's power tables and vram regions.
