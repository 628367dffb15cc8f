------------------------------- MODULE Disks -------------------------------
(***************************************************************************)
(* The disks plugin (plugins/disks/disks.cpp).  m_volumesByDevice follows  *)
(* Solid's devices and mount points; every frame reads the counters of all *)
(* tracked volumes against one elapsed timer.  That it also asks for the   *)
(* free space of the subscribed ones is in FreeSpace.                      *)
(*                                                                         *)
(* A device's udi and its block device name each other, so looking up an   *)
(* entry by udi is looking it up by block device.  What Solid says of a    *)
(* device is its state when the signal is handled.                         *)
(***************************************************************************)
EXTENDS Naturals, FiniteSets

CONSTANTS
    Volumes,    \* storage volumes, by their contents
    Blocks,     \* block devices
    BlockOf,    \* where a volume appears
    Ids,        \* object ids: uuid, label or device name
    IdOf,       \* idHelper(): RAID members and clones share a uuid
    Usage,      \* StorageVolume::usage()
    Ignored,    \* the volumes for which StorageVolume::isIgnored()
    NotHard,    \* the volumes on a drive that is not a hard disk
    Holds,      \* the volume in an encrypted one
    Diskstats,  \* the kernel has /proc/diskstats
    Points,     \* mount points
    NoPoint, NoEntry

ASSUME DisksAssumption ==
    /\ BlockOf \in [Volumes -> Blocks]
    /\ IdOf \in [Volumes -> Ids]
    /\ Usage \in [Volumes -> {"FileSystem", "PartitionTable", "Encrypted", "Raid"}]
    /\ Holds \in [Volumes -> Volumes]
    /\ Diskstats \in BOOLEAN
    /\ NoPoint \notin Points

VARIABLES
    disksLoaded, \* the constructor has listed the devices
    unread,      \* listed devices it has not gone through yet
    plugged,     \* devices Solid has
    mountedAt,   \* volume -> mount point
    entries,     \* m_volumesByDevice: block device -> VolumeObject
    registered,  \* the ids in the container
    elapsedTimer, \* m_elapsedTimer.isValid()
    skipped,     \* history: mounted volumes createAccessibleVolumeObject passed over
    lostIds      \* history: registered ids whose object was removed unanswered and
                 \* lost its block device to another

disksVars == <<disksLoaded, unread, plugged, mountedAt, entries, registered,
               elapsedTimer, skipped, lostIds>>

\* A tracked VolumeObject.  shown: it is the one its container lists; wanted:
\* isSubscribed(); fresh: m_bytesRead was read when the timer was restarted last.
\* The rest is history: wrong: the last rate divided by another time than its bytes
\* took; excused: it was created when the timer ran, or once had no line in
\* diskstats; gone: its device was removed.
VolumeObjects ==
    [vol : Volumes, point : Points \union {NoPoint}, shown : BOOLEAN,
     wanted : BOOLEAN, fresh : BOOLEAN, wrong : BOOLEAN, excused : BOOLEAN, gone : BOOLEAN]

ASSUME EntryAssumption == NoEntry \notin VolumeObjects

DisksTypeOK ==
    /\ disksLoaded \in BOOLEAN
    /\ unread \subseteq plugged
    /\ plugged \subseteq Volumes
    /\ mountedAt \in [Volumes -> Points \union {NoPoint}]
    /\ entries \in [Blocks -> VolumeObjects \union {NoEntry}]
    /\ registered \subseteq Ids
    /\ elapsedTimer \in BOOLEAN
    /\ skipped \subseteq Volumes
    /\ lostIds \subseteq Ids

Raw(v) == Usage[v] \in {"PartitionTable", "Encrypted", "Raid"}
Accepted(v) == v \notin NotHard /\ (v \notin Ignored \/ Raw(v))
IsStorageAccess(v) == Usage[v] \in {"FileSystem", "Encrypted"}

\* StorageAccess::filePath(): of an encrypted volume, that of the one in it.
FilePath(v) ==
    CASE Usage[v] = "FileSystem" -> mountedAt[v]
      [] Usage[v] = "Encrypted" -> mountedAt[Holds[v]]
      [] OTHER -> NoPoint

Tracked == {b \in Blocks : entries[b] # NoEntry}

Ready == disksLoaded /\ unread = {}

DisksInit ==
    /\ disksLoaded = FALSE
    /\ unread = {}
    /\ plugged = {}
    /\ mountedAt = [v \in Volumes |-> NoPoint]
    /\ entries = [b \in Blocks |-> NoEntry]
    /\ registered = {}
    /\ elapsedTimer = FALSE
    /\ skipped = {}
    /\ lostIds = {}

-----------------------------------------------------------------------------
(* Volumes come and go                                                     *)

\* A VolumeObject enters m_volumesByDevice in place of any other on the block
\* device.  Which of two objects with one id a container lists is its own affair.
Insert(v) ==
    \E listed \in {TRUE, IdOf[v] \notin registered} :
        /\ entries' = [b \in Blocks |->
               CASE b = BlockOf[v] ->
                        [vol |-> v, point |-> FilePath(v)', shown |-> listed,
                         wanted |-> FALSE, fresh |-> FALSE, wrong |-> FALSE,
                         excused |-> elapsedTimer, gone |-> FALSE]
                 [] /\ b # BlockOf[v] /\ b \in Tracked
                    /\ listed /\ IdOf[entries[b].vol] = IdOf[v] ->
                        [entries[b] EXCEPT !.shown = FALSE]
                 [] OTHER -> entries[b]]
        /\ registered' = registered \union {IdOf[v]}
        /\ lostIds' = LET b == BlockOf[v]
                       out == IF b \in Tracked /\ entries[b].shown /\ entries[b].gone
                              THEN {IdOf[entries[b].vol]} ELSE {}
                   IN (lostIds \union out) \ (IF listed THEN {IdOf[v]} ELSE {})

\* removeObject() takes out whichever object has the id; the slips forget one of
\* the two containers.
EraseListed(b) ==
    /\ registered' = registered \ {IdOf[entries[c].vol] : c \in {b} \intersect Tracked}
    /\ UNCHANGED <<entries, lostIds>>
EraseTracked(b) ==
    /\ entries' = [entries EXCEPT ![b] = NoEntry]
    /\ UNCHANGED <<registered, lostIds>>
Erase(b) ==
    IF b \in Tracked
    THEN LET id == IdOf[entries[b].vol] IN
         /\ registered' = registered \ {id}
         /\ lostIds' = lostIds \ {id}
         /\ entries' = [c \in Blocks |->
                CASE c = b -> NoEntry
                  [] c # b /\ c \in Tracked /\ IdOf[entries[c].vol] = id ->
                        [entries[c] EXCEPT !.shown = FALSE]
                  [] OTHER -> entries[c]]
    ELSE UNCHANGED <<entries, registered, lostIds>>

NoMountPoint(p) == FALSE
HasMountPoint(p) == \E b \in Tracked : entries[b].point = p

CreateAccessible(v) ==
    IF HasMountPoint(mountedAt'[v])
    THEN skipped' = skipped \union {v} /\ UNCHANGED <<entries, registered, lostIds>>
    ELSE Insert(v) /\ UNCHANGED skipped

\* The slip waits for accessibilityChanged() of a volume that is mounted already.
AddRaw(v) ==
    IF Accepted(v) /\ Raw(v) THEN Insert(v) /\ UNCHANGED skipped
    ELSE UNCHANGED <<entries, registered, lostIds, skipped>>
AddDevice(v) ==
    CASE ~Accepted(v) -> UNCHANGED <<entries, registered, lostIds, skipped>>
      [] Accepted(v) /\ Raw(v) -> Insert(v) /\ UNCHANGED skipped
      [] OTHER -> IF mountedAt'[v] = NoPoint
                  THEN UNCHANGED <<entries, registered, lostIds, skipped>>
                  ELSE CreateAccessible(v)

\* The plugin is loaded: listFromType().
ListDevices ==
    /\ ~disksLoaded
    /\ disksLoaded' = TRUE
    /\ \E S \in SUBSET Volumes :
         /\ \A v, w \in S : BlockOf[v] = BlockOf[w] => v = w
         /\ plugged' = S
         /\ unread' = S
         /\ mountedAt' \in {f \in [Volumes -> Points \union {NoPoint}] :
                \A v \in Volumes : f[v] # NoPoint => v \in S /\ Usage[v] = "FileSystem"}
    /\ UNCHANGED <<entries, registered, elapsedTimer, skipped, lostIds>>

\* One round of the constructor's loop; Solid lists in any order.
AddListed(v) ==
    /\ v \in unread
    /\ unread' = unread \ {v}
    /\ UNCHANGED <<disksLoaded, plugged, mountedAt, elapsedTimer>>
    /\ AddDevice(v)

VolumeAdded(v) ==
    /\ Ready
    /\ \A w \in plugged : BlockOf[w] # BlockOf[v]
    /\ plugged' = plugged \union {v}
    /\ UNCHANGED <<disksLoaded, unread, mountedAt, elapsedTimer>>
    /\ AddDevice(v)

\* deviceRemoved(): the device is looked at after it is gone, and may not
\* say any more what it was.
VolumeRemoved(v) ==
    /\ Ready
    /\ v \in plugged
    /\ plugged' = plugged \ {v}
    /\ mountedAt' = [mountedAt EXCEPT ![v] = NoPoint]
    /\ skipped' = skipped \ {v}
    /\ \/ /\ IsStorageAccess(v)
          /\ Erase(BlockOf[v])
       \/ /\ entries' = [b \in Blocks |-> IF b = BlockOf[v] /\ b \in Tracked
                                          THEN [entries[b] EXCEPT !.gone = TRUE]
                                          ELSE entries[b]]
          /\ UNCHANGED <<registered, lostIds>>
    /\ UNCHANGED <<disksLoaded, unread, elapsedTimer>>

Listens(v) == Ready /\ v \in plugged /\ Usage[v] = "FileSystem"

\* accessibilityChanged()
Mount(v, p) ==
    /\ Listens(v)
    /\ mountedAt[v] = NoPoint
    /\ mountedAt' = [mountedAt EXCEPT ![v] = p]
    /\ IF Accepted(v) THEN CreateAccessible(v)
       ELSE UNCHANGED <<entries, registered, lostIds, skipped>>
    /\ UNCHANGED <<disksLoaded, unread, plugged, elapsedTimer>>

Unmount(v) ==
    /\ Listens(v)
    /\ mountedAt[v] # NoPoint
    /\ mountedAt' = [mountedAt EXCEPT ![v] = NoPoint]
    /\ skipped' = skipped \ {v}
    /\ IF Accepted(v) THEN Erase(BlockOf[v])
       ELSE UNCHANGED <<entries, registered, lostIds>>
    /\ UNCHANGED <<disksLoaded, unread, plugged, elapsedTimer>>

-----------------------------------------------------------------------------
(* Clients and frames                                                      *)

\* What clients can reach is what the container shows.
Wants(b, yes) ==
    /\ Ready
    /\ b \in Tracked
    /\ entries[b].shown
    /\ entries[b].wanted # yes
    /\ entries' = [entries EXCEPT ![b].wanted = yes]
    /\ UNCHANGED <<disksLoaded, unread, plugged, mountedAt, registered, elapsedTimer,
                   skipped, lostIds>>

\* VolumeObject::setBytes(): no rate if no time has passed.  The slip does not
\* remember the counters.
SetRates(e) == [e EXCEPT !.wrong = IF elapsedTimer THEN ~e.fresh ELSE e.wrong]
SetBytes(e) ==
    [e EXCEPT !.fresh = TRUE, !.wrong = IF elapsedTimer THEN ~e.fresh ELSE e.wrong]

\* The timer was restarted, the counters were not read.
PassOver(e) == [e EXCEPT !.fresh = FALSE, !.excused = TRUE]

HasLine(b) == Diskstats /\ \E v \in plugged : BlockOf[v] = b

UpdateDisks ==
    /\ Ready
    /\ IF \E b \in Tracked : entries[b].wanted
       THEN /\ elapsedTimer' = TRUE
            /\ entries' = [b \in Blocks |->
                   CASE b \notin Tracked -> NoEntry
                     [] b \in Tracked /\ HasLine(b) -> SetBytes(entries[b])
                     [] OTHER -> PassOver(entries[b])]
       ELSE UNCHANGED <<elapsedTimer, entries>>
    /\ UNCHANGED <<disksLoaded, unread, plugged, mountedAt, registered,
                   skipped, lostIds>>

DisksNext ==
    \/ ListDevices
    \/ \E v \in Volumes : AddListed(v) \/ VolumeAdded(v) \/ VolumeRemoved(v) \/ Unmount(v)
    \/ \E v \in Volumes, p \in Points : Mount(v, p)
    \/ \E b \in Blocks, yes \in BOOLEAN : Wants(b, yes)
    \/ UpdateDisks

DisksSpec == DisksInit /\ [][DisksNext]_disksVars

-----------------------------------------------------------------------------
(* Properties                                                              *)

\* No two objects measure the file system at one mount point, except that an
\* encrypted volume is taken in without looking (addDevice() before
\* createAccessibleVolumeObject()).
MeasuredOnce ==
    \A b, c \in Tracked :
        b # c /\ entries[b].point # NoPoint /\ entries[b].point = entries[c].point
            => "Encrypted" \in {Usage[entries[b].vol], Usage[entries[c].vol]}

\* Every mounted file system on a hard disk has its object under its block
\* device, unless its mount point was another's when it appeared
\* (createAccessibleVolumeObject() passes it over for good).
MountedIsTracked ==
    \A v \in plugged \ (unread \union skipped) :
        Accepted(v) /\ Usage[v] = "FileSystem" /\ mountedAt[v] # NoPoint
            => /\ BlockOf[v] \in Tracked
               /\ entries[BlockOf[v]].vol = v
               /\ entries[BlockOf[v]].point = mountedAt[v]

\* A tracked file system is mounted where the plugin measures it, unless its
\* device was removed and Solid did not say any more what it was.
TrackedIsMounted ==
    \A b \in Tracked :
        Usage[entries[b].vol] = "FileSystem" /\ ~entries[b].gone
            => /\ entries[b].vol \in plugged
               /\ mountedAt[entries[b].vol] = entries[b].point
               /\ entries[b].point # NoPoint

\* What the container lists is updated: its object is the tracked one, unless
\* its device was removed unanswered and another object took its place
\* (m_volumesByDevice.insert() over the old one).
ShownIsTracked ==
    \A id \in registered \ lostIds :
        \E b \in Tracked : entries[b].shown /\ IdOf[entries[b].vol] = id

\* Devices, m_volumesByDevice, the container and the mount points agree, whatever
\* comes and goes.
VolumesAgree ==
    /\ MeasuredOnce
    /\ MountedIsTracked
    /\ TrackedIsMounted
    /\ ShownIsTracked

\* setBytes() divides by the time since the counters were read last, although
\* the timer is everybody's.  The exceptions are an object that appeared while
\* the timer ran (its first rate is its whole counter over one interval) and one
\* whose device had no counters for some time.
RatesCoverTheirTime ==
    \A b \in Tracked : entries[b].wrong => entries[b].excused
=============================================================================
