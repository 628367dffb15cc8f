----------------------------- MODULE DisksProofs -----------------------------
(***************************************************************************)
(* Proofs of the safety properties of the disks plugin, for any volumes,   *)
(* block devices, ids and mount points.                                    *)
(*                                                                         *)
(* A tracked object that was not removed unanswered is that of a volume    *)
(* Solid has on its block device (EntriesSound), of which there is one     *)
(* (PluggedApart): so an insertion over another object only hits one that  *)
(* is gone, and a removal by block device takes the right one.  A rate can *)
(* only be wrong where the timer ran without the counters being read, and  *)
(* that is excused (RatesKnown).  Of free space only the types are proved, *)
(* as its property is one of liveness.                                     *)
(***************************************************************************)
EXTENDS Disks, FreeSpace, TLAPS

PluggedApart == \A v, w \in plugged : BlockOf[v] = BlockOf[w] => v = w

MountedIsPlugged ==
    \A v \in Volumes : mountedAt[v] # NoPoint => v \in plugged /\ Usage[v] = "FileSystem"

EntriesSound ==
    \A b \in Tracked :
        /\ BlockOf[entries[b].vol] = b
        /\ Accepted(entries[b].vol)
        /\ ~entries[b].gone => entries[b].vol \in plugged \ unread

NothingTracked == ~disksLoaded => Tracked = {} /\ registered = {} /\ unread = {}

RatesKnown ==
    \A b \in Tracked :
        /\ entries[b].wrong => entries[b].excused
        /\ elapsedTimer /\ ~entries[b].fresh => entries[b].excused

DisksInv ==
    /\ DisksTypeOK
    /\ PluggedApart
    /\ MountedIsPlugged
    /\ EntriesSound
    /\ NothingTracked
    /\ RatesKnown
    /\ VolumesAgree

\* Solid's side of a step: volume v is listed, added or mounted.
Arrives(v) ==
    /\ plugged' = plugged \union {v}
    /\ unread' = unread \ {v}
    /\ mountedAt' \in [Volumes -> Points \union {NoPoint}]
    /\ \A w \in Volumes : w # v => mountedAt'[w] = mountedAt[w]
    /\ mountedAt'[v] # NoPoint => Usage[v] = "FileSystem"
    /\ \A w \in plugged : BlockOf[w] = BlockOf[v] => w = v
    /\ BlockOf[v] \in Tracked => entries[BlockOf[v]].gone
    /\ disksLoaded /\ disksLoaded'
    /\ UNCHANGED elapsedTimer

\* Volume v is unmounted or removed.
Leaves(v) ==
    /\ plugged' \in {plugged, plugged \ {v}}
    /\ unread = {} /\ unread' = {}
    /\ mountedAt' = [mountedAt EXCEPT ![v] = NoPoint]
    /\ skipped' = skipped \ {v}
    /\ v \in plugged
    /\ disksLoaded /\ disksLoaded'
    /\ UNCHANGED elapsedTimer

-----------------------------------------------------------------------------

\* Every usage is raw or a file system, and only a file system or an encrypted
\* volume has a path.
LEMMA UsageFacts ==
  ASSUME NEW v \in Volumes
  PROVE  /\ Raw(v) <=> Usage[v] # "FileSystem"
         /\ Usage[v] = "FileSystem" => FilePath(v) = mountedAt[v]
         /\ Usage[v] \notin {"FileSystem", "Encrypted"} => FilePath(v) = NoPoint
         /\ mountedAt \in [Volumes -> Points \union {NoPoint}]
                => FilePath(v) \in Points \union {NoPoint}
  BY DisksAssumption DEF Raw, FilePath

\* Before the plugin is loaded nothing is tracked.
LEMMA DisksInitSound == DisksInit => DisksInv
<1> SUFFICES ASSUME DisksInit PROVE DisksInv
  OBVIOUS
<1>1. Tracked = {}
  BY DEF DisksInit, Tracked
<1>2. DisksTypeOK
  BY DEF DisksInit, DisksTypeOK
<1>3. PluggedApart /\ MountedIsPlugged
  BY DEF DisksInit, PluggedApart, MountedIsPlugged
<1>4. EntriesSound /\ NothingTracked /\ RatesKnown
  BY <1>1 DEF DisksInit, EntriesSound, NothingTracked, RatesKnown
<1>5. VolumesAgree
  BY <1>1 DEF DisksInit, VolumesAgree, MeasuredOnce, MountedIsTracked, TrackedIsMounted,
     ShownIsTracked
<1> QED
  BY <1>2, <1>3, <1>4, <1>5 DEF DisksInv

\* A step that changes nothing of an object but what is asked, read and wanted.
LEMMA SameVolumesSound ==
  ASSUME DisksInv,
         UNCHANGED <<disksLoaded, unread, plugged, mountedAt, registered, skipped,
                     lostIds>>,
         elapsedTimer' \in BOOLEAN,
         entries' \in [Blocks -> VolumeObjects \union {NoEntry}],
         \A b \in Blocks : b \in Tracked' <=> b \in Tracked,
         \A b \in Tracked : /\ entries'[b].vol = entries[b].vol
                            /\ entries'[b].point = entries[b].point
                            /\ entries'[b].shown = entries[b].shown
                            /\ entries'[b].gone = entries[b].gone,
         RatesKnown'
  PROVE  DisksInv'
<1>1. Tracked' = Tracked
  BY DEF Tracked
<1> USE DEF DisksInv
<1>2. DisksTypeOK'
  BY DEF DisksTypeOK
<1>3. PluggedApart' /\ MountedIsPlugged'
  BY DEF PluggedApart, MountedIsPlugged
<1>4. EntriesSound' /\ NothingTracked'
  BY <1>1 DEF EntriesSound, NothingTracked, Accepted, Raw
<1>5. MeasuredOnce'
  BY <1>1 DEF VolumesAgree, MeasuredOnce
<1>6. MountedIsTracked'
  BY <1>1 DEF VolumesAgree, MountedIsTracked, Accepted, Raw
<1>7. TrackedIsMounted'
  BY <1>1 DEF VolumesAgree, TrackedIsMounted
<1>8. ShownIsTracked'
  BY <1>1 DEF VolumesAgree, ShownIsTracked
<1> QED
  BY <1>2, <1>3, <1>4, <1>5, <1>6, <1>7, <1>8 DEF VolumesAgree

\* What holds of Solid's devices after a volume arrives.
LEMMA ArrivalSound ==
  ASSUME DisksInv, NEW v \in Volumes, Arrives(v)
  PROVE  /\ unread' \subseteq plugged' /\ plugged' \subseteq Volumes
         /\ PluggedApart' /\ MountedIsPlugged'
  BY DEF DisksInv, DisksTypeOK, Arrives, PluggedApart, MountedIsPlugged

\* What the object is like that an arriving volume gets, and what becomes of the
\* others.
LEMMA InsertFacts ==
  ASSUME DisksInv, NEW v \in Volumes, Arrives(v), Insert(v)
  PROVE  /\ Tracked' = Tracked \union {BlockOf[v]}
         /\ entries' \in [Blocks -> VolumeObjects \union {NoEntry}]
         /\ entries'[BlockOf[v]].vol = v
         /\ entries'[BlockOf[v]].point = FilePath(v)'
         /\ ~entries'[BlockOf[v]].gone
         /\ ~entries'[BlockOf[v]].wrong
         /\ elapsedTimer => entries'[BlockOf[v]].excused
         /\ \A b \in Tracked \ {BlockOf[v]} :
                /\ entries'[b].vol = entries[b].vol
                /\ entries'[b].point = entries[b].point
                /\ entries'[b].gone = entries[b].gone
                /\ entries'[b].wrong = entries[b].wrong
                /\ entries'[b].excused = entries[b].excused
                /\ entries'[b].fresh = entries[b].fresh
                /\ entries[b].shown =>
                       \/ entries'[b].shown
                       \/ IdOf[entries[b].vol] = IdOf[v] /\ entries'[BlockOf[v]].shown
         /\ ~entries'[BlockOf[v]].shown => IdOf[v] \in registered
         /\ registered' = registered \union {IdOf[v]}
         /\ lostIds' \subseteq Ids
         /\ \A id \in lostIds :
                id \in lostIds' \/ (id = IdOf[v] /\ entries'[BlockOf[v]].shown)
         /\ BlockOf[v] \in Tracked /\ entries[BlockOf[v]].shown =>
                \/ IdOf[entries[BlockOf[v]].vol] \in lostIds'
                \/ IdOf[entries[BlockOf[v]].vol] = IdOf[v] /\ entries'[BlockOf[v]].shown
<1> DEFINE B == BlockOf[v]
           New(l) == [vol |-> v, point |-> FilePath(v)', shown |-> l, wanted |-> FALSE,
                      fresh |-> FALSE, wrong |-> FALSE,
                      excused |-> elapsedTimer, gone |-> FALSE]
           Hidden(b) == [entries[b] EXCEPT !.shown = FALSE]
<1>1. PICK l \in {TRUE, IdOf[v] \notin registered} :
        /\ entries' = [b \in Blocks |->
               CASE b = B -> New(l)
                 [] /\ b # B /\ b \in Tracked
                    /\ l /\ IdOf[entries[b].vol] = IdOf[v] -> Hidden(b)
                 [] OTHER -> entries[b]]
        /\ registered' = registered \union {IdOf[v]}
        /\ lostIds' = LET b == B
                          out == IF b \in Tracked /\ entries[b].shown /\ entries[b].gone
                                 THEN {IdOf[entries[b].vol]} ELSE {}
                      IN (lostIds \union out) \ (IF l THEN {IdOf[v]} ELSE {})
  BY DEF Insert
<1>2. l \in BOOLEAN /\ (~l => IdOf[v] \in registered)
  BY <1>1
<1>3. B \in Blocks /\ IdOf[v] \in Ids /\ FilePath(v)' \in Points \union {NoPoint}
      /\ elapsedTimer \in BOOLEAN
  <2>1. FilePath(v)' \in Points \union {NoPoint}
    BY DisksAssumption DEF Arrives, FilePath
  <2> QED
    BY <2>1, DisksAssumption DEF DisksInv, DisksTypeOK
<1>4. /\ New(l) \in VolumeObjects /\ New(l).vol = v /\ New(l).point = FilePath(v)'
      /\ ~New(l).gone /\ ~New(l).wrong /\ (elapsedTimer => New(l).excused)
      /\ New(l).shown = l
  BY <1>2, <1>3 DEF VolumeObjects
<1> HIDE DEF New
<1>5. entries'[B] = New(l)
  BY <1>1, <1>3
<1>6. \A b \in Tracked : b \in Blocks /\ entries[b] \in VolumeObjects
  BY DEF Tracked, DisksInv, DisksTypeOK
<1>7. ASSUME NEW b \in Tracked \ {B}
      PROVE  /\ entries'[b] \in VolumeObjects
             /\ entries'[b].vol = entries[b].vol
             /\ entries'[b].point = entries[b].point
             /\ entries'[b].gone = entries[b].gone
             /\ entries'[b].wrong = entries[b].wrong
             /\ entries'[b].excused = entries[b].excused
             /\ entries'[b].fresh = entries[b].fresh
             /\ entries[b].shown =>
                    entries'[b].shown \/ (IdOf[entries[b].vol] = IdOf[v] /\ l)
  <2>1. \/ entries'[b] = Hidden(b) /\ IdOf[entries[b].vol] = IdOf[v] /\ l
        \/ entries'[b] = entries[b]
    BY <1>1, <1>6
  <2> QED
    BY <2>1, <1>6 DEF VolumeObjects
<1>8. ASSUME NEW b \in Blocks, b \notin Tracked, b # B
      PROVE  entries'[b] = NoEntry
  BY <1>1, <1>8 DEF Tracked
<1>9. Tracked' = Tracked \union {B}
  BY <1>3, <1>4, <1>5, <1>6, <1>7, <1>8, EntryAssumption DEF Tracked
<1>10. entries' \in [Blocks -> VolumeObjects \union {NoEntry}]
  <2>1. \A b \in Blocks : entries'[b] \in VolumeObjects \union {NoEntry}
    BY <1>4, <1>5, <1>7, <1>8
  <2>2. entries' = [b \in Blocks |-> entries'[b]]
    BY <1>1
  <2> QED
    BY <2>1, <2>2
<1>11. /\ lostIds' \subseteq Ids
       /\ \A id \in lostIds : id \in lostIds' \/ (id = IdOf[v] /\ l)
       /\ B \in Tracked /\ entries[B].shown =>
              \/ IdOf[entries[B].vol] \in lostIds'
              \/ IdOf[entries[B].vol] = IdOf[v] /\ l
  <2>1. B \in Tracked => entries[B].gone /\ IdOf[entries[B].vol] \in Ids
    BY <1>6, DisksAssumption DEF Arrives, VolumeObjects
  <2> QED
    BY <1>1, <1>2, <2>1 DEF DisksInv, DisksTypeOK
<1> QED
  BY <1>1, <1>2, <1>4, <1>5, <1>7, <1>9, <1>10, <1>11

\* An arriving volume gets its object, in place of one that is gone at most.
LEMMA InsertSound ==
  ASSUME DisksInv, NEW v \in Volumes, Arrives(v), Insert(v), UNCHANGED skipped,
         Accepted(v),
         Usage[v] = "FileSystem" =>
             mountedAt'[v] # NoPoint /\ ~HasMountPoint(mountedAt'[v])
  PROVE  DisksInv'
<1> DEFINE B == BlockOf[v]
<1> USE DEF DisksInv
<1>1. /\ unread' \subseteq plugged' /\ plugged' \subseteq Volumes
      /\ PluggedApart' /\ MountedIsPlugged'
  BY ArrivalSound
<1>2. /\ Tracked' = Tracked \union {B}
      /\ entries' \in [Blocks -> VolumeObjects \union {NoEntry}]
      /\ entries'[B].vol = v
      /\ entries'[B].point = FilePath(v)'
      /\ ~entries'[B].gone
      /\ ~entries'[B].wrong
      /\ elapsedTimer => entries'[B].excused
  BY InsertFacts
<1>3. \A b \in Tracked \ {B} :
          /\ entries'[b].vol = entries[b].vol
          /\ entries'[b].point = entries[b].point
          /\ entries'[b].gone = entries[b].gone
          /\ entries'[b].wrong = entries[b].wrong
          /\ entries'[b].excused = entries[b].excused
          /\ entries'[b].fresh = entries[b].fresh
          /\ entries[b].shown =>
                 \/ entries'[b].shown
                 \/ IdOf[entries[b].vol] = IdOf[v] /\ entries'[B].shown
  BY InsertFacts
<1>4. /\ ~entries'[B].shown => IdOf[v] \in registered
      /\ registered' = registered \union {IdOf[v]}
      /\ lostIds' \subseteq Ids
      /\ \A id \in lostIds : id \in lostIds' \/ (id = IdOf[v] /\ entries'[B].shown)
      /\ B \in Tracked /\ entries[B].shown =>
             \/ IdOf[entries[B].vol] \in lostIds'
             \/ IdOf[entries[B].vol] = IdOf[v] /\ entries'[B].shown
  BY InsertFacts
<1>5. /\ Usage[v] = "FileSystem" => FilePath(v)' = mountedAt'[v]
      /\ Usage[v] \notin {"FileSystem", "Encrypted"} => FilePath(v)' = NoPoint
  BY DisksAssumption DEF FilePath
<1>6. DisksTypeOK'
  BY <1>1, <1>2, <1>4, DisksAssumption DEF DisksTypeOK, Arrives
<1>7. \A b \in Tracked : b \in Blocks /\ entries[b].vol \in Volumes
  BY DEF Tracked, DisksTypeOK, VolumeObjects
<1>8. \A b \in Tracked \ {B} : entries[b].vol # v
  BY DEF EntriesSound
<1>9. EntriesSound'
  <2>1. v \in plugged' \ unread'
    BY DEF Arrives
  <2>2. ASSUME NEW b \in Tracked \ {B}, ~entries[b].gone
        PROVE  entries[b].vol \in plugged' \ unread'
    BY <2>2 DEF EntriesSound, Arrives
  <2> QED
    BY <1>2, <1>3, <2>1, <2>2 DEF EntriesSound, Accepted, Raw
<1>10. NothingTracked'
  BY DEF NothingTracked, Arrives
<1>11. RatesKnown'
  BY <1>2, <1>3 DEF RatesKnown, Arrives
<1>12. MeasuredOnce'
  <2> SUFFICES ASSUME NEW b \in Tracked', NEW c \in Tracked', b # c,
                      entries'[b].point # NoPoint, entries'[b].point = entries'[c].point
               PROVE  "Encrypted" \in {Usage[entries'[b].vol], Usage[entries'[c].vol]}
    BY DEF MeasuredOnce
  <2>1. CASE b # B /\ c # B
    BY <1>2, <1>3, <2>1 DEF VolumesAgree, MeasuredOnce
  <2>2. ASSUME NEW d \in Tracked \ {B}, entries'[d].point = entries'[B].point,
               entries'[B].point # NoPoint
        PROVE  Usage[v] = "Encrypted"
    BY <1>2, <1>3, <1>5, <2>2 DEF HasMountPoint
  <2>3. CASE b = B
    BY <1>2, <2>2, <2>3
  <2>4. CASE c = B
    BY <1>2, <2>2, <2>4
  <2> QED
    BY <2>1, <2>3, <2>4
<1>13. MountedIsTracked'
  <2> SUFFICES ASSUME NEW w \in plugged' \ (unread' \union skipped'), Accepted(w),
                      Usage[w] = "FileSystem", mountedAt'[w] # NoPoint
               PROVE  /\ BlockOf[w] \in Tracked'
                      /\ entries'[BlockOf[w]].vol = w
                      /\ entries'[BlockOf[w]].point = mountedAt'[w]
    BY DEF MountedIsTracked, Accepted, Raw
  <2>1. CASE w = v
    BY <1>2, <1>5, <2>1
  <2>2. CASE w # v
    <3>1. /\ w \in plugged \ (unread \union skipped)
          /\ mountedAt'[w] = mountedAt[w]
          /\ BlockOf[w] # B
      BY <1>1, <2>2 DEF Arrives, PluggedApart
    <3>2. /\ BlockOf[w] \in Tracked
          /\ entries[BlockOf[w]].vol = w
          /\ entries[BlockOf[w]].point = mountedAt[w]
      BY <3>1 DEF VolumesAgree, MountedIsTracked
    <3> QED
      BY <1>2, <1>3, <3>1, <3>2
  <2> QED
    BY <2>1, <2>2
<1>14. TrackedIsMounted'
  <2> SUFFICES ASSUME NEW b \in Tracked', Usage[entries'[b].vol] = "FileSystem",
                      ~entries'[b].gone
               PROVE  /\ entries'[b].vol \in plugged'
                      /\ mountedAt'[entries'[b].vol] = entries'[b].point
                      /\ entries'[b].point # NoPoint
    BY DEF TrackedIsMounted
  <2>1. CASE b = B
    BY <1>2, <1>5, <2>1 DEF Arrives
  <2>2. CASE b # B
    <3>1. /\ b \in Tracked \ {B}
          /\ entries[b].vol \in plugged
          /\ mountedAt[entries[b].vol] = entries[b].point
          /\ entries[b].point # NoPoint
      BY <1>2, <1>3, <2>2 DEF VolumesAgree, TrackedIsMounted
    <3> QED
      BY <1>3, <1>7, <1>8, <3>1 DEF Arrives
  <2> QED
    BY <2>1, <2>2
<1>15. ShownIsTracked'
  <2> SUFFICES ASSUME NEW id \in registered' \ lostIds'
               PROVE  \E b \in Tracked' : entries'[b].shown /\ IdOf[entries'[b].vol] = id
    BY DEF ShownIsTracked
  <2>1. CASE id = IdOf[v] /\ entries'[B].shown
    BY <1>2, <2>1
  <2>2. CASE ~(id = IdOf[v] /\ entries'[B].shown)
    <3>1. id \in registered \ lostIds
      BY <1>4, <2>2
    <3>2. PICK b \in Tracked : entries[b].shown /\ IdOf[entries[b].vol] = id
      BY <3>1 DEF VolumesAgree, ShownIsTracked
    <3>3. b # B
      BY <1>4, <2>2, <3>2
    <3> QED
      BY <1>2, <1>3, <2>2, <3>2, <3>3
  <2> QED
    BY <2>1, <2>2
<1> QED
  BY <1>1, <1>6, <1>9, <1>10, <1>11, <1>12, <1>13, <1>14, <1>15 DEF VolumesAgree

\* A volume that arrives without getting an object is not accepted, not mounted
\* or passed over.
LEMMA PassedSound ==
  ASSUME DisksInv, NEW v \in Volumes, Arrives(v),
         UNCHANGED <<entries, registered, lostIds>>,
         skipped \subseteq skipped', skipped' \subseteq Volumes,
         \/ ~Accepted(v)
         \/ Usage[v] # "FileSystem"
         \/ mountedAt'[v] = NoPoint
         \/ v \in skipped'
  PROVE  DisksInv'
<1> USE DEF DisksInv
<1>1. /\ unread' \subseteq plugged' /\ plugged' \subseteq Volumes
      /\ PluggedApart' /\ MountedIsPlugged'
  BY ArrivalSound
<1>2. Tracked' = Tracked
  BY DEF Tracked
<1>3. \A b \in Tracked : b \in Blocks /\ entries[b].vol \in Volumes
  BY DEF Tracked, DisksTypeOK, VolumeObjects
<1>4. \A b \in Tracked : ~entries[b].gone => entries[b].vol # v
  BY DEF EntriesSound, Arrives
<1>5. DisksTypeOK'
  BY <1>1 DEF DisksTypeOK, Arrives
<1>6. EntriesSound' /\ NothingTracked' /\ RatesKnown'
  BY <1>2 DEF EntriesSound, Accepted, Raw, NothingTracked, RatesKnown, Arrives
<1>7. MeasuredOnce' /\ ShownIsTracked'
  BY <1>2 DEF VolumesAgree, MeasuredOnce, ShownIsTracked
<1>8. MountedIsTracked'
  <2> SUFFICES ASSUME NEW w \in plugged' \ (unread' \union skipped'), Accepted(w),
                      Usage[w] = "FileSystem", mountedAt'[w] # NoPoint
               PROVE  /\ BlockOf[w] \in Tracked'
                      /\ entries'[BlockOf[w]].vol = w
                      /\ entries'[BlockOf[w]].point = mountedAt'[w]
    BY DEF MountedIsTracked, Accepted, Raw
  <2>1. /\ w # v
        /\ w \in plugged \ (unread \union skipped)
        /\ mountedAt'[w] = mountedAt[w]
    BY <1>1 DEF Arrives
  <2> QED
    BY <1>2, <2>1 DEF VolumesAgree, MountedIsTracked
<1>9. TrackedIsMounted'
  BY <1>2, <1>3, <1>4 DEF VolumesAgree, TrackedIsMounted, Arrives
<1> QED
  BY <1>1, <1>5, <1>6, <1>7, <1>8, <1>9 DEF VolumesAgree

\* What erasing an entry leaves.
LEMMA EraseFacts ==
  ASSUME DisksInv, NEW c \in Blocks, Erase(c)
  PROVE  /\ Tracked' = Tracked \ {c}
         /\ entries' \in [Blocks -> VolumeObjects \union {NoEntry}]
         /\ registered' \subseteq registered /\ lostIds' \subseteq lostIds
         /\ \A b \in Tracked \ {c} :
                /\ entries'[b].vol = entries[b].vol
                /\ entries'[b].point = entries[b].point
                /\ entries'[b].gone = entries[b].gone
                /\ entries'[b].wrong = entries[b].wrong
                /\ entries'[b].excused = entries[b].excused
                /\ entries'[b].fresh = entries[b].fresh
                /\ entries[b].shown =>
                       entries'[b].shown \/ IdOf[entries[b].vol] \notin registered'
         /\ c \in Tracked => IdOf[entries[c].vol] \notin registered'
         /\ \A id \in registered' : id \in lostIds => id \in lostIds'
<1>1. \A b \in Tracked : b \in Blocks /\ entries[b] \in VolumeObjects
  BY DEF Tracked, DisksInv, DisksTypeOK
<1>2. CASE c \notin Tracked
  <2>1. UNCHANGED <<entries, registered, lostIds>>
    BY <1>2 DEF Erase
  <2> QED
    BY <1>2, <2>1 DEF Tracked, DisksInv, DisksTypeOK
<1>3. CASE c \in Tracked
  <2> DEFINE id == IdOf[entries[c].vol]
             Hidden(b) == [entries[b] EXCEPT !.shown = FALSE]
  <2>1. /\ registered' = registered \ {id}
        /\ lostIds' = lostIds \ {id}
        /\ entries' = [b \in Blocks |->
               CASE b = c -> NoEntry
                 [] b # c /\ b \in Tracked /\ IdOf[entries[b].vol] = id -> Hidden(b)
                 [] OTHER -> entries[b]]
    BY <1>3 DEF Erase
  <2>2. entries'[c] = NoEntry
    BY <2>1
  <2>3. ASSUME NEW b \in Tracked \ {c}
        PROVE  /\ entries'[b] \in VolumeObjects
               /\ entries'[b].vol = entries[b].vol
               /\ entries'[b].point = entries[b].point
               /\ entries'[b].gone = entries[b].gone
               /\ entries'[b].wrong = entries[b].wrong
               /\ entries'[b].excused = entries[b].excused
               /\ entries'[b].fresh = entries[b].fresh
               /\ entries[b].shown => entries'[b].shown \/ IdOf[entries[b].vol] = id
    <3>1. \/ entries'[b] = Hidden(b) /\ IdOf[entries[b].vol] = id
          \/ entries'[b] = entries[b]
      BY <2>1, <1>1
    <3> QED
      BY <3>1, <1>1 DEF VolumeObjects
  <2>4. ASSUME NEW b \in Blocks, b \notin Tracked
        PROVE  entries'[b] = NoEntry
    BY <2>1, <2>4 DEF Tracked
  <2>5. Tracked' = Tracked \ {c}
    BY <2>2, <2>3, <2>4, <1>1, EntryAssumption DEF Tracked
  <2>6. entries' \in [Blocks -> VolumeObjects \union {NoEntry}]
    <3>1. \A b \in Blocks : entries'[b] \in VolumeObjects \union {NoEntry}
      BY <2>2, <2>3, <2>4
    <3>2. entries' = [b \in Blocks |-> entries'[b]]
      BY <2>1
    <3> QED
      BY <3>1, <3>2
  <2> QED
    BY <2>1, <2>3, <2>5, <2>6
<1> QED
  BY <1>2, <1>3

\* A volume that leaves takes the object on its block device along.
LEMMA EraseSound ==
  ASSUME DisksInv, NEW v \in Volumes, Leaves(v), Erase(BlockOf[v])
  PROVE  DisksInv'
<1> DEFINE B == BlockOf[v]
<1> USE DEF DisksInv
<1>1. /\ Tracked' = Tracked \ {B}
      /\ entries' \in [Blocks -> VolumeObjects \union {NoEntry}]
      /\ registered' \subseteq registered /\ lostIds' \subseteq lostIds
      /\ \A b \in Tracked \ {B} :
             /\ entries'[b].vol = entries[b].vol
             /\ entries'[b].point = entries[b].point
             /\ entries'[b].gone = entries[b].gone
             /\ entries'[b].wrong = entries[b].wrong
             /\ entries'[b].excused = entries[b].excused
             /\ entries'[b].fresh = entries[b].fresh
             /\ entries[b].shown =>
                    entries'[b].shown \/ IdOf[entries[b].vol] \notin registered'
      /\ B \in Tracked => IdOf[entries[B].vol] \notin registered'
      /\ \A id \in registered' : id \in lostIds => id \in lostIds'
    <2>1. B \in Blocks
      BY DisksAssumption
    <2> QED
      BY <2>1, EraseFacts
<1>2. \A b \in Tracked : entries[b].vol \in Volumes /\ BlockOf[entries[b].vol] = b
  BY DEF Tracked, DisksTypeOK, VolumeObjects, EntriesSound
<1>3. \A b \in Tracked \ {B} : entries[b].vol # v
  BY <1>2
<1>4. DisksTypeOK'
  BY <1>1, DisksAssumption DEF DisksTypeOK, Leaves
<1>5. PluggedApart' /\ MountedIsPlugged'
  BY DEF PluggedApart, MountedIsPlugged, Leaves, DisksTypeOK
<1>6. EntriesSound'
  BY <1>1, <1>3 DEF EntriesSound, Accepted, Raw, Leaves
<1>7. NothingTracked' /\ RatesKnown'
  BY <1>1 DEF NothingTracked, RatesKnown, Leaves
<1>8. MeasuredOnce'
  BY <1>1 DEF VolumesAgree, MeasuredOnce
<1>9. MountedIsTracked'
  <2> SUFFICES ASSUME NEW w \in plugged' \ (unread' \union skipped'), Accepted(w),
                      Usage[w] = "FileSystem", mountedAt'[w] # NoPoint
               PROVE  /\ BlockOf[w] \in Tracked'
                      /\ entries'[BlockOf[w]].vol = w
                      /\ entries'[BlockOf[w]].point = mountedAt'[w]
    BY DEF MountedIsTracked, Accepted, Raw
  <2>1. /\ w # v
        /\ w \in plugged \ (unread \union skipped)
        /\ mountedAt'[w] = mountedAt[w]
    BY DEF Leaves, DisksTypeOK
  <2>2. BlockOf[w] # B
    BY <2>1 DEF PluggedApart, Leaves
  <2>3. /\ BlockOf[w] \in Tracked
        /\ entries[BlockOf[w]].vol = w
        /\ entries[BlockOf[w]].point = mountedAt[w]
    BY <2>1 DEF VolumesAgree, MountedIsTracked
  <2> QED
    BY <1>1, <2>1, <2>2, <2>3
<1>10. TrackedIsMounted'
  <2> SUFFICES ASSUME NEW b \in Tracked', Usage[entries'[b].vol] = "FileSystem",
                      ~entries'[b].gone
               PROVE  /\ entries'[b].vol \in plugged'
                      /\ mountedAt'[entries'[b].vol] = entries'[b].point
                      /\ entries'[b].point # NoPoint
    BY DEF TrackedIsMounted
  <2>1. /\ b \in Tracked \ {B}
        /\ entries[b].vol \in plugged
        /\ mountedAt[entries[b].vol] = entries[b].point
        /\ entries[b].point # NoPoint
    BY <1>1 DEF VolumesAgree, TrackedIsMounted
  <2> QED
    BY <1>1, <1>2, <1>3, <2>1 DEF Leaves, DisksTypeOK
<1>11. ShownIsTracked'
  <2> SUFFICES ASSUME NEW id \in registered' \ lostIds'
               PROVE  \E b \in Tracked' : entries'[b].shown /\ IdOf[entries'[b].vol] = id
    BY DEF ShownIsTracked
  <2>1. id \in registered \ lostIds
    BY <1>1
  <2>2. PICK b \in Tracked : entries[b].shown /\ IdOf[entries[b].vol] = id
    BY <2>1 DEF VolumesAgree, ShownIsTracked
  <2>3. b # B
    BY <1>1, <2>2
  <2> QED
    BY <1>1, <2>2, <2>3
<1> QED
  BY <1>4, <1>5, <1>6, <1>7, <1>8, <1>9, <1>10, <1>11 DEF VolumesAgree

\* A volume that leaves without taking an object along leaves none behind but one
\* that is gone.
LEMMA LeftSound ==
  ASSUME DisksInv, NEW v \in Volumes, Leaves(v), UNCHANGED <<registered, lostIds>>,
         entries' \in [Blocks -> VolumeObjects \union {NoEntry}],
         Tracked' = Tracked,
         \A b \in Tracked : /\ entries'[b].vol = entries[b].vol
                            /\ entries'[b].point = entries[b].point
                            /\ entries'[b].shown = entries[b].shown
                            /\ entries'[b].wrong = entries[b].wrong
                            /\ entries'[b].excused = entries[b].excused
                            /\ entries'[b].fresh = entries[b].fresh
                            /\ entries[b].gone => entries'[b].gone
                            /\ entries[b].vol = v => entries'[b].gone
  PROVE  DisksInv'
<1> USE DEF DisksInv
<1>1. \A b \in Tracked : entries[b].vol \in Volumes
  BY DEF Tracked, DisksTypeOK, VolumeObjects
<1>2. DisksTypeOK'
  BY DEF DisksTypeOK, Leaves
<1>3. PluggedApart' /\ MountedIsPlugged'
  BY DEF PluggedApart, MountedIsPlugged, Leaves, DisksTypeOK
<1>4. EntriesSound'
  BY DEF EntriesSound, Accepted, Raw, Leaves
<1>5. NothingTracked' /\ RatesKnown'
  BY DEF NothingTracked, RatesKnown, Leaves
<1>6. MeasuredOnce' /\ ShownIsTracked'
  BY DEF VolumesAgree, MeasuredOnce, ShownIsTracked
<1>7. MountedIsTracked'
  <2> SUFFICES ASSUME NEW w \in plugged' \ (unread' \union skipped'), Accepted(w),
                      Usage[w] = "FileSystem", mountedAt'[w] # NoPoint
               PROVE  /\ BlockOf[w] \in Tracked'
                      /\ entries'[BlockOf[w]].vol = w
                      /\ entries'[BlockOf[w]].point = mountedAt'[w]
    BY DEF MountedIsTracked, Accepted, Raw
  <2>1. /\ w \in plugged \ (unread \union skipped)
        /\ mountedAt'[w] = mountedAt[w]
    BY DEF Leaves, DisksTypeOK
  <2> QED
    BY <2>1 DEF VolumesAgree, MountedIsTracked
<1>8. TrackedIsMounted'
  <2> SUFFICES ASSUME NEW b \in Tracked, Usage[entries[b].vol] = "FileSystem",
                      ~entries'[b].gone
               PROVE  /\ entries'[b].vol \in plugged'
                      /\ mountedAt'[entries'[b].vol] = entries'[b].point
                      /\ entries'[b].point # NoPoint
    BY DEF TrackedIsMounted
  <2>1. /\ entries[b].vol # v
        /\ entries[b].vol \in plugged
        /\ mountedAt[entries[b].vol] = entries[b].point
        /\ entries[b].point # NoPoint
    BY DEF VolumesAgree, TrackedIsMounted
  <2> QED
    BY <1>1, <2>1 DEF Leaves, DisksTypeOK
<1> QED
  BY <1>2, <1>3, <1>4, <1>5, <1>6, <1>7, <1>8 DEF VolumesAgree

-----------------------------------------------------------------------------
(* The actions                                                             *)

\* createAccessibleVolumeObject() of a volume that is mounted.
LEMMA CreateAccessibleSound ==
  ASSUME DisksInv, NEW v \in Volumes, Arrives(v), CreateAccessible(v), Accepted(v),
         mountedAt'[v] # NoPoint
  PROVE  DisksInv'
<1>1. CASE HasMountPoint(mountedAt'[v])
  <2>1. skipped' = skipped \union {v} /\ UNCHANGED <<entries, registered, lostIds>>
    BY <1>1 DEF CreateAccessible
  <2>2. skipped' \subseteq Volumes
    BY <2>1 DEF DisksInv, DisksTypeOK
  <2> QED
    BY <2>1, <2>2, PassedSound
<1>2. CASE ~HasMountPoint(mountedAt'[v])
  BY <1>2, InsertSound DEF CreateAccessible
<1> QED
  BY <1>1, <1>2

\* addDevice() of whatever arrives.
LEMMA AddDeviceSound ==
  ASSUME DisksInv, NEW v \in Volumes, Arrives(v), AddDevice(v)
  PROVE  DisksInv'
<1>1. skipped \subseteq Volumes
  BY DEF DisksInv, DisksTypeOK
<1>2. CASE ~Accepted(v)
  BY <1>1, <1>2, PassedSound DEF AddDevice
<1>3. CASE Accepted(v) /\ Raw(v)
  BY <1>3, InsertSound, UsageFacts DEF AddDevice
<1>4. CASE Accepted(v) /\ ~Raw(v) /\ mountedAt'[v] = NoPoint
  BY <1>1, <1>4, PassedSound DEF AddDevice
<1>5. CASE Accepted(v) /\ ~Raw(v) /\ mountedAt'[v] # NoPoint
  BY <1>5, CreateAccessibleSound DEF AddDevice
<1> QED
  BY <1>2, <1>3, <1>4, <1>5

\* The constructor lists devices of different block devices.
LEMMA ListSound == DisksInv /\ ListDevices => DisksInv'
<1> SUFFICES ASSUME DisksInv, ListDevices PROVE DisksInv'
  OBVIOUS
<1> USE DEF DisksInv, ListDevices
<1>1. Tracked = {} /\ Tracked' = {} /\ registered' = {}
  BY DEF NothingTracked, Tracked
<1>2. DisksTypeOK'
  BY DEF DisksTypeOK
<1>3. PluggedApart'
  BY DEF PluggedApart
<1>4. MountedIsPlugged'
  BY DEF MountedIsPlugged
<1>5. EntriesSound' /\ NothingTracked' /\ RatesKnown'
  BY <1>1 DEF EntriesSound, NothingTracked, RatesKnown
<1>6. MeasuredOnce' /\ TrackedIsMounted' /\ ShownIsTracked'
  BY <1>1 DEF MeasuredOnce, TrackedIsMounted, ShownIsTracked
<1>7. MountedIsTracked'
  BY DEF MountedIsTracked
<1> QED
  BY <1>2, <1>3, <1>4, <1>5, <1>6, <1>7 DEF VolumesAgree

\* A listed device that was not gone through has no object yet.
LEMMA AddListedSound ==
  ASSUME DisksInv, NEW v \in Volumes, AddListed(v)
  PROVE  DisksInv'
<1> USE DEF DisksInv, AddListed
<1>1. v \in unread /\ unread \subseteq plugged /\ disksLoaded \in BOOLEAN
  BY DEF DisksTypeOK
<1>2. \A w \in plugged : BlockOf[w] = BlockOf[v] => w = v
  BY <1>1 DEF PluggedApart
<1>3. BlockOf[v] \in Tracked => entries[BlockOf[v]].gone
  BY <1>1, <1>2 DEF EntriesSound
<1>4. disksLoaded
  BY <1>1 DEF NothingTracked
<1>5. Arrives(v)
  BY <1>1, <1>2, <1>3, <1>4 DEF Arrives, DisksTypeOK, MountedIsPlugged
<1> QED
  BY <1>5, AddDeviceSound

\* A device is added where none is.
LEMMA VolumeAddedSound ==
  ASSUME DisksInv, NEW v \in Volumes, VolumeAdded(v)
  PROVE  DisksInv'
<1> USE DEF DisksInv, VolumeAdded, Ready
<1>1. BlockOf[v] \in Tracked => entries[BlockOf[v]].gone
  BY DEF EntriesSound
<1>2. Arrives(v)
  BY <1>1 DEF Arrives, DisksTypeOK, MountedIsPlugged
<1> QED
  BY <1>2, AddDeviceSound

\* A file system is mounted that was not.
LEMMA MountSound ==
  ASSUME DisksInv, NEW v \in Volumes, NEW p \in Points, Mount(v, p)
  PROVE  DisksInv'
<1> USE DEF DisksInv, Mount, Listens, Ready
<1>1. \A w \in plugged : BlockOf[w] = BlockOf[v] => w = v
  BY DEF PluggedApart
<1>2. BlockOf[v] \in Tracked => entries[BlockOf[v]].gone
  BY <1>1 DEF EntriesSound, VolumesAgree, TrackedIsMounted
<1>3. mountedAt'[v] = p /\ p # NoPoint
  BY DisksAssumption DEF DisksTypeOK
<1>4. Arrives(v)
  BY <1>1, <1>2 DEF Arrives, DisksTypeOK
<1>5. skipped \subseteq Volumes
  BY DEF DisksTypeOK
<1>6. CASE Accepted(v)
  BY <1>3, <1>4, <1>6, CreateAccessibleSound
<1>7. CASE ~Accepted(v)
  BY <1>4, <1>5, <1>7, PassedSound
<1> QED
  BY <1>6, <1>7

\* A volume that is unmounted loses its object, if it was one to have any.
LEMMA UnmountSound ==
  ASSUME DisksInv, NEW v \in Volumes, Unmount(v)
  PROVE  DisksInv'
<1> USE DEF DisksInv, Unmount, Listens, Ready
<1>1. Leaves(v)
  BY DEF Leaves
<1>2. CASE Accepted(v)
  BY <1>1, <1>2, EraseSound
<1>3. CASE ~Accepted(v)
  <2>1. Tracked' = Tracked
    BY <1>3 DEF Tracked
  <2>2. \A b \in Tracked : entries[b].vol # v
    BY <1>3 DEF EntriesSound
  <2> QED
    BY <1>1, <1>3, <2>1, <2>2, LeftSound DEF DisksTypeOK
<1> QED
  BY <1>2, <1>3

\* A removed device takes its object along, or leaves it behind as gone.
LEMMA RemovedSound ==
  ASSUME DisksInv, NEW v \in Volumes, VolumeRemoved(v)
  PROVE  DisksInv'
<1> DEFINE B == BlockOf[v]
           Gone(b) == [entries[b] EXCEPT !.gone = TRUE]
<1>1. Leaves(v)
  BY DEF VolumeRemoved, Ready, Leaves
<1>2. CASE Erase(BlockOf[v])
  BY <1>1, <1>2, EraseSound
<1>3. CASE /\ entries' = [b \in Blocks |-> IF b = B /\ b \in Tracked
                                           THEN Gone(b) ELSE entries[b]]
           /\ UNCHANGED <<registered, lostIds>>
  <2>1. \A b \in Tracked : b \in Blocks /\ entries[b] \in VolumeObjects
    BY DEF Tracked, DisksInv, DisksTypeOK
  <2>2. ASSUME NEW b \in Tracked
        PROVE  /\ entries'[b] \in VolumeObjects
               /\ entries'[b].vol = entries[b].vol
               /\ entries'[b].point = entries[b].point
               /\ entries'[b].shown = entries[b].shown
               /\ entries'[b].wrong = entries[b].wrong
               /\ entries'[b].excused = entries[b].excused
               /\ entries'[b].fresh = entries[b].fresh
               /\ entries[b].gone => entries'[b].gone
               /\ b = B => entries'[b].gone
    BY <1>3, <2>1 DEF VolumeObjects
  <2>3. \A b \in Blocks : b \notin Tracked => entries'[b] = NoEntry
    BY <1>3 DEF Tracked
  <2>4. Tracked' = Tracked
    BY <2>1, <2>2, <2>3, EntryAssumption DEF Tracked
  <2>5. entries' \in [Blocks -> VolumeObjects \union {NoEntry}]
    <3>1. \A b \in Blocks : entries'[b] \in VolumeObjects \union {NoEntry}
      BY <2>2, <2>3
    <3>2. entries' = [b \in Blocks |-> entries'[b]]
      BY <1>3
    <3> QED
      BY <3>1, <3>2
  <2>6. \A b \in Tracked : entries[b].vol = v => b = B
    BY DEF DisksInv, EntriesSound
  <2> QED
    BY <1>1, <1>3, <2>2, <2>4, <2>5, <2>6, LeftSound
<1> QED
  BY <1>2, <1>3 DEF VolumeRemoved

\* A client subscribes to a volume or leaves it.
LEMMA ClientSound ==
  ASSUME DisksInv, NEW b \in Blocks, NEW yes \in BOOLEAN, Wants(b, yes)
  PROVE  DisksInv'
<1>1. entries' = [entries EXCEPT ![b] = [entries[b] EXCEPT !.wanted = yes]]
  BY DEF Wants
<1>2. /\ b \in Tracked
      /\ UNCHANGED <<disksLoaded, unread, plugged, mountedAt, registered, elapsedTimer,
                     skipped, lostIds>>
  BY DEF Wants
<1>3. entries \in [Blocks -> VolumeObjects \union {NoEntry}] /\ entries[b] \in VolumeObjects
  BY <1>2 DEF Tracked, DisksInv, DisksTypeOK
<1>4. /\ entries'[b] \in VolumeObjects
      /\ entries'[b].vol = entries[b].vol
      /\ entries'[b].point = entries[b].point
      /\ entries'[b].shown = entries[b].shown
      /\ entries'[b].gone = entries[b].gone
      /\ entries'[b].wrong = entries[b].wrong
      /\ entries'[b].excused = entries[b].excused
      /\ entries'[b].fresh = entries[b].fresh
  BY <1>1, <1>3 DEF VolumeObjects
<1>5. \A c \in Blocks : c # b => entries'[c] = entries[c]
  BY <1>1, <1>3
<1>6. entries' \in [Blocks -> VolumeObjects \union {NoEntry}]
  BY <1>1, <1>3, <1>4, <1>5
<1>7. \A c \in Blocks : c \in Tracked' <=> c \in Tracked
  BY <1>2, <1>4, <1>5, EntryAssumption DEF Tracked
<1>8. RatesKnown'
  BY <1>2, <1>4, <1>5, <1>7 DEF RatesKnown, DisksInv, Tracked
<1>9. elapsedTimer' \in BOOLEAN
  BY <1>2 DEF DisksInv, DisksTypeOK
<1>10. \A c \in Tracked : /\ entries'[c].vol = entries[c].vol
                          /\ entries'[c].point = entries[c].point
                          /\ entries'[c].shown = entries[c].shown
                          /\ entries'[c].gone = entries[c].gone
  BY <1>4, <1>5 DEF Tracked
<1> QED
  BY <1>2, <1>6, <1>7, <1>8, <1>9, <1>10, SameVolumesSound

\* A frame reads the counters of an object or excuses it.
LEMMA UpdateFacts ==
  ASSUME NEW e \in VolumeObjects, elapsedTimer \in BOOLEAN,
         e.wrong => e.excused, elapsedTimer /\ ~e.fresh => e.excused,
         NEW f \in {SetBytes(e), PassOver(e)}
  PROVE  /\ f \in VolumeObjects
         /\ f.vol = e.vol /\ f.point = e.point /\ f.shown = e.shown /\ f.gone = e.gone
         /\ f.wrong => f.excused
         /\ ~f.fresh => f.excused
<1> DEFINE w == IF elapsedTimer THEN ~e.fresh ELSE e.wrong
<1>2. w \in BOOLEAN /\ (w => e.excused)
  BY DEF VolumeObjects
<1> HIDE DEF w
<1>3. CASE f = SetBytes(e)
  <2>1. f = [e EXCEPT !.fresh = TRUE, !.wrong = w]
    BY <1>3 DEF SetBytes, w
  <2> QED
    BY <1>2, <2>1 DEF VolumeObjects
<1>4. CASE f = PassOver(e)
  <2>1. f = [e EXCEPT !.fresh = FALSE, !.excused = TRUE]
    BY <1>4 DEF PassOver
  <2> QED
    BY <2>1 DEF VolumeObjects
<1> QED
  BY <1>3, <1>4

\* A frame changes no volume.
LEMMA UpdateDisksSound == DisksInv /\ UpdateDisks => DisksInv'
<1> SUFFICES ASSUME DisksInv, UpdateDisks PROVE DisksInv'
  OBVIOUS
<1>1. UNCHANGED <<disksLoaded, unread, plugged, mountedAt, registered, skipped, lostIds>>
  BY DEF UpdateDisks
<1>2. CASE UNCHANGED <<elapsedTimer, entries>>
  <2>1. Tracked' = Tracked
    BY <1>2 DEF Tracked
  <2>2. RatesKnown'
    BY <1>2, <2>1 DEF DisksInv, RatesKnown
  <2> QED
    BY <1>1, <1>2, <2>1, <2>2, SameVolumesSound DEF DisksInv, DisksTypeOK
<1>3. CASE /\ elapsedTimer' = TRUE
           /\ entries' = [b \in Blocks |->
                   CASE b \notin Tracked -> NoEntry
                     [] b \in Tracked /\ HasLine(b) -> SetBytes(entries[b])
                     [] OTHER -> PassOver(entries[b])]
  <2>1. \A b \in Blocks : b \notin Tracked => entries'[b] = NoEntry
    BY <1>3
  <2>2. ASSUME NEW b \in Tracked
        PROVE  /\ entries'[b] \in VolumeObjects
               /\ entries'[b].vol = entries[b].vol
               /\ entries'[b].point = entries[b].point
               /\ entries'[b].shown = entries[b].shown
               /\ entries'[b].gone = entries[b].gone
               /\ entries'[b].wrong => entries'[b].excused
               /\ ~entries'[b].fresh => entries'[b].excused
    <3>1. b \in Blocks /\ entries[b] \in VolumeObjects /\ elapsedTimer \in BOOLEAN
      BY DEF Tracked, DisksInv, DisksTypeOK
    <3>2. /\ entries[b].wrong => entries[b].excused
          /\ elapsedTimer /\ ~entries[b].fresh => entries[b].excused
      BY DEF DisksInv, RatesKnown
    <3>3. entries'[b] \in {SetBytes(entries[b]), PassOver(entries[b])}
      BY <1>3, <3>1
    <3> QED
      BY <3>1, <3>2, <3>3, UpdateFacts
  <2>3. \A b \in Blocks : b \in Tracked' <=> b \in Tracked
    BY <2>1, <2>2, EntryAssumption DEF Tracked
  <2>4. entries' \in [Blocks -> VolumeObjects \union {NoEntry}]
    <3>1. \A b \in Blocks : entries'[b] \in VolumeObjects \union {NoEntry}
      BY <2>1, <2>2
    <3>2. entries' = [b \in Blocks |-> entries'[b]]
      BY <1>3
    <3> QED
      BY <3>1, <3>2
  <2>5. RatesKnown'
    BY <2>2, <2>3 DEF RatesKnown, Tracked
  <2> QED
    BY <1>1, <1>3, <2>2, <2>3, <2>4, <2>5, SameVolumesSound
<1> QED
  BY <1>2, <1>3 DEF UpdateDisks

\* Every step keeps the invariant.
LEMMA DisksNextSound ==
  ASSUME DisksInv, [DisksNext]_disksVars
  PROVE  DisksInv'
<1>1. CASE ListDevices
  BY <1>1, ListSound
<1>2. ASSUME NEW v \in Volumes, AddListed(v) \/ VolumeAdded(v)
      PROVE  DisksInv'
  BY <1>2, AddListedSound, VolumeAddedSound
<1>3. ASSUME NEW v \in Volumes, VolumeRemoved(v) \/ Unmount(v)
      PROVE  DisksInv'
  BY <1>3, RemovedSound, UnmountSound
<1>4. ASSUME NEW v \in Volumes, NEW p \in Points, Mount(v, p)
      PROVE  DisksInv'
  BY <1>4, MountSound
<1>5. ASSUME NEW b \in Blocks, NEW yes \in BOOLEAN, Wants(b, yes)
      PROVE  DisksInv'
  BY <1>5, ClientSound
<1>6. CASE UpdateDisks
  BY <1>6, UpdateDisksSound
<1>7. CASE UNCHANGED disksVars
  <2>1. Tracked' = Tracked
    BY <1>7 DEF disksVars, Tracked
  <2>2. RatesKnown'
    BY <1>7, <2>1 DEF disksVars, DisksInv, RatesKnown
  <2> QED
    BY <1>7, <2>1, <2>2, SameVolumesSound DEF disksVars, DisksInv, DisksTypeOK
<1> QED
  BY <1>1, <1>2, <1>3, <1>4, <1>5, <1>6, <1>7 DEF DisksNext

\* Every reachable state of the disks plugin is sound.
THEOREM DisksInvariance == DisksSpec => []DisksInv
  BY DisksInitSound, DisksNextSound, PTL DEF DisksSpec

\* Devices, objects, the container and mount points agree, whatever comes and goes.
THEOREM VolumesAlwaysAgree == DisksSpec => []VolumesAgree
<1>1. DisksInv => VolumesAgree
  BY DEF DisksInv
<1> QED
  BY <1>1, DisksInvariance, PTL

\* A rate covers the time it is divided by, but for those that are excused.
THEOREM RatesAlwaysCover == DisksSpec => []RatesCoverTheirTime
<1>1. DisksInv => RatesCoverTheirTime
  BY DEF DisksInv, RatesKnown, RatesCoverTheirTime
<1> QED
  BY <1>1, DisksInvariance, PTL

-----------------------------------------------------------------------------
(* Free space                                                              *)

\* No frame asks more than the bound allows, and answers leave no job too few.
THEOREM SpaceTypeCorrect ==
  SpaceInit /\ [][SpaceNext]_spaceOf => []SpaceTypeOK
<1>1. SpaceInit => SpaceTypeOK
  BY SpaceAssumption DEF SpaceInit, SpaceTypeOK, SpaceStates
<1>2. ASSUME SpaceTypeOK, [SpaceNext]_spaceOf
      PROVE  SpaceTypeOK'
  <2> DEFINE Room(s) == s \in SpaceStates /\ s.asked + s.stale <= MaxJobs
  <2>1. ASSUME NEW o \in SpaceObjects, NEW s, Room(s), Becomes(o, s)
        PROVE  SpaceTypeOK'
    BY <1>2, <2>1 DEF SpaceTypeOK, Becomes
  <2>2. \A o \in SpaceObjects : Room(spaceOf[o])
    BY <1>2 DEF SpaceTypeOK
  <2>3. ASSUME NEW o \in SpaceObjects,
               \/ VolumeAppears(o) \/ VolumeGoes(o)
               \/ \E yes \in BOOLEAN : VolumeWanted(o, yes)
        PROVE  SpaceTypeOK'
    <3>1. ASSUME NEW m \in BOOLEAN
          PROVE  /\ Room([spaceOf[o] EXCEPT !.status = "tracked", !.mounted = m])
                 /\ Room([spaceOf[o] EXCEPT !.status = "removed"])
                 /\ Room([spaceOf[o] EXCEPT !.wanted = m])
      BY <2>2 DEF SpaceStates
    <3> HIDE DEF Room
    <3>2. CASE VolumeAppears(o)
      BY <2>1, <3>1, <3>2, Zenon DEF VolumeAppears
    <3>3. CASE VolumeGoes(o)
      BY <2>1, <3>1, <3>3, Zenon DEF VolumeGoes
    <3>4. CASE \E yes \in BOOLEAN : VolumeWanted(o, yes)
      BY <2>1, <3>1, <3>4, Zenon DEF VolumeWanted
    <3> QED
      BY <2>3, <3>2, <3>3, <3>4
  <2>4. ASSUME NEW o \in SpaceObjects, SpaceChanges(o)
        PROVE  SpaceTypeOK'
    <3> DEFINE t == [spaceOf[o] EXCEPT
                         !.asked = 0,
                         !.stale = @ + spaceOf[o].asked,
                         !.shown = IF @ = "right" THEN "old" ELSE @]
    <3>1. Room(t)
      <4>1. /\ spaceOf[o].stale + spaceOf[o].asked \in 0 .. MaxJobs
            /\ 0 + (spaceOf[o].stale + spaceOf[o].asked) <= MaxJobs
            /\ 0 \in 0 .. MaxJobs
        BY <2>2, SpaceAssumption DEF SpaceStates
      <4>2. (IF spaceOf[o].shown = "right" THEN "old" ELSE spaceOf[o].shown)
                \in {"unset", "right", "old"}
        BY <2>2 DEF SpaceStates
      <4> QED
        BY <2>2, <4>1, <4>2 DEF SpaceStates
    <3>2. Becomes(o, t)
      BY <2>4 DEF SpaceChanges
    <3> QED
      BY <2>1, <3>1, <3>2
  <2>5. ASSUME NEW o \in SpaceObjects, FreshAnswer(o)
        PROVE  SpaceTypeOK'
    <3>1. PICK error \in BOOLEAN :
              Becomes(o, [spaceOf[o] EXCEPT !.asked = @ - 1, !.failed = error,
                                            !.shown = IF error THEN @ ELSE "right"])
      BY <2>5, Zenon DEF FreshAnswer
    <3>2. Room([spaceOf[o] EXCEPT !.asked = @ - 1, !.failed = error,
                                  !.shown = IF error THEN @ ELSE "right"])
      <4>1. /\ spaceOf[o].asked - 1 \in 0 .. MaxJobs
            /\ (spaceOf[o].asked - 1) + spaceOf[o].stale <= MaxJobs
        BY <2>2, <2>5, SpaceAssumption DEF SpaceStates, FreshAnswer
      <4>2. (IF error THEN spaceOf[o].shown ELSE "right") \in {"unset", "right", "old"}
        BY <2>2 DEF SpaceStates
      <4> QED
        BY <2>2, <4>1, <4>2 DEF SpaceStates
    <3> QED
      BY <2>1, <3>1, <3>2
  <2>6. ASSUME NEW o \in SpaceObjects, StaleAnswer(o)
        PROVE  SpaceTypeOK'
    <3>1. PICK error \in BOOLEAN, size \in {"right", "old"} :
              Becomes(o, [spaceOf[o] EXCEPT !.stale = @ - 1, !.failed = error,
                                            !.shown = IF error THEN @ ELSE size])
      BY <2>6, Zenon DEF StaleAnswer
    <3>2. Room([spaceOf[o] EXCEPT !.stale = @ - 1, !.failed = error,
                                  !.shown = IF error THEN @ ELSE size])
      <4>1. /\ spaceOf[o].stale - 1 \in 0 .. MaxJobs
            /\ spaceOf[o].asked + (spaceOf[o].stale - 1) <= MaxJobs
        BY <2>2, <2>6, SpaceAssumption DEF SpaceStates, StaleAnswer
      <4>2. (IF error THEN spaceOf[o].shown ELSE size) \in {"unset", "right", "old"}
        BY <2>2 DEF SpaceStates
      <4> QED
        BY <2>2, <4>1, <4>2 DEF SpaceStates
    <3> QED
      BY <2>1, <3>1, <3>2
  <2>7. CASE AskForSpace
    <3>1. \A o \in SpaceObjects : Room(AskSpace(spaceOf[o]))
      BY <2>2, <2>7, SpaceAssumption DEF AskForSpace, AskSpace, SpaceStates
    <3> QED
      BY <2>7, <3>1 DEF AskForSpace, SpaceTypeOK
  <2>8. CASE UNCHANGED spaceOf
    BY <1>2, <2>8 DEF SpaceTypeOK
  <2> QED
    BY <1>2, <2>3, <2>4, <2>5, <2>6, <2>7, <2>8 DEF SpaceNext
<1> QED
  BY <1>1, <1>2, PTL
=============================================================================
