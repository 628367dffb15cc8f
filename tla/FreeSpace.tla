------------------------------ MODULE FreeSpace ------------------------------
(***************************************************************************)
(* VolumeObject::update() (plugins/disks/disks.cpp): a frame starts a job  *)
(* for the free space of every subscribed volume.  Jobs are answered at    *)
(* any time, in any order, and also when their object was removed from     *)
(* m_volumesByDevice; the last answer is what is shown.                    *)
(***************************************************************************)
EXTENDS Naturals, FiniteSets

CONSTANTS
    SpaceObjects,   \* VolumeObjects, each of one time its device was there
    MaxJobs         \* bound on the jobs an object has out

ASSUME SpaceAssumption == MaxJobs \in Nat \ {0}

VARIABLE spaceOf   \* the objects, by what free space needs of them

\* mounted: mountPoint, which never changes, is not empty; wanted: isSubscribed();
\* asked, stale: the jobs that are out, by whether the space changed since; failed:
\* the last answer was an error, which leaves what is shown.
SpaceStates ==
    [status : {"new", "tracked", "removed"}, mounted : BOOLEAN, wanted : BOOLEAN,
     asked : 0 .. MaxJobs, stale : 0 .. MaxJobs,
     shown : {"unset", "right", "old"}, failed : BOOLEAN]

SpaceTypeOK ==
    /\ spaceOf \in [SpaceObjects -> SpaceStates]
    /\ \A o \in SpaceObjects : spaceOf[o].asked + spaceOf[o].stale <= MaxJobs

SpaceInit ==
    spaceOf = [o \in SpaceObjects |->
        [status |-> "new", mounted |-> FALSE, wanted |-> FALSE, asked |-> 0, stale |-> 0,
         shown |-> "unset", failed |-> FALSE]]

\* What becomes of the objects when it is known what becomes of one.
Becomes(o, s) == spaceOf' = [spaceOf EXCEPT ![o] = s]

VolumeAppears(o) ==
    /\ spaceOf[o].status = "new"
    /\ \E m \in BOOLEAN :
         Becomes(o, [spaceOf[o] EXCEPT !.status = "tracked", !.mounted = m])

\* removeObject() and erase(): the object lives on.
VolumeGoes(o) ==
    /\ spaceOf[o].status = "tracked"
    /\ Becomes(o, [spaceOf[o] EXCEPT !.status = "removed"])

VolumeWanted(o, yes) ==
    /\ spaceOf[o].status = "tracked"
    /\ spaceOf[o].wanted # yes
    /\ Becomes(o, [spaceOf[o] EXCEPT !.wanted = yes])

Asks(s) == s.status = "tracked" /\ s.wanted /\ s.mounted

\* DisksPlugin::update() and VolumeObject::update() for one object; the slip takes the
\* space for something that does not change.
AskSpaceOnce(s) == IF Asks(s) /\ s.shown = "unset" THEN [s EXCEPT !.asked = @ + 1] ELSE s
AskSpace(s) == IF Asks(s) THEN [s EXCEPT !.asked = @ + 1] ELSE s

\* The frame, as long as nobody has too many jobs out.
AskForSpace ==
    /\ \A o \in SpaceObjects : spaceOf[o].asked + spaceOf[o].stale < MaxJobs
    /\ spaceOf' = [o \in SpaceObjects |-> AskSpace(spaceOf[o])]

\* Files are written or removed: what was asked before may be answered as of before.
SpaceChanges(o) ==
    /\ spaceOf[o].asked > 0 \/ spaceOf[o].shown = "right"
    /\ Becomes(o, [spaceOf[o] EXCEPT
           !.asked = 0,
           !.stale = @ + spaceOf[o].asked,
           !.shown = IF @ = "right" THEN "old" ELSE @])

\* KJob::result of a job that was asked after the last change, and of one before it.
FreshAnswer(o) ==
    /\ spaceOf[o].asked > 0
    /\ \E error \in BOOLEAN :
         Becomes(o, [spaceOf[o] EXCEPT
             !.asked = @ - 1, !.failed = error, !.shown = IF error THEN @ ELSE "right"])
StaleAnswer(o) ==
    /\ spaceOf[o].stale > 0
    /\ \E error \in BOOLEAN, size \in {"right", "old"} :
         Becomes(o, [spaceOf[o] EXCEPT
             !.stale = @ - 1, !.failed = error, !.shown = IF error THEN @ ELSE size])

SpaceNext ==
    \/ \E o \in SpaceObjects : VolumeAppears(o) \/ VolumeGoes(o) \/ SpaceChanges(o)
    \/ \E o \in SpaceObjects, yes \in BOOLEAN : VolumeWanted(o, yes)
    \/ AskForSpace
    \/ \E o \in SpaceObjects : FreshAnswer(o) \/ StaleAnswer(o)

\* The frame timer goes on, and KIO answers every job or times out.
SpaceFairness ==
    /\ WF_spaceOf(AskForSpace)
    /\ \A o \in SpaceObjects : WF_spaceOf(FreshAnswer(o)) /\ WF_spaceOf(StaleAnswer(o))

SpaceSpec == SpaceInit /\ [][SpaceNext]_spaceOf /\ SpaceFairness

-----------------------------------------------------------------------------

\* A mounted volume that stays subscribed shows its free space in the end, or has had
\* an error last, once the space does not change any more: an answer that is asked
\* for too early and comes after a later one does not stay, as every frame asks again.
SpaceArrives ==
    \A o \in SpaceObjects :
        <>[]Asks(spaceOf[o]) /\ <>[][~SpaceChanges(o)]_spaceOf
            => <>[](spaceOf[o].shown = "right" \/ spaceOf[o].failed)
=============================================================================
