------------------------------- MODULE MCParts -------------------------------
(* Instances of Parts for TLC.                                             *)
EXTENDS Parts

CONSTANTS eth0, wlan0, download, upload, link1, link2, rate, addr, em0, em1,
          crypt, clear, stick, block1, block2, uuid1, uuid2, clone, home, media,
          bat1, bat2, serial1, cpu0, cpu1,
          vol1, vol2, sensor1, sensor2, object, typo

\* An encrypted volume with its clear one, a RAID member that has the uuid of the
\* encrypted volume and comes under the block device of the clear one, and a clone of
\* the clear one under that of the encrypted one.
DisksBlockOf == [v \in Volumes |-> IF v \in {clear, stick} THEN block2 ELSE block1]
DisksIdOf == [v \in Volumes |-> IF v \in {crypt, stick} THEN uuid1 ELSE uuid2]
DisksUsage == [v \in Volumes |->
    IF v = crypt THEN "Encrypted" ELSE IF v = stick THEN "Raid" ELSE "FileSystem"]
DisksHolds == [v \in Volumes |-> clear]

\* Traffic and a rate on the link that may vanish, addresses on both.
RtAskedSensors == {<<link1, rate>>, <<link1, addr>>, <<link2, addr>>}

\* Two batteries that report the same serial number.
PowerSerialOf == [b \in Batteries |-> serial1]

PressureContents ==
    {<<"unreadable">>, <<"some">>, <<"some", "full">>, <<"some", "full", "other">>, <<>>}

\* A card of one GT, one with a media GT and one whose classes have a gap.
Engine(g, c, i) == [gt |-> g, class |-> c, instance |-> i]
XeEngineSets == {
    {Engine(0, "Render", 0), Engine(0, "Video", 0)},
    {Engine(0, "Render", 0), Engine(1, "Video", 0), Engine(1, "Video", 1)},
    {Engine(0, "Copy", 0), Engine(0, "Video", 1)}}
=============================================================================
