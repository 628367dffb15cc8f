------------------------------ MODULE Pressure ------------------------------
(***************************************************************************)
(* The pressure plugin (plugins/pressure/pressure.cpp): every frame parses *)
(* the kernel's three files, one after the other into the same variable,   *)
(* and gives each resource's object what its file says.                    *)
(***************************************************************************)
EXTENDS Sequences, Naturals

CONSTANT
    Contents  \* what a file may be: the sequence of its lines, each "some",
              \* "full" or of another type, or Unreadable

Unreadable == <<"unreadable">>

VARIABLES
    pressureLoaded,
    files,      \* the kernel: what each resource's file is
    pressure,   \* the objects' sensors: resource -> PressureData
    seen        \* history: the files as the last frame found them

pressureVars == <<pressureLoaded, files, pressure, seen>>

Resources == {"memory", "cpu", "io"}

Lines == {"some", "full", "other"}

ASSUME PressureAssumption ==
    Unreadable \in Contents /\ \A c \in Contents : c = Unreadable \/ c \in Seq(Lines)

\* The eight sensors of an object are two groups of four that go together: a
\* number of a group is that of a line of a resource's file, zero, or, as
\* parseDataFromFile() does not initialise pressureData, anything.
Datapoints == {<<"zero", "none">>, <<"anything", "none">>} \union (Resources \X Lines)

PressureTypeOK ==
    /\ pressureLoaded \in BOOLEAN
    /\ files \in [Resources -> Contents]
    /\ pressure \in [Resources -> [some : Datapoints, full : Datapoints]]
    /\ seen \in [Resources -> Contents]

Zeros == [some |-> <<"zero", "none">>, full |-> <<"zero", "none">>]
Uninitialised == [some |-> <<"anything", "none">>, full |-> <<"anything", "none">>]

PressureInit ==
    /\ pressureLoaded = FALSE
    /\ files = [r \in Resources |-> Unreadable]
    /\ pressure = [r \in Resources |-> Zeros]
    /\ seen = files

PressureLoad ==
    /\ ~pressureLoaded
    /\ pressureLoaded' = TRUE
    /\ files' \in [Resources -> Contents]
    /\ UNCHANGED <<pressure, seen>>

\* A file cannot be read any more, or again; its lines stay what the kernel writes.
FileChanges(r, c) ==
    /\ pressureLoaded
    /\ files' = [files EXCEPT ![r] = c]
    /\ UNCHANGED <<pressureLoaded, pressure, seen>>

\* The last line of a group counts; a line of an unknown type counts as "some".
GroupOf(line) == IF line = "full" THEN "full" ELSE "some"
LastOf(lines, group) ==
    LET at == {i \in DOMAIN lines : GroupOf(lines[i]) = group} IN
    IF at = {} THEN "none" ELSE lines[CHOOSE i \in at : \A j \in at : j <= i]

\* parseDataFromFile()
ParseData(r) ==
    IF files[r] = Unreadable THEN Zeros
    ELSE [g \in {"some", "full"} |->
             LET line == LastOf(files[r], g) IN
             IF line = "none" THEN Uninitialised[g] ELSE <<r, line>>]

ReadsMemoryForIo == [r \in Resources |-> ParseData(IF r = "io" THEN "memory" ELSE r)]
ReadsEach == [r \in Resources |-> ParseData(r)]

PressureUpdate ==
    /\ pressureLoaded
    /\ pressure' = ReadsEach
    /\ seen' = files
    /\ UNCHANGED <<pressureLoaded, files>>

PressureNext ==
    \/ PressureLoad
    \/ \E r \in Resources, c \in Contents : FileChanges(r, c)
    \/ PressureUpdate

PressureSpec == PressureInit /\ [][PressureNext]_pressureVars

\* Every object shows what the last frame found in its own file: zeros if it could
\* not be read, whatever an earlier frame or another resource's file had said, and
\* its own lines if it has them.  (Without a "full" line, as for the CPU before
\* Linux 5.13, the group is not initialised.)
PressureIsOwn ==
    \A r \in Resources :
        /\ seen[r] = Unreadable => pressure[r] = Zeros
        /\ \A g \in {"some", "full"} :
               /\ pressure[r][g][1] \in {r, "zero", "anything"}
               /\ seen[r] = <<"some", "full">> => pressure[r][g] = <<r, g>>
               /\ pressure[r][g][1] = "anything" =>
                      seen[r] # Unreadable /\ LastOf(seen[r], g) = "none"
=============================================================================
