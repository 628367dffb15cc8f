------------------------------ MODULE NvidiaSmi ------------------------------
(***************************************************************************)
(* The NVIDIA cards (plugins/gpu/NvidiaGpu.cpp) and the single nvidia-smi  *)
(* process they share (plugins/gpu/NvidiaSmiProcess.cpp).  A sensor that   *)
(* becomes subscribed takes a reference, one that stops being subscribed   *)
(* gives it back; the process runs while there are references.  What it    *)
(* prints is a table: a line of column names, a line of units, and then    *)
(* one line per card and round, the two header lines coming again now and  *)
(* then.  The daemon has one event loop, so a handler is one action;       *)
(* waitForFinished() is the exception, as it delivers output while the     *)
(* rest of the loop is blocked: that time is process = "ending".           *)
(* Once the daemon's loop has ended, ~Daemon deletes the clients, which    *)
(* unsubscribes every sensor; the cards themselves are never destroyed.    *)
(***************************************************************************)
EXTENDS Integers, FiniteSets, Sequences

CONSTANTS
    Cards,          \* the NVIDIA cards of the machine
    RefSensors,     \* the sensors of a card that hold a reference
    MaxLines        \* bound: lines printed and not yet read

ASSUME SmiAssumption ==
    /\ IsFiniteSet(Cards) /\ Cards # {}
    /\ IsFiniteSet(RefSensors)
    /\ MaxLines \in Nat \ {0}

Missing == -1       \* m_index of a card the query did not report
Ordinals == 0 .. (Cardinality(Cards) - 1)
\* A line is a card's ordinal or a header, a reading the ordinal it is of.
Names == -2
Units == -3
Nothing == -2       \* no line taken yet
Blank == -3         \* the zeros of a line read without columns
Lines == {Names, Units} \cup Ordinals
Readings == {Nothing, Blank} \cup Ordinals

VARIABLES
    supported,      \* nvidia-smi was found when the daemon started
    index,          \* index[c]: m_index
    quitting,       \* the event loop has ended
    subscribed,     \* the <<card, sensor>> pairs that are subscribed
    references,     \* m_references
    process,        \* "none" while m_process is null
    pipe,           \* lines printed, not yet read
    next,           \* the line the running process prints next
    columns,        \* m_dmonIndices are known, not all -1
    shown           \* shown[c]: whose line the sensors of c show

smiVars == <<supported, index, quitting, subscribed, references, process, pipe,
             next, columns, shown>>
smiStatic == <<supported, index>>
smiOutput == <<pipe, next, columns, shown>>

\* query() counts the cards in its own order, and may miss one.
Orders == {f \in [Cards -> Ordinals \cup {Missing}] :
              \A c, d \in Cards : c # d /\ f[c] = f[d] => f[c] = Missing}

SmiInit ==
    /\ supported \in BOOLEAN
    /\ index \in {f \in Orders : ~supported => \A c \in Cards : f[c] = Missing}
    /\ quitting = FALSE
    /\ subscribed = {}
    /\ references = 0
    /\ process = "none"
    /\ pipe = <<>>
    /\ next = Names
    /\ columns = FALSE
    /\ shown = [c \in Cards |-> Nothing]

\* The thread is free: not inside waitForFinished().
LoopFree == process # "ending"

-----------------------------------------------------------------------------
(* References.                                                             *)

\* ref(): the process is started unless m_process is set, dead or alive.
Started == IF process = "none" THEN "running" ELSE process

\* Mutant: the reference is counted after the early return.
CountedLate == IF process = "none" THEN references + 1 ELSE references

Counted == references + 1

Ref ==
    /\ references' = Counted
    /\ process' = Started
    /\ IF process = "none"
       THEN pipe' = <<>> /\ next' = Names
       ELSE UNCHANGED <<pipe, next>>
    /\ UNCHANGED <<columns, shown>>

\* Mutants: the process ends with any sensor; it never ends.
EndedAtAny(left) == IF process # "none" THEN "ending" ELSE process
EndedBelow(left) == IF process # "none" /\ left < 0 THEN "ending" ELSE process

\* unref(): nothing more than counting while references remain, else
\* terminate() and the wait for the end.
Ended(left) == IF process # "none" /\ left <= 0 THEN "ending" ELSE process

Unref ==
    /\ references' = references - 1
    /\ process' = Ended(references - 1)
    /\ UNCHANGED smiOutput

NoRef == UNCHANGED <<references, process, pipe, next, columns, shown>>

SmiSubscribe(c, s) ==
    /\ LoopFree
    /\ ~quitting
    /\ <<c, s>> \notin subscribed
    /\ subscribed' = subscribed \cup {<<c, s>>}
    /\ IF supported THEN Ref ELSE NoRef
    /\ UNCHANGED <<smiStatic, quitting>>

\* The last client of the sensor unsubscribes or is deleted, by the event
\* loop or by ~Daemon after it.
SmiUnsubscribe(c, s) ==
    /\ LoopFree
    /\ <<c, s>> \in subscribed
    /\ subscribed' = subscribed \ {<<c, s>>}
    /\ IF supported THEN Unref ELSE NoRef
    /\ UNCHANGED <<smiStatic, quitting>>

\* The event loop of the daemon ends, whoever is subscribed.
DaemonQuits ==
    /\ LoopFree
    /\ ~quitting
    /\ quitting' = TRUE
    /\ UNCHANGED <<smiStatic, subscribed, references, process, smiOutput>>

\* The end of waitForFinished(), at the latest after its 30 seconds, and
\* m_process.reset(), which kills what is left and drops what was not read.
Reap ==
    /\ process = "ending"
    /\ process' = "none"
    /\ pipe' = <<>>
    /\ UNCHANGED <<smiStatic, quitting, subscribed, references, next, columns,
                   shown>>

-----------------------------------------------------------------------------
(* Output.                                                                 *)

\* The process prints its table line by line.
PrintLine ==
    /\ process \in {"running", "ending"}
    /\ Len(pipe) < MaxLines
    /\ pipe' = Append(pipe, next)
    /\ next' \in CASE next = Names -> {Units}
                   [] next = Units -> {0}
                   [] OTHER -> IF next + 1 \in Ordinals THEN {next + 1}
                                                        ELSE {0, Names}
    /\ UNCHANGED <<smiStatic, quitting, subscribed, references, process, columns,
                   shown>>

\* The process ends by itself, or could not be started at all.
Die ==
    /\ process = "running"
    /\ process' = "dead"
    /\ UNCHANGED <<smiStatic, quitting, subscribed, references, smiOutput>>

\* Mutant: every header line is searched, the line of units too.
ColumnsOfLast(line) == line = Names

\* readStatisticsData() for a header line: the columns are looked up in the
\* first one that names them, for all later processes too.
ColumnsAfter(line) == columns \/ line = Names

\* Without columns every field of a line reads as 0, the index too.
LineIndex(line) == IF columns THEN line ELSE 0
LineReading(line) == IF columns THEN line ELSE Blank

\* Mutant: every card takes every line.
TakesAny(c, line) == TRUE

\* onDataReceived(): the line is for the card with its index.
Takes(c, line) == index[c] = LineIndex(line)

\* Output is delivered by the event loop, and at the end inside the wait.
Delivers == process = "ending" \/ (process # "none" /\ ~quitting)

ReadLine ==
    /\ Delivers
    /\ pipe # <<>>
    /\ pipe' = Tail(pipe)
    /\ LET line == Head(pipe)
       IN  IF line \in {Names, Units}
           THEN columns' = ColumnsAfter(line) /\ UNCHANGED shown
           ELSE /\ shown' = [c \in Cards |->
                               IF Takes(c, line) THEN LineReading(line)
                               ELSE shown[c]]
                /\ UNCHANGED columns
    /\ UNCHANGED <<smiStatic, quitting, subscribed, references, process, next>>

-----------------------------------------------------------------------------
SmiNext ==
    \/ \E c \in Cards, s \in RefSensors : SmiSubscribe(c, s) \/ SmiUnsubscribe(c, s)
    \/ DaemonQuits
    \/ Reap
    \/ PrintLine
    \/ Die
    \/ ReadLine

SmiSpec == SmiInit /\ [][SmiNext]_smiVars

\* nvidia-smi prints every two seconds and ends on SIGTERM or is killed, the
\* event loop delivers what it printed; ~Daemon gets through its clients.
\* Nobody has to subscribe or to leave before.
SmiFairness ==
    /\ WF_smiVars(Reap) /\ WF_smiVars(PrintLine) /\ WF_smiVars(ReadLine)
    /\ WF_smiVars(quitting /\ \E c \in Cards, s \in RefSensors : SmiUnsubscribe(c, s))

-----------------------------------------------------------------------------
(* Correctness.                                                            *)

\* Type invariant.
SmiTypeOK ==
    /\ supported \in BOOLEAN
    /\ index \in [Cards -> Ordinals \cup {Missing}]
    /\ quitting \in BOOLEAN
    /\ subscribed \in SUBSET (Cards \X RefSensors)
    /\ references \in Nat
    /\ process \in {"none", "running", "dead", "ending"}
    /\ pipe \in Seq(Lines)
    /\ next \in Lines
    /\ columns \in BOOLEAN
    /\ shown \in [Cards -> Readings]

\* m_references is the number of subscribed sensors of all cards together.
ReferencesHeld ==
    references = IF supported THEN Cardinality(subscribed) ELSE 0

\* There is a process, dead or alive, exactly while somebody needs it; after
\* the last reference is given back only the wait for its end is left.
ProcessIffReferenced == (process \in {"running", "dead"}) <=> references > 0

\* Both together: sensors of all cards share one process by counting.
ProcessHeld == ReferencesHeld /\ ProcessIffReferenced

\* No card shows the reading of another card, or the zeros of a line read
\* without knowing the columns, across header lines that come again and
\* processes that are ended with half of a table in the pipe.
SamplesRouted == \A c \in Cards : shown[c] \in {Nothing, index[c]}

\* The first subscription after a time without any always gets a running
\* process, also when the last process had died.
FreshProcess ==
    [][references = 0 /\ references' > 0 => process' = "running"]_smiVars

\* Without subscriptions nvidia-smi does not stay, and it does not outlive a
\* daemon that quits, whoever was subscribed.
IdleEnds ==
    /\ references = 0 ~> process = "none"
    /\ quitting ~> process = "none"

\* A card the query found shows its readings some time after one of its
\* sensors is subscribed, unless it is unsubscribed again, nvidia-smi dies or
\* the daemon quits.
SampleArrives ==
    \A c \in Cards :
        (index[c] # Missing /\ \E s \in RefSensors : <<c, s>> \in subscribed)
            ~> \/ shown[c] = index[c]
               \/ \A s \in RefSensors : <<c, s>> \notin subscribed
               \/ process = "dead" \/ quitting
=============================================================================
