-------------------------- MODULE GpuPluginProofs --------------------------
(***************************************************************************)
(* Proofs about the GPU plugin: that it behaves like each of its parts,    *)
(* and the safety properties of the parts, for any cards, sensors and      *)
(* bounds.                                                                 *)
(*                                                                         *)
(* The properties of nvidia-smi need two facts beside themselves.  The     *)
(* process is there while references are held and not after, so a last     *)
(* unref() always finds one to end; and while the columns are unknown the  *)
(* next thing to read from a process is the line that names them           *)
(* (HeaderFirst), so no line of data is read without.                      *)
(***************************************************************************)
EXTENDS GpuPlugin, TLAPS, FiniteSetTheorems

(* What was printed, or is printed next, begins with the names.            *)
HeaderFirst ==
    ~columns /\ process # "none" =>
        \/ pipe = <<>> /\ next = Names
        \/ pipe # <<>> /\ Head(pipe) = Names

SmiIInv ==
    /\ SmiTypeOK
    /\ ReferencesHeld
    /\ ProcessIffReferenced
    /\ SamplesRouted
    /\ HeaderFirst

-----------------------------------------------------------------------------
(* Ordinals of cards are natural numbers, and the first card has 0.        *)
LEMMA OrdinalsAreNaturals == Ordinals \subseteq Nat /\ 0 \in Ordinals
<1>1. Cardinality(Cards) \in Nat /\ Cardinality(Cards) # 0
  BY FS_CardinalityType, FS_EmptySet, SmiAssumption
<1> QED
  BY <1>1 DEF Ordinals

(* Sets of subscribed sensors are finite.                                  *)
LEMMA SubscribedIsFinite ==
  ASSUME NEW S \in SUBSET (Cards \X RefSensors)
  PROVE  IsFiniteSet(S) /\ Cardinality(S) \in Nat
<1>1. IsFiniteSet(Cards \X RefSensors)
  BY FS_Product, SmiAssumption
<1>2. IsFiniteSet(S)
  BY <1>1, FS_Subset
<1> QED
  BY <1>2, FS_CardinalityType

(* The plugin starts with no subscription and no process.                  *)
LEMMA SmiInitSound == SmiInit => SmiIInv
<1> SUFFICES ASSUME SmiInit PROVE SmiIInv
  OBVIOUS
<1>1. SmiTypeOK
  <2>1. index \in [Cards -> Ordinals \cup {Missing}]
    BY DEF SmiInit, Orders
  <2>2. shown \in [Cards -> Readings] /\ next \in Lines /\ pipe \in Seq(Lines)
    BY DEF SmiInit, Lines, Readings
  <2>3. subscribed \in SUBSET (Cards \X RefSensors) /\ quitting \in BOOLEAN
    BY DEF SmiInit
  <2> QED
    BY <2>1, <2>2, <2>3 DEF SmiInit, SmiTypeOK
<1>2. ReferencesHeld /\ ProcessIffReferenced
  BY FS_EmptySet DEF SmiInit, ReferencesHeld, ProcessIffReferenced
<1>3. SamplesRouted /\ HeaderFirst
  BY DEF SmiInit, SamplesRouted, HeaderFirst
<1> QED
  BY <1>1, <1>2, <1>3 DEF SmiIInv

(* Taking a reference counts one sensor more and finds or starts a process *)
(* that begins with the names of the columns.                              *)
LEMMA SubscribeSound ==
  ASSUME SmiIInv, NEW c \in Cards, NEW s \in RefSensors, SmiSubscribe(c, s)
  PROVE  SmiIInv'
<1> USE DEF SmiIInv, SmiSubscribe, Ref, NoRef, LoopFree, Started, Counted, smiStatic
<1>1. subscribed' \in SUBSET (Cards \X RefSensors)
  BY DEF SmiTypeOK
<1>2. SmiTypeOK'
  <2>1. pipe' \in Seq(Lines) /\ next' \in Lines
    <3>1. <<>> \in Seq(Lines) /\ Names \in Lines
      BY DEF Lines
    <3> QED
      BY <3>1 DEF SmiTypeOK
  <2>2. references' \in Nat /\ process' \in {"none", "running", "dead", "ending"}
    BY DEF SmiTypeOK
  <2> QED
    BY <1>1, <2>1, <2>2 DEF SmiTypeOK
<1>3. ReferencesHeld'
  <2>1. Cardinality(subscribed') = Cardinality(subscribed) + 1
    BY SubscribedIsFinite, FS_AddElement DEF SmiTypeOK
  <2> QED
    BY <2>1 DEF ReferencesHeld
<1>4. ProcessIffReferenced'
  BY DEF ProcessIffReferenced, SmiTypeOK
<1>5. SamplesRouted' /\ HeaderFirst'
  BY DEF SamplesRouted, HeaderFirst
<1> QED
  BY <1>2, <1>3, <1>4, <1>5

(* Giving one back leaves a process exactly if references are left.        *)
LEMMA UnsubscribeSound ==
  ASSUME SmiIInv, NEW c \in Cards, NEW s \in RefSensors, SmiUnsubscribe(c, s)
  PROVE  SmiIInv'
<1> USE DEF SmiIInv, SmiUnsubscribe, Unref, NoRef, LoopFree, Ended, smiOutput, smiStatic
<1>1. Cardinality(subscribed') = Cardinality(subscribed) - 1
  BY SubscribedIsFinite, FS_RemoveElement DEF SmiTypeOK
<1>2. Cardinality(subscribed') \in Nat /\ Cardinality(subscribed) \in Nat
  <2>1. subscribed' \in SUBSET (Cards \X RefSensors)
    BY DEF SmiTypeOK
  <2> QED
    BY <2>1, SubscribedIsFinite DEF SmiTypeOK
<1>3. ReferencesHeld'
  BY <1>1 DEF ReferencesHeld
<1>4. SmiTypeOK'
  BY <1>1, <1>2 DEF SmiTypeOK, ReferencesHeld
<1>5. ProcessIffReferenced'
  BY <1>1, <1>2 DEF ProcessIffReferenced, ReferencesHeld, SmiTypeOK
<1>6. SamplesRouted' /\ HeaderFirst'
  BY DEF SamplesRouted, HeaderFirst
<1> QED
  BY <1>3, <1>4, <1>5, <1>6

(* The end of the event loop leaves all references to ~Daemon.            *)
LEMMA QuitSound == SmiIInv /\ DaemonQuits => SmiIInv'
  BY DEF SmiIInv, DaemonQuits, smiStatic, smiOutput, SmiTypeOK, ReferencesHeld,
         ProcessIffReferenced, SamplesRouted, HeaderFirst

(* The end of the wait: nobody holds a reference by then.                  *)
LEMMA ReapSound == SmiIInv /\ Reap => SmiIInv'
  BY DEF SmiIInv, Reap, smiStatic, SmiTypeOK, ReferencesHeld, ProcessIffReferenced,
         SamplesRouted, HeaderFirst

(* A line is printed behind the ones that wait, the names before all.      *)
LEMMA PrintSound == SmiIInv /\ PrintLine => SmiIInv'
<1> SUFFICES ASSUME SmiIInv, PrintLine PROVE SmiIInv'
  OBVIOUS
<1> USE DEF SmiIInv, PrintLine, smiStatic
<1>1. next' \in Lines
  BY OrdinalsAreNaturals DEF SmiTypeOK, Lines, Names, Units
<1>2. SmiTypeOK'
  BY <1>1 DEF SmiTypeOK
<1>3. HeaderFirst'
  <2>1. pipe' # <<>> /\ Head(pipe') = (IF pipe = <<>> THEN next ELSE Head(pipe))
    BY DEF SmiTypeOK
  <2> QED
    BY <2>1 DEF HeaderFirst
<1>4. ReferencesHeld' /\ ProcessIffReferenced' /\ SamplesRouted'
  BY DEF ReferencesHeld, ProcessIffReferenced, SamplesRouted
<1> QED
  BY <1>2, <1>3, <1>4

(* A process that ends by itself stays referenced.                         *)
LEMMA DieSound == SmiIInv /\ Die => SmiIInv'
  BY DEF SmiIInv, Die, smiStatic, smiOutput, SmiTypeOK, ReferencesHeld, ProcessIffReferenced,
         SamplesRouted, HeaderFirst

(* A line of data is read after the columns, and by the card it is for.    *)
LEMMA ReadLineSound == SmiIInv /\ ReadLine => SmiIInv'
<1> SUFFICES ASSUME SmiIInv, ReadLine PROVE SmiIInv'
  OBVIOUS
<1> USE DEF SmiIInv, ReadLine, Delivers, ColumnsAfter, smiStatic
<1>1. Head(pipe) \in Lines /\ pipe' \in Seq(Lines)
  BY DEF SmiTypeOK
<1>2. process # "none"
  BY DEF SmiTypeOK
<1>3. CASE Head(pipe) \in {Names, Units}
  <2>1. SmiTypeOK'
    BY <1>1, <1>3 DEF SmiTypeOK
  <2>2. HeaderFirst'
    BY <1>2, <1>3 DEF HeaderFirst, Names, Units
  <2> QED
    BY <1>3, <2>1, <2>2 DEF ReferencesHeld, ProcessIffReferenced, SamplesRouted
<1>4. CASE Head(pipe) \notin {Names, Units}
  <2>1. columns
    BY <1>2, <1>4 DEF HeaderFirst
  <2>2. Head(pipe) \in Ordinals
    BY <1>1, <1>4 DEF Lines
  <2>3. SmiTypeOK'
    BY <1>1, <1>4, <2>1, <2>2 DEF SmiTypeOK, LineReading, Readings
  <2>4. SamplesRouted'
    BY <1>4, <2>1 DEF SamplesRouted, SmiTypeOK, Takes, LineIndex, LineReading
  <2>5. HeaderFirst'
    BY <1>4, <2>1 DEF HeaderFirst
  <2> QED
    BY <1>4, <2>3, <2>4, <2>5 DEF ReferencesHeld, ProcessIffReferenced
<1> QED
  BY <1>3, <1>4

(* Every step of the cards and of nvidia-smi keeps the invariant.          *)
LEMMA SmiStepSound == SmiIInv /\ [SmiNext]_smiVars => SmiIInv'
<1> SUFFICES ASSUME SmiIInv, [SmiNext]_smiVars PROVE SmiIInv'
  OBVIOUS
<1>1. CASE UNCHANGED smiVars
  BY <1>1 DEF smiVars, SmiIInv, SmiTypeOK, ReferencesHeld, ProcessIffReferenced,
              SamplesRouted, HeaderFirst
<1>2. CASE SmiNext
  BY <1>2, SubscribeSound, UnsubscribeSound, QuitSound, ReapSound,
     PrintSound, DieSound, ReadLineSound DEF SmiNext
<1> QED
  BY <1>1, <1>2

-----------------------------------------------------------------------------
(* The plugin behaves like each of the parts it is made of: whichever card *)
(* the machine has, what the others would do is at most stuttering.        *)
THEOREM PluginImplementsParts == Spec => SmiSpec /\ IntelSpec /\ XeSpec
<1>1. Init => SmiInit /\ IntelInit /\ XeInit
  BY DEF Init
<1>2. [Next]_gpuVars => [SmiNext]_smiVars /\ [IntelNext]_intelVars /\ [XeNext]_xeVars
  BY DEF Next, gpuVars
<1> QED
  BY <1>1, <1>2, PTL DEF Spec, SmiSpec, IntelSpec, XeSpec

(* The inductive invariant holds in every behaviour of the plugin.         *)
LEMMA SmiAlwaysSound == Spec => []SmiIInv
  BY SmiInitSound, SmiStepSound, PluginImplementsParts, PTL DEF SmiSpec

(* unref() gives back exactly what ref() took, over all cards and sensors. *)
THEOREM ReferencesAlwaysHeld == Spec => []ReferencesHeld
<1>1. SmiIInv => ReferencesHeld
  BY DEF SmiIInv
<1> QED
  BY <1>1, SmiAlwaysSound, PTL

(* nvidia-smi is kept while it is referenced and never longer.             *)
THEOREM ProcessAlwaysReferenced == Spec => []ProcessIffReferenced
<1>1. SmiIInv => ProcessIffReferenced
  BY DEF SmiIInv
<1> QED
  BY <1>1, SmiAlwaysSound, PTL

(* No card ever shows another card's numbers or a line without columns.    *)
THEOREM AlwaysRouted == Spec => []SamplesRouted
<1>1. SmiIInv => SamplesRouted
  BY DEF SmiIInv
<1> QED
  BY <1>1, SmiAlwaysSound, PTL

(* A first reference finds no process and starts one, after any history.   *)
THEOREM AlwaysFresh == Spec => FreshProcess
<1>1. SmiIInv /\ [SmiNext]_smiVars
        => [references = 0 /\ references' > 0 => process' = "running"]_smiVars
  <2> SUFFICES ASSUME SmiIInv, SmiNext, references = 0, references' > 0
               PROVE  process' = "running"
    OBVIOUS
  <2>1. ASSUME NEW c \in Cards, NEW s \in RefSensors, SmiSubscribe(c, s)
        PROVE  process' = "running"
    BY <2>1 DEF SmiIInv, SmiTypeOK, ProcessIffReferenced, SmiSubscribe, LoopFree,
                Ref, NoRef, Started, Counted
  <2>2. ASSUME NEW c \in Cards, NEW s \in RefSensors, SmiUnsubscribe(c, s)
        PROVE  FALSE
    BY <2>2 DEF SmiUnsubscribe, Unref, NoRef, SmiIInv, SmiTypeOK
  <2> QED
    BY <2>1, <2>2 DEF SmiNext, DaemonQuits, Reap, PrintLine, Die, ReadLine
<1> QED
  BY <1>1, SmiAlwaysSound, PluginImplementsParts, PTL DEF SmiSpec, FreshProcess

-----------------------------------------------------------------------------
(* A helper that was subscribed from its start is compared with its own    *)
(* last line, and no helper is busy for longer than it counts.             *)
CountsSound ==
    /\ counted.busy <= counted.time
    /\ ~carried => last = counted

IntelIInv == IntelTypeOK /\ IntelHelperWanted /\ UsageWithinTime /\ CountsSound

(* A new helper counts from zero.                                          *)
LEMMA ZeroCounters == Zero \in Counters /\ Zero.busy = 0 /\ Zero.time = 0
  BY IntelAssumption DEF Zero, Counters

(* The card starts without subscription or helper.                         *)
LEMMA IntelInitSound == IntelInit => IntelIInv
<1> SUFFICES ASSUME IntelInit PROVE IntelIInv
  OBVIOUS
<1>1. 0 \in 0 .. Wrap - 1
  BY IntelAssumption
<1>2. reading \in [busy : 0 .. Wrap - 1, time : 0 .. Wrap - 1, carried : BOOLEAN]
  BY <1>1 DEF IntelInit
<1>3. IntelTypeOK
  BY <1>2, ZeroCounters DEF IntelInit, IntelTypeOK
<1>4. IntelHelperWanted /\ UsageWithinTime /\ CountsSound
  BY ZeroCounters DEF IntelInit, IntelHelperWanted, UsageWithinTime, CountsSound
<1> QED
  BY <1>3, <1>4 DEF IntelIInv

(* A line of the helper is within its time when it follows one of its own. *)
LEMMA IntelLineSound ==
  ASSUME IntelIInv, NEW time \in 1 .. MaxTime, NEW busy \in 0 .. time,
         IntelLine(time, busy)
  PROVE  IntelIInv'
<1> DEFINE now == [time |-> counted.time + time, busy |-> counted.busy + busy]
<1> USE DEF IntelIInv, IntelLine
<1>1. now \in Counters /\ now.busy <= now.time
  BY IntelAssumption DEF IntelTypeOK, CountsSound, Counters
<1>2. counted' = now /\ last' = now /\ carried' = FALSE
  BY DEF Kept
<1>3. /\ Minus(now.busy, last.busy) \in 0 .. Wrap - 1
      /\ Minus(now.time, last.time) \in 0 .. Wrap - 1
  BY <1>1, IntelAssumption DEF Minus, IntelTypeOK, Counters
<1>4. reading' = [busy |-> Minus(now.busy, last.busy),
                  time |-> Minus(now.time, last.time), carried |-> carried]
  OBVIOUS
<1>5. ~carried => Minus(now.busy, last.busy) = busy /\ Minus(now.time, last.time) = time
  BY DEF Minus, CountsSound, IntelTypeOK, Counters
<1> HIDE DEF now
<1>6. IntelTypeOK'
  <2>1. reading' \in [busy : 0 .. Wrap - 1, time : 0 .. Wrap - 1,
                      carried : BOOLEAN]
    BY <1>3, <1>4 DEF IntelTypeOK
  <2> QED
    BY <1>1, <1>2, <2>1 DEF IntelTypeOK
<1>7. UsageWithinTime'
  BY <1>4, <1>5 DEF UsageWithinTime
<1> QED
  BY <1>1, <1>2, <1>6, <1>7 DEF IntelHelperWanted, CountsSound

(* Every step of the card and its helper keeps the invariant.              *)
LEMMA IntelStepSound == IntelIInv /\ [IntelNext]_intelVars => IntelIInv'
<1> SUFFICES ASSUME IntelIInv, [IntelNext]_intelVars PROVE IntelIInv'
  OBVIOUS
<1> USE DEF IntelIInv, IntelTypeOK, IntelHelperWanted, UsageWithinTime, CountsSound,
            intelData
<1>1. CASE IntelSubscribe
  <2>1. CASE intelHelper = "stopped"
    <3>1. carried' \in BOOLEAN /\ (~carried' => last' = counted')
      BY <1>1, <2>1, Zenon DEF IntelSubscribe
    <3> QED
      BY <1>1, <2>1, <3>1, ZeroCounters DEF IntelSubscribe
  <2>2. CASE intelHelper # "stopped"
    BY <1>1, <2>2 DEF IntelSubscribe
  <2> QED
    BY <2>1, <2>2
<1>2. CASE IntelUnsubscribe
  BY <1>2 DEF IntelUnsubscribe, Terminated
<1>3. CASE IntelEnd \/ IntelDie
  BY <1>3 DEF IntelEnd, IntelDie
<1>4. CASE UNCHANGED intelVars
  BY <1>4 DEF intelVars
<1> QED
  BY <1>1, <1>2, <1>3, <1>4, IntelLineSound DEF IntelNext

(* No helper counts for an unwatched i915 card, and a watched one lacks it *)
(* only if it died or was asked for while the last one was terminating.    *)
THEOREM IntelAlwaysWanted == Spec => []IntelHelperWanted
<1>1. IntelIInv => IntelHelperWanted
  BY DEF IntelIInv
<1> QED
  BY <1>1, IntelInitSound, IntelStepSound, PluginImplementsParts, PTL DEF IntelSpec

(* Usage is at most all of the time, but for the first line of a restarted *)
(* helper, for any width of the counters.                                  *)
THEOREM AlwaysWithinTime == Spec => []UsageWithinTime
<1>1. IntelIInv => UsageWithinTime
  BY DEF IntelIInv
<1> QED
  BY <1>1, IntelInitSound, IntelStepSound, PluginImplementsParts, PTL DEF IntelSpec

XeIInv == XeTypeOK /\ XeHelperWanted

(* The card starts without subscription or helper.                         *)
LEMMA XeInitSound == XeInit => XeIInv
  BY DEF XeInit, XeIInv, XeTypeOK, XeHelperWanted

(* Every step of the card and its helper keeps the invariant.              *)
LEMMA XeStepSound == XeIInv /\ [XeNext]_xeVars => XeIInv'
<1> SUFFICES ASSUME XeIInv, [XeNext]_xeVars PROVE XeIInv'
  OBVIOUS
<1> USE DEF XeIInv, XeTypeOK, XeHelperWanted
<1>1. ASSUME NEW now \in SUBSET XeSensors, UpdateHelperState(now)
      PROVE  XeIInv'
  BY <1>1 DEF UpdateHelperState, Starts, Stops
<1>2. CASE \E s \in XeSensors : XeSubscribe(s) \/ XeUnsubscribe(s)
  BY <1>1, <1>2 DEF XeSubscribe, XeUnsubscribe
<1>3. CASE XeEnd \/ XeDie
  BY <1>3 DEF XeEnd, XeDie
<1>4. CASE UNCHANGED xeVars
  BY <1>4 DEF xeVars
<1> QED
  BY <1>2, <1>3, <1>4 DEF XeNext

(* No helper counts for an unwatched xe card, and a watched one lacks it   *)
(* only if it died or outlived the wait for its end.                       *)
THEOREM XeAlwaysWanted == Spec => []XeHelperWanted
<1>1. XeIInv => XeHelperWanted
  BY DEF XeIInv
<1> QED
  BY <1>1, XeInitSound, XeStepSound, PluginImplementsParts, PTL DEF XeSpec

(* The sensors of all cards share nvidia-smi: both facts of its process.   *)
THEOREM ProcessAlwaysHeld == Spec => []ProcessHeld
<1>1. SmiIInv => ProcessHeld
  BY DEF SmiIInv, ProcessHeld
<1> QED
  BY <1>1, SmiAlwaysSound, PTL

(* Both facts of the helpers of Intel cards.                               *)
THEOREM AlwaysWanted == Spec => []HelpersWanted
<1>1. IntelIInv /\ XeIInv => HelpersWanted
  BY DEF IntelIInv, XeIInv, HelpersWanted
<1> QED
  BY <1>1, IntelInitSound, IntelStepSound, XeInitSound, XeStepSound,
     PluginImplementsParts, PTL DEF IntelSpec, XeSpec

(* The state of all the parts has the types it should.                     *)
THEOREM TypeCorrect == Spec => []TypeOK
<1>1. SmiIInv /\ IntelIInv /\ XeIInv => TypeOK
  BY DEF SmiIInv, IntelIInv, XeIInv, TypeOK
<1> QED
  BY <1>1, SmiAlwaysSound, IntelInitSound, IntelStepSound, XeInitSound,
     XeStepSound, PluginImplementsParts, PTL DEF IntelSpec, XeSpec
=============================================================================
