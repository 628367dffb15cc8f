----------------------------- MODULE PluginProofs -----------------------------
(***************************************************************************)
(* Proofs of the power, memory, pressure, OS information and CPU plugins,  *)
(* and of the search for an xe card's engines, for any batteries, memory   *)
(* sizes, CPUs, chips and engines.                                         *)
(*                                                                         *)
(* Power: batteries that have an id in common have had it in twins since   *)
(* the second came (TwinsKnown), so taking one out of the list can only    *)
(* take out another that is excused.  A rate that was never signalled is   *)
(* right if the system reports signs, as the constructor negates it.       *)
(* Memory: pages that are handed from one use to another always make the   *)
(* same sum (PagesAddUp), so no subtraction of update() wraps around.      *)
(* CPU: a computer's counters and the time since make the kernel's         *)
(* (WindowSound), and Percentage() is monotonic, also where it clamps.     *)
(* Topology: the names of two records differ by the thread's number, or by *)
(* how many of the package's records came before.                          *)
(* Engines: what a class was busy, and the longest time of one of its      *)
(* engines, are sums over finite sets, for which there is a section on sums; *)
(* an argument by a least set takes the place of induction.                *)
(***************************************************************************)
EXTENDS XeCounters, Power, Memory, Pressure, OsInfo, Cpu, CpuTopology, TLAPS,
        FiniteSetTheorems, WellFoundedInduction

-----------------------------------------------------------------------------
(* Numbers and sums                                                        *)

\* The sum over the subsets of S, as SumFunction() finds it.
Picked(D) == CHOOSE e \in D : TRUE
SumsOver(f, S, g) ==
    g = [D \in SUBSET S |-> IF D = {} THEN 0 ELSE f[Picked(D)] + g[D \ {Picked(D)}]]

\* SumFunction() takes a function that fits.
LEMMA SumFunctionIsSum ==
  \A f : \E g : /\ SumFunction(f) = g[DOMAIN f]
                /\ (\E h : SumsOver(f, DOMAIN f, h)) => SumsOver(f, DOMAIN f, g)
  BY DEF SumFunction, SumFunctionOnSet, FoldFunctionOnSet, MapThenFoldSet, SumsOver, Picked

\* A set that has some member has the picked one, and is larger by it.
LEMMA PickedFacts ==
  ASSUME NEW D, D # {}, IsFiniteSet(D)
  PROVE  /\ Picked(D) \in D
         /\ IsFiniteSet(D \ {Picked(D)})
         /\ Cardinality(D) \in Nat
         /\ Cardinality(D \ {Picked(D)}) \in Nat
         /\ Cardinality(D \ {Picked(D)}) < Cardinality(D)
<1>1. Picked(D) \in D
  BY DEF Picked
<1>2. Cardinality(D) \in Nat
  BY FS_CardinalityType
<1>3. /\ IsFiniteSet(D \ {Picked(D)})
      /\ Cardinality(D \ {Picked(D)}) = Cardinality(D) - 1
  BY <1>1, FS_RemoveElement
<1>4. Cardinality(D \ {Picked(D)}) \in Nat
  BY <1>3, FS_CardinalityType
<1> QED
  BY <1>1, <1>2, <1>3, <1>4

\* There is a natural number that is the least of any.
LEMMA LeastNatural ==
  ASSUME NEW T \in SUBSET Nat, T # {}
  PROVE  \E n \in T : \A m \in T : n <= m
<1>1. \E n \in T : \A m \in T : ~ (<<m, n>> \in OpToRel(<, Nat))
  BY WFMin, NatLessThanWellFounded, Zenon
<1>2. PICK n \in T : \A m \in T : ~ (m < n)
  BY <1>1 DEF OpToRel
<1> QED
  BY <1>2

\* Among sets of members of a finite set there is one that has no smaller one.
LEMMA SmallestSet ==
  ASSUME NEW S, IsFiniteSet(S), NEW F \in SUBSET SUBSET S, F # {}
  PROVE  \E D \in F : IsFiniteSet(D) /\ \A e \in D : D \ {e} \notin F
<1> DEFINE Sizes == {Cardinality(D) : D \in F}
<1>1. \A D \in F : IsFiniteSet(D) /\ Cardinality(D) \in Nat
  BY FS_Subset, FS_CardinalityType
<1>2. Sizes \in SUBSET Nat /\ Sizes # {}
  BY <1>1
<1>3. PICK n \in Sizes : \A m \in Sizes : n <= m
  BY <1>2, LeastNatural
<1>4. PICK D \in F : Cardinality(D) = n
  BY <1>3
<1>5. ASSUME NEW e \in D, D \ {e} \in F
      PROVE  FALSE
  <2>1. Cardinality(D \ {e}) = Cardinality(D) - 1
    BY <1>1, <1>4, FS_RemoveElement
  <2>2. n <= Cardinality(D \ {e})
    BY <1>3, <1>5
  <2> QED
    BY <1>1, <1>4, <2>1, <2>2
<1> QED
  BY <1>1, <1>4, <1>5

\* Two functions that fit agree wherever both are defined.
LEMMA SumsAgree ==
  ASSUME NEW S1, NEW S2, NEW f1, NEW f2, NEW g1, NEW g2,
         SumsOver(f1, S1, g1), SumsOver(f2, S2, g2),
         NEW C, C \subseteq S1 \intersect S2, IsFiniteSet(C),
         \A e \in C : f1[e] = f2[e]
  PROVE  g1[C] = g2[C]
<1> DEFINE Apart == {D \in SUBSET C : g1[D] # g2[D]}
<1>1. SUFFICES ASSUME Apart # {}
               PROVE  FALSE
  OBVIOUS
<1>2. PICK D \in Apart : \A e \in D : D \ {e} \notin Apart
  BY <1>1, SmallestSet
<1>3. /\ g1[D] = IF D = {} THEN 0 ELSE f1[Picked(D)] + g1[D \ {Picked(D)}]
      /\ g2[D] = IF D = {} THEN 0 ELSE f2[Picked(D)] + g2[D \ {Picked(D)}]
  BY DEF SumsOver
<1>4. D # {}
  BY <1>3
<1>5. Picked(D) \in D /\ D \ {Picked(D)} \notin Apart
  BY <1>2, <1>4 DEF Picked
<1> QED
  BY <1>3, <1>4, <1>5

\* For a finite set there is one, and its values are natural numbers.
LEMMA SumsExist ==
  ASSUME NEW S, IsFiniteSet(S), NEW f \in [S -> Nat]
  PROVE  \E g \in [SUBSET S -> Nat] : SumsOver(f, S, g)
<1> DEFINE Upto(n) == {D \in SUBSET S : Cardinality(D) <= n}
<1> DEFINE Fits(n, g) ==
      g = [D \in Upto(n) |-> IF D = {} THEN 0 ELSE f[Picked(D)] + g[D \ {Picked(D)}]]
<1> DEFINE Bad == {n \in Nat : \A g \in [Upto(n) -> Nat] : ~Fits(n, g)}
<1>0. \A D \in SUBSET S : IsFiniteSet(D) /\ Cardinality(D) \in Nat
  BY FS_Subset, FS_CardinalityType
<1>1. Bad = {}
  <2>1. SUFFICES ASSUME Bad # {} PROVE FALSE
    OBVIOUS
  <2>2. PICK n \in Bad : \A m \in Bad : n <= m
    BY <2>1, LeastNatural
  <2>3. ASSUME n = 0 PROVE FALSE
    <3>1. \A D \in Upto(0) : D = {}
      BY <1>0, FS_EmptySet
    <3>2. {} \in Upto(0)
      BY FS_EmptySet
    <3>3. [D \in Upto(0) |-> 0] \in [Upto(0) -> Nat]
      OBVIOUS
    <3>4. Fits(0, [D \in Upto(0) |-> 0])
      BY <3>1
    <3> QED
      BY <2>3, <3>3, <3>4
  <2>4. ASSUME n # 0 PROVE FALSE
    <3>1. n \in Nat /\ n - 1 \in Nat /\ n - 1 \notin Bad
      <4>1. n \in Nat /\ n - 1 \in Nat
        BY <2>4
      <4>2. ~ (n <= n - 1)
        BY <4>1
      <4> QED
        BY <2>2, <4>1, <4>2, Zenon
    <3>2. PICK g \in [Upto(n - 1) -> Nat] : Fits(n - 1, g)
      BY <3>1
    <3> DEFINE h == [D \in Upto(n) |-> IF D = {} THEN 0 ELSE f[Picked(D)] + g[D \ {Picked(D)}]]
    <3>3. \A D \in Upto(n) : D # {} =>
             /\ Picked(D) \in S
             /\ D \ {Picked(D)} \in Upto(n - 1)
             /\ D \ {Picked(D)} \in Upto(n)
      BY <1>0, <3>1, PickedFacts
    <3>4. h \in [Upto(n) -> Nat]
      BY <3>3
    <3>5. \A D \in Upto(n - 1) : D \in Upto(n) /\ h[D] = g[D]
      <4> SUFFICES ASSUME NEW D \in Upto(n - 1)
                   PROVE  D \in Upto(n) /\ h[D] = g[D]
        OBVIOUS
      <4>1. D \in Upto(n)
        BY <1>0, <3>1
      <4>2. g[D] = IF D = {} THEN 0 ELSE f[Picked(D)] + g[D \ {Picked(D)}]
        BY <3>2
      <4> QED
        BY <4>1, <4>2
    <3>6. h = [D \in Upto(n) |-> IF D = {} THEN 0 ELSE f[Picked(D)] + h[D \ {Picked(D)}]]
      BY <3>3, <3>5
    <3> HIDE DEF h
    <3>7. Fits(n, h)
      BY <3>6
    <3> QED
      BY <3>4, <3>7, <2>2
  <2> QED
    BY <2>3, <2>4
<1>2. Cardinality(S) \in Nat /\ Upto(Cardinality(S)) = SUBSET S
  BY FS_Subset, FS_CardinalityType
<1> HIDE DEF Upto
<1>3. PICK g \in [Upto(Cardinality(S)) -> Nat] : Fits(Cardinality(S), g)
  BY <1>1, <1>2
<1> QED
  BY <1>2, <1>3 DEF SumsOver

\* A sum over a finite set is that of any function that fits.
LEMMA SumIsAny ==
  ASSUME NEW S, IsFiniteSet(S), NEW f \in [S -> Nat], NEW R, NEW g, SumsOver(f, R, g),
         S \subseteq R
  PROVE  SumFunction(f) = g[S] /\ g[S] \in Nat
<1>1. PICK h \in [SUBSET S -> Nat] : SumsOver(f, S, h)
  BY SumsExist
<1>2. PICK k : SumFunction(f) = k[S] /\ SumsOver(f, S, k)
  BY <1>1, SumFunctionIsSum
<1>3. k[S] = h[S] /\ g[S] = h[S]
  BY <1>1, <1>2, SumsAgree
<1> QED
  BY <1>1, <1>2, <1>3

\* A sum of natural numbers is one.
LEMMA SumIsNatural ==
  ASSUME NEW S, IsFiniteSet(S), NEW f \in [S -> Nat]
  PROVE  SumFunction(f) \in Nat
<1>1. PICK g \in [SUBSET S -> Nat] : SumsOver(f, S, g)
  BY SumsExist
<1> QED
  BY <1>1, SumIsAny

\* Leaving one member out of a sum takes its value from it.
LEMMA SumWithout ==
  ASSUME NEW S, IsFiniteSet(S), NEW f \in [S -> Nat], NEW e \in S
  PROVE  /\ SumFunction(f) \in Nat
         /\ SumFunction([d \in S \ {e} |-> f[d]]) \in Nat
         /\ SumFunction(f) = f[e] + SumFunction([d \in S \ {e} |-> f[d]])
<1>1. PICK g \in [SUBSET S -> Nat] : SumsOver(f, S, g)
  BY SumsExist
<1>2. \A D \in SUBSET S : IsFiniteSet(D) /\ Cardinality(D) \in Nat
  BY FS_Subset, FS_CardinalityType
<1>3. g[S \ {e}] \in Nat /\ SumFunction([d \in S \ {e} |-> f[d]]) = g[S \ {e}]
  <2> DEFINE r == [d \in S \ {e} |-> f[d]]
  <2>1. IsFiniteSet(S \ {e}) /\ r \in [S \ {e} -> Nat]
    BY <1>2
  <2>2. PICK h \in [SUBSET (S \ {e}) -> Nat] : SumsOver(r, S \ {e}, h)
    BY <2>1, SumsExist
  <2>3. SumFunction(r) = h[S \ {e}]
    BY <2>1, <2>2, SumIsAny
  <2>4. h[S \ {e}] = g[S \ {e}]
    <3>1. \A d \in S \ {e} : r[d] = f[d]
      OBVIOUS
    <3> HIDE DEF r
    <3> QED
      BY <1>1, <2>1, <2>2, <3>1, SumsAgree
  <2> QED
    BY <1>1, <2>3, <2>4
<1>4. \A D \in SUBSET S : \A d \in D : g[D] = f[d] + g[D \ {d}]
  <2> DEFINE Bad == {D \in SUBSET S : \E d \in D : g[D] # f[d] + g[D \ {d}]}
  <2>1. SUFFICES ASSUME Bad # {} PROVE FALSE
    OBVIOUS
  <2>2. PICK D \in Bad : \A c \in D : D \ {c} \notin Bad
    BY <2>1, SmallestSet
  <2>5. PICK d \in D : g[D] # f[d] + g[D \ {d}]
    BY <2>2
  <2> DEFINE p == Picked(D)
  <2>6. D # {} /\ D \in SUBSET S
    BY <2>5
  <2>7. p \in D
    BY <2>6 DEF Picked
  <2>8. \A C \in SUBSET S : C \notin Bad => \A c \in C : g[C] = f[c] + g[C \ {c}]
    OBVIOUS
  <2>9. g[D] = f[p] + g[D \ {p}]
    BY <1>1, <2>6 DEF SumsOver
  <2>10. d # p
    BY <2>5, <2>9
  <2> DEFINE both == D \ {d, p}
  <2>11. g[D \ {p}] = f[d] + g[both]
    <3>1. D \ {p} \notin Bad /\ D \ {p} \in SUBSET S /\ d \in D \ {p}
      BY <2>2, <2>6, <2>7, <2>10
    <3>2. (D \ {p}) \ {d} = both
      OBVIOUS
    <3> QED
      BY <2>8, <3>1, <3>2
  <2>12. g[D \ {d}] = f[p] + g[both]
    <3>1. D \ {d} \notin Bad /\ D \ {d} \in SUBSET S /\ p \in D \ {d}
      BY <2>2, <2>6, <2>7, <2>10
    <3>2. (D \ {d}) \ {p} = both
      OBVIOUS
    <3> QED
      BY <2>8, <3>1, <3>2
  <2>13. f[p] \in Nat /\ f[d] \in Nat /\ g[both] \in Nat
    BY <2>6, <2>7
  <2> HIDE DEF p, both
  <2> QED
    BY <2>5, <2>9, <2>11, <2>12, <2>13
<1>5. SumFunction(f) = g[S] /\ g[S] \in Nat
  BY <1>1, SumIsAny
<1> QED
  BY <1>3, <1>4, <1>5

\* The same for the members of a subset.
LEMMA SumOfRest ==
  ASSUME NEW S, NEW f \in [S -> Nat], NEW D \in SUBSET S, IsFiniteSet(D), NEW e \in D
  PROVE  /\ SumFunction([d \in D |-> f[d]])
               = f[e] + SumFunction([d \in D \ {e} |-> f[d]])
         /\ SumFunction([d \in D \ {e} |-> f[d]]) \in Nat
<1> DEFINE r == [d \in D |-> f[d]]
<1>1. r \in [D -> Nat]
  OBVIOUS
<1>2. [d \in D \ {e} |-> r[d]] = [d \in D \ {e} |-> f[d]] /\ r[e] = f[e]
  OBVIOUS
<1> HIDE DEF r
<1>3. /\ SumFunction(r) = r[e] + SumFunction([d \in D \ {e} |-> r[d]])
      /\ SumFunction([d \in D \ {e} |-> r[d]]) \in Nat
  BY <1>1, SumWithout
<1> QED
  BY <1>2, <1>3 DEF r

\* What is zero can be left out of a sum.
LEMMA SumOfNonzero ==
  ASSUME NEW S, IsFiniteSet(S), NEW f \in [S -> Nat],
         NEW T \in SUBSET S, \A e \in S \ T : f[e] = 0
  PROVE  SumFunction(f) = SumFunction([e \in T |-> f[e]])
<1> DEFINE Sum(D) == SumFunction([e \in D |-> f[e]])
<1> DEFINE Bad == {D \in SUBSET S : T \subseteq D /\ Sum(D) # Sum(T)}
<1>1. SUFFICES Bad = {}
  <2>1. f = [e \in S |-> f[e]]
    OBVIOUS
  <2> QED
    BY <2>1
<1>2. SUFFICES ASSUME Bad # {} PROVE FALSE
  OBVIOUS
<1>3. PICK D \in Bad : IsFiniteSet(D) /\ \A e \in D : D \ {e} \notin Bad
  <2>1. Bad \in SUBSET SUBSET S
    OBVIOUS
  <2> HIDE DEF Bad
  <2> QED
    BY <1>2, <2>1, SmallestSet
<1>4. PICK e \in D : e \notin T
  <2>1. D # T /\ T \subseteq D
    BY <1>3
  <2> QED
    BY <2>1
<1>5. /\ D \in SUBSET S /\ D \ {e} \in SUBSET S /\ T \subseteq D \ {e} /\ e \in S
      /\ f[e] = 0
  BY <1>3, <1>4
<1>6. Sum(D \ {e}) = Sum(T)
  BY <1>3, <1>5
<1>7. Sum(D) = f[e] + Sum(D \ {e}) /\ Sum(D \ {e}) \in Nat
  BY <1>3, <1>5, SumOfRest
<1> QED
  BY <1>3, <1>5, <1>6, <1>7

\* What is less for every member is less in sum.
LEMMA SumMonotonic ==
  ASSUME NEW S, IsFiniteSet(S), NEW f \in [S -> Nat], NEW g \in [S -> Nat],
         \A e \in S : f[e] <= g[e]
  PROVE  SumFunction(f) <= SumFunction(g)
<1> DEFINE F(D) == SumFunction([e \in D |-> f[e]])
<1> DEFINE G(D) == SumFunction([e \in D |-> g[e]])
<1> DEFINE Bad == {D \in SUBSET S : ~ (F(D) <= G(D))}
<1>1. SUFFICES Bad = {}
  <2>1. f = [e \in S |-> f[e]] /\ g = [e \in S |-> g[e]]
    OBVIOUS
  <2> QED
    BY <2>1
<1>2. SUFFICES ASSUME Bad # {} PROVE FALSE
  OBVIOUS
<1>3. PICK D \in Bad : IsFiniteSet(D) /\ \A e \in D : D \ {e} \notin Bad
  <2>1. Bad \in SUBSET SUBSET S
    OBVIOUS
  <2> HIDE DEF Bad
  <2> QED
    BY <1>2, <2>1, SmallestSet
<1>4. CASE D = {}
  <2>1. [e \in {} |-> f[e]] = [e \in {} |-> g[e]]
    OBVIOUS
  <2>2. SumFunction([e \in {} |-> f[e]]) \in Nat
    <3> DEFINE z == [e \in {} |-> f[e]]
    <3>1. z \in [{} -> Nat] /\ IsFiniteSet({})
      BY FS_EmptySet
    <3> HIDE DEF z
    <3>3. SumFunction(z) \in Nat
      BY <3>1, SumIsNatural
    <3> QED
      BY <3>3 DEF z
  <2>3. F(D) \in Nat /\ F(D) = G(D)
    BY <1>4, <2>1, <2>2
  <2> QED
    BY <1>3, <2>3
<1>5. CASE D # {}
  <2>1. PICK e \in D : TRUE
    BY <1>5
  <2>2. D \in SUBSET S /\ e \in S /\ D \ {e} \in SUBSET S /\ F(D \ {e}) <= G(D \ {e})
    BY <1>3
  <2>3. F(D) = f[e] + F(D \ {e}) /\ F(D \ {e}) \in Nat
    BY <1>3, <2>1, <2>2, SumOfRest
  <2>4. G(D) = g[e] + G(D \ {e}) /\ G(D \ {e}) \in Nat
    BY <1>3, <2>1, <2>2, SumOfRest
  <2>5. f[e] \in Nat /\ g[e] \in Nat /\ f[e] <= g[e] /\ ~ (F(D) <= G(D))
    BY <1>3, <2>2
  <2> QED
    BY <2>2, <2>3, <2>4, <2>5
<1> QED
  BY <1>4, <1>5

\* A finite set of integers that is not empty has a greatest one.
LEMMA GreatestOfFinite ==
  ASSUME NEW S \in SUBSET Int, IsFiniteSet(S), S # {}
  PROVE  Greatest(S) \in S /\ \A x \in S : x <= Greatest(S)
<1> DEFINE HasGreatest(D) == \E x \in D : \A y \in D : y <= x
<1> DEFINE Bad == {D \in SUBSET S : D # {} /\ ~HasGreatest(D)}
<1>1. Bad = {}
  <2>1. SUFFICES ASSUME Bad # {} PROVE FALSE
    OBVIOUS
  <2>2. PICK D \in Bad : \A e \in D : D \ {e} \notin Bad
    <3>1. Bad \in SUBSET SUBSET S
      OBVIOUS
    <3> HIDE DEF Bad
    <3> QED
      BY <2>1, <3>1, SmallestSet
  <2>3. PICK e \in D : TRUE
    OBVIOUS
  <2>4. D \ {e} # {}
    OBVIOUS
  <2>5. HasGreatest(D \ {e})
    BY <2>2, <2>4
  <2>6. PICK x \in D \ {e} : \A y \in D \ {e} : y <= x
    BY <2>5
  <2>7. CASE e <= x
    BY <2>6, <2>7
  <2>8. CASE x <= e
    <3>1. \A y \in D : y <= e
      BY <2>6, <2>8
    <3> QED
      BY <3>1
  <2> QED
    BY <2>7, <2>8
<1>2. HasGreatest(S)
  BY <1>1
<1> QED
  BY <1>2 DEF Greatest

\* A list of positions has a last one.
LEMMA GreatestPosition ==
  ASSUME NEW n \in Nat, NEW S \in SUBSET (1 .. n), S # {}
  PROVE  Greatest(S) \in S /\ \A y \in S : y <= Greatest(S)
<1>1. IsFiniteSet(1 .. n)
  BY FS_Interval
<1>2. IsFiniteSet(S)
  BY <1>1, FS_Subset
<1>3. S \in SUBSET Int
  OBVIOUS
<1> QED
  BY <1>2, <1>3, GreatestOfFinite

-----------------------------------------------------------------------------
(* Power                                                                   *)

TwinsKnown ==
    \A b, c \in batteriesByUdi :
        b # c /\ SerialOf[b] = SerialOf[c] => SerialOf[b] \in twins

NothingBefore ==
    ~powerLoaded => /\ batteriesByUdi = {}
                    /\ DOMAIN listed = {}

PowerInv ==
    /\ PowerTypeOK
    /\ TwinsKnown
    /\ NothingBefore
    /\ BatteriesRight

\* Zero is its own negative.
LEMMA NegatedZero ==
  ASSUME NEW x \in Int, x = 0
  PROVE  -x = x
<1>1. -x <= 0 /\ -x >= 0 /\ -x \in Int
  OBVIOUS
<1>2. ASSUME NEW y \in Int, y <= 0, y >= 0
      PROVE  y = 0
  BY <1>2
<1>3. -x = 0
  BY <1>1, <1>2
<1> QED
  BY <1>3

\* What a battery reports is within the bound, and tells the power by its sign on a
\* system that reports signs.
LEMMA EnergyRateFacts ==
  ASSUME NEW s \in BOOLEAN, NEW x \in Powers
  PROVE  /\ EnergyRate(s, x) \in Powers
         /\ -EnergyRate(s, x) \in Powers
         /\ s => -EnergyRate(s, x) = x
  BY PowerAssumption DEF EnergyRate, Magnitude, Powers

\* Of a battery that charges or discharges the lambda recovers the power from the
\* report and the state, of another it keeps the report.
LEMMA RateForIsPower ==
  ASSUME NEW s \in BOOLEAN, NEW r \in Supplies
  PROVE  /\ r.state # "other" => RateFor(EnergyRate(s, r.power), r.state) = r.power
         /\ r.state = "other" =>
                RateFor(EnergyRate(s, r.power), r.state) = EnergyRate(s, r.power)
         /\ RateFor(EnergyRate(s, r.power), r.state) \in Powers
<1> DEFINE x == r.power
<1>1. /\ x \in Int /\ x \in Powers /\ r.state \in {"charging", "discharging", "other"}
      /\ r.state = "charging" => x >= 0
      /\ r.state = "discharging" => x <= 0
  BY PowerAssumption DEF Supplies, Powers
<1>2. EnergyRate(s, x) \in Powers
  BY <1>1, EnergyRateFacts
<1> HIDE DEF x
<1>3. CASE r.state = "charging"
  <2>1. Magnitude(EnergyRate(s, x)) = x
    <3>1. CASE x = 0
      <4>1. -x = x
        BY <1>1, <3>1, NegatedZero
      <4>2. EnergyRate(s, x) = x /\ Magnitude(x) = x
        BY <4>1 DEF EnergyRate, Magnitude
      <4> QED
        BY <4>1, <4>2
    <3>2. CASE x > 0
      BY <1>1, <3>2 DEF EnergyRate, Magnitude
    <3> QED
      BY <1>1, <1>3, <3>1, <3>2
  <2> QED
    BY <1>1, <1>3, <2>1 DEF RateFor, x
<1>4. CASE r.state = "discharging"
  <2>1. -Magnitude(EnergyRate(s, x)) = x
    <3>1. CASE x = 0
      <4>1. -x = x
        BY <1>1, <3>1, NegatedZero
      <4>2. EnergyRate(s, x) = x /\ Magnitude(x) = x
        BY <4>1 DEF EnergyRate, Magnitude
      <4> QED
        BY <4>1, <4>2
    <3>2. CASE x < 0
      BY <1>1, <3>2 DEF EnergyRate, Magnitude
    <3> QED
      BY <1>1, <1>4, <3>1, <3>2
  <2> QED
    BY <1>1, <1>4, <2>1 DEF RateFor, x
<1>5. CASE r.state = "other"
  BY <1>2, <1>5 DEF RateFor, x
<1> QED
  BY <1>1, <1>3, <1>4, <1>5

\* Before the plugin is loaded there is no battery.
LEMMA PowerInitSound == PowerInit => PowerInv
<1> SUFFICES ASSUME PowerInit PROVE PowerInv
  OBVIOUS
<1> USE DEF PowerInit
<1>1. PowerTypeOK
  <2>1. 0 \in Powers
    BY PowerAssumption DEF Powers
  <2>2. NoSupply \in Supplies
    BY <2>1 DEF NoSupply, Supplies
  <2> HIDE PowerAssumption
  <2> QED
    BY <2>1, <2>2 DEF PowerTypeOK
<1>2. TwinsKnown /\ NothingBefore
  BY DEF TwinsKnown, NothingBefore
<1>3. BatteriesRight
  BY DEF BatteriesRight, BatteriesListed, ChargeRateRight
<1> QED
  BY <1>1, <1>2, <1>3 DEF PowerInv

\* New objects, the first ones or one more: each is listed unless it has a twin, and
\* its rate is right as far as the system reports signs.
LEMMA CreateSound ==
  ASSUME PowerInv, NEW B \in SUBSET Batteries, CreateBatteries(B),
         supply' \in [Batteries -> Supplies], powerLoaded', signed' \in BOOLEAN,
         ~powerLoaded \/ UNCHANGED signed,
         \A b \in batteriesByUdi : b \notin B /\ supply'[b] = supply[b]
  PROVE  PowerInv'
<1> USE DEF PowerInv, PowerTypeOK
<1>1. /\ batteriesByUdi' = batteriesByUdi \union B
      /\ unheard' = unheard \union B /\ raw' = raw \ B
      /\ chargeRate' = [b \in Batteries |->
             IF b \in B THEN -EnergyRate(signed', supply'[b].power) ELSE chargeRate[b]]
      /\ twins' = twins \union {id \in Serials :
             \E b \in B, c \in batteriesByUdi' :
                 b # c /\ SerialOf[b] = id /\ SerialOf[c] = id}
  BY DEF CreateBatteries
<1>2. /\ listed' \in [DOMAIN listed \union {SerialOf[b] : b \in B} -> Batteries]
      /\ \A id \in DOMAIN listed' :
            \/ id \in DOMAIN listed /\ listed'[id] = listed[id]
            \/ listed'[id] \in B /\ SerialOf[listed'[id]] = id
  BY DEF CreateBatteries
<1>3. /\ DOMAIN listed' = DOMAIN listed \union {SerialOf[b] : b \in B}
      /\ \A id \in DOMAIN listed' :
            listed'[id] \in Batteries /\ SerialOf[listed'[id]] = id
  BY <1>2
<1>4. \A b \in Batteries : SerialOf[b] \in Serials
  BY PowerAssumption
<1>5. PowerTypeOK'
  <2>1. chargeRate' \in [Batteries -> Powers]
    <3>1. \A b \in Batteries : supply'[b].power \in Powers
      BY DEF Supplies
    <3> QED
      BY <1>1, <3>1, EnergyRateFacts
  <2>2. DOMAIN listed' \subseteq Serials
    BY <1>3, <1>4
  <2> QED
    BY <1>1, <1>3, <2>1, <2>2
<1>6. TwinsKnown'
  BY <1>1, <1>4 DEF TwinsKnown
<1>7. NothingBefore'
  BY DEF NothingBefore
<1>8. BatteriesListed'
  <2>1. \A id \in DOMAIN listed' : listed'[id] \in batteriesByUdi'
    BY <1>1, <1>2 DEF BatteriesRight, BatteriesListed
  <2>2. \A b \in batteriesByUdi' :
            SerialOf[b] \notin twins' => SerialOf[b] \in DOMAIN listed'
    BY <1>1, <1>3 DEF BatteriesRight, BatteriesListed
  <2> QED
    BY <2>1, <2>2 DEF BatteriesListed
<1>9. ChargeRateRight'
  <2> SUFFICES ASSUME NEW b \in batteriesByUdi'
               PROVE  /\ b \notin raw' /\ (signed' \/ b \notin unheard')
                            => chargeRate'[b] = supply'[b].power
                      /\ b \in raw' => chargeRate'[b] = EnergyRate(signed', supply'[b].power)
    BY DEF ChargeRateRight
  <2>1. b \in Batteries /\ supply'[b].power \in Powers
    BY <1>1 DEF Supplies
  <2>2. CASE b \in B
    <3>1. /\ chargeRate'[b] = -EnergyRate(signed', supply'[b].power)
          /\ b \notin raw' /\ b \in unheard'
      BY <1>1, <2>1, <2>2
    <3> QED
      BY <2>1, <3>1, EnergyRateFacts
  <2>3. CASE b \notin B
    <3>1. /\ b \in batteriesByUdi /\ chargeRate'[b] = chargeRate[b]
          /\ supply'[b] = supply[b] /\ signed' = signed
          /\ b \in raw' <=> b \in raw
          /\ b \in unheard' <=> b \in unheard
      BY <1>1, <2>1, <2>3 DEF NothingBefore
    <3> QED
      BY <3>1 DEF BatteriesRight, ChargeRateRight
  <2> QED
    BY <2>2, <2>3
<1> QED
  BY <1>5, <1>6, <1>7, <1>8, <1>9 DEF BatteriesRight

\* Removal takes out of the list what has the id: the battery's own object, or one
\* that another with the id has put there.
LEMMA RemoveSound ==
  ASSUME PowerInv, NEW b \in Batteries, BatteryRemoved(b)
  PROVE  PowerInv'
<1> USE DEF PowerInv, PowerTypeOK, BatteryRemoved, Unlist
<1>1. /\ DOMAIN listed' = DOMAIN listed \ {SerialOf[b]}
      /\ \A id \in DOMAIN listed' : listed'[id] = listed[id]
  OBVIOUS
<1>2. PowerTypeOK'
  <2>1. 0 \in Powers /\ NoSupply \in Supplies
    BY PowerAssumption DEF Powers, NoSupply, Supplies
  <2> QED
    BY <1>1, <2>1, PowerAssumption
<1>3. TwinsKnown' /\ NothingBefore'
  BY DEF TwinsKnown, NothingBefore
<1>4. BatteriesListed'
  <2>1. \A id \in DOMAIN listed' : listed'[id] \in batteriesByUdi'
    BY <1>1 DEF BatteriesRight, BatteriesListed
  <2>2. ASSUME NEW c \in batteriesByUdi', SerialOf[c] \notin twins
        PROVE  SerialOf[c] \in DOMAIN listed'
    BY <1>1, <2>2 DEF TwinsKnown, BatteriesRight, BatteriesListed
  <2> QED
    BY <2>1, <2>2 DEF BatteriesListed
<1>5. ChargeRateRight'
  BY DEF BatteriesRight, ChargeRateRight
<1> QED
  BY <1>2, <1>3, <1>4, <1>5 DEF BatteriesRight

\* A change of the power is signalled unless the system reports no signs and only
\* the direction changed.
LEMMA FlowSound ==
  ASSUME PowerInv, NEW b \in Batteries, NEW r \in Supplies, PowerFlows(b, r)
  PROVE  PowerInv'
<1> DEFINE rate == EnergyRate(signed, r.power)
<1> USE DEF PowerInv, PowerTypeOK, PowerFlows
<1>1. /\ supply' = [supply EXCEPT ![b] = r] /\ b \in batteriesByUdi
      /\ UNCHANGED <<powerLoaded, signed, batteriesByUdi, listed, twins>>
  OBVIOUS
<1>2. r.power \in Powers /\ supply[b].power \in Powers /\ signed \in BOOLEAN
  BY DEF Supplies
<1>3. TwinsKnown' /\ NothingBefore' /\ BatteriesListed'
  BY <1>1 DEF TwinsKnown, NothingBefore, BatteriesRight, BatteriesListed
<1>4. CASE EnergyRate(signed, supply[b].power) # rate
  <2>1. /\ chargeRate' = [chargeRate EXCEPT ![b] = RateFor(rate, r.state)]
        /\ unheard' = unheard \ {b}
        /\ raw' = IF r.state = "other" THEN raw \union {b} ELSE raw \ {b}
    BY <1>4
  <2>2. PowerTypeOK'
    BY <1>1, <1>2, <2>1, RateForIsPower
  <2>3. ChargeRateRight'
    BY <1>1, <1>2, <2>1, RateForIsPower DEF BatteriesRight, ChargeRateRight
  <2> QED
    BY <1>3, <2>2, <2>3 DEF BatteriesRight
<1>5. CASE EnergyRate(signed, supply[b].power) = rate
  <2>1. /\ UNCHANGED <<chargeRate, raw>>
        /\ unheard' = IF supply[b].power # r.power THEN unheard \union {b} ELSE unheard
    BY <1>5
  <2>2. PowerTypeOK'
    BY <1>1, <1>2, <2>1
  <2>3. signed => supply[b].power = r.power
    BY <1>2, <1>5, EnergyRateFacts
  <2>4. ChargeRateRight'
    BY <1>1, <1>5, <2>1, <2>3 DEF BatteriesRight, ChargeRateRight
  <2> QED
    BY <1>3, <2>2, <2>4 DEF BatteriesRight
<1> QED
  BY <1>4, <1>5

\* Every step keeps the invariant.
LEMMA PowerNextSound ==
  ASSUME PowerInv, [PowerNext]_powerVars
  PROVE  PowerInv'
<1>1. ASSUME PowerLoad
      PROVE  PowerInv'
  <2>1. PICK B \in SUBSET Batteries : CreateBatteries(B)
    BY <1>1 DEF PowerLoad
  <2>2. /\ supply' \in [Batteries -> Supplies] /\ powerLoaded' /\ signed' \in BOOLEAN
        /\ ~powerLoaded /\ batteriesByUdi = {}
    BY <1>1 DEF PowerLoad, PowerInv, NothingBefore
  <2> QED
    BY <2>1, <2>2, CreateSound
<1>2. ASSUME NEW b \in Batteries, NEW r \in Supplies, BatteryAdded(b, r)
      PROVE  PowerInv'
  <2>1. {b} \in SUBSET Batteries /\ CreateBatteries({b})
    BY <1>2 DEF BatteryAdded
  <2>2. powerLoaded' /\ signed' \in BOOLEAN /\ UNCHANGED signed
    BY <1>2 DEF BatteryAdded, PowerInv, PowerTypeOK
  <2>3. /\ supply' \in [Batteries -> Supplies]
        /\ \A c \in batteriesByUdi : c \notin {b} /\ supply'[c] = supply[c]
    BY <1>2 DEF BatteryAdded, PowerInv, PowerTypeOK
  <2> QED
    BY <2>1, <2>2, <2>3, CreateSound
<1>3. ASSUME NEW b \in Batteries, BatteryRemoved(b)
      PROVE  PowerInv'
  BY <1>3, RemoveSound
<1>4. ASSUME NEW b \in Batteries, NEW r \in Supplies, PowerFlows(b, r)
      PROVE  PowerInv'
  BY <1>4, FlowSound
<1>5. CASE UNCHANGED powerVars
  BY <1>5 DEF powerVars, PowerInv, PowerTypeOK, TwinsKnown, NothingBefore,
     BatteriesRight, BatteriesListed, ChargeRateRight
<1> QED
  BY <1>1, <1>2, <1>3, <1>4, <1>5 DEF PowerNext

\* Every reachable state of the power plugin is sound.
THEOREM PowerInvariance == PowerSpec => []PowerInv
  BY PowerInitSound, PowerNextSound, PTL DEF PowerSpec

\* A battery that is there is listed, unless it had a twin, and with the power it
\* takes or gives once a rate was signalled while it charged or discharged, or from
\* the start where the system reports signs; a rate signalled in neither state is
\* shown as it came.
THEOREM BatteriesAlwaysRight == PowerSpec => []BatteriesRight
<1>1. PowerInv => BatteriesRight
  BY DEF PowerInv
<1> QED
  BY <1>1, PowerInvariance, PTL

-----------------------------------------------------------------------------
(* Memory                                                                  *)

PagesAddUp(p) ==
    p["free"] + p["buffers"] + p["cached"] + p["slab"] + p["pinned"] + p["other"]
        = MaxMemory

\* What holds of the memory plugin between any two steps.
MemoryInv ==
    /\ MemoryTypeOK
    /\ PagesAddUp(pages)
    /\ PagesAddUp(lastRead.pages)
    /\ MemoryAddsUp

\* What does not wrap around is itself.
LEMMA UnsignedFacts ==
  ASSUME NEW x \in 0 .. Word - 1
  PROVE  Unsigned(x) = x
  BY MemoryAssumption DEF Unsigned, Word

\* Sensors worked out from one reading of the file are the kernel's pages.
LEMMA SensorsAddUp ==
  ASSUME NEW p \in [Kinds -> 0 .. MaxMemory], PagesAddUp(p), NEW s \in 0 .. MaxSwap
  PROVE  /\ PhysicalSensors(Meminfo(p, s)) =
                [total |-> MaxMemory,
                 used |-> p["pinned"] + p["other"],
                 free |-> p["free"] + p["buffers"] + p["cached"] + p["slab"],
                 application |-> p["other"],
                 cache |-> p["cached"] + p["pinned"] + p["slab"],
                 buffer |-> p["buffers"]]
         /\ SwapSensors(Meminfo(p, s)) =
                [total |-> MaxSwap, used |-> s, free |-> MaxSwap - s]
<1> DEFINE m == Meminfo(p, s)
<1>1. \A k \in Kinds : p[k] \in Nat
  BY MemoryAssumption
<1>2. MaxMemory \in Nat /\ MaxSwap \in Nat /\ s \in Nat /\ s <= MaxSwap
  BY MemoryAssumption
<1>3. /\ p["free"] \in Nat /\ p["buffers"] \in Nat /\ p["cached"] \in Nat
      /\ p["slab"] \in Nat /\ p["pinned"] \in Nat /\ p["other"] \in Nat
  BY <1>1 DEF Kinds
<1>4. /\ m.MemTotal = MaxMemory
      /\ m.MemFree = p["free"]
      /\ m.MemAvailable = p["free"] + p["buffers"] + p["cached"] + p["slab"]
      /\ m.Buffers = p["buffers"]
      /\ m.Cached = p["cached"] + p["pinned"]
      /\ m.Slab = p["slab"]
      /\ m.SwapTotal = MaxSwap
      /\ m.SwapFree = MaxSwap - s
  BY DEF Meminfo
<1>5. /\ Unsigned(m.MemTotal - m.MemAvailable) = p["pinned"] + p["other"]
      /\ Unsigned(m.Cached + m.Slab) = p["cached"] + p["pinned"] + p["slab"]
      /\ Application(m) = p["other"]
  <2>1. /\ m.MemTotal - m.MemAvailable = p["pinned"] + p["other"]
        /\ m.MemTotal - m.MemFree - m.Cached - m.Buffers - m.Slab = p["other"]
    BY <1>2, <1>3, <1>4 DEF PagesAddUp
  <2>2. /\ p["pinned"] + p["other"] \in 0 .. Word - 1
        /\ p["cached"] + p["pinned"] + p["slab"] \in 0 .. Word - 1
        /\ p["other"] \in 0 .. Word - 1
    BY <1>2, <1>3 DEF PagesAddUp, Word
  <2> QED
    BY <1>4, <2>1, <2>2, UnsignedFacts DEF Application
<1>6. Unsigned(m.SwapTotal - m.SwapFree) = s
  <2>1. m.SwapTotal - m.SwapFree = s /\ s \in 0 .. Word - 1
    BY <1>2, <1>4 DEF Word
  <2> QED
    BY <2>1, UnsignedFacts
<1> QED
  BY <1>4, <1>5, <1>6 DEF PhysicalSensors, SwapSensors

\* Nothing is shown before the first frame.
LEMMA MemoryInitSound == MemoryInit => MemoryInv
  BY MemoryAssumption DEF MemoryInit, MemoryInv, MemoryTypeOK, PagesAddUp, MemoryAddsUp,
     AllOther, Kinds, Word

\* The kernel's pages change kind, and frames read all of them at once or nothing.
LEMMA MemoryNextSound ==
  ASSUME MemoryInv, [MemoryNext]_memoryVars
  PROVE  MemoryInv'
<1> USE DEF MemoryInv, MemoryTypeOK
<1>1. CASE MemoryLoad
  BY <1>1 DEF MemoryLoad, MemoryAddsUp
<1>2. ASSUME NEW o \in MemoryObjects, MemoryWants(o)
      PROVE  MemoryInv'
  BY <1>2 DEF MemoryWants, MemoryAddsUp
<1>3. ASSUME NEW j \in Kinds, NEW k \in Kinds, PageBecomes(j, k)
      PROVE  MemoryInv'
  <2>1. UNCHANGED <<memoryObjects, memoryWanted, swapUsed, physical, swap, lastRead>>
    BY <1>3 DEF PageBecomes
  <2>2. /\ j # k /\ pages[j] > 0
        /\ pages' = [pages EXCEPT ![j] = @ - 1, ![k] = @ + 1]
    BY <1>3 DEF PageBecomes
  <2>3. \A i \in Kinds : pages[i] \in Nat
    BY MemoryAssumption
  <2>4. PagesAddUp(pages)'
    BY <2>2, <2>3, MemoryAssumption DEF PagesAddUp, Kinds
  <2>5. \A i \in Kinds : pages'[i] \in Nat
    BY <2>2, <2>3
  <2>6. pages' \in [Kinds -> 0 .. MaxMemory]
    <3>1. \A i \in Kinds : pages'[i] <= MaxMemory
      BY <2>4, <2>5, MemoryAssumption DEF PagesAddUp, Kinds
    <3>2. pages' = [i \in Kinds |-> pages'[i]]
      BY <2>2
    <3> QED
      BY <2>5, <3>1, <3>2, MemoryAssumption
  <2> QED
    BY <2>1, <2>4, <2>6 DEF MemoryAddsUp
<1>4. ASSUME NEW s \in 0 .. MaxSwap, SwapBecomes(s)
      PROVE  MemoryInv'
  BY <1>4 DEF SwapBecomes, MemoryAddsUp
<1>5. CASE MemoryUpdate
  <2>1. UNCHANGED <<memoryObjects, memoryWanted, pages, swapUsed>>
    BY <1>5 DEF MemoryUpdate
  <2>2. CASE memoryWanted = {}
    BY <1>5, <2>2 DEF MemoryUpdate, Skips, MemoryAddsUp
  <2>3. CASE memoryWanted # {}
    <3>1. /\ physical' = PhysicalSensors(Meminfo(pages, swapUsed))
          /\ swap' = SwapSensors(Meminfo(pages, swapUsed))
          /\ lastRead' = [pages |-> pages, swapUsed |-> swapUsed]
      BY <1>5, <2>3 DEF MemoryUpdate, Skips
    <3>2. /\ physical' = [total |-> MaxMemory,
                 used |-> pages["pinned"] + pages["other"],
                 free |-> pages["free"] + pages["buffers"]
                              + pages["cached"] + pages["slab"],
                 application |-> pages["other"],
                 cache |-> pages["cached"] + pages["pinned"] + pages["slab"],
                 buffer |-> pages["buffers"]]
          /\ swap' = [total |-> MaxSwap, used |-> swapUsed, free |-> MaxSwap - swapUsed]
      BY <3>1, SensorsAddUp
    <3>3. /\ pages["free"] \in Nat /\ pages["buffers"] \in Nat /\ pages["cached"] \in Nat
          /\ pages["slab"] \in Nat /\ pages["pinned"] \in Nat /\ pages["other"] \in Nat
          /\ MaxMemory \in Nat /\ MaxSwap \in Nat /\ swapUsed \in Nat
          /\ swapUsed <= MaxSwap
      BY MemoryAssumption DEF Kinds
    <3>4. MemoryAddsUp'
      BY <3>1, <3>2, <3>3 DEF MemoryAddsUp, PagesAddUp
    <3>5. MemoryTypeOK'
      <4>1. MaxMemory <= Word - 1 /\ MaxSwap <= Word - 1 /\ Word \in Nat
        BY MemoryAssumption DEF Word
      <4>2. /\ pages["pinned"] + pages["other"] \in 0 .. Word - 1
            /\ pages["free"] + pages["buffers"] + pages["cached"] + pages["slab"]
                   \in 0 .. Word - 1
            /\ pages["other"] \in 0 .. Word - 1
            /\ pages["cached"] + pages["pinned"] + pages["slab"] \in 0 .. Word - 1
            /\ pages["buffers"] \in 0 .. Word - 1
            /\ MaxMemory \in 0 .. Word - 1 /\ MaxSwap \in 0 .. Word - 1
            /\ swapUsed \in 0 .. Word - 1 /\ MaxSwap - swapUsed \in 0 .. Word - 1
        BY <3>3, <4>1 DEF PagesAddUp
      <4> QED
        BY <2>1, <3>1, <3>2, <4>2
    <3> QED
      BY <2>1, <3>1, <3>4, <3>5
  <2> QED
    BY <2>2, <2>3
<1>6. CASE UNCHANGED memoryVars
  BY <1>6 DEF memoryVars, MemoryAddsUp
<1> QED
  BY <1>1, <1>2, <1>3, <1>4, <1>5, <1>6 DEF MemoryNext

\* Memory's sensors add up after any frame.
THEOREM MemoryAlwaysAddsUp == MemorySpec => []MemoryAddsUp
<1>1. MemoryInv => MemoryAddsUp
  BY DEF MemoryInv
<1> QED
  BY <1>1, MemoryInitSound, MemoryNextSound, PTL DEF MemorySpec

-----------------------------------------------------------------------------
(* Pressure                                                                *)

\* What an object shows of a file with the lines c.
Parsed(c, r) ==
    IF c = Unreadable THEN Zeros
    ELSE [g \in {"some", "full"} |->
             LET line == LastOf(c, g) IN
             IF line = "none" THEN Uninitialised[g] ELSE <<r, line>>]

\* What is shown is what was parsed of the file as it was read.
PressureInv == pressure = [r \in Resources |-> Parsed(seen[r], r)]

\* Before the first frame nothing is shown.
LEMMA PressureInitSound == PressureInit => PressureInv
  BY DEF PressureInit, PressureInv, Parsed

\* Each object is given what its own file says in the frame.
LEMMA PressureNextSound ==
  ASSUME PressureInv, [PressureNext]_pressureVars
  PROVE  PressureInv'
<1>1. CASE PressureLoad
  BY <1>1 DEF PressureLoad, PressureInv
<1>2. ASSUME NEW r \in Resources, NEW c \in Contents, FileChanges(r, c)
      PROVE  PressureInv'
  BY <1>2 DEF FileChanges, PressureInv
<1>3. CASE PressureUpdate
  <2>1. pressure' = [r \in Resources |-> ParseData(r)] /\ seen' = files
    BY <1>3 DEF PressureUpdate, ReadsEach
  <2>2. \A r \in Resources : ParseData(r) = Parsed(files[r], r)
    BY Zenon DEF ParseData, Parsed
  <2> QED
    BY <2>1, <2>2 DEF PressureInv
<1>4. CASE UNCHANGED pressureVars
  BY <1>4 DEF pressureVars, PressureInv
<1> QED
  BY <1>1, <1>2, <1>3, <1>4 DEF PressureNext

\* The lines of a file as kernels write it are those of its groups.
LEMMA BothGroups == LastOf(<<"some", "full">>, "some") = "some"
                 /\ LastOf(<<"some", "full">>, "full") = "full"
<1> DEFINE lines == <<"some", "full">>
           at(g) == {i \in DOMAIN lines : GroupOf(lines[i]) = g}
<1>1. at("some") = {1} /\ at("full") = {2}
  BY DEF GroupOf
<1>2. LastOf(lines, "some") = lines[CHOOSE i \in {1} : \A j \in {1} : j <= i]
  BY <1>1, Zenon DEF LastOf
<1>3. LastOf(lines, "full") = lines[CHOOSE i \in {2} : \A j \in {2} : j <= i]
  BY <1>1, Zenon DEF LastOf
<1>4. (CHOOSE i \in {1} : \A j \in {1} : j <= i) = 1
  BY 1 <= 1
<1>5. (CHOOSE i \in {2} : \A j \in {2} : j <= i) = 2
  BY 2 <= 2
<1> QED
  BY <1>2, <1>3, <1>4, <1>5

\* What is parsed of a file is its own.
LEMMA ParsedIsOwn ==
  ASSUME PressureInv
  PROVE  PressureIsOwn
<1> DEFINE Own(r, g) ==
        /\ pressure[r][g][1] \in {r, "zero", "anything"}
        /\ seen[r] = <<"some", "full">> => pressure[r][g] = <<r, g>>
        /\ pressure[r][g][1] = "anything" =>
               seen[r] # Unreadable /\ LastOf(seen[r], g) = "none"
<1>1. \A r \in Resources : pressure[r] = Parsed(seen[r], r)
  BY DEF PressureInv
<1>2. ASSUME NEW r \in Resources, seen[r] = Unreadable
      PROVE  pressure[r] = Zeros /\ \A g \in {"some", "full"} : Own(r, g)
  <2>1. Parsed(seen[r], r) = Zeros
    BY <1>2, Zenon DEF Parsed
  <2>2. \A g \in {"some", "full"} : Zeros[g][1] = "zero"
    BY DEF Zeros
  <2>3. Unreadable # <<"some", "full">>
    BY DEF Unreadable
  <2>4. pressure[r] = Zeros
    BY <1>1, <2>1
  <2> QED
    BY <1>2, <2>2, <2>3, <2>4
<1>3. ASSUME NEW r \in Resources, seen[r] # Unreadable, NEW g \in {"some", "full"}
      PROVE  Own(r, g)
  <2>1. pressure[r][g] =
            IF LastOf(seen[r], g) = "none" THEN Uninitialised[g]
            ELSE <<r, LastOf(seen[r], g)>>
    BY <1>1, <1>3 DEF Parsed
  <2>2. Uninitialised[g][1] = "anything"
    BY DEF Uninitialised
  <2>3. r # "anything"
    BY DEF Resources
  <2>4. CASE LastOf(seen[r], g) = "none"
    <3>1. seen[r] # <<"some", "full">>
      BY <2>4, BothGroups
    <3> QED
      BY <1>3, <2>1, <2>2, <2>4, <3>1
  <2>5. CASE LastOf(seen[r], g) # "none"
    <3>1. seen[r] = <<"some", "full">> => LastOf(seen[r], g) = g
      BY BothGroups
    <3> QED
      BY <1>3, <2>1, <2>3, <2>5, <3>1
  <2> QED
    BY <2>4, <2>5
<1> QED
  BY <1>2, <1>3 DEF PressureIsOwn

\* An object shows its own file, whatever other files said.
THEOREM PressureAlwaysOwn == PressureSpec => []PressureIsOwn
<1>1. PressureInv => PressureIsOwn
  BY ParsedIsOwn
<1> QED
  BY <1>1, PressureInitSound, PressureNextSound, PTL DEF PressureSpec

\* The last line of a group is one of the lines, if there is one at all.
LEMMA LastOfIsLine ==
  ASSUME NEW lines \in Seq(Lines), NEW g
  PROVE  LastOf(lines, g) \in Lines \union {"none"}
<1> DEFINE at == {i \in DOMAIN lines : GroupOf(lines[i]) = g}
<1>1. CASE at = {}
  BY <1>1 DEF LastOf
<1>2. CASE at # {}
  <2>0. PICK n \in Nat : DOMAIN lines = 1 .. n
    OBVIOUS
  <2>1. Greatest(at) \in at
    BY <1>2, <2>0, GreatestPosition
  <2>2. LastOf(lines, g) = lines[Greatest(at)]
    BY <1>2 DEF LastOf, Greatest
  <2>3. \A i \in DOMAIN lines : lines[i] \in Lines
    OBVIOUS
  <2> QED
    BY <2>1, <2>2, <2>3
<1> QED
  BY <1>1, <1>2

\* What a frame parses has the object's type.
LEMMA ParseDataTyped ==
  ASSUME files \in [Resources -> Contents], NEW r \in Resources
  PROVE  ParseData(r) \in [some : Datapoints, full : Datapoints]
<1>0. /\ <<"zero", "none">> \in Datapoints
      /\ <<"anything", "none">> \in Datapoints
      /\ \A line \in Lines : <<r, line>> \in Datapoints
  BY DEF Datapoints
<1>1. CASE files[r] = Unreadable
  BY <1>0, <1>1 DEF ParseData, Zeros
<1>2. CASE files[r] # Unreadable
  <2>1. files[r] \in Seq(Lines)
    BY <1>2, PressureAssumption
  <2> DEFINE Of(g) == LET line == LastOf(files[r], g) IN
                      IF line = "none" THEN Uninitialised[g] ELSE <<r, line>>
  <2>2. ASSUME NEW g \in {"some", "full"}
        PROVE  Of(g) \in Datapoints
    <3>1. LastOf(files[r], g) \in Lines \union {"none"}
      BY <2>1, LastOfIsLine
    <3>2. Uninitialised[g] = <<"anything", "none">>
      BY DEF Uninitialised
    <3> QED
      BY <1>0, <3>1, <3>2
  <2>3. ParseData(r) = [g \in {"some", "full"} |-> Of(g)]
    BY <1>2 DEF ParseData
  <2> HIDE DEF Of
  <2>4. [g \in {"some", "full"} |-> Of(g)] = [some |-> Of("some"), full |-> Of("full")]
    OBVIOUS
  <2> QED
    BY <2>2, <2>3, <2>4
<1> QED
  BY <1>1, <1>2

\* The pressure plugin's variables keep their types.
THEOREM PressureTypeCorrect == PressureSpec => []PressureTypeOK
<1>1. PressureInit => PressureTypeOK
  <2>1. Zeros \in [some : Datapoints, full : Datapoints]
    BY DEF Zeros, Datapoints
  <2> QED
    BY <2>1, PressureAssumption DEF PressureInit, PressureTypeOK
<1>2. ASSUME PressureTypeOK, [PressureNext]_pressureVars
      PROVE  PressureTypeOK'
  <2>1. CASE PressureLoad
    BY <1>2, <2>1 DEF PressureLoad, PressureTypeOK
  <2>2. ASSUME NEW r \in Resources, NEW c \in Contents, FileChanges(r, c)
        PROVE  PressureTypeOK'
    BY <1>2, <2>2 DEF FileChanges, PressureTypeOK
  <2>3. CASE PressureUpdate
    <3>1. pressure' \in [Resources -> [some : Datapoints, full : Datapoints]]
      BY <1>2, <2>3, ParseDataTyped DEF PressureUpdate, ReadsEach, PressureTypeOK
    <3> QED
      BY <1>2, <2>3, <3>1 DEF PressureUpdate, PressureTypeOK
  <2>4. CASE UNCHANGED pressureVars
    BY <1>2, <2>4 DEF pressureVars, PressureTypeOK
  <2> QED
    BY <1>2, <2>1, <2>2, <2>3, <2>4 DEF PressureNext
<1> QED
  BY <1>1, <1>2, PTL DEF PressureSpec

-----------------------------------------------------------------------------
(* OS information                                                          *)

\* Nothing is asked, and nobody answers, before the start.
OsInv == (~osLoaded => pending = {} /\ answer = {}) /\ OsNamesAgree

\* The names are empty at first.
LEMMA OsInitSound == OsInit => OsInv
  BY DEF OsInit, OsInv, OsNamesAgree

\* Answers in any order, in part or as errors keep the names together.
LEMMA OsNextSound ==
  ASSUME OsInv, [OsNext]_osVars
  PROVE  OsInv'
<1> USE DEF OsInv, OsNamesAgree
<1>1. CASE OsLoad
  BY <1>1 DEF OsLoad
<1>2. ASSUME NEW error \in BOOLEAN, PlasmaReplies(error)
      PROVE  OsInv'
  BY <1>2 DEF PlasmaReplies
<1>3. ASSUME NEW error \in BOOLEAN, NEW A \in SUBSET HostKeys, HostnamedReplies(error, A)
      PROVE  OsInv'
  <2>1. osLoaded /\ osLoaded'
    BY <1>3 DEF HostnamedReplies
  <2>2. CASE error
    BY <1>3, <2>1, <2>2 DEF HostnamedReplies
  <2>3. CASE ~error
    BY <1>3, <2>1, <2>3 DEF HostnamedReplies, KernelAfter, HostnameAfter
  <2> QED
    BY <2>2, <2>3
<1>4. CASE UNCHANGED osVars
  BY <1>4 DEF osVars
<1> QED
  BY <1>1, <1>2, <1>3, <1>4 DEF OsNext

\* The names shown agree after any answers.
THEOREM OsNamesAlwaysAgree == OsInit /\ [][OsNext]_osVars => []OsNamesAgree
<1>1. OsInv => OsNamesAgree
  BY DEF OsInv
<1> QED
  BY <1>1, OsInitSound, OsNextSound, PTL

\* The version that is shown is one of os-release's, if it has any.
LEMMA VersionTyped ==
  ASSUME NEW K
  PROVE  Version(K) \in {VersionKeys[i] : i \in DOMAIN VersionKeys} \union {"empty"}
<1> DEFINE there == {i \in DOMAIN VersionKeys : VersionKeys[i] \in K}
<1>1. DOMAIN VersionKeys = 1 .. 4
  BY DEF VersionKeys
<1>2. CASE there = {}
  BY <1>2 DEF Version
<1>3. CASE there # {}
  <2>1. there \in SUBSET Nat
    BY <1>1
  <2>2. \E i \in there : \A j \in there : i <= j
    BY <1>3, <2>1, LeastNatural
  <2>3. (CHOOSE i \in there : \A j \in there : i <= j) \in there
    BY <2>2
  <2>4. Version(K) = VersionKeys[CHOOSE i \in there : \A j \in there : i <= j]
    BY <1>3 DEF Version
  <2> QED
    BY <2>3, <2>4
<1> QED
  BY <1>2, <1>3

\* The operating system plugin's variables keep their types.
THEOREM OsTypeCorrect == OsInit /\ [][OsNext]_osVars => []OsTypeOK
<1>1. OsInit => OsTypeOK
  <2>1. [name |-> "empty", version |-> "empty", prettyName |-> <<"empty", "empty">>]
            \in [name : Sources, version : Sources, prettyName : Sources \X Sources]
    BY DEF Sources
  <2> QED
    BY <2>1 DEF OsInit, OsTypeOK
<1>2. ASSUME OsTypeOK, [OsNext]_osVars
      PROVE  OsTypeOK'
  <2>1. CASE OsLoad
    <3>1. osVersion' \in {VersionKeys[i] : i \in DOMAIN VersionKeys} \union {"empty"}
      BY <2>1, VersionTyped DEF OsLoad
    <3> QED
      BY <1>2, <2>1, <3>1 DEF OsLoad, OsTypeOK, Sources
  <2>2. ASSUME NEW error \in BOOLEAN, PlasmaReplies(error)
        PROVE  OsTypeOK'
    BY <1>2, <2>2 DEF PlasmaReplies, PlasmaVersion, OsTypeOK
  <2>3. ASSUME NEW error \in BOOLEAN, NEW A \in SUBSET HostKeys, HostnamedReplies(error, A)
        PROVE  OsTypeOK'
    <3>1. /\ kernel' \in [name : Sources, version : Sources, prettyName : Sources \X Sources]
          /\ hostname' \in {"empty", "machine", "Hostname", "PrettyHostname"}
          /\ answer' \subseteq HostKeys
      BY <1>2, <2>3
      DEF HostnamedReplies, KernelAfter, Overridden, HostnameAfter, OsTypeOK, Sources
    <3> QED
      BY <1>2, <2>3, <3>1 DEF HostnamedReplies, OsTypeOK
  <2>4. CASE UNCHANGED osVars
    BY <1>2, <2>4 DEF osVars, OsTypeOK
  <2> QED
    BY <1>2, <2>1, <2>2, <2>3, <2>4 DEF OsNext
<1> QED
  BY <1>1, <1>2, PTL

-----------------------------------------------------------------------------
(* CPU                                                                     *)

\* A computer and the time since make the kernel's counters, and only waiting for
\* I/O goes back.
WindowSound ==
    \A o \in CpuObjects :
        /\ \A k \in TickKinds : computers[o][k] + window[o][k] = ticks[o][k]
        /\ window[o]["system"] >= 0 /\ window[o]["user"] >= 0 /\ window[o]["idle"] >= 0

\* What holds of the CPU plugin between any two steps.
CpuInv == CpuTypeOK /\ WindowSound /\ PartsWithinUsage

\* A percentage is one, and grows with the part.
LEMMA PercentageFacts ==
  ASSUME NEW some \in Nat, NEW all \in Nat
  PROVE  /\ Percentage(some, all) \in 0 .. 100
         /\ some <= all /\ all > 0 => Percentage(some, all) = (100 * some) \div all
<1>1. CASE some >= all
  <2>1. Percentage(some, all) = 100
    BY <1>1 DEF Percentage
  <2>2. ASSUME some <= all, all > 0
        PROVE  (100 * some) \div all = 100
    <3>1. some = all
      BY <1>1, <2>2
    <3>2. (100 * all) \div all = 100
      BY <2>2
    <3> QED
      BY <3>1, <3>2
  <2> QED
    BY <2>1, <2>2
<1>2. CASE some < all /\ some > 0
  <2> DEFINE q == (100 * some) \div all
  <2>1. Percentage(some, all) = q
    BY <1>2 DEF Percentage
  <2>2. q \in Int /\ q >= 0 /\ q <= 100
    BY <1>2
  <2> QED
    BY <2>1, <2>2
<1>3. CASE some < all /\ some = 0
  <2>1. Percentage(some, all) = 0
    BY <1>3 DEF Percentage
  <2>2. (100 * 0) \div all = 0
    BY <1>3
  <2> QED
    BY <1>3, <2>1, <2>2
<1> QED
  BY <1>1, <1>2, <1>3

\* A larger part has no smaller percentage.
LEMMA PercentageGrows ==
  ASSUME NEW less \in Nat, NEW more \in Nat, NEW all \in Nat, less <= more
  PROVE  Percentage(less, all) <= Percentage(more, all)
<1>1. Percentage(less, all) \in 0 .. 100 /\ Percentage(more, all) \in 0 .. 100
  BY PercentageFacts
<1>2. CASE more >= all
  BY <1>1, <1>2 DEF Percentage
<1>3. CASE less = 0 /\ more < all
  <2>1. Percentage(less, all) = 0
    BY <1>3 DEF Percentage
  <2> QED
    BY <1>1, <2>1
<1>4. CASE less > 0 /\ more < all
  <2> DEFINE p == (100 * less) \div all
             q == (100 * more) \div all
  <2>1. Percentage(less, all) = p /\ Percentage(more, all) = q
    BY <1>4 DEF Percentage
  <2>2. p <= q
    BY <1>4
  <2> QED
    BY <2>1, <2>2
<1> QED
  BY <1>2, <1>3, <1>4

\* What setTicks() computes are percentages, the parts within the total.
LEMMA UsagesFacts ==
  ASSUME NEW old \in Spent, NEW t \in Spent
  PROVE  /\ Usages(old, t) \in Shares
         /\ Usages(old, t)["system"] <= Usages(old, t)["total"]
         /\ Usages(old, t)["user"] <= Usages(old, t)["total"]
<1> DEFINE diff == Since(old, t)
           all == AtLeast0(Total(t) - Total(old))
           u == Usages(old, t)
<1>1. /\ diff["system"] \in Nat /\ diff["user"] \in Nat /\ diff["wait"] \in Nat
      /\ all \in Nat
  <2>1. \A k \in TickKinds : old[k] \in Int /\ t[k] \in Int
    BY DEF Spent
  <2>2. /\ "system" \in TickKinds /\ "user" \in TickKinds /\ "wait" \in TickKinds
        /\ "idle" \in TickKinds
    BY DEF TickKinds
  <2>3. \A k \in TickKinds : diff[k] \in Nat
    BY <2>1 DEF Since, AtLeast0
  <2> QED
    BY <2>1, <2>2, <2>3 DEF AtLeast0, Total
<1>2. /\ u["system"] = Percentage(diff["system"], all)
      /\ u["user"] = Percentage(diff["user"], all)
      /\ u["wait"] = Percentage(diff["wait"], all)
      /\ u["total"] = Percentage(diff["system"] + diff["user"], all)
      /\ u = [f \in {"system", "user", "wait", "total"} |-> u[f]]
  BY DEF Usages, TotalPercentage
<1> HIDE DEF diff, all, u
<1>3. \A f \in {"system", "user", "wait", "total"} : u[f] \in 0 .. 100
  <2>1. diff["system"] + diff["user"] \in Nat
    BY <1>1
  <2>2. \A some, whole \in Nat : Percentage(some, whole) \in 0 .. 100
    BY PercentageFacts
  <2>3. /\ Percentage(diff["system"], all) \in 0 .. 100
        /\ Percentage(diff["user"], all) \in 0 .. 100
        /\ Percentage(diff["wait"], all) \in 0 .. 100
        /\ Percentage(diff["system"] + diff["user"], all) \in 0 .. 100
    BY <1>1, <2>1, <2>2
  <2> QED
    BY <1>2, <2>3
<1>4. u \in Shares
  BY <1>2, <1>3 DEF Shares
<1>5. u["system"] <= u["total"] /\ u["user"] <= u["total"]
  <2>1. /\ diff["system"] + diff["user"] \in Nat
        /\ diff["system"] <= diff["system"] + diff["user"]
        /\ diff["user"] <= diff["system"] + diff["user"]
    BY <1>1
  <2>2. \A less, more, whole \in Nat :
            less <= more => Percentage(less, whole) <= Percentage(more, whole)
    BY PercentageGrows
  <2> QED
    BY <1>1, <1>2, <2>1, <2>2
<1> QED
  BY <1>4, <1>5 DEF u

\* If no counter went back they are the shares of the time in between.
LEMMA UsagesAreShare ==
  ASSUME NEW old \in Spent, NEW t \in Spent, NEW w \in Spent,
         \A k \in TickKinds : old[k] + w[k] = t[k] /\ w[k] >= 0,
         Total(w) > 0
  PROVE  IsShareOf(Usages(old, t), w)
<1> DEFINE diff == Since(old, t)
           all == AtLeast0(Total(t) - Total(old))
<1>1. \A k \in TickKinds : old[k] \in Int /\ t[k] \in Int /\ w[k] \in Nat
  BY DEF Spent
<1>2. /\ "system" \in TickKinds /\ "user" \in TickKinds /\ "wait" \in TickKinds
      /\ "idle" \in TickKinds
  BY DEF TickKinds
<1>3. \A k \in TickKinds : diff[k] = w[k]
  BY <1>1 DEF Since, AtLeast0
<1>4. all = Total(w) /\ Total(w) \in Nat
  BY <1>1, <1>2 DEF AtLeast0, Total
<1>5. /\ w["system"] \in Nat /\ w["user"] \in Nat /\ w["wait"] \in Nat
      /\ w["system"] + w["user"] \in Nat
      /\ w["system"] <= Total(w) /\ w["user"] <= Total(w) /\ w["wait"] <= Total(w)
      /\ w["system"] + w["user"] <= Total(w)
  BY <1>1, <1>2 DEF Total
<1>6. Usages(old, t) =
          [system |-> Percentage(w["system"], Total(w)),
           user |-> Percentage(w["user"], Total(w)),
           wait |-> Percentage(w["wait"], Total(w)),
           total |-> Percentage(w["system"] + w["user"], Total(w))]
  BY <1>2, <1>3, <1>4 DEF Usages, TotalPercentage
<1>7. /\ Percentage(w["system"], Total(w)) = (100 * w["system"]) \div Total(w)
      /\ Percentage(w["user"], Total(w)) = (100 * w["user"]) \div Total(w)
      /\ Percentage(w["wait"], Total(w)) = (100 * w["wait"]) \div Total(w)
      /\ Percentage(w["system"] + w["user"], Total(w))
             = (100 * (w["system"] + w["user"])) \div Total(w)
  BY <1>4, <1>5, PercentageFacts
<1> QED
  BY <1>6, <1>7 DEF IsShareOf

-----------------------------------------------------------------------------

\* Before the first frame.
LEMMA CpuInitSound == CpuInit => CpuInv
<1> SUFFICES ASSUME CpuInit PROVE CpuInv
  OBVIOUS
<1>1. None \in Spent /\ \A k \in TickKinds : None[k] = 0
  BY DEF None, Spent
<1>2. \A o \in CpuObjects :
          computers[o] = None /\ window[o] = None /\ ticks[o] = None
  BY DEF CpuInit
<1>3. "system" \in TickKinds /\ "user" \in TickKinds /\ "idle" \in TickKinds
  BY DEF TickKinds
<1>4. WindowSound
  BY <1>1, <1>2, <1>3 DEF WindowSound
<1>5. CpuTypeOK
  <2>1. [u \in {"system", "user", "wait", "total"} |-> 0] \in Shares
    BY DEF Shares
  <2> QED
    BY <1>1, <2>1 DEF CpuInit, CpuTypeOK
<1>6. PartsWithinUsage
  BY DEF CpuInit, PartsWithinUsage
<1> QED
  BY <1>4, <1>5, <1>6 DEF CpuInv

\* A frame, or the start, gives some objects their counters.
LEMMA SetTicksSound ==
  ASSUME CpuInv, NEW S \in SUBSET CpuObjects, SetTicks(S), UNCHANGED ticks,
         cpuLoaded' \in BOOLEAN, freeBsd' \in BOOLEAN, cpuWanted' \subseteq CpuObjects
  PROVE  CpuInv'
<1> USE DEF CpuInv, CpuTypeOK
<1>1. /\ usage' = [o \in CpuObjects |->
              IF o \in S THEN Usages(computers[o], ticks[o]) ELSE usage[o]]
      /\ computers' = [o \in CpuObjects |-> IF o \in S THEN ticks[o] ELSE computers[o]]
      /\ window' = [o \in CpuObjects |-> IF o \in S THEN None ELSE window[o]]
  BY DEF SetTicks
<1>2. None \in Spent /\ \A k \in TickKinds : None[k] = 0
  BY DEF None, Spent
<1>3. \A o \in CpuObjects :
          /\ Usages(computers[o], ticks[o]) \in Shares
          /\ Usages(computers[o], ticks[o])["system"]
                 <= Usages(computers[o], ticks[o])["total"]
          /\ Usages(computers[o], ticks[o])["user"]
                 <= Usages(computers[o], ticks[o])["total"]
  BY UsagesFacts
<1>4. CpuTypeOK'
  BY <1>1, <1>2, <1>3
<1>5. WindowSound'
  <2> SUFFICES ASSUME NEW o \in CpuObjects
               PROVE  /\ \A k \in TickKinds :
                             computers'[o][k] + window'[o][k] = ticks'[o][k]
                      /\ window'[o]["system"] >= 0
                      /\ window'[o]["user"] >= 0
                      /\ window'[o]["idle"] >= 0
    BY DEF WindowSound
  <2>1. CASE o \in S
    <3>1. computers'[o] = ticks[o] /\ window'[o] = None
      BY <1>1, <2>1
    <3>2. \A k \in TickKinds : ticks[o][k] \in Int
      BY DEF Spent
    <3>3. "system" \in TickKinds /\ "user" \in TickKinds /\ "idle" \in TickKinds
      BY DEF TickKinds
    <3> QED
      BY <1>2, <3>1, <3>2, <3>3
  <2>2. CASE o \notin S
    BY <1>1, <2>2 DEF WindowSound
  <2> QED
    BY <2>1, <2>2
<1>6. PartsWithinUsage'
  <2> SUFFICES ASSUME NEW o \in CpuObjects
               PROVE  /\ usage'[o]["system"] <= usage'[o]["total"]
                      /\ usage'[o]["user"] <= usage'[o]["total"]
                      /\ usage'[o]["total"] <= 100
    BY DEF PartsWithinUsage
  <2>1. usage'[o]["total"] \in 0 .. 100
    BY <1>4 DEF Shares
  <2> QED
    BY <1>1, <1>3, <2>1 DEF PartsWithinUsage
<1> QED
  BY <1>4, <1>5, <1>6

\* Time passes for a CPU and for all together.
LEMMA PassesSound ==
  ASSUME CpuInv, NEW c \in Cpus, NEW k \in TickKinds, NEW n \in Int, Passes(c, k, n),
         n >= 0 \/ k = "wait"
  PROVE  CpuInv'
<1> USE DEF CpuInv, CpuTypeOK
<1> DEFINE plus(f) == [f EXCEPT ![k] = @ + n]
<1>1. \A f \in Spent : plus(f) \in Spent /\ plus(f)[k] = f[k] + n
                       /\ \A j \in TickKinds : j # k => plus(f)[j] = f[j]
  BY DEF Spent
<1>2. /\ ticks' = [o \in CpuObjects |->
                       IF o \in {c, "all"} THEN plus(ticks[o]) ELSE ticks[o]]
      /\ window' = [o \in CpuObjects |->
                       IF o \in {c, "all"} THEN plus(window[o]) ELSE window[o]]
      /\ UNCHANGED <<cpuLoaded, freeBsd, cpuWanted, computers, usage>>
  BY DEF Passes, Counted
<1> HIDE DEF plus
<1>3. CpuTypeOK'
  BY <1>1, <1>2
<1>4. WindowSound'
  <2> SUFFICES ASSUME NEW o \in CpuObjects
               PROVE  /\ \A j \in TickKinds :
                             computers'[o][j] + window'[o][j] = ticks'[o][j]
                      /\ window'[o]["system"] >= 0
                      /\ window'[o]["user"] >= 0
                      /\ window'[o]["idle"] >= 0
    BY DEF WindowSound
  <2>1. \A j \in TickKinds :
            computers[o][j] \in Int /\ window[o][j] \in Int /\ ticks[o][j] \in Int
    BY DEF Spent
  <2>2. "system" \in TickKinds /\ "user" \in TickKinds /\ "idle" \in TickKinds
    BY DEF TickKinds
  <2>3. CASE o \in {c, "all"}
    <3>1. ticks'[o] = plus(ticks[o]) /\ window'[o] = plus(window[o])
      BY <1>2, <2>3
    <3>2. \A j \in TickKinds : computers'[o][j] + window'[o][j] = ticks'[o][j]
      <4> TAKE j \in TickKinds
      <4>1. CASE j = k
        BY <1>1, <1>2, <2>1, <3>1, <4>1 DEF WindowSound
      <4>2. CASE j # k
        BY <1>1, <1>2, <2>1, <3>1, <4>2 DEF WindowSound
      <4> QED
        BY <4>1, <4>2
    <3>3. \A j \in TickKinds : j # "wait" /\ window[o][j] >= 0 => window'[o][j] >= 0
      BY <1>1, <2>1, <3>1
    <3> QED
      BY <2>2, <3>2, <3>3 DEF WindowSound
  <2>4. CASE o \notin {c, "all"}
    BY <1>2, <2>4 DEF WindowSound
  <2> QED
    BY <2>3, <2>4
<1>5. PartsWithinUsage'
  BY <1>2 DEF PartsWithinUsage
<1> QED
  BY <1>3, <1>4, <1>5

\* Only objects are sampled, whatever the kernel answers.
LEMMA OnlyObjectsSampled ==
  ASSUME CpuInv, NEW answered \in Answers(freeBsd)
  PROVE  SampledObjects(answered) \in SUBSET CpuObjects
  BY DEF Answers, SampledObjects, CpuInv, CpuTypeOK, CpuObjects

\* Every step of the CPU plugin and of time keeps the invariant.
LEMMA CpuNextSound ==
  ASSUME CpuInv, [CpuNext]_cpuVars
  PROVE  CpuInv'
<1>1. CASE CpuLoad
  <2>1. PICK S \in IF freeBsd' THEN {{}, Cpus} ELSE {{}} : SetTicks(S)
    BY <1>1 DEF CpuLoad
  <2>2. cpuLoaded' /\ freeBsd' \in BOOLEAN /\ UNCHANGED <<ticks, cpuWanted>>
    BY <1>1 DEF CpuLoad
  <2>3. S \in SUBSET CpuObjects
    BY DEF CpuObjects
  <2> QED
    BY <2>1, <2>2, <2>3, SetTicksSound DEF CpuInv, CpuTypeOK
<1>2. ASSUME NEW o \in CpuObjects, CpuWants(o)
      PROVE  CpuInv'
  BY <1>2 DEF CpuWants, CpuInv, CpuTypeOK, WindowSound, PartsWithinUsage
<1>3. ASSUME NEW c \in Cpus, NEW k \in TickKinds, Tick(c, k)
      PROVE  CpuInv'
  BY <1>3, PassesSound DEF Tick
<1>4. ASSUME NEW c \in Wavering, WaitGoesBack(c)
      PROVE  CpuInv'
  <2>1. c \in Cpus /\ "wait" \in TickKinds /\ -1 \in Int
    BY CpuAssumption DEF TickKinds
  <2> QED
    BY <1>4, <2>1, PassesSound DEF WaitGoesBack
<1>5. CASE CpuUpdate
  <2>1. PICK answered \in Answers(freeBsd) : SetTicks(SampledObjects(answered))
    BY <1>5 DEF CpuUpdate
  <2>2. SampledObjects(answered) \in SUBSET CpuObjects
    BY OnlyObjectsSampled
  <2> QED
    BY <1>5, <2>1, <2>2, SetTicksSound DEF CpuUpdate, CpuInv, CpuTypeOK
<1>6. CASE UNCHANGED cpuVars
  BY <1>6 DEF cpuVars, CpuInv, CpuTypeOK, WindowSound, PartsWithinUsage
<1> QED
  BY <1>1, <1>2, <1>3, <1>4, <1>5, <1>6 DEF CpuNext

\* Parts stay within the total whichever counters go back.
THEOREM PartsAlwaysWithin == CpuSpec => []PartsWithinUsage
<1>1. CpuInv => PartsWithinUsage
  BY DEF CpuInv
<1> QED
  BY <1>1, CpuInitSound, CpuNextSound, PTL DEF CpuSpec

\* A sample that an object is given makes its usages the shares of its own window.
LEMMA SampleIsShare ==
  ASSUME CpuInv, NEW S \in SUBSET CpuObjects, SetTicks(S), NEW o \in CpuObjects,
         usage'[o] # usage[o] \/ computers'[o] # computers[o],
         Total(window[o]) > 0, window[o]["wait"] >= 0
  PROVE  IsShareOf(usage'[o], window[o])
<1>1. o \in S /\ usage'[o] = Usages(computers[o], ticks[o])
  BY DEF SetTicks, CpuInv, CpuTypeOK
<1>2. \A k \in TickKinds :
          computers[o][k] + window[o][k] = ticks[o][k] /\ window[o][k] >= 0
  BY DEF CpuInv, WindowSound, TickKinds
<1>3. computers[o] \in Spent /\ ticks[o] \in Spent /\ window[o] \in Spent
  BY DEF CpuInv, CpuTypeOK
<1> QED
  BY <1>1, <1>2, <1>3, UsagesAreShare

\* Every usage is the share of the object's own window.
THEOREM UsagesAlwaysShares == CpuSpec => UsageIsShareOfWindow
<1> DEFINE IsShare ==
        \A o \in CpuObjects :
           /\ usage'[o] # usage[o] \/ computers'[o] # computers[o]
           /\ Total(window[o]) > 0
           /\ window[o]["wait"] >= 0
           => IsShareOf(usage'[o], window[o])
<1>1. CpuInv /\ [CpuNext]_cpuVars => [IsShare]_cpuVars
  <2> SUFFICES ASSUME CpuInv, CpuNext
               PROVE  IsShare
    OBVIOUS
  <2>1. CASE CpuLoad
    <3>1. PICK S \in IF freeBsd' THEN {{}, Cpus} ELSE {{}} : SetTicks(S)
      BY <2>1 DEF CpuLoad
    <3>2. S \in SUBSET CpuObjects
      BY DEF CpuObjects
    <3> QED
      BY <3>1, <3>2, SampleIsShare
  <2>2. CASE CpuUpdate
    <3>1. PICK answered \in Answers(freeBsd) : SetTicks(SampledObjects(answered))
      BY <2>2 DEF CpuUpdate
    <3>2. SampledObjects(answered) \in SUBSET CpuObjects
      BY OnlyObjectsSampled
    <3> QED
      BY <3>1, <3>2, SampleIsShare
  <2>3. CASE UNCHANGED <<computers, usage>>
    BY <2>3
  <2> QED
    BY <2>1, <2>2, <2>3 DEF CpuNext, CpuWants, Tick, WaitGoesBack, Passes
<1>2. CpuSpec => []CpuInv
  BY CpuInitSound, CpuNextSound, PTL DEF CpuSpec
<1> QED
  BY <1>1, <1>2, PTL DEF CpuSpec, UsageIsShareOfWindow

-----------------------------------------------------------------------------
(* CPU topology                                                            *)

\* What the topology is once it is read.
TopologyRead ==
    /\ cpuinfo \in Cpuinfos
    /\ chips \in ChipLists
    /\ names = [t \in Online(cpuinfo) |-> CpuName(cpuinfo, RecordOf(cpuinfo, t))]
    /\ temperature =
           [t \in Online(cpuinfo) |-> Temperature(chips, cpuinfo[RecordOf(cpuinfo, t)])]

\* The topology is read, or nothing is.
TopologyInv == TopologyRead \/ (cpuinfo = <<>> /\ DOMAIN names = {})

\* Records are numbered, typed and of different threads, and their cores known
\* for all or for none.
LEMMA CpuinfoFacts ==
  ASSUME NEW info \in Cpuinfos
  PROVE  /\ \E n \in Nat : DOMAIN info = 1 .. n
         /\ \A i \in DOMAIN info :
                /\ info[i].id \in Nat /\ info[i].cpu \in Int
                /\ RecordOf(info, info[i].id) = i
         /\ \/ \A i \in DOMAIN info : HasCore(info[i])
            \/ \A i \in DOMAIN info : ~HasCore(info[i])
<1>1. info \in Lists(Records, 1, Cardinality(Threads)) /\ IsCpuinfo(info)
  BY DEF Cpuinfos
<1>2. PICK n \in 1 .. Cardinality(Threads) : info \in [1 .. n -> Records]
  BY <1>1, Zenon DEF Lists
<1>3. n \in Nat /\ DOMAIN info = 1 .. n
  BY <1>2
<1>4. \A i \in DOMAIN info : info[i] \in Records
  BY <1>2
<1>5. \A r \in Records : r.id \in Nat /\ r.cpu \in Int
  <2> SUFFICES ASSUME NEW r \in Records
               PROVE  r.id \in Nat /\ r.cpu \in Int
    OBVIOUS
  <2>1. r.id \in Threads /\ r.cpu \in Packages \union {-1}
    BY DEF Records
  <2>2. r.id \in Nat /\ (r.cpu \in Nat \/ r.cpu = -1)
    BY <2>1, TopologyAssumption
  <2> QED
    BY <2>2
<1>6. ASSUME NEW i \in DOMAIN info
      PROVE  RecordOf(info, info[i].id) = i
  <2>1. \E k \in DOMAIN info : info[k].id = info[i].id
    OBVIOUS
  <2>2. /\ RecordOf(info, info[i].id) \in DOMAIN info
        /\ info[RecordOf(info, info[i].id)].id = info[i].id
    BY <2>1, Zenon DEF RecordOf
  <2> QED
    BY <1>1, <2>2 DEF IsCpuinfo
<1>7. \/ \A i \in DOMAIN info : HasCore(info[i])
      \/ \A i \in DOMAIN info : ~HasCore(info[i])
  BY <1>1 DEF IsCpuinfo, HasCore
<1> QED
  BY <1>3, <1>4, <1>5, <1>6, <1>7

\* A later record of a package has more of it before it.
LEMMA MoreBefore ==
  ASSUME NEW info \in Cpuinfos, NEW i \in DOMAIN info, NEW j \in DOMAIN info,
         i < j, HasCore(info[i]), info[i].cpu = info[j].cpu
  PROVE  Cardinality(SamePackage(info, i)) # Cardinality(SamePackage(info, j))
<1>1. PICK n \in Nat : DOMAIN info = 1 .. n
  BY CpuinfoFacts
<1>2. i \in Nat /\ j \in Nat /\ i >= 1
  BY <1>1
<1>3. IsFiniteSet(SamePackage(info, j))
  <2>1. SamePackage(info, j) \in SUBSET (1 .. j - 1)
    BY DEF SamePackage
  <2>2. IsFiniteSet(1 .. j - 1)
    BY <1>2, FS_Interval
  <2> QED
    BY <2>1, <2>2, FS_Subset
<1>4. SamePackage(info, i) \in SUBSET SamePackage(info, j)
  BY <1>2 DEF SamePackage
<1>5. i \in SamePackage(info, j) /\ i \notin SamePackage(info, i)
  BY <1>2 DEF SamePackage
<1> QED
  BY <1>3, <1>4, <1>5, FS_Subset

\* Names of different records differ: by the thread's number, or by how many of its
\* package's records came before.
LEMMA NamesApart ==
  ASSUME NEW info \in Cpuinfos, NEW i \in DOMAIN info, NEW j \in DOMAIN info, i < j
  PROVE  CpuName(info, i) # CpuName(info, j)
<1>1. PICK n \in Nat : DOMAIN info = 1 .. n
  BY CpuinfoFacts
<1>2. /\ info[i].id \in Nat /\ info[i].cpu \in Int /\ RecordOf(info, info[i].id) = i
      /\ info[j].id \in Nat /\ info[j].cpu \in Int /\ RecordOf(info, info[j].id) = j
  BY CpuinfoFacts
<1>3. info[i].id # info[j].id
  BY <1>1, <1>2
<1>4. HasCore(info[i]) <=> HasCore(info[j])
  BY CpuinfoFacts
<1>5. CASE CpuCount(info) = 1 \/ ~HasCore(info[i])
  <2>1. /\ CpuName(info, i) = <<"Core", info[i].id + 1>>
        /\ CpuName(info, j) = <<"Core", info[j].id + 1>>
    BY <1>4, <1>5 DEF CpuName
  <2> QED
    BY <1>2, <1>3, <2>1
<1>6. CASE ~(CpuCount(info) = 1 \/ ~HasCore(info[i]))
  <2> DEFINE before(k) == Cardinality(SamePackage(info, k))
  <2>1. /\ CpuName(info, i) = <<"CPU", info[i].cpu + 1, "Core", before(i) + 1>>
        /\ CpuName(info, j) = <<"CPU", info[j].cpu + 1, "Core", before(j) + 1>>
    BY <1>4, <1>6, Zenon DEF CpuName
  <2>2. \A k \in DOMAIN info : before(k) \in Nat
    <3> TAKE k \in DOMAIN info
    <3>1. SamePackage(info, k) \in SUBSET (1 .. k - 1) /\ k \in Int
      BY <1>1 DEF SamePackage
    <3>2. IsFiniteSet(1 .. k - 1)
      BY <3>1, FS_Interval
    <3> QED
      BY <3>1, <3>2, FS_Subset, FS_CardinalityType
  <2>3. info[i].cpu = info[j].cpu => before(i) # before(j)
    BY <1>6, MoreBefore
  <2> HIDE DEF before
  <2> QED
    BY <1>2, <2>1, <2>2, <2>3
<1> QED
  BY <1>5, <1>6

\* A name tells which record it was made of.
LEMMA NamesAlwaysApart ==
  ASSUME TopologyInv
  PROVE  NamesDiffer
<1>1. CASE cpuinfo = <<>> /\ DOMAIN names = {}
  BY <1>1 DEF NamesDiffer
<1>2. CASE TopologyRead
  <2> SUFFICES ASSUME NEW t \in DOMAIN names, NEW u \in DOMAIN names, t # u
               PROVE  names[t] # names[u]
    BY DEF NamesDiffer
  <2>1. PICK i \in DOMAIN cpuinfo : t = cpuinfo[i].id
    BY <1>2 DEF TopologyRead, Online
  <2>2. PICK j \in DOMAIN cpuinfo : u = cpuinfo[j].id
    BY <1>2 DEF TopologyRead, Online
  <2>3. cpuinfo \in Cpuinfos /\ RecordOf(cpuinfo, t) = i /\ RecordOf(cpuinfo, u) = j
    BY <1>2, <2>1, <2>2, CpuinfoFacts DEF TopologyRead
  <2>4. names[t] = CpuName(cpuinfo, i) /\ names[u] = CpuName(cpuinfo, j)
    BY <1>2, <2>3 DEF TopologyRead
  <2>5. i \in Int /\ j \in Int
    BY <2>3, CpuinfoFacts
  <2>6. i < j \/ j < i
    BY <2>1, <2>2, <2>5
  <2> QED
    BY <2>3, <2>4, <2>6, NamesApart
<1> QED
  BY <1>1, <1>2 DEF TopologyInv

\* What a chip gives a thread of a known core is what it measures of it, and a chip
\* that measures it gives it something.
LEMMA FeatureMeasured ==
  ASSUME NEW C \in ChipLists, NEW k \in DOMAIN C, NEW r, HasCore(r),
         C[k].prefix = "coretemp" => "Package" \in C[k].labels
  PROVE  /\ Feature(C[k], r) # NoFeature
               => /\ Feature(C[k], r) = Measured(C[k], r)
                  /\ Measures(C[k], r)
                  /\ C[k].prefix = "k10temp" \/ C[k].package = r.cpu
         /\ k \in OwnChips(C, r) => Feature(C[k], r) # NoFeature
<1>1. PICK n \in 0 .. Cardinality(Packages) : C \in [1 .. n -> ChipSet]
  BY Zenon DEF ChipLists, Lists
<1>2. C[k] \in ChipSet
  BY <1>1
<1>3. IF C[k].prefix = "coretemp"
      THEN C[k].labels \subseteq {"Package"}
      ELSE C[k].labels \subseteq {"Tctl", "Tdie"}
  BY <1>2 DEF ChipLists, IsChipList, ChipSet
<1>4. CASE C[k].prefix = "coretemp"
  BY <1>2, <1>3, <1>4
  DEF Feature, IntelFeature, CoreFeature, NoFeature, Measured, Measures, OwnChips
<1>5. CASE C[k].prefix # "coretemp"
  <2> DEFINE of(label) == [package |-> C[k].package, label |-> label, core |-> -1]
  <2>1. C[k].prefix = "k10temp"
    BY <1>2, <1>5 DEF ChipSet
  <2>2. CASE "Tdie" \in C[k].labels
    <3>1. Feature(C[k], r) = of("Tdie")
      BY <1>5, <2>2 DEF Feature, AmdFeature
    <3>2. Measured(C[k], r) = of("Tdie") /\ Measures(C[k], r)
      BY <1>5, <2>2 DEF Measured, Measures
    <3> QED
      BY <2>1, <3>1, <3>2 DEF NoFeature
  <2>3. CASE "Tdie" \notin C[k].labels /\ "Tctl" \in C[k].labels
    <3>1. Feature(C[k], r) = of("Tctl")
      BY <1>5, <2>3 DEF Feature, AmdFeature
    <3>2. Measured(C[k], r) = of("Tctl") /\ Measures(C[k], r)
      BY <1>5, <2>3 DEF Measured, Measures
    <3> QED
      BY <2>1, <3>1, <3>2 DEF NoFeature
  <2>4. CASE C[k].labels = {}
    BY <1>5, <2>4 DEF Feature, AmdFeature, Measures, OwnChips
  <2> QED
    BY <1>3, <1>5, <2>2, <2>3, <2>4
<1> QED
  BY <1>4, <1>5

\* The feature a thread gets is that of the last chip that gives it one.
LEMMA TemperatureFacts ==
  ASSUME NEW C \in ChipLists, NEW r, HasCore(r)
  PROVE  \/ /\ \A k \in DOMAIN C : Feature(C[k], r) = NoFeature
            /\ Temperature(C, r) = NoFeature
         \/ \E k \in DOMAIN C :
                /\ Temperature(C, r) = Feature(C[k], r)
                /\ Feature(C[k], r) # NoFeature
                /\ \A j \in DOMAIN C : j > k => Feature(C[j], r) = NoFeature
<1> DEFINE found == {i \in DOMAIN C : Feature(C[i], r) # NoFeature}
<1>6. CASE found = {}
  BY <1>6 DEF Temperature
<1> SUFFICES ASSUME found # {}
             PROVE  \E k \in DOMAIN C :
                       /\ Temperature(C, r) = Feature(C[k], r)
                       /\ Feature(C[k], r) # NoFeature
                       /\ \A j \in DOMAIN C : j > k => Feature(C[j], r) = NoFeature
  BY <1>6
<1>1. C \in Lists(ChipSet, 0, Cardinality(Packages))
  BY DEF ChipLists
<1>2. PICK n \in 0 .. Cardinality(Packages) : C \in [1 .. n -> ChipSet]
  BY <1>1, Zenon DEF Lists
<1>5. n \in Nat /\ found \in SUBSET (1 .. n)
  BY <1>2
<1>3. Temperature(C, r) = Feature(C[Greatest(found)], r)
  BY DEF Temperature
<1>4. Greatest(found) \in found /\ \A j \in found : j <= Greatest(found)
  BY <1>5, GreatestPosition
<1>7. ASSUME NEW j \in DOMAIN C, j > Greatest(found)
      PROVE  Feature(C[j], r) = NoFeature
  <2>1. j \in Int /\ Greatest(found) \in Int
    BY <1>2, <1>4, <1>5
  <2>2. j \notin found
    BY <1>4, <1>7, <2>1
  <2> QED
    BY <2>2
<1> QED
  BY <1>3, <1>4, <1>7

\* The feature found is of the record's own core, or of a die, and none is found only
\* if no chip measures the record's thread.
LEMMA TemperatureAlwaysOwn ==
  ASSUME TopologyInv
  PROVE  TemperatureIsOwn
<1>1. CASE cpuinfo = <<>> /\ DOMAIN names = {}
  BY <1>1 DEF TemperatureIsOwn
<1>2. CASE TopologyRead
  <2> SUFFICES ASSUME \A k \in DOMAIN chips :
                          chips[k].prefix = "coretemp" => "Package" \in chips[k].labels,
                      NEW i \in DOMAIN cpuinfo
               PROVE  LET r == cpuinfo[i]
                          f == temperature[r.id]
                          Shows(k) == f = Measured(chips[k], r)
                      IN /\ ~HasCore(r) => f = NoFeature
                         /\ HasCore(r) =>
                             \/ \E k \in OwnChips(chips, r) : Shows(k)
                             \/ \E k \in DOMAIN chips :
                                    IsLaterDie(chips, k, r) /\ Shows(k)
                             \/ OwnChips(chips, r) = {} /\ f = NoFeature
    BY DEF TemperatureIsOwn
  <2> DEFINE r == cpuinfo[i]
             f == temperature[r.id]
             Shows(k) == f = Measured(chips[k], r)
  <2>1. f = Temperature(chips, r)
    <3>1. RecordOf(cpuinfo, r.id) = i
      BY <1>2, CpuinfoFacts DEF TopologyRead
    <3>2. r.id \in Online(cpuinfo)
      BY DEF Online
    <3> QED
      BY <1>2, <3>1, <3>2 DEF TopologyRead
  <2>2. ~HasCore(r) => f = NoFeature
    BY <2>1 DEF Temperature
  <2>3. ASSUME HasCore(r)
        PROVE  \/ \E k \in OwnChips(chips, r) : Shows(k)
               \/ \E k \in DOMAIN chips : IsLaterDie(chips, k, r) /\ Shows(k)
               \/ OwnChips(chips, r) = {} /\ f = NoFeature
    <3>1. chips \in ChipLists
      BY <1>2 DEF TopologyRead
    <3>2. \A k \in OwnChips(chips, r) :
              k \in DOMAIN chips /\ Feature(chips[k], r) # NoFeature
      <4> TAKE k \in OwnChips(chips, r)
      <4>1. k \in DOMAIN chips
        BY DEF OwnChips
      <4> QED
        BY <2>3, <3>1, <4>1, FeatureMeasured
    <3>3. CASE /\ \A k \in DOMAIN chips : Feature(chips[k], r) = NoFeature
               /\ f = NoFeature
      BY <3>2, <3>3
    <3>4. CASE \E k \in DOMAIN chips :
                   /\ f = Feature(chips[k], r)
                   /\ Feature(chips[k], r) # NoFeature
                   /\ \A j \in DOMAIN chips : j > k => Feature(chips[j], r) = NoFeature
      <4>1. PICK k \in DOMAIN chips :
                /\ f = Feature(chips[k], r)
                /\ Feature(chips[k], r) # NoFeature
                /\ \A j \in DOMAIN chips : j > k => Feature(chips[j], r) = NoFeature
        BY <3>4
      <4>2. /\ Shows(k)
            /\ Measures(chips[k], r)
            /\ chips[k].prefix = "k10temp" \/ chips[k].package = r.cpu
        BY <2>3, <3>1, <4>1, FeatureMeasured
      <4>3. CASE chips[k].package = r.cpu
        BY <4>2, <4>3 DEF OwnChips
      <4>4. CASE chips[k].package # r.cpu
        <5>1. ASSUME NEW j \in OwnChips(chips, r)
              PROVE  j < k
          <6>1. j \in DOMAIN chips /\ ~(j > k) /\ j # k
            BY <3>2, <4>1, <4>4 DEF OwnChips
          <6>2. PICK n \in 0 .. Cardinality(Packages) : chips \in [1 .. n -> ChipSet]
            BY <3>1, Zenon DEF ChipLists, Lists
          <6> QED
            BY <6>1, <6>2
        <5>2. IsLaterDie(chips, k, r)
          BY <4>2, <4>4, <5>1 DEF IsLaterDie
        <5> QED
          BY <4>2, <5>2
      <4> QED
        BY <4>3, <4>4
    <3> QED
      BY <2>1, <2>3, <3>1, <3>3, <3>4, TemperatureFacts
  <2> QED
    BY <2>2, <2>3
<1> QED
  BY <1>1, <1>2 DEF TopologyInv

\* The topology is read once and then stays.
LEMMA TopologyNextSound ==
  ASSUME TopologyInv, [TopologyNext]_topologyVars
  PROVE  TopologyInv'
<1>1. CASE TopologyLoad
  BY <1>1 DEF TopologyLoad, Load, TopologyInv, TopologyRead
<1>2. CASE UNCHANGED topologyVars
  BY <1>2 DEF topologyVars, TopologyInv, TopologyRead
<1> QED
  BY <1>1, <1>2 DEF TopologyNext

\* Threads have names of their own, in whatever order they are read, and the
\* temperature of their own core or die unless a later die's takes its place.
THEOREM ThreadsAlwaysApart ==
  TopologyInit /\ [][TopologyNext]_topologyVars => [](NamesDiffer /\ TemperatureIsOwn)
<1>1. TopologyInit => TopologyInv
  BY DEF TopologyInit, TopologyInv
<1>2. TopologyInv => NamesDiffer /\ TemperatureIsOwn
  BY NamesAlwaysApart, TemperatureAlwaysOwn
<1> QED
  BY <1>1, <1>2, TopologyNextSound, PTL

\* The number of CPUs is that of the greatest id, and ids count from 0.
LEMMA CpuCountTyped ==
  ASSUME NEW info \in Cpuinfos
  PROVE  CpuCount(info) \in Nat
<1> DEFINE ids == {0} \union {info[i].cpu : i \in DOMAIN info}
<1>1. PICK n \in Nat : DOMAIN info = 1 .. n
  BY CpuinfoFacts
<1>2. ids \in SUBSET Int /\ 0 \in ids
  BY CpuinfoFacts
<1>3. IsFiniteSet(ids)
  <2> DEFINE cpus == {info[i].cpu : i \in 1 .. n}
  <2>1. IsFiniteSet(1 .. n)
    BY FS_Interval
  <2>2. [i \in 1 .. n |-> info[i].cpu] \in Surjection(1 .. n, cpus)
    BY DEF Surjection
  <2> HIDE DEF cpus
  <2>3. IsFiniteSet(cpus)
    BY <2>1, <2>2, FS_Surjection
  <2> QED
    BY <1>1, <2>3, FS_Singleton, FS_Union DEF cpus
<1>4. Greatest(ids) \in Int /\ 0 <= Greatest(ids)
  BY <1>2, <1>3, GreatestOfFinite
<1> QED
  BY <1>4 DEF CpuCount

\* The CPU topology's variables keep their types.
THEOREM TopologyTypeCorrect ==
  TopologyInit /\ [][TopologyNext]_topologyVars => []TopologyTypeOK
<1>1. TopologyInit => TopologyTypeOK
  <2>1. \A s : s = <<>> => DOMAIN s = {}
    OBVIOUS
  <2>2. DOMAIN [t \in {} |-> <<>>] = {} /\ DOMAIN [t \in {} |-> NoFeature] = {}
    OBVIOUS
  <2>3. TopologyInit => DOMAIN names = {} /\ DOMAIN temperature = {}
    BY <2>2, Zenon DEF TopologyInit
  <2>4. TopologyInit => DOMAIN cpuinfo = {} /\ DOMAIN chips = {}
    <3>1. TopologyInit => cpuinfo = <<>> /\ chips = <<>>
      BY Zenon DEF TopologyInit
    <3> QED
      BY <2>1, <3>1, Zenon
  <2>5. TopologyInit => topologyLoaded \in BOOLEAN
    BY Zenon DEF TopologyInit
  <2>6. TopologyInit => cpuCount \in Nat
    <3>1. TopologyInit => cpuCount = 0
      BY Zenon DEF TopologyInit
    <3> QED
      BY <3>1
  <2> QED
    BY <2>3, <2>4, <2>5, <2>6 DEF TopologyTypeOK
<1>2. ASSUME TopologyTypeOK, [TopologyNext]_topologyVars
      PROVE  TopologyTypeOK'
  <2>1. CASE TopologyLoad
    <3>1. PICK info \in Cpuinfos, C \in ChipLists : Load(info, C)
      BY <2>1 DEF TopologyLoad
    <3>2. \A i \in DOMAIN info : info[i] \in Records
      BY Zenon DEF Cpuinfos, Lists
    <3>3. \A i \in DOMAIN C : C[i] \in ChipSet
      BY Zenon DEF ChipLists, Lists
    <3>4. CpuCount(info) \in Nat
      BY CpuCountTyped
    <3>5. topologyLoaded' \in BOOLEAN
      BY <2>1 DEF TopologyLoad
    <3> QED
      BY <3>1, <3>2, <3>3, <3>4, <3>5 DEF Load, Online, TopologyTypeOK
  <2>2. CASE UNCHANGED topologyVars
    BY <1>2, <2>2 DEF topologyVars, TopologyTypeOK
  <2> QED
    BY <1>2, <2>1, <2>2 DEF TopologyNext
<1> QED
  BY <1>1, <1>2, PTL

-----------------------------------------------------------------------------

\* A helper that runs found what the search finds among the card's engines.
XeProbed == xeAt # "off" => xeFound = Discover(xePresent)

\* Among engines without gaps the search finds each one.
LEMMA DiscoversAll ==
  ASSUME NEW P \in SUBSET Engines, WithoutGaps(P)
  PROVE  Discover(P) = P
<1>1. Discover(P) \subseteq P
  BY DEF Discover, OfGt, OfClass
<1>2. ASSUME NEW e \in P
      PROVE  e \in Discover(P)
  <2>1. /\ e.gt \in Gts /\ e.class \in Classes /\ e.instance \in Nat /\ e.gt \in Nat
        /\ e = [gt |-> e.gt, class |-> e.class, instance |-> e.instance]
    BY XeCountersAssumption DEF Engines
  <2>2. \A d \in P : d \in OfClass(P, d.gt, d.class)
    <3> TAKE d \in P
    <3>1. d = [gt |-> d.gt, class |-> d.class, instance |-> d.instance]
      BY DEF Engines
    <3>2. \A i \in 0 .. d.instance : [d EXCEPT !.instance = i] \in P
      BY DEF WithoutGaps
    <3>3. \A i : [d EXCEPT !.instance = i] =
                     [gt |-> d.gt, class |-> d.class, instance |-> i]
      BY <3>1
    <3> QED
      BY <3>2, <3>3 DEF OfClass
  <2>3. \A d \in P : d \in OfGt(P, d.gt)
    BY <2>2 DEF OfGt, Engines
  <2>4. \A k \in 0 .. e.gt : OfGt(P, k) # {}
    BY <2>3 DEF WithoutGaps
  <2> QED
    BY <2>1, <2>3, <2>4 DEF Discover
<1> QED
  BY <1>1, <1>2

\* What was found is kept until the helper ends.
LEMMA XeNextSound ==
  ASSUME XeProbed, [XeCountersNext]_xeCounterVars
  PROVE  XeProbed'
<1> USE DEF XeProbed
<1>1. CASE XeProbe
  BY <1>1 DEF XeProbe
<1>2. ASSUME NEW S \in SUBSET xeFound, XeOpen(S)
      PROVE  XeProbed'
  BY <1>2 DEF XeOpen
<1>3. CASE XeLine
  BY <1>3 DEF XeLine
<1>4. CASE XeHelperEnds
  BY <1>4 DEF XeHelperEnds
<1>5. ASSUME NEW e \in xeUsed, NEW busy \in 0 .. 1, XeTick(e, busy)
      PROVE  XeProbed'
  BY <1>5 DEF XeTick
<1>6. CASE XeReset
  BY <1>6 DEF XeReset
<1>7. CASE UNCHANGED xeCounterVars
  BY <1>7 DEF xeCounterVars
<1> QED
  BY <1>1, <1>2, <1>3, <1>4, <1>5, <1>6, <1>7 DEF XeCountersNext

\* And the card's engines are some that there may be.
XeCountersInv == XeProbed /\ xePresent \subseteq Engines

\* A card has engines of the kernel's, and only a first search chooses them.
LEMMA XeInvSound ==
  ASSUME XeCountersInv, [XeCountersNext]_xeCounterVars
  PROVE  XeCountersInv'
<1>1. XeProbed'
  BY XeNextSound DEF XeCountersInv
<1>2. xePresent' \subseteq Engines
  <2>1. CASE UNCHANGED xePresent
    BY <2>1 DEF XeCountersInv
  <2>2. CASE XeProbe
    BY <2>2, XeCountersAssumption DEF XeProbe, XeCountersInv
  <2>3. [XeCountersNext]_xeCounterVars => XeProbe \/ UNCHANGED xePresent
    BY DEF XeCountersNext, xeCounterVars, XeOpen, XeLine, XeHelperEnds, XeTick, XeReset
  <2> QED
    BY <2>1, <2>2, <2>3
<1> QED
  BY <1>1, <1>2 DEF XeCountersInv

\* Whatever engines a card has and whenever its helper is started, of a card whose
\* engines are numbered without gaps it finds all.
THEOREM EnginesAlwaysFound ==
  XeCountersInit /\ [][XeCountersNext]_xeCounterVars => []AllEnginesFound
<1>1. XeCountersInit => XeCountersInv
  BY DEF XeCountersInit, XeCountersInv, XeProbed
<1>2. XeCountersInv => AllEnginesFound
  BY DiscoversAll DEF XeCountersInv, XeProbed, AllEnginesFound
<1> QED
  BY <1>1, <1>2, XeInvSound, PTL

\* The types of an xe card's variables, with what a helper that does not run left.
XeTyped ==
    /\ xeAt \in {"off", "discovered", "looping"}
    /\ xePresent \subseteq Engines /\ IsFiniteSet(xePresent)
    /\ xeFound \subseteq xePresent /\ xeUsed \subseteq xeFound
    /\ xeTicks \in [xePresent -> Ticks]
    /\ xeWindow \in [xePresent -> Ticks]
    /\ xeLast \in [DOMAIN xeLast -> Ticks]
    /\ xeShown \in [Exposed -> Nat \union {-1}]
    /\ xeRestarted \in BOOLEAN
    /\ xeAt # "looping" => xeUsed = {}
    /\ DOMAIN xeLast = {} \/ DOMAIN xeLast = xeUsed

\* Unless the card was reset, its counters have grown by the window since they were
\* read last, and an engine was not busy for longer than there was time.
XeWindowed ==
    /\ \A e \in xePresent : xeWindow[e].active <= xeWindow[e].total
    /\ ~xeRestarted =>
           \A e \in DOMAIN xeLast :
               /\ xeTicks[e].active = xeLast[e].active + xeWindow[e].active
               /\ xeTicks[e].total = xeLast[e].total + xeWindow[e].total

\* What counts of an engine are natural numbers.
LEMMA DiffIsTicks ==
  ASSUME XeTyped, NEW e \in xeUsed
  PROVE  Diff(e) \in Ticks
<1>1. xeTicks[e] \in Ticks /\ e \in xePresent
  BY DEF XeTyped
<1>2. CASE e \in DOMAIN xeLast
  <2>1. xeLast[e] \in Ticks
    BY <1>2 DEF XeTyped
  <2> QED
    BY <1>1, <1>2, <2>1 DEF Diff, Ticks, NoTicks
<1>3. CASE e \notin DOMAIN xeLast
  BY <1>3 DEF Diff, Ticks, NoTicks
<1> QED
  BY <1>2, <1>3

\* What doubles make of a share is a natural number, and no more than the share.
LEMMA PercentsFacts ==
  ASSUME NEW a \in Nat, NEW t \in Nat, t > 0, NEW u \in PercentsOf(a, t)
  PROVE  u \in Nat /\ u <= (100 * a) \div t
<1> DEFINE q == (100 * a) \div t
<1>1. q \in Nat
  OBVIOUS
<1>2. CASE u = q
  BY <1>1, <1>2
<1>3. CASE u = q - 1 /\ 100 * a = t * q /\ a % t # 0
  <2>1. q # 0
    <3>1. ASSUME q = 0 PROVE FALSE
      <4>1. 100 * a = t * 0
        BY <1>3, <3>1
      <4>2. a = 0
        BY <4>1
      <4>3. 0 % t = 0
        OBVIOUS
      <4> QED
        BY <1>3, <4>2, <4>3
    <3> QED
      BY <3>1
  <2> QED
    BY <1>1, <1>3, <2>1
<1> QED
  BY <1>2, <1>3 DEF PercentsOf

\* A class that a line has ticked, and its usage is a natural number.
LEMMA UsageIsNatural ==
  ASSUME XeTyped, NEW c \in Exposed, CountedOf(c) # {}
  PROVE  UsagesOf(c) \subseteq Nat
<1> DEFINE C == CountedOf(c)
<1> DEFINE a == [e \in C |-> Diff(e).active]
<1> DEFINE t == [e \in C |-> Diff(e).total]
<1>1. C \subseteq xeUsed /\ IsFiniteSet(C)
  BY FS_Subset DEF XeTyped, CountedOf
<1>2. a \in [C -> Nat] /\ t \in [C -> Nat]
  BY <1>1, DiffIsTicks DEF Ticks
<1>3. PICK e \in C : t[e] > 0
  BY DEF CountedOf
<1> HIDE DEF a, t, C
<1>4. SumFunction(a) \in Nat /\ SumFunction(t) \in Nat /\ SumFunction(t) > 0
  <2>1. SumFunction(a) \in Nat
    BY <1>1, <1>2, <1>3, SumWithout
  <2>2. /\ SumFunction(t) = t[e] + SumFunction([d \in C \ {e} |-> t[d]])
        /\ SumFunction([d \in C \ {e} |-> t[d]]) \in Nat
    BY <1>1, <1>2, <1>3, SumWithout
  <2>3. t[e] \in Nat
    BY <1>2
  <2> QED
    BY <1>3, <2>1, <2>2, <2>3
<1>5. UsagesOf(c) = PercentsOf(SumFunction(a), SumFunction(t))
  BY DEF UsagesOf, TotalActive, TotalTicks, a, t, C
<1> QED
  BY <1>4, <1>5, PercentsFacts

\* What a line leaves on the card.
LEMMA LineShows ==
  ASSUME XeLine
  PROVE  /\ xeShown' = [c \in Exposed |-> xeShown'[c]]
         /\ \A c \in Exposed : IF CountedOf(c) # {} THEN xeShown'[c] \in UsagesOf(c)
                                                     ELSE xeShown'[c] = xeShown[c]
<1> DEFINE counted == {c \in Exposed : CountedOf(c) # {}}
<1>1. PICK line \in [counted -> UNION {UsagesOf(c) : c \in counted}] :
          /\ \A c \in counted : line[c] \in UsagesOf(c)
          /\ ReadPerfData(line)
  BY DEF XeLine
<1> QED
  BY <1>1 DEF ReadPerfData

\* The card's variables keep their types.
LEMMA XeTypedInductive ==
  ASSUME XeTyped, [XeCountersNext]_xeCounterVars
  PROVE  XeTyped'
<1>0. NoTicks \in Ticks
  BY DEF NoTicks, Ticks
<1>1. CASE XeProbe
  <2>1. xePresent' \subseteq Engines /\ IsFiniteSet(xePresent')
    BY <1>1, XeCountersAssumption DEF XeProbe, XeTyped
  <2>2. xeFound' \subseteq xePresent'
    BY <1>1 DEF XeProbe, Discover, OfGt, OfClass
  <2>3. xeTicks' \in [xePresent' -> Ticks] /\ xeWindow' \in [xePresent' -> Ticks]
    BY <1>0, <1>1 DEF XeProbe, XeTyped
  <2> QED
    BY <1>1, <2>1, <2>2, <2>3 DEF XeProbe, XeTyped
<1>2. ASSUME NEW S \in SUBSET xeFound, XeOpen(S)
      PROVE  XeTyped'
  BY <1>2 DEF XeOpen, XeTyped
<1>3. CASE XeLine
  <2>1. xeShown' \in [Exposed -> Nat \union {-1}]
    BY <1>3, LineShows, UsageIsNatural DEF XeTyped
  <2>2. xeLast' \in [xeUsed -> Ticks]
    BY <1>3 DEF XeLine, CurrentValues, XeTyped
  <2>3. xeWindow' \in [xePresent -> Ticks]
    BY <1>0, <1>3 DEF XeLine
  <2> QED
    BY <1>3, <2>1, <2>2, <2>3 DEF XeLine, XeTyped
<1>4. CASE XeHelperEnds
  BY <1>0, <1>4 DEF XeHelperEnds, XeTyped
<1>5. ASSUME NEW e \in xeUsed, NEW busy \in 0 .. 1, XeTick(e, busy)
      PROVE  XeTyped'
  <2> DEFINE after(t) == [active |-> t.active + busy, total |-> t.total + 1]
  <2>1. \A t \in Ticks : after(t) \in Ticks
    BY DEF Ticks
  <2>2. e \in xePresent
    BY DEF XeTyped
  <2>3. xeTicks' = [xeTicks EXCEPT ![e] = after(xeTicks[e])]
    BY <1>5 DEF XeTick
  <2>4. xeWindow' = xeWindow \/ xeWindow' = [xeWindow EXCEPT ![e] = after(xeWindow[e])]
    BY <1>5 DEF XeTick
  <2> HIDE DEF after
  <2>5. xeTicks' \in [xePresent -> Ticks] /\ xeWindow' \in [xePresent -> Ticks]
    BY <2>1, <2>2, <2>3, <2>4 DEF XeTyped
  <2> QED
    BY <1>5, <2>5 DEF XeTick, XeTyped
<1>6. CASE XeReset
  BY <1>0, <1>6 DEF XeReset, XeTyped
<1>7. CASE UNCHANGED xeCounterVars
  BY <1>7 DEF xeCounterVars, XeTyped
<1> QED
  BY <1>1, <1>2, <1>3, <1>4, <1>5, <1>6, <1>7 DEF XeCountersNext

\* The window is what the counters have grown by, whatever happens.
LEMMA XeWindowedInductive ==
  ASSUME XeTyped, XeWindowed, [XeCountersNext]_xeCounterVars
  PROVE  XeWindowed'
<1>1. CASE XeProbe
  <2>1. DOMAIN xeLast = {} /\ xeLast' = xeLast
    BY <1>1 DEF XeProbe, XeTyped
  <2>2. \A e \in xePresent' : xeWindow'[e].active <= xeWindow'[e].total
    BY <1>1 DEF XeProbe, XeWindowed, NoTicks
  <2> QED
    BY <2>1, <2>2 DEF XeWindowed
<1>2. ASSUME NEW S \in SUBSET xeFound, XeOpen(S)
      PROVE  XeWindowed'
  BY <1>2 DEF XeOpen, XeWindowed
<1>3. CASE XeLine
  <2>1. \A e \in xeUsed : /\ e \in xePresent
                          /\ xeTicks[e].active \in Nat /\ xeTicks[e].total \in Nat
    BY DEF XeTyped, Ticks
  <2> QED
    BY <1>3, <2>1 DEF XeLine, CurrentValues, NoTicks, XeWindowed
<1>4. CASE XeHelperEnds
  BY <1>4 DEF XeHelperEnds, NoTicks, XeWindowed
<1>5. ASSUME NEW e \in xeUsed, NEW busy \in 0 .. 1, XeTick(e, busy)
      PROVE  XeWindowed'
  <2>1. CASE xeRestarted
    BY <1>5, <2>1 DEF XeTick, XeWindowed
  <2>2. CASE ~xeRestarted
    <3> DEFINE after(t) == [active |-> t.active + busy, total |-> t.total + 1]
    <3>1. /\ xeTicks' = [xeTicks EXCEPT ![e] = after(xeTicks[e])]
          /\ xeWindow' = [xeWindow EXCEPT ![e] = after(xeWindow[e])]
          /\ UNCHANGED <<xePresent, xeLast, xeRestarted>>
      BY <1>5, <2>2 DEF XeTick
    <3>2. \A t : after(t).active = t.active + busy /\ after(t).total = t.total + 1
      OBVIOUS
    <3> HIDE DEF after
    <3>3. e \in xePresent /\ DOMAIN xeLast \subseteq xePresent
      BY DEF XeTyped
    <3>4. \A d \in xePresent :
              /\ xeTicks[d].active \in Nat /\ xeTicks[d].total \in Nat
              /\ xeWindow[d].active \in Nat /\ xeWindow[d].total \in Nat
      BY DEF XeTyped, Ticks
    <3>5. \A d \in DOMAIN xeLast : xeLast[d].active \in Nat /\ xeLast[d].total \in Nat
      BY DEF XeTyped, Ticks
    <3>6. \A d \in xePresent :
              /\ d # e => xeTicks'[d] = xeTicks[d] /\ xeWindow'[d] = xeWindow[d]
              /\ d = e => /\ xeTicks'[d] = after(xeTicks[d])
                          /\ xeWindow'[d] = after(xeWindow[d])
      BY <3>1, <3>3 DEF XeTyped
    <3>7. ASSUME NEW d \in xePresent
          PROVE  xeWindow'[d].active <= xeWindow'[d].total
      BY <3>2, <3>4, <3>6 DEF XeWindowed
    <3>8. ASSUME NEW d \in DOMAIN xeLast
          PROVE  /\ xeTicks'[d].active = xeLast[d].active + xeWindow'[d].active
                 /\ xeTicks'[d].total = xeLast[d].total + xeWindow'[d].total
      <4>1. /\ xeTicks[d].active = xeLast[d].active + xeWindow[d].active
            /\ xeTicks[d].total = xeLast[d].total + xeWindow[d].total
            /\ d \in xePresent
        BY <2>2, <3>3 DEF XeWindowed
      <4>2. CASE d = e
        <5>1. /\ xeTicks'[d] = after(xeTicks[d])
              /\ xeWindow'[d] = after(xeWindow[d])
          BY <3>6, <4>1, <4>2
        <5>2. /\ xeTicks'[d].active = xeTicks[d].active + busy
              /\ xeTicks'[d].total = xeTicks[d].total + 1
              /\ xeWindow'[d].active = xeWindow[d].active + busy
              /\ xeWindow'[d].total = xeWindow[d].total + 1
          BY <3>2, <5>1
        <5>3. /\ xeLast[d].active \in Nat /\ xeLast[d].total \in Nat
              /\ xeWindow[d].active \in Nat /\ xeWindow[d].total \in Nat
          BY <3>4, <3>5, <4>1
        <5> QED
          BY <4>1, <5>2, <5>3
      <4>3. CASE d # e
        BY <3>6, <4>1, <4>3
      <4> QED
        BY <4>2, <4>3
    <3> QED
      BY <3>1, <3>7, <3>8 DEF XeWindowed
  <2> QED
    BY <2>1, <2>2
<1>6. CASE XeReset
  BY <1>6 DEF XeReset, NoTicks, XeWindowed
<1>7. CASE UNCHANGED xeCounterVars
  BY <1>7 DEF xeCounterVars, XeWindowed
<1> QED
  BY <1>1, <1>2, <1>3, <1>4, <1>5, <1>6, <1>7 DEF XeCountersNext

\* What a line has of a class is the share of its engines' windows.
LEMMA UsageIsOfWindow ==
  ASSUME XeTyped, XeWindowed, ~xeRestarted, NEW c \in Exposed, CountedOf(c) # {}
  PROVE  LET E == {e \in xeUsed : e.class = c} IN
         UsagesOf(c) = PercentsOf(WindowSum("active", E), WindowSum("total", E))
<1> DEFINE E == {e \in xeUsed : e.class = c}
<1> DEFINE a == [e \in E |-> xeWindow[e].active]
<1> DEFINE t == [e \in E |-> xeWindow[e].total]
<1>1. IsFiniteSet(E) /\ E \subseteq xePresent
  BY FS_Subset DEF XeTyped
<1>2. DOMAIN xeLast = xeUsed
  <2>1. DOMAIN xeLast # {}
    BY DEF CountedOf, Diff, NoTicks
  <2> QED
    BY <2>1 DEF XeTyped
<1>3. \A e \in E : Diff(e).active = xeWindow[e].active /\ Diff(e).total = xeWindow[e].total
  <2> TAKE e \in E
  <2>1. /\ xeLast[e].active \in Nat /\ xeLast[e].total \in Nat
        /\ xeWindow[e].active \in Nat /\ xeWindow[e].total \in Nat
    BY <1>1, <1>2 DEF XeTyped, Ticks
  <2>2. /\ xeTicks[e].active = xeLast[e].active + xeWindow[e].active
        /\ xeTicks[e].total = xeLast[e].total + xeWindow[e].total
    BY <1>2 DEF XeWindowed
  <2> QED
    BY <1>2, <2>1, <2>2 DEF Diff
<1>4. /\ CountedOf(c) = {e \in E : xeWindow[e].total > 0}
      /\ CountedOf(c) \in SUBSET E
  BY <1>3 DEF CountedOf
<1>5. a \in [E -> Nat] /\ t \in [E -> Nat]
  BY <1>1 DEF XeTyped, Ticks
<1>6. \A e \in E \ CountedOf(c) : a[e] = 0 /\ t[e] = 0
  BY <1>1, <1>4, <1>5 DEF XeWindowed
<1>7. /\ [e \in CountedOf(c) |-> Diff(e).active] = [e \in CountedOf(c) |-> a[e]]
      /\ [e \in CountedOf(c) |-> Diff(e).total] = [e \in CountedOf(c) |-> t[e]]
  BY <1>3, <1>4
<1>8. WindowSum("active", E) = SumFunction(a) /\ WindowSum("total", E) = SumFunction(t)
  BY DEF WindowSum
<1> HIDE DEF a, t, E
<1>9. /\ SumFunction(a) = SumFunction([e \in CountedOf(c) |-> a[e]])
      /\ SumFunction(t) = SumFunction([e \in CountedOf(c) |-> t[e]])
  BY <1>1, <1>4, <1>5, <1>6, SumOfNonzero
<1>10. /\ TotalActive(CountedOf(c)) = SumFunction(a)
       /\ TotalTicks(CountedOf(c)) = SumFunction(t)
  BY <1>7, <1>9 DEF TotalActive, TotalTicks
<1> QED
  BY <1>8, <1>10 DEF UsagesOf, E

\* A new number on the card is the share of the ticks since the last line.
LEMMA LineIsShare ==
  ASSUME XeTyped, XeWindowed, [XeCountersNext]_xeCounterVars, NEW c \in Exposed,
         xeShown'[c] # xeShown[c], ~xeRestarted
  PROVE  LET E == {e \in xeUsed : e.class = c} IN
         xeShown'[c] \in PercentsOf(WindowSum("active", E), WindowSum("total", E))
<1>1. XeLine
  BY DEF XeCountersNext, xeCounterVars, XeProbe, XeOpen, XeHelperEnds, XeTick, XeReset
<1>2. CountedOf(c) # {} /\ xeShown'[c] \in UsagesOf(c)
  BY <1>1, LineShows
<1> QED
  BY <1>2, UsageIsOfWindow

\* Whatever engines a card has, tick and are opened, and whenever its helper ends
\* and is started again, the numbers it shows are shares of the helper's windows.
THEOREM XeUsagesAlwaysShares ==
  XeCountersInit /\ [][XeCountersNext]_xeCounterVars => XeUsageIsShare
<1>1. XeCountersInit => XeTyped /\ XeWindowed
  BY FS_EmptySet DEF XeCountersInit, XeTyped, XeWindowed
<1>2. XeTyped /\ XeWindowed /\ [XeCountersNext]_xeCounterVars
          => (XeTyped /\ XeWindowed)'
  BY XeTypedInductive, XeWindowedInductive
<1>3. XeTyped /\ XeWindowed /\ [XeCountersNext]_xeCounterVars =>
        [\A c \in Exposed :
           xeShown'[c] # xeShown[c] /\ ~xeRestarted =>
               LET E == {e \in xeUsed : e.class = c} IN
               xeShown'[c] \in
                   PercentsOf(WindowSum("active", E), WindowSum("total", E))]_xeCounterVars
  BY LineIsShare
<1> QED
  BY <1>1, <1>2, <1>3, PTL DEF XeUsageIsShare

\* So a number that a line brings is within 100 %, unless the card was reset: the
\* engines of a class that ticked were busy for no more than the time they ticked.
LEMMA UsageWithinHundred ==
  ASSUME XeTyped, XeWindowed, ~xeRestarted, NEW c \in Exposed, CountedOf(c) # {}
  PROVE  UsagesOf(c) \subseteq 0 .. 100
<1> DEFINE C == CountedOf(c)
<1> DEFINE a == [e \in C |-> Diff(e).active]
<1> DEFINE t == [e \in C |-> Diff(e).total]
<1>1. C \subseteq xeUsed /\ xeUsed \subseteq xePresent /\ IsFiniteSet(C)
  BY FS_Subset DEF XeTyped, CountedOf
<1>2. a \in [C -> Nat] /\ t \in [C -> Nat]
  BY <1>1, DiffIsTicks DEF Ticks
<1>3. PICK e \in C : t[e] > 0
  BY DEF CountedOf
<1>4. \A d \in C : a[d] <= t[d]
  <2> SUFFICES ASSUME NEW d \in C PROVE Diff(d).active <= Diff(d).total
    OBVIOUS
  <2>1. CASE d \notin DOMAIN xeLast
    BY <2>1 DEF Diff, NoTicks
  <2>2. CASE d \in DOMAIN xeLast
    <3>1. /\ xeTicks[d].active = xeLast[d].active + xeWindow[d].active
          /\ xeTicks[d].total = xeLast[d].total + xeWindow[d].total
          /\ xeWindow[d].active <= xeWindow[d].total
      BY <1>1, <2>2 DEF XeWindowed
    <3>2. /\ xeLast[d].active \in Nat /\ xeLast[d].total \in Nat
          /\ xeWindow[d].active \in Nat /\ xeWindow[d].total \in Nat
      BY <1>1, <2>2 DEF XeTyped, Ticks
    <3> QED
      BY <2>2, <3>1, <3>2 DEF Diff, NoTicks
  <2> QED
    BY <2>1, <2>2
<1>5. UsagesOf(c) = PercentsOf(SumFunction(a), SumFunction(t))
  BY DEF UsagesOf, TotalActive, TotalTicks
<1> HIDE DEF a, t, C
<1>6. SumFunction(a) \in Nat /\ SumFunction(a) <= SumFunction(t)
  BY <1>1, <1>2, <1>3, <1>4, SumWithout, SumMonotonic
<1>7. SumFunction(t) \in Nat /\ SumFunction(t) > 0
  <2>1. /\ SumFunction(t) = t[e] + SumFunction([d \in C \ {e} |-> t[d]])
        /\ SumFunction([d \in C \ {e} |-> t[d]]) \in Nat
        /\ t[e] \in Nat
    BY <1>1, <1>2, <1>3, SumWithout
  <2> QED
    BY <1>3, <2>1
<1>8. (100 * SumFunction(a)) \div SumFunction(t) \in 0 .. 100
  <2> DEFINE A == SumFunction(a)  T == SumFunction(t)
  <2>1. A \in Nat /\ T \in Nat /\ A <= T /\ T > 0
    BY <1>6, <1>7
  <2> HIDE DEF A, T
  <2>2. Percentage(A, T) \in 0 .. 100
    BY <2>1, PercentageFacts
  <2>3. Percentage(A, T) = (100 * A) \div T
    BY <2>1, PercentageFacts
  <2> QED
    BY <2>2, <2>3 DEF A, T
<1> QED
  <2> SUFFICES ASSUME NEW u \in UsagesOf(c) PROVE u \in 0 .. 100
    OBVIOUS
  <2>1. u \in Nat /\ u <= (100 * SumFunction(a)) \div SumFunction(t)
    BY <1>5, <1>6, <1>7, PercentsFacts
  <2> DEFINE q == (100 * SumFunction(a)) \div SumFunction(t)
  <2>2. q \in 0 .. 100 /\ u <= q
    BY <1>8, <2>1
  <2> HIDE DEF q
  <2> QED
    BY <2>1, <2>2

\* No line shows more than 100 % of a class, however many engines it has and
\* whichever of them ticked, unless the card was reset before the line.
THEOREM XeUsagesWithinHundred ==
  XeCountersInit /\ [][XeCountersNext]_xeCounterVars
      => [][\A c \in Exposed :
                xeShown'[c] # xeShown[c] /\ ~xeRestarted
                    => xeShown'[c] \in 0 .. 100]_xeCounterVars
<1>1. XeCountersInit => XeTyped /\ XeWindowed
  BY FS_EmptySet DEF XeCountersInit, XeTyped, XeWindowed
<1>2. XeTyped /\ XeWindowed /\ [XeCountersNext]_xeCounterVars
          => (XeTyped /\ XeWindowed)'
  BY XeTypedInductive, XeWindowedInductive
<1>3. XeTyped /\ XeWindowed /\ [XeCountersNext]_xeCounterVars =>
        [\A c \in Exposed :
           xeShown'[c] # xeShown[c] /\ ~xeRestarted
               => xeShown'[c] \in 0 .. 100]_xeCounterVars
  <2> SUFFICES ASSUME XeTyped, XeWindowed, [XeCountersNext]_xeCounterVars,
                      NEW c \in Exposed, xeShown'[c] # xeShown[c], ~xeRestarted
               PROVE  xeShown'[c] \in 0 .. 100
    OBVIOUS
  <2>1. XeLine
    BY DEF XeCountersNext, xeCounterVars, XeProbe, XeOpen, XeHelperEnds, XeTick, XeReset
  <2>2. CountedOf(c) # {} /\ xeShown'[c] \in UsagesOf(c)
    BY <2>1, LineShows
  <2> QED
    BY <2>2, UsageWithinHundred
<1> QED
  BY <1>1, <1>2, <1>3, PTL

\* And its variables keep their types.
THEOREM XeCountersTypeCorrect ==
  XeCountersInit /\ [][XeCountersNext]_xeCounterVars => []XeCountersTypeOK
<1>1. XeCountersInit => XeTyped
  BY FS_EmptySet DEF XeCountersInit, XeTyped
<1>2. XeTyped => XeCountersTypeOK
  BY DEF XeTyped, XeCountersTypeOK
<1> QED
  BY <1>1, <1>2, XeTypedInductive, PTL
=============================================================================
