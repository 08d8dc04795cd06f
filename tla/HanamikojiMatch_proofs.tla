----------------------- MODULE HanamikojiMatch_proofs -----------------------
(***************************************************************************)
(* Proofs about HanamikojiMatch, for any geishas, values and rounds and    *)
(* any goals that are majorities: the rules name a winner as soon as       *)
(* anybody meets a goal, charm decides, and no geisha is ever lost to      *)
(* nobody.                                                                 *)
(***************************************************************************)
EXTENDS HanamikojiMatch, FiniteSetTheorems, WellFoundedInduction, TLAPS

-----------------------------------------------------------------------------
(* Induction, of a set of numbers.                                         *)

LEMMA AllNumbers ==
  ASSUME NEW T, 0 \in T, \A n \in Nat : n \in T => n + 1 \in T
  PROVE  \A n \in Nat : n \in T
<1>. DEFINE U == Nat \ T
<1>1. SUFFICES ASSUME U # {}
               PROVE  FALSE
  OBVIOUS
<1>2. PICK n \in U : \A m \in U : ~ (<<m, n>> \in OpToRel(<, Nat))
  BY <1>1, WFMin, NatLessThanWellFounded
<1>3. \A m \in U : ~ (m < n)
  BY <1>2 DEF OpToRel
<1>4. n # 0 /\ n \in Nat
  OBVIOUS
<1>5. n - 1 \in Nat /\ n - 1 < n /\ n = (n - 1) + 1
  BY <1>4
<1>6. n - 1 \in T
  BY <1>3, <1>5
<1>7. QED
  BY <1>5, <1>6

-----------------------------------------------------------------------------
(* The charm points of a set of geishas, as a sum.                         *)

SumStep(f, gs) ==
  IF gs = {} THEN 0 ELSE LET g == CHOOSE g \in gs : TRUE IN Value[g] + f[gs \ {g}]

Upto(n) == {gs \in SUBSET Geishas : Cardinality(gs) <= n}

Sums(f, n) == /\ f \in [SUBSET Geishas -> Nat]
              /\ \A gs \in Upto(n) : f[gs] = SumStep(f, gs)

LEMMA Without ==
  ASSUME NEW gs \in SUBSET Geishas, NEW g \in gs
  PROVE  /\ IsFiniteSet(gs) /\ Cardinality(gs) \in Nat \ {0}
         /\ gs \ {g} \in SUBSET Geishas
         /\ Cardinality(gs \ {g}) = Cardinality(gs) - 1
<1>1. IsFiniteSet(gs)
  BY RulesAssumption, FS_Subset
<1>2. Cardinality(gs) \in Nat /\ Cardinality(gs) # 0
  BY <1>1, FS_CardinalityType, FS_EmptySet
<1>3. Cardinality(gs \ {g}) = Cardinality(gs) - 1
  BY <1>1, FS_RemoveElement
<1>4. QED
  BY <1>1, <1>2, <1>3

LEMMA SumStepType ==
  ASSUME NEW f \in [SUBSET Geishas -> Nat], NEW gs \in SUBSET Geishas
  PROVE  SumStep(f, gs) \in Nat
<1>1. CASE gs = {}
  BY <1>1 DEF SumStep
<1>2. CASE gs # {}
  <2>. DEFINE g == CHOOSE g \in gs : TRUE
  <2>1. g \in gs /\ g \in Geishas
    BY <1>2
  <2>2. gs \ {g} \in SUBSET Geishas /\ Value[g] \in Nat
    BY <2>1, RulesAssumption
  <2>3. f[gs \ {g}] \in Nat
    BY <2>2
  <2>4. SumStep(f, gs) = Value[g] + f[gs \ {g}]
    BY <1>2 DEF SumStep
  <2>. HIDE DEF g
  <2>5. QED
    BY <2>2, <2>3, <2>4
<1>3. QED
  BY <1>1, <1>2

\* What two functions make of a set depends on its smaller subsets only.
LEMMA SumStepSame ==
  ASSUME NEW f, NEW h, NEW gs \in SUBSET Geishas,
         \A x \in SUBSET Geishas : Cardinality(x) = Cardinality(gs) - 1 => f[x] = h[x]
  PROVE  SumStep(f, gs) = SumStep(h, gs)
<1>1. CASE gs = {}
  BY <1>1 DEF SumStep
<1>2. CASE gs # {}
  <2>. DEFINE g == CHOOSE g \in gs : TRUE
  <2>1. g \in gs
    BY <1>2
  <2>2. gs \ {g} \in SUBSET Geishas /\ Cardinality(gs \ {g}) = Cardinality(gs) - 1
    BY <2>1, Without
  <2>3. f[gs \ {g}] = h[gs \ {g}]
    BY <2>2
  <2>4. QED
    BY <1>2, <2>3 DEF SumStep
<1>3. QED
  BY <1>1, <1>2

LEMMA Sizes ==
  ASSUME NEW gs \in SUBSET Geishas
  PROVE  IsFiniteSet(gs) /\ Cardinality(gs) \in Nat /\ (Cardinality(gs) = 0 <=> gs = {})
BY RulesAssumption, FS_Subset, FS_CardinalityType, FS_EmptySet

LEMMA SumsExist == \A n \in Nat : \E f : Sums(f, n)
<1>. DEFINE T == {n \in Nat : \E f : Sums(f, n)}
<1>1. 0 \in T
  <2>. DEFINE f == [gs \in SUBSET Geishas |-> 0]
  <2>1. \A gs \in Upto(0) : gs = {}
    BY Sizes DEF Upto
  <2>2. Sums(f, 0)
    BY <2>1 DEF Sums, Upto, SumStep
  <2>3. QED
    BY <2>2
<1>2. ASSUME NEW n \in Nat, n \in T
      PROVE  n + 1 \in T
  <2>1. PICK f : Sums(f, n)
    BY <1>2
  <2>. DEFINE h == [gs \in SUBSET Geishas |->
                      IF Cardinality(gs) <= n THEN f[gs] ELSE SumStep(f, gs)]
  <2>2. h \in [SUBSET Geishas -> Nat]
    BY <2>1, SumStepType DEF Sums
  <2>3. \A gs \in SUBSET Geishas : Cardinality(gs) <= n => h[gs] = f[gs]
    OBVIOUS
  <2>4. \A gs \in SUBSET Geishas : h[gs] = SumStep(f, gs)
    BY <2>1 DEF Sums, Upto
  <2>. HIDE DEF h
  <2>5. ASSUME NEW gs \in Upto(n + 1)
        PROVE  h[gs] = SumStep(h, gs)
    <3>1. gs \in SUBSET Geishas /\ Cardinality(gs) \in Nat /\ Cardinality(gs) <= n + 1
      BY Sizes DEF Upto
    <3>2. \A x \in SUBSET Geishas : Cardinality(x) = Cardinality(gs) - 1 => f[x] = h[x]
      BY <2>3, <3>1
    <3>3. SumStep(f, gs) = SumStep(h, gs)
      BY <3>1, <3>2, SumStepSame
    <3>4. QED
      BY <2>4, <3>1, <3>3
  <2>6. Sums(h, n + 1)
    BY <2>2, <2>5 DEF Sums
  <2>7. QED
    BY <2>6
<1>3. \A n \in Nat : n \in T
  <2>. HIDE DEF T
  <2>1. QED
    BY <1>1, <1>2, AllNumbers
<1>4. QED
  BY <1>3

\* The function that sums the values of any geishas
Sum == CHOOSE f : Sums(f, Cardinality(Geishas))

LEMMA SumSums ==
  /\ Sum \in [SUBSET Geishas -> Nat]
  /\ \A gs \in SUBSET Geishas : Sum[gs] = SumStep(Sum, gs)
<1>1. Cardinality(Geishas) \in Nat
  BY RulesAssumption, FS_CardinalityType
<1>2. Sums(Sum, Cardinality(Geishas))
  BY <1>1, SumsExist DEF Sum
<1>3. \A gs \in SUBSET Geishas : Cardinality(gs) <= Cardinality(Geishas)
  BY RulesAssumption, FS_Subset
<1>4. QED
  BY <1>2, <1>3 DEF Sums, Upto

\* CharmOfSet is that sum: the fold over a set has no other solution.
LEMMA CharmIsSum ==
  ASSUME NEW gs \in SUBSET Geishas
  PROVE  CharmOfSet(gs) = Sum[gs]
<1>. DEFINE Folds(f) == f = [s \in SUBSET gs |->
                               IF s = {} THEN 0
                               ELSE LET g == CHOOSE g \in s : TRUE IN Value[g] + f[s \ {g}]]
            T(f) == {n \in Nat : \A s \in SUBSET gs : Cardinality(s) <= n => f[s] = Sum[s]}
<1>1. CharmOfSet(gs) = (CHOOSE f : Folds(f))[gs]
  BY DEF CharmOfSet, MapThenSumSet, MapThenFoldSet
<1>2. Folds([s \in SUBSET gs |-> Sum[s]])
  <2>. DEFINE h == [s \in SUBSET gs |-> Sum[s]]
  <2>1. ASSUME NEW s \in SUBSET gs
        PROVE  h[s] = IF s = {} THEN 0
                      ELSE LET g == CHOOSE g \in s : TRUE IN Value[g] + h[s \ {g}]
    <3>1. s \in SUBSET Geishas
      OBVIOUS
    <3>2. h[s] = SumStep(Sum, s)
      BY <3>1, SumSums
    <3>3. QED
      BY <3>2 DEF SumStep
  <2>. HIDE DEF h
  <2>2. h = [s \in SUBSET gs |-> h[s]]
    BY DEF h
  <2>3. QED
    BY <2>1, <2>2 DEF h
<1>3. ASSUME NEW f, Folds(f)
      PROVE  f[gs] = Sum[gs]
  <2>1. \A s \in SUBSET gs : s \in SUBSET Geishas /\ f[s] = SumStep(f, s)
    BY <1>3 DEF SumStep
  <2>2. 0 \in T(f)
    <3>1. \A s \in SUBSET gs : Cardinality(s) <= 0 => s = {}
      BY <2>1, Sizes
    <3>2. f[{}] = 0 /\ Sum[{}] = 0
      BY <2>1, SumSums DEF SumStep
    <3>3. QED
      BY <3>1, <3>2
  <2>3. ASSUME NEW n \in Nat, n \in T(f)
        PROVE  n + 1 \in T(f)
    <3>1. ASSUME NEW s \in SUBSET gs, Cardinality(s) <= n + 1
          PROVE  f[s] = Sum[s]
      <4>1. s \in SUBSET Geishas /\ f[s] = SumStep(f, s) /\ Sum[s] = SumStep(Sum, s)
        BY <2>1, SumSums
      <4>2. CASE s = {}
        BY <4>1, <4>2 DEF SumStep
      <4>3. CASE s # {}
        <5>. DEFINE g == CHOOSE g \in s : TRUE
        <5>1. g \in s
          BY <4>3
        <5>2. /\ s \ {g} \in SUBSET gs /\ Cardinality(s \ {g}) = Cardinality(s) - 1
              /\ Cardinality(s) \in Nat
          BY <4>1, <5>1, Without
        <5>3. f[s \ {g}] = Sum[s \ {g}]
          BY <2>3, <3>1, <5>2
        <5>4. QED
          BY <4>1, <4>3, <5>3 DEF SumStep
      <4>4. QED
        BY <4>2, <4>3
    <3>2. QED
      BY <3>1
  <2>. HIDE DEF T
  <2>4. \A n \in Nat : n \in T(f)
    BY <2>2, <2>3, AllNumbers
  <2>5. Cardinality(gs) \in T(f) /\ gs \in SUBSET gs /\ Cardinality(gs) \in Nat
    BY <2>4, Sizes
  <2>6. QED
    BY <2>5 DEF T
<1>. HIDE DEF Folds
<1>4. QED
  BY <1>1, <1>2, <1>3

\* Whichever geisha is taken out first
LEMMA SumTakes ==
  ASSUME NEW gs \in SUBSET Geishas, NEW g \in gs
  PROVE  Sum[gs] = Value[g] + Sum[gs \ {g}]
<1>. DEFINE T == {n \in Nat : \A s \in SUBSET Geishas : Cardinality(s) <= n =>
                    \A x \in s : Sum[s] = Value[x] + Sum[s \ {x}]}
<1>1. 0 \in T
  BY Sizes
<1>2. ASSUME NEW n \in Nat, n \in T
      PROVE  n + 1 \in T
  <2>1. ASSUME NEW s \in SUBSET Geishas, Cardinality(s) <= n + 1, NEW x \in s
        PROVE  Sum[s] = Value[x] + Sum[s \ {x}]
    <3>. DEFINE y == CHOOSE y \in s : TRUE
    <3>1. y \in s
      OBVIOUS
    <3>2. Sum[s] = Value[y] + Sum[s \ {y}]
      BY <3>1, SumSums DEF SumStep
    <3>. HIDE DEF y
    <3>3. CASE x # y
      <4>1. /\ s \ {y} \in SUBSET Geishas /\ s \ {x} \in SUBSET Geishas
            /\ Cardinality(s \ {y}) <= n /\ Cardinality(s \ {x}) <= n
        BY <2>1, <3>1, Without
      <4>2. x \in s \ {y} /\ y \in s \ {x} /\ (s \ {y}) \ {x} = (s \ {x}) \ {y}
        BY <3>1, <3>3
      <4>3. Sum[s \ {y}] = Value[x] + Sum[(s \ {y}) \ {x}]
        BY <1>2, <4>1, <4>2
      <4>4. Sum[s \ {x}] = Value[y] + Sum[(s \ {x}) \ {y}]
        BY <1>2, <4>1, <4>2
      <4>5. Sum[(s \ {x}) \ {y}] \in Nat /\ Value[x] \in Nat /\ Value[y] \in Nat
        BY <3>1, SumSums, RulesAssumption
      <4>6. Sum[(s \ {y}) \ {x}] = Sum[(s \ {x}) \ {y}]
        BY <4>2
      <4>7. QED
        BY <3>2, <4>3, <4>4, <4>5, <4>6
    <3>4. QED
      BY <3>2, <3>3
  <2>2. QED
    BY <2>1
<1>. HIDE DEF T
<1>3. \A n \in Nat : n \in T
  BY <1>1, <1>2, AllNumbers
<1>4. Cardinality(gs) \in T
  BY <1>3, Sizes
<1>5. QED
  BY <1>4, Sizes DEF T

LEMMA SumSplits ==
  ASSUME NEW a \in SUBSET Geishas, NEW b \in SUBSET Geishas, a \cap b = {}
  PROVE  Sum[a \cup b] = Sum[a] + Sum[b]
<1>. DEFINE T == {n \in Nat : \A s \in SUBSET Geishas : Cardinality(s) = n /\ a \cap s = {} =>
                    Sum[a \cup s] = Sum[a] + Sum[s]}
<1>1. 0 \in T
  <2>1. ASSUME NEW s \in SUBSET Geishas, Cardinality(s) = 0
        PROVE  Sum[a \cup s] = Sum[a] + Sum[s]
    <3>1. s = {} /\ a \cup s = a
      BY <2>1, Sizes
    <3>2. Sum[s] = 0 /\ Sum[a] \in Nat
      BY <3>1, SumSums DEF SumStep
    <3>3. QED
      BY <3>1, <3>2
  <2>2. QED
    BY <2>1
<1>2. ASSUME NEW n \in Nat, n \in T
      PROVE  n + 1 \in T
  <2>1. ASSUME NEW s \in SUBSET Geishas, Cardinality(s) = n + 1, a \cap s = {}
        PROVE  Sum[a \cup s] = Sum[a] + Sum[s]
    <3>1. PICK g \in s : TRUE
      BY <2>1, Sizes
    <3>2. /\ s \ {g} \in SUBSET Geishas /\ Cardinality(s \ {g}) = n
          /\ a \cap (s \ {g}) = {}
      BY <2>1, Without
    <3>3. Sum[a \cup (s \ {g})] = Sum[a] + Sum[s \ {g}]
      BY <1>2, <3>2
    <3>4. Sum[s] = Value[g] + Sum[s \ {g}]
      BY SumTakes
    <3>5. (a \cup s) \ {g} = a \cup (s \ {g}) /\ g \in a \cup s /\ a \cup s \in SUBSET Geishas
      BY <2>1
    <3>6. Sum[a \cup s] = Value[g] + Sum[a \cup (s \ {g})]
      BY <3>5, SumTakes
    <3>7. /\ Sum[a] \in Nat /\ Sum[s \ {g}] \in Nat /\ Value[g] \in Nat
      BY <3>2, SumSums, RulesAssumption
    <3>8. QED
      BY <3>3, <3>4, <3>6, <3>7
  <2>2. QED
    BY <2>1
<1>. HIDE DEF T
<1>3. \A n \in Nat : n \in T
  BY <1>1, <1>2, AllNumbers
<1>4. Cardinality(b) \in T
  BY <1>3, Sizes
<1>5. QED
  BY <1>4 DEF T

\* Two players have no more charm than there is.
LEMMA CharmSplits ==
  ASSUME NEW a \in SUBSET Geishas, NEW b \in SUBSET Geishas, a \cap b = {}
  PROVE  /\ CharmOfSet(a) \in Nat /\ CharmOfSet(b) \in Nat
         /\ CharmOfSet(Geishas) \in Nat
         /\ CharmOfSet(a) + CharmOfSet(b) <= CharmOfSet(Geishas)
<1>. DEFINE rest == Geishas \ (a \cup b)
<1>1. /\ a \cup b \in SUBSET Geishas /\ rest \in SUBSET Geishas
      /\ (a \cup b) \cap rest = {} /\ (a \cup b) \cup rest = Geishas
      /\ Geishas \in SUBSET Geishas
  OBVIOUS
<1>. HIDE DEF rest
<1>2. Sum[a \cup b] = Sum[a] + Sum[b]
  BY SumSplits
<1>3. Sum[Geishas] = Sum[a \cup b] + Sum[rest]
  BY <1>1, SumSplits
<1>4. /\ Sum[a] \in Nat /\ Sum[b] \in Nat /\ Sum[rest] \in Nat /\ Sum[Geishas] \in Nat
  BY <1>1, SumSums
<1>5. QED
  BY <1>1, <1>2, <1>3, <1>4, CharmIsSum

LEMMA GeishasSplit ==
  ASSUME NEW a \in SUBSET Geishas, NEW b \in SUBSET Geishas, a \cap b = {}
  PROVE  /\ Cardinality(a) \in Nat /\ Cardinality(b) \in Nat /\ Cardinality(Geishas) \in Nat
         /\ Cardinality(a) + Cardinality(b) <= Cardinality(Geishas)
<1>1. IsFiniteSet(a) /\ IsFiniteSet(b) /\ IsFiniteSet(Geishas) /\ IsFiniteSet(a \cup b)
  BY RulesAssumption, FS_Subset
<1>2. Cardinality(a \cup b) = Cardinality(a) + Cardinality(b)
  <2>1. /\ IsFiniteSet(a \cap b) /\ Cardinality(a \cap b) = 0
    BY FS_EmptySet
  <2>2. Cardinality(a \cup b) = Cardinality(a) + Cardinality(b) - Cardinality(a \cap b)
    BY <1>1, FS_Union
  <2>3. QED
    BY <1>1, <2>1, <2>2, FS_CardinalityType
<1>3. Cardinality(a \cup b) <= Cardinality(Geishas)
  BY <1>1, FS_Subset
<1>4. QED
  BY <1>1, <1>2, <1>3, FS_CardinalityType

-----------------------------------------------------------------------------
(* The rules: goals that are majorities leave no perfect tie.              *)

LEMMA ScoresSplit ==
  ASSUME NEW o, NEW p \in Players
  PROVE  LET mine == Scores(o)[p]
             theirs == Scores(o)[Other(p)]
         IN  /\ mine.geishaCount \in Nat /\ theirs.geishaCount \in Nat
             /\ mine.totalCharm \in Nat /\ theirs.totalCharm \in Nat
             /\ mine.totalCharm >= CharmGoal => theirs.totalCharm < CharmGoal
             /\ mine.geishaCount >= GeishaGoal => theirs.geishaCount < GeishaGoal
<1>. DEFINE q == Other(p)
            a == {g \in Geishas : o[g] = p}
            b == {g \in Geishas : o[g] = q}
<1>1. q \in Players /\ p # q
  BY DEF Players, Other
<1>2. a \in SUBSET Geishas /\ b \in SUBSET Geishas /\ a \cap b = {}
  BY <1>1
<1>3. /\ Scores(o)[p] = [geishaCount |-> Cardinality(a), totalCharm |-> CharmOfSet(a)]
      /\ Scores(o)[q] = [geishaCount |-> Cardinality(b), totalCharm |-> CharmOfSet(b)]
  BY <1>1 DEF Scores, ScoreOf
<1>. HIDE DEF a, b, q
<1>4. /\ CharmOfSet(a) \in Nat /\ CharmOfSet(b) \in Nat /\ CharmOfSet(Geishas) \in Nat
      /\ CharmOfSet(a) + CharmOfSet(b) <= CharmOfSet(Geishas)
  BY <1>2, CharmSplits
<1>5. /\ Cardinality(a) \in Nat /\ Cardinality(b) \in Nat /\ Cardinality(Geishas) \in Nat
      /\ Cardinality(a) + Cardinality(b) <= Cardinality(Geishas)
  BY <1>2, GeishasSplit
<1>6. /\ CharmOfSet(a) >= CharmGoal => CharmOfSet(b) < CharmGoal
      /\ Cardinality(a) >= GeishaGoal => Cardinality(b) < GeishaGoal
  BY <1>4, <1>5, GoalsAssumption, RulesAssumption
<1>7. QED
  BY <1>3, <1>4, <1>5, <1>6 DEF q

\* Nobody wins only where nobody meets a goal; only one player ever wins.
LEMMA VictoryDecides ==
  ASSUME NEW o
  PROVE  /\ VictoryOf(Scores(o)) \in Players \cup {Nobody}
         /\ VictoryOf(Scores(o)) = Nobody => \A p \in Players : ~MeetsGoal(Scores(o)[p])
         /\ \A p \in Players : Scores(o)[p].totalCharm >= CharmGoal => VictoryOf(Scores(o)) = p
<1>. DEFINE s == Scores(o)
<1>1. \A p \in Players :
        /\ s[p].geishaCount \in Nat /\ s[Other(p)].geishaCount \in Nat
        /\ s[p].totalCharm \in Nat /\ s[Other(p)].totalCharm \in Nat
        /\ s[p].totalCharm >= CharmGoal => s[Other(p)].totalCharm < CharmGoal
        /\ s[p].geishaCount >= GeishaGoal => s[Other(p)].geishaCount < GeishaGoal
  BY ScoresSplit
<1>2. \A p \in Players : Other(p) \in Players /\ Other(p) # p /\ Other(Other(p)) = p
  BY DEF Players, Other
<1>3. \A p \in Players : p # Nobody
  BY DEF Players, Nobody
<1>. HIDE DEF s
<1>4. \A p \in Players : MeetsGoal(s[p]) => \E w \in Players : Wins(s, w)
  BY <1>1, <1>2, RulesAssumption DEF MeetsGoal, Wins, Beats
<1>5. \A p \in Players : s[p].totalCharm >= CharmGoal =>
        Wins(s, p) /\ ~Wins(s, Other(p))
  BY <1>1, <1>2, RulesAssumption DEF MeetsGoal, Wins, Beats
<1>6. \A p, w \in Players : w = p \/ w = Other(p)
  BY DEF Players, Other
<1>7. (\E p \in Players : Wins(s, p)) => VictoryOf(s) \in Players /\ Wins(s, VictoryOf(s))
  BY DEF VictoryOf
<1>8. (~ \E p \in Players : Wins(s, p)) => VictoryOf(s) = Nobody
  BY DEF VictoryOf
<1>9. VictoryOf(s) \in Players \cup {Nobody}
  BY <1>7, <1>8
<1>10. VictoryOf(s) = Nobody => \A p \in Players : ~MeetsGoal(s[p])
  BY <1>3, <1>4, <1>7
<1>11. \A p \in Players : s[p].totalCharm >= CharmGoal => VictoryOf(s) = p
  BY <1>5, <1>6, <1>7
<1>12. QED
  BY <1>9, <1>10, <1>11 DEF s

-----------------------------------------------------------------------------
(* The match.                                                              *)

\* What is decided follows from the owners; a round is open till then.
Decided ==
  /\ MatchTypeOK
  /\ result \in Players => result = VictoryOf(Scores(owner))
  /\ result \notin Players => VictoryOf(Scores(owner)) = Nobody

LEMMA NoGoalAtFirst ==
  ASSUME MatchInit
  PROVE  VictoryOf(Scores(owner)) = Nobody
<1>. DEFINE s == Scores(owner)
<1>1. \A p \in Players : {g \in Geishas : owner[g] = p} = {}
  BY DEF MatchInit, Players, Nobody
<1>2. \A p \in Players : ScoreOf(owner, p) = [geishaCount |-> Cardinality({}), totalCharm |-> CharmOfSet({})]
  BY <1>1 DEF ScoreOf
<1>3. /\ \A p \in Players : s[p] = [geishaCount |-> Cardinality({}), totalCharm |-> CharmOfSet({})]
      /\ Cardinality({}) \in Nat /\ CharmOfSet({}) \in Nat
  BY <1>2, FS_EmptySet, CharmSplits DEF Scores
<1>4. \A p \in Players : Other(p) \in Players
  BY DEF Players, Other
<1>. HIDE DEF s
<1>5. \A p \in Players : ~Wins(s, p)
  BY <1>3, <1>4 DEF Wins, Beats
<1>6. QED
  BY <1>5 DEF VictoryOf, s

LEMMA MatchStep ==
  ASSUME Decided, [MatchNext]_matchVars
  PROVE  Decided'
<1>1. CASE UNCHANGED matchVars
  BY <1>1 DEF matchVars, Decided, MatchTypeOK
<1>2. ASSUME NEW majority \in [Geishas -> Players \cup {Nobody}], EndRound(majority)
      PROVE  Decided'
  <2>. DEFINE w == VictoryOf(Scores(owner'))
  <2>1. /\ owner' = NewOwners(owner, majority)
        /\ result' = IF w # Nobody THEN w ELSE IF round >= MaxRounds THEN "draw" ELSE "playing"
        /\ round' = IF result' = "playing" THEN round + 1 ELSE round
    BY <1>2 DEF EndRound, ResultOf
  <2>2. owner' \in [Geishas -> Players \cup {Nobody}]
    BY <2>1 DEF NewOwners, Decided, MatchTypeOK
  <2>3. w \in Players \cup {Nobody}
    BY VictoryDecides
  <2>. HIDE DEF w
  <2>4. /\ "draw" \notin Players /\ "playing" \notin Players /\ Nobody \notin Players
        /\ "draw" # "playing"
    BY DEF Players, Nobody
  <2>5. /\ result' \in Players \cup {"playing", "draw"}
        /\ result' \in Players => result' = w
        /\ result' \notin Players => w = Nobody
    BY <2>1, <2>3, <2>4
  <2>6. round' \in 1..MaxRounds
    <3>1. round \in 1..MaxRounds /\ MaxRounds \in Nat
      BY MatchAssumption DEF Decided, MatchTypeOK
    <3>2. result' = "playing" => round < MaxRounds
      BY <2>1, <2>3, <2>4, <3>1
    <3>3. QED
      BY <2>1, <3>1, <3>2
  <2>7. QED
    BY <2>2, <2>5, <2>6 DEF Decided, MatchTypeOK, w
<1>3. QED
  BY <1>1, <1>2 DEF MatchNext

LEMMA MatchStarts ==
  ASSUME MatchInit
  PROVE  Decided
<1>1. "playing" \notin Players
  BY DEF Players
<1>2. MatchTypeOK
  BY MatchAssumption DEF MatchInit, MatchTypeOK
<1>3. QED
  BY <1>1, <1>2, NoGoalAtFirst DEF MatchInit, Decided

\* The inductive invariant of the match.
THEOREM DecidedHolds == MatchSpec => []Decided
<1>1. MatchInit => Decided
  BY MatchStarts
<1>2. Decided /\ [MatchNext]_matchVars => Decided'
  BY MatchStep
<1>3. QED
  BY <1>1, <1>2, PTL DEF MatchSpec

(* checkVictory: a match goes on, or is drawn, only while nobody meets a   *)
(* goal; the perfect tie that would name no winner cannot arise.           *)
THEOREM NoGoalWhileUndecided == MatchSpec => []UndecidedMeansNoGoal
<1>1. Decided => UndecidedMeansNoGoal
  BY VictoryDecides DEF Decided, UndecidedMeansNoGoal
<1>2. QED
  BY <1>1, DecidedHolds, PTL

\* checkVictory: who reaches the charm goal has won the match.
THEOREM CharmGoalAlwaysWins == MatchSpec => []CharmGoalWins
<1>1. ASSUME Decided, NEW p \in Players, Scores(owner)[p].totalCharm >= CharmGoal
      PROVE  result = p
  <2>1. VictoryOf(Scores(owner)) = p /\ p # Nobody
    BY <1>1, VictoryDecides DEF Players, Nobody
  <2>2. QED
    BY <1>1, <2>1 DEF Decided
<1>2. Decided => CharmGoalWins
  BY <1>1 DEF CharmGoalWins
<1>3. QED
  BY <1>2, DecidedHolds, PTL
=============================================================================
