------------------------- MODULE GsasBuildVariables -------------------------
(***************************************************************************)
(* What a built GSAS-II project varies, for every well-formed recipe: one  *)
(* variable for every tie group the recipe refines, in every crystal        *)
(* system and for every site symmetry.                                     *)
(***************************************************************************)
EXTENDS GsasBuild, FiniteSetTheorems, FunctionTheorems, SequenceTheorems, TLAPS

(* The project, stage by stage, as a function of the recipe. *)
Project(on, back, terms, bkPeaks, peaks, phases, held) ==
    [on |-> on, back |-> back, terms |-> terms, bkPeaks |-> bkPeaks, peaks |-> peaks,
     phases |-> phases, holds |-> held]
Back == Flagged(CoefficientLeaf(0))
BkFlags == [i \in 1 .. recipe.bkPeaks |-> PeakFlags("background", i - 1)]
SpfFlags == [i \in 1 .. recipe.peaks |-> PeakFlags("single_peaks", i - 1)]
InstrumentFlags == {k \in Instrument : Flagged(InstrumentLeaf(k))}
WithPhases(phases) == Project({}, Back, recipe.coefficients, BkFlags, SpfFlags, phases, {})

\* the first n phases of the recipe, of which the first m have their flags
PhasesTo(n, m) ==
    [i \in 1 .. n |-> IF i <= m THEN Parameterized(NewPhase(recipe.phases[i]), recipe.phases[i])
                                ELSE NewPhase(recipe.phases[i])]
Total == Len(recipe.phases)
Holds(m) == UNION {PhaseHolds(recipe.phases[i], i - 1) : i \in 1 .. m}
Built == proj = Project(InstrumentFlags, Back, recipe.coefficients, BkFlags, SpfFlags,
                        PhasesTo(Total, Total), Holds(Total))

RecipeOK == recipe \in Recipes /\ Accepted(recipe)

------------------------------------------------------------------------------
LEMMA RecipeTyped ==
  ASSUME RecipeOK
  PROVE  /\ recipe.spf \in BOOLEAN /\ recipe.useIP \in BOOLEAN
         /\ recipe.coefficients \in Nat /\ recipe.bkPeaks \in Nat /\ recipe.peaks \in Nat
         /\ recipe.phases \in Seq(PhaseBlock) /\ Total \in Nat /\ DOMAIN recipe.phases = 1 .. Total
         /\ \A i \in 1 .. Total : recipe.phases[i] \in PhaseBlock /\ recipe.phases[i] \in ToSet(recipe.phases)
         /\ \A i, j \in 1 .. Total : recipe.phases[i].name = recipe.phases[j].name => i = j
         /\ \A i \in 1 .. Total :
              /\ recipe.phases[i].laue = "2/m" => recipe.phases[i].uniq \in Lengths
              /\ \A a, b \in DOMAIN recipe.phases[i].atoms :
                   recipe.phases[i].atoms[a].label = recipe.phases[i].atoms[b].label => a = b
         /\ recipe.spf => recipe.phases = <<>>
         /\ ~ recipe.spf => recipe.peaks = 0
         /\ IsFiniteSet(recipe.flagged)
<1>1. WellFormed(recipe)
  BY RecipesAssumption DEF RecipeOK
<1>2. recipe.phases \in Seq(PhaseBlock)
  BY <1>1 DEF WellFormed
<1>3. Total \in Nat /\ DOMAIN recipe.phases = 1 .. Total
      /\ \A i \in 1 .. Total : recipe.phases[i] \in PhaseBlock
  BY <1>2, ElementOfSeq, LenProperties DEF Total
<1>4. \A i \in 1 .. Total : recipe.phases[i] \in ToSet(recipe.phases)
  BY <1>3 DEF ToSet
<1> QED BY <1>1, <1>2, <1>3, <1>4 DEF WellFormed

------------------------------------------------------------------------------
(* The metric terms held when the flagged parameters of a cell are F.      *)
HeldTerms(ph, F) == UNION {g[2] : g \in {g \in CellDofGroups(ph) : g[1] \cap F = {}}}
CellOn(ph, F) == \E g \in CellDofGroups(ph) : g[1] \cap F # {}

(* What validation lets through of a cell.                                 *)
Clear(g, F) == g \cap F = {}

CellFlags(ph, F) ==
    /\ F \subseteq UNION CellTies(ph)
    /\ \A g \in CellTies(ph) \cup GsasiiCellGroups(ph) : g \subseteq F \/ Clear(g, F)

CellAgrees(ph, F) ==
    /\ \A g \in CellTies(ph) :
         /\ g # {} /\ g \subseteq Lengths \cup Angles
         /\ CellOn(ph, F) /\ Term[FirstOf(g)] \notin HeldTerms(ph, F) <=> g \subseteq F
         /\ g \subseteq F => g \subseteq CellMoves(ph, Term[FirstOf(g)])
                             /\ CellMoves(ph, Term[FirstOf(g)]) \subseteq F
    /\ \A g, h \in CellTies(ph) :
         /\ Term[FirstOf(g)] = Term[FirstOf(h)] => g = h
         /\ g \cap h # {} => g = h

(* The degrees of freedom of a cell, one to three of them.                 *)
Dof(ph, A, a, B, b, C, c) == CellDofGroups(ph) = {<<A, a>>, <<B, b>>, <<C, c>>}

LEMMA DofHolds ==
  ASSUME NEW ph, NEW F, NEW A, NEW a, NEW B, NEW b, NEW C, NEW c, Dof(ph, A, a, B, b, C, c)
  PROVE  /\ \A n : n \in HeldTerms(ph, F) <=> \/ Clear(A, F) /\ n \in a
                                              \/ Clear(B, F) /\ n \in b
                                              \/ Clear(C, F) /\ n \in c
         /\ CellOn(ph, F) <=> ~ Clear(A, F) \/ ~ Clear(B, F) \/ ~ Clear(C, F)
<1> DEFINE x == <<A, a>>
           y == <<B, b>>
           z == <<C, c>>
<1>1. \A n : n \in HeldTerms(ph, F) <=> \E g \in CellDofGroups(ph) : Clear(g[1], F) /\ n \in g[2]
  BY DEF HeldTerms, Clear
<1>2. x[1] = A /\ x[2] = a /\ y[1] = B /\ y[2] = b /\ z[1] = C /\ z[2] = c
  OBVIOUS
<1>3. CellDofGroups(ph) = {x, y, z}
  BY DEF Dof
<1> HIDE DEF x, y, z
<1>4. \A n : n \in HeldTerms(ph, F) <=> \/ Clear(A, F) /\ n \in a
                                        \/ Clear(B, F) /\ n \in b
                                        \/ Clear(C, F) /\ n \in c
  BY <1>1, <1>2, <1>3
<1>5. CellOn(ph, F) <=> ~ Clear(A, F) \/ ~ Clear(B, F) \/ ~ Clear(C, F)
  BY <1>2, <1>3 DEF CellOn, Clear
<1> QED BY <1>4, <1>5

LEMMA OneDof ==
  ASSUME NEW ph, NEW F, NEW A, NEW a, Dof(ph, A, a, A, a, A, a)
  PROVE  /\ \A n \in a : n \in HeldTerms(ph, F) <=> Clear(A, F)
         /\ CellOn(ph, F) <=> ~ Clear(A, F)
<1>1. /\ \A n : n \in HeldTerms(ph, F) <=> \/ Clear(A, F) /\ n \in a
                                           \/ Clear(A, F) /\ n \in a
                                           \/ Clear(A, F) /\ n \in a
      /\ CellOn(ph, F) <=> ~ Clear(A, F) \/ ~ Clear(A, F) \/ ~ Clear(A, F)
  BY DofHolds
<1> QED BY <1>1 DEF Clear

LEMMA CubicCell ==
  ASSUME NEW ph, NEW F, ph.laue \in {"m3m", "m3"}, CellFlags(ph, F)
  PROVE  CellAgrees(ph, F)
<1>1. CellTies(ph) = {Lengths} /\ GsasiiCellGroups(ph) = {Lengths} /\ Dof(ph, Lengths, {0}, Lengths, {0}, Lengths, {0})
  BY DEF CellTies, GsasiiCellGroups, CellDofGroups, Rhombohedral, Dof
<1>2. FirstOf(Lengths) = "a" /\ Term["a"] = 0
  BY DEF FirstOf, Lengths, Term
<1>3. Lengths \subseteq F \/ Clear(Lengths, F)
  BY <1>1 DEF CellFlags
<1>4. /\ 0 \in HeldTerms(ph, F) <=> Clear(Lengths, F)
      /\ CellOn(ph, F) <=> ~ Clear(Lengths, F)
  BY <1>1, DofHolds
<1>5. "a" \in Lengths /\ Lengths \cap Angles = {}
  BY DEF Lengths, Angles
<1>6. CellMoves(ph, 0) = Lengths
  <2>1. Angles \cap UNION CellTies(ph) = {}
    BY <1>1, <1>5
  <2> QED BY <2>1, <1>1, <1>2, <1>5 DEF CellMoves
<1> QED BY <1>1, <1>2, <1>3, <1>4, <1>5, <1>6 DEF CellAgrees, CellFlags, Clear

LEMMA RhombohedralCell ==
  ASSUME NEW ph, NEW F, ph.laue \in {"3R", "3mR"}, CellFlags(ph, F)
  PROVE  CellAgrees(ph, F)
<1> DEFINE all == Lengths \cup Angles
<1>1. CellTies(ph) = {Lengths, Angles} /\ GsasiiCellGroups(ph) = {all}
      /\ Dof(ph, all, {0, 3}, all, {0, 3}, all, {0, 3})
  BY DEF CellTies, GsasiiCellGroups, CellDofGroups, Rhombohedral, Dof
<1>2. FirstOf(Lengths) = "a" /\ Term["a"] = 0 /\ FirstOf(Angles) = "gamma" /\ Term["gamma"] = 3
  BY DEF FirstOf, Lengths, Angles, Term
<1>3. all \subseteq F \/ Clear(all, F)
  BY <1>1 DEF CellFlags
<1>4. /\ 0 \in HeldTerms(ph, F) <=> Clear(all, F)
      /\ 3 \in HeldTerms(ph, F) <=> Clear(all, F)
      /\ CellOn(ph, F) <=> ~ Clear(all, F)
  BY <1>1, OneDof
<1>5. "a" \in Lengths /\ "gamma" \in Angles /\ Lengths \cap Angles = {}
  BY DEF Lengths, Angles
<1>6. \A n : CellMoves(ph, n) = all
  <2>1. Angles \cap UNION CellTies(ph) # {} /\ UNION CellTies(ph) = all
    BY <1>1, <1>5
  <2> QED BY <2>1 DEF CellMoves
<1> QED BY <1>1, <1>2, <1>3, <1>4, <1>5, <1>6 DEF CellAgrees, CellFlags, Clear

LEMMA UniaxialCell ==
  ASSUME NEW ph, NEW F, ph.laue \in {"4/m", "4/mmm", "6/m", "6/mmm", "3", "3m1", "31m"}, CellFlags(ph, F)
  PROVE  CellAgrees(ph, F)
<1> DEFINE ab == {"a", "b"}
           c == {"c"}
<1>1. CellTies(ph) = {ab, c} /\ Dof(ph, ab, {0}, c, {2}, c, {2})
  BY DEF CellTies, CellDofGroups, Rhombohedral, Dof
<1>2. FirstOf(ab) = "a" /\ Term["a"] = 0 /\ Term["b"] = 1 /\ FirstOf(c) = "c" /\ Term["c"] = 2
  BY DEF FirstOf, Term
<1>3. ab \subseteq Lengths /\ c \subseteq Lengths /\ ab \cap c = {} /\ "a" \in ab /\ "c" \in c
      /\ (\A k \in ab : k = "a" \/ k = "b") /\ (\A k \in c : k = "c") /\ Lengths \cap Angles = {}
  BY DEF Lengths, Angles
<1> HIDE DEF ab, c
<1>4. (ab \subseteq F \/ Clear(ab, F)) /\ (c \subseteq F \/ Clear(c, F))
  BY <1>1 DEF CellFlags
<1>5. /\ 0 \in HeldTerms(ph, F) <=> Clear(ab, F)
      /\ 2 \in HeldTerms(ph, F) <=> Clear(c, F)
      /\ CellOn(ph, F) <=> ~ Clear(ab, F) \/ ~ Clear(c, F)
  <2>1. /\ \A n : n \in HeldTerms(ph, F) <=> \/ Clear(ab, F) /\ n \in {0}
                                             \/ Clear(c, F) /\ n \in {2}
                                             \/ Clear(c, F) /\ n \in {2}
        /\ CellOn(ph, F) <=> ~ Clear(ab, F) \/ ~ Clear(c, F)
    BY <1>1, DofHolds
  <2> QED BY <2>1
<1>6. CellMoves(ph, 0) = ab /\ CellMoves(ph, 2) = c
  <2>1. Angles \cap UNION CellTies(ph) = {}
    BY <1>1, <1>3
  <2>2. (CHOOSE g \in CellTies(ph) : \E k \in g : Term[k] = 0) = ab
    BY <1>1, <1>2, <1>3
  <2>3. (CHOOSE g \in CellTies(ph) : \E k \in g : Term[k] = 2) = c
    BY <1>1, <1>2, <1>3
  <2> QED BY <2>1, <2>2, <2>3 DEF CellMoves
<1> QED BY <1>1, <1>2, <1>3, <1>4, <1>5, <1>6 DEF CellAgrees, CellFlags, Clear

LEMMA OrthorhombicCell ==
  ASSUME NEW ph, NEW F, ph.laue = "mmm", CellFlags(ph, F)
  PROVE  CellAgrees(ph, F)
<1> DEFINE a == {"a"}
           b == {"b"}
           c == {"c"}
<1>1. CellTies(ph) = {a, b, c} /\ Dof(ph, a, {0}, b, {1}, c, {2})
  <2>1. CellTies(ph) = {{l} : l \in Lengths} /\ Dof(ph, a, {0}, b, {1}, c, {2})
    BY DEF CellTies, CellDofGroups, Rhombohedral, Dof
  <2> QED BY <2>1 DEF Lengths
<1>2. FirstOf(a) = "a" /\ Term["a"] = 0 /\ FirstOf(b) = "b" /\ Term["b"] = 1
      /\ FirstOf(c) = "c" /\ Term["c"] = 2
  BY DEF FirstOf, Term
<1>3. a \subseteq Lengths /\ b \subseteq Lengths /\ c \subseteq Lengths
      /\ "a" \in a /\ "b" \in b /\ "c" \in c
      /\ (\A k \in a : k = "a") /\ (\A k \in b : k = "b") /\ (\A k \in c : k = "c")
      /\ Lengths \cap Angles = {}
  BY DEF Lengths, Angles
<1> HIDE DEF a, b, c
<1>4. (a \subseteq F \/ Clear(a, F)) /\ (b \subseteq F \/ Clear(b, F)) /\ (c \subseteq F \/ Clear(c, F))
  BY <1>1 DEF CellFlags
<1>5. /\ 0 \in HeldTerms(ph, F) <=> Clear(a, F)
      /\ 1 \in HeldTerms(ph, F) <=> Clear(b, F)
      /\ 2 \in HeldTerms(ph, F) <=> Clear(c, F)
      /\ CellOn(ph, F) <=> ~ Clear(a, F) \/ ~ Clear(b, F) \/ ~ Clear(c, F)
  <2>1. /\ \A n : n \in HeldTerms(ph, F) <=> \/ Clear(a, F) /\ n \in {0}
                                             \/ Clear(b, F) /\ n \in {1}
                                             \/ Clear(c, F) /\ n \in {2}
        /\ CellOn(ph, F) <=> ~ Clear(a, F) \/ ~ Clear(b, F) \/ ~ Clear(c, F)
    BY <1>1, DofHolds
  <2> QED BY <2>1
<1>6. CellMoves(ph, 0) = a /\ CellMoves(ph, 1) = b /\ CellMoves(ph, 2) = c
  <2>1. Angles \cap UNION CellTies(ph) = {}
    BY <1>1, <1>3
  <2>2. (CHOOSE g \in CellTies(ph) : \E k \in g : Term[k] = 0) = a
    BY <1>1, <1>2, <1>3
  <2>3. (CHOOSE g \in CellTies(ph) : \E k \in g : Term[k] = 1) = b
    BY <1>1, <1>2, <1>3
  <2>4. (CHOOSE g \in CellTies(ph) : \E k \in g : Term[k] = 2) = c
    BY <1>1, <1>2, <1>3
  <2> QED BY <2>1, <2>2, <2>3, <2>4 DEF CellMoves
<1>7. a \cap b = {} /\ b \cap c = {} /\ a \cap c = {}
  BY <1>3
<1> QED BY <1>1, <1>2, <1>3, <1>4, <1>5, <1>6, <1>7 DEF CellAgrees, CellFlags, Clear

LEMMA TriclinicCell ==
  ASSUME NEW ph, NEW F, ph.laue = "-1", CellFlags(ph, F)
  PROVE  CellAgrees(ph, F)
<1> DEFINE all == Lengths \cup Angles
<1>1. CellTies(ph) = {{k} : k \in all} /\ GsasiiCellGroups(ph) = {all}
      /\ Dof(ph, all, 0 .. 5, all, 0 .. 5, all, 0 .. 5)
  BY DEF CellTies, GsasiiCellGroups, CellDofGroups, Rhombohedral, Dof
<1>2. \A k \in all : FirstOf({k}) = k /\ Term[k] \in 0 .. 5
  BY DEF FirstOf, Lengths, Angles, Term
<1>3. \A k, l \in all : Term[k] = Term[l] => k = l
  BY DEF Lengths, Angles, Term
<1>4. all \subseteq F \/ Clear(all, F)
  BY <1>1 DEF CellFlags
<1>5. /\ \A n \in 0 .. 5 : n \in HeldTerms(ph, F) <=> Clear(all, F)
      /\ CellOn(ph, F) <=> ~ Clear(all, F)
  BY <1>1, OneDof
<1>6. \A n : CellMoves(ph, n) = all
  <2>1. Angles \cap UNION CellTies(ph) # {} /\ UNION CellTies(ph) = all
    BY <1>1 DEF Angles
  <2> QED BY <2>1 DEF CellMoves
<1> HIDE DEF all
<1>7. ASSUME NEW g \in CellTies(ph)
      PROVE  /\ g # {} /\ g \subseteq Lengths \cup Angles
             /\ CellOn(ph, F) /\ Term[FirstOf(g)] \notin HeldTerms(ph, F) <=> g \subseteq F
             /\ g \subseteq F => g \subseteq CellMoves(ph, Term[FirstOf(g)])
                                 /\ CellMoves(ph, Term[FirstOf(g)]) \subseteq F
  <2>1. PICK k \in all : g = {k}
    BY <1>1
  <2>2. g # {} /\ g \subseteq all /\ Term[FirstOf(g)] \in 0 .. 5
    BY <1>2, <2>1
  <2>3. g \subseteq F <=> ~ Clear(all, F)
    BY <1>4, <2>2 DEF Clear
  <2>4. g \subseteq F => all \subseteq F
    BY <1>4, <2>2 DEF Clear
  <2>5. CellOn(ph, F) /\ Term[FirstOf(g)] \notin HeldTerms(ph, F) <=> g \subseteq F
    BY <1>5, <2>2, <2>3
  <2> QED BY <1>6, <2>2, <2>4, <2>5 DEF all
<1>8. ASSUME NEW g \in CellTies(ph), NEW h \in CellTies(ph)
      PROVE  /\ Term[FirstOf(g)] = Term[FirstOf(h)] => g = h
             /\ g \cap h # {} => g = h
  <2>1. PICK k \in all : g = {k}
    BY <1>1
  <2>2. PICK l \in all : h = {l}
    BY <1>1
  <2> QED BY <1>2, <1>3, <2>1, <2>2
<1> QED BY <1>7, <1>8 DEF CellAgrees

(* A unique axis u, the two other axes of lengths v and w, and the oblique *)
(* angle o between them, whose terms are m, and of the tied group n.       *)
LEMMA MonoclinicAxis ==
  ASSUME NEW ph, NEW F, ph.laue = "2/m", CellFlags(ph, F),
         NEW u \in Lengths, NEW v \in Lengths, NEW w \in Lengths, NEW o \in Angles,
         ph.uniq = u, u # v, u # w, v # w, AngleOf[u] = o,
         NEW S, Dof(ph, {u}, {Term[u]}, {v, w, o}, S, {v, w, o}, S),
         Term[v] \in S, Term[w] \in S, Term[o] \in S, Term[u] \notin S
  PROVE  CellAgrees(ph, F)
<1> DEFINE vwo == {v, w, o}
<1>1. \A k, l \in Lengths \cup Angles : Term[k] = Term[l] => k = l
  BY DEF Lengths, Angles, Term
<1>2. \A k \in Lengths \cup Angles : FirstOf({k}) = k
  BY DEF FirstOf, Lengths, Angles
<1>3. Lengths = {u, v, w} /\ o \notin Lengths
  BY DEF Lengths, Angles
<1>4. CellTies(ph) = {{l} : l \in {u, v, w, o}}
  <2>1. CellTies(ph) = {{l} : l \in Lengths \cup {AngleOf[ph.uniq]}}
    BY DEF CellTies, Rhombohedral
  <2> QED BY <2>1, <1>3
<1>5. GsasiiCellGroups(ph) = {{u}, vwo}
  <2>1. GsasiiCellGroups(ph) = {{ph.uniq}, (Lengths \ {ph.uniq}) \cup {AngleOf[ph.uniq]}}
    BY DEF GsasiiCellGroups, Rhombohedral
  <2>2. Lengths \ {u} = {v, w}
    BY <1>3
  <2>3. (Lengths \ {u}) \cup {o} = vwo
    BY <2>2
  <2> QED BY <2>1, <2>3
<1> HIDE DEF vwo
<1>6. ({u} \subseteq F \/ Clear({u}, F)) /\ (vwo \subseteq F \/ Clear(vwo, F))
  BY <1>5 DEF CellFlags
<1>7. /\ \A n : n \in HeldTerms(ph, F) <=> \/ Clear({u}, F) /\ n \in {Term[u]}
                                           \/ Clear(vwo, F) /\ n \in S
                                           \/ Clear(vwo, F) /\ n \in S
      /\ CellOn(ph, F) <=> ~ Clear({u}, F) \/ ~ Clear(vwo, F) \/ ~ Clear(vwo, F)
  BY DofHolds DEF vwo
<1>8. \A k \in vwo : k \in Lengths \cup Angles /\ k # u /\ Term[k] \in S
  BY <1>3 DEF vwo
<1>9. CellMoves(ph, Term[u]) = {u} /\ \A k \in vwo : CellMoves(ph, Term[k]) = vwo
  <2>1. Angles \cap UNION CellTies(ph) = {o}
    <3>1. UNION CellTies(ph) = {u, v, w, o}
      BY <1>4
    <3>2. Lengths \cap Angles = {}
      BY DEF Lengths, Angles
    <3> QED BY <3>1, <3>2
  <2>2. (Lengths \ {u}) \cup {o} = vwo
    BY <1>3 DEF vwo
  <2>3. \A n : CellMoves(ph, n) = IF Term[u] = n THEN {u} ELSE vwo
    BY <2>1, <2>2 DEF CellMoves
  <2>4. \A k \in vwo : Term[k] # Term[u]
    BY <1>1, <1>8
  <2> QED BY <2>3, <2>4
<1>10. ASSUME NEW g \in CellTies(ph)
       PROVE  /\ g # {} /\ g \subseteq Lengths \cup Angles
              /\ CellOn(ph, F) /\ Term[FirstOf(g)] \notin HeldTerms(ph, F) <=> g \subseteq F
              /\ g \subseteq F => g \subseteq CellMoves(ph, Term[FirstOf(g)])
                                  /\ CellMoves(ph, Term[FirstOf(g)]) \subseteq F
  <2>1. PICK k \in {u, v, w, o} : g = {k}
    BY <1>4
  <2>2. Term[FirstOf(g)] = Term[k]
    BY <1>2, <2>1
  <2>3. CASE k = u
    BY <1>6, <1>7, <1>9, <2>1, <2>2, <2>3 DEF Clear
  <2>4. CASE k \in vwo
    <3>1. Term[k] \in S /\ Term[k] # Term[u] /\ k \in Lengths \cup Angles
      BY <1>1, <1>8, <2>4
    <3>2. k \in F <=> ~ Clear(vwo, F)
      BY <1>6, <2>4 DEF Clear
    <3>3. CellOn(ph, F) /\ Term[k] \notin HeldTerms(ph, F) <=> ~ Clear(vwo, F)
      BY <1>7, <3>1 DEF Clear
    <3>4. k \in F => CellMoves(ph, Term[k]) = vwo /\ vwo \subseteq F
      BY <1>6, <1>9, <2>4 DEF Clear
    <3> QED BY <2>1, <2>2, <2>4, <3>1, <3>2, <3>3, <3>4
  <2> QED BY <2>1, <2>3, <2>4 DEF vwo
<1>11. ASSUME NEW g \in CellTies(ph), NEW h \in CellTies(ph)
       PROVE  /\ Term[FirstOf(g)] = Term[FirstOf(h)] => g = h
              /\ g \cap h # {} => g = h
  <2>1. PICK k \in {u, v, w, o} : g = {k}
    BY <1>4
  <2>2. PICK l \in {u, v, w, o} : h = {l}
    BY <1>4
  <2> QED BY <1>1, <1>2, <2>1, <2>2
<1> QED BY <1>10, <1>11 DEF CellAgrees

LEMMA MonoclinicCell ==
  ASSUME NEW ph, NEW F, ph.laue = "2/m", ph.uniq \in Lengths, CellFlags(ph, F)
  PROVE  CellAgrees(ph, F)
<1>1. CellDofGroups(ph) = MonoclinicGroups(ph.uniq)
  BY DEF CellDofGroups, Rhombohedral
<1>3. AngleOf["a"] = "alpha" /\ AngleOf["b"] = "beta" /\ AngleOf["c"] = "gamma"
  BY DEF AngleOf
<1>4. CASE ph.uniq = "a"
  <2>1. Dof(ph, {"a"}, {Term["a"]}, {"b", "c", "alpha"}, {1, 2, 5}, {"b", "c", "alpha"}, {1, 2, 5})
    BY <1>1, <1>4 DEF MonoclinicGroups, Dof, Term
  <2>2. Term["a"] \notin {1, 2, 5} /\ \A k \in {"b", "c", "alpha"} : Term[k] \in {1, 2, 5}
    BY DEF Term
  <2> QED BY <1>3, <1>4, <2>1, <2>2, MonoclinicAxis DEF Lengths, Angles
<1>5. CASE ph.uniq = "b"
  <2>1. Dof(ph, {"b"}, {Term["b"]}, {"a", "c", "beta"}, {0, 2, 4}, {"a", "c", "beta"}, {0, 2, 4})
    BY <1>1, <1>5 DEF MonoclinicGroups, Dof, Term
  <2>2. Term["b"] \notin {0, 2, 4} /\ \A k \in {"a", "c", "beta"} : Term[k] \in {0, 2, 4}
    BY DEF Term
  <2> QED BY <1>3, <1>5, <2>1, <2>2, MonoclinicAxis DEF Lengths, Angles
<1>6. CASE ph.uniq = "c"
  <2>1. Dof(ph, {"c"}, {Term["c"]}, {"a", "b", "gamma"}, {0, 1, 3}, {"a", "b", "gamma"}, {0, 1, 3})
    BY <1>1, <1>6 DEF MonoclinicGroups, Dof, Term
  <2>2. Term["c"] \notin {0, 1, 3} /\ \A k \in {"a", "b", "gamma"} : Term[k] \in {0, 1, 3}
    BY DEF Term
  <2> QED BY <1>3, <1>6, <2>1, <2>2, MonoclinicAxis DEF Lengths, Angles
<1> QED BY <1>4, <1>5, <1>6 DEF Lengths

(* The cell of a phase: what the flag of the whole cell varies, less what   *)
(* is held, is what the recipe flags.                                      *)
LEMMA CellFacts ==
  ASSUME NEW ph, NEW F, ph.laue \in LaueClasses, ph.laue = "2/m" => ph.uniq \in Lengths, CellFlags(ph, F)
  PROVE  CellAgrees(ph, F)
  BY CubicCell, RhombohedralCell, UniaxialCell, OrthorhombicCell, MonoclinicCell, TriclinicCell DEF LaueClasses
------------------------------------------------------------------------------
(* Groups of equal positive ids.                                           *)
LEMMA MinIn ==
  ASSUME NEW S \in SUBSET (1 .. 6), S # {}
  PROVE  Min(S) \in S
<1>1. \E x \in S : \A y \in S : x <= y
  <2>1. CASE 1 \in S
    BY <2>1
  <2>2. CASE 1 \notin S /\ 2 \in S
    BY <2>2
  <2>3. CASE 1 \notin S /\ 2 \notin S /\ 3 \in S
    BY <2>3
  <2>4. CASE 1 \notin S /\ 2 \notin S /\ 3 \notin S /\ 4 \in S
    BY <2>4
  <2>5. CASE 1 \notin S /\ 2 \notin S /\ 3 \notin S /\ 4 \notin S /\ 5 \in S
    BY <2>5
  <2>6. CASE 1 \notin S /\ 2 \notin S /\ 3 \notin S /\ 4 \notin S /\ 5 \notin S
    <3>1. \A y \in S : y = 6
      BY <2>6
    <3>2. 6 \in S
      BY <3>1
    <3> QED BY <3>1, <3>2
  <2> QED BY <2>1, <2>2, <2>3, <2>4, <2>5, <2>6
<1> QED BY <1>1 DEF Min

LEMMA GroupFacts ==
  ASSUME NEW n \in {3, 6}, NEW ids \in [1 .. n -> Nat]
  PROVE  /\ \A g \in FreeGroups(ids) : g # {} /\ g \subseteq 1 .. n /\ Min(g) \in g
         /\ \A g, h \in FreeGroups(ids) : g \cap h # {} => g = h
<1>1. ASSUME NEW g \in FreeGroups(ids)
      PROVE  \E id : g = {i \in 1 .. n : ids[i] = id} /\ g # {}
  BY <1>1 DEF FreeGroups
<1>2. ASSUME NEW g \in FreeGroups(ids)
      PROVE  g # {} /\ g \subseteq 1 .. n /\ Min(g) \in g
  <2>1. g # {} /\ g \subseteq 1 .. n
    BY <1>1
  <2>2. g \in SUBSET (1 .. 6)
    BY <2>1
  <2> QED BY <2>1, <2>2, MinIn
<1>3. ASSUME NEW g \in FreeGroups(ids), NEW h \in FreeGroups(ids), g \cap h # {}
      PROVE  g = h
  BY <1>1, <1>3
<1> QED BY <1>2, <1>3

LEMMA NamesDistinct ==
  /\ \A i, j \in 1 .. 3 : Coordinates[i] = Coordinates[j] \/ Shifts[i] = Shifts[j] => i = j
  /\ \A i, j \in 1 .. 6 : Displacements[i] = Displacements[j] \/ AniUs[i] = AniUs[j] => i = j
  /\ \A i \in 1 .. 3 : \A j \in 1 .. 6 : Coordinates[i] # Displacements[j] /\ Shifts[i] # AniUs[j]
  /\ \A i \in 1 .. 3 : /\ Coordinates[i] \notin {"occupancy", "Uiso"}
                       /\ Shifts[i] \notin {"Afrac", "AUiso"}
  /\ \A j \in 1 .. 6 : /\ Displacements[j] \notin {"occupancy", "Uiso"}
                       /\ AniUs[j] \notin {"Afrac", "AUiso"}
<1>1. /\ Coordinates[1] = "x" /\ Coordinates[2] = "y" /\ Coordinates[3] = "z"
      /\ Shifts[1] = "dAx" /\ Shifts[2] = "dAy" /\ Shifts[3] = "dAz"
  BY DEF Coordinates, Shifts
<1>2. /\ Displacements[1] = "U11" /\ Displacements[2] = "U22" /\ Displacements[3] = "U33"
      /\ Displacements[4] = "U12" /\ Displacements[5] = "U13" /\ Displacements[6] = "U23"
      /\ AniUs[1] = "AU11" /\ AniUs[2] = "AU22" /\ AniUs[3] = "AU33"
      /\ AniUs[4] = "AU12" /\ AniUs[5] = "AU13" /\ AniUs[6] = "AU23"
  BY DEF Displacements, AniUs
<1>3. \A i \in 1 .. 3 : i = 1 \/ i = 2 \/ i = 3
  OBVIOUS
<1>4. \A i \in 1 .. 6 : i = 1 \/ i = 2 \/ i = 3 \/ i = 4 \/ i = 5 \/ i = 6
  OBVIOUS
<1> HIDE DEF Coordinates, Shifts, Displacements, AniUs
<1>5. \A i, j \in 1 .. 3 : Coordinates[i] = Coordinates[j] \/ Shifts[i] = Shifts[j] => i = j
  BY <1>1, <1>3
<1>6. \A i, j \in 1 .. 6 : Displacements[i] = Displacements[j] \/ AniUs[i] = AniUs[j] => i = j
  BY <1>2, <1>4
<1>7. \A i \in 1 .. 3 : \A j \in 1 .. 6 : Coordinates[i] # Displacements[j] /\ Shifts[i] # AniUs[j]
  BY <1>1, <1>2, <1>3, <1>4
<1>8. \A i \in 1 .. 3 : /\ Coordinates[i] \notin {"occupancy", "Uiso"}
                        /\ Shifts[i] \notin {"Afrac", "AUiso"}
  BY <1>1, <1>3
<1>9. \A j \in 1 .. 6 : /\ Displacements[j] \notin {"occupancy", "Uiso"}
                        /\ AniUs[j] \notin {"Afrac", "AUiso"}
  BY <1>2, <1>4
<1> QED BY <1>5, <1>6, <1>7, <1>8, <1>9

(* A variable of an atom and the parameters tied to it.                    *)
AtomDrives(at, name, ms) ==
    \/ name = "Afrac" /\ ms = {"occupancy"}
    \/ at.adp # "Uaniso" /\ name = "AUiso" /\ ms = {"Uiso"}
    \/ \E g \in FreeGroups(at.ids) : name = Shifts[Min(g)] /\ ms = {Coordinates[i] : i \in g}
    \/ /\ at.adp = "Uaniso"
       /\ \E g \in FreeGroups(at.uids) : name = AniUs[Min(g)] /\ ms = {Displacements[i] : i \in g}

LEMMA AtomDetermined ==
  ASSUME NEW at \in AtomBlock, NEW n1, NEW n2, NEW m1, NEW m2,
         AtomDrives(at, n1, m1), AtomDrives(at, n2, m2), n1 = n2 \/ m1 \cap m2 # {}
  PROVE  n1 = n2 /\ m1 = m2
<1>1. /\ \A g \in FreeGroups(at.ids) : g \subseteq 1 .. 3 /\ Min(g) \in g
      /\ \A g, h \in FreeGroups(at.ids) : g \cap h # {} => g = h
  BY GroupFacts DEF AtomBlock
<1>2. /\ \A g \in FreeGroups(at.uids) : g \subseteq 1 .. 6 /\ Min(g) \in g
      /\ \A g, h \in FreeGroups(at.uids) : g \cap h # {} => g = h
  BY GroupFacts DEF AtomBlock
<1>3. CASE n1 = "Afrac" /\ m1 = {"occupancy"}
  BY <1>1, <1>2, <1>3, NamesDistinct DEF AtomDrives
<1>4. CASE at.adp # "Uaniso" /\ n1 = "AUiso" /\ m1 = {"Uiso"}
  BY <1>1, <1>2, <1>4, NamesDistinct DEF AtomDrives
<1>5. ASSUME NEW g \in FreeGroups(at.ids), n1 = Shifts[Min(g)], m1 = {Coordinates[i] : i \in g}
      PROVE  n1 = n2 /\ m1 = m2
  <2>1. PICK h \in FreeGroups(at.ids) : n2 = Shifts[Min(h)] /\ m2 = {Coordinates[i] : i \in h}
    BY <1>1, <1>2, <1>5, NamesDistinct DEF AtomDrives
  <2>2. g \cap h # {}
    BY <1>1, <1>5, <2>1, NamesDistinct
  <2> QED BY <1>1, <1>5, <2>1, <2>2
<1>6. ASSUME NEW g \in FreeGroups(at.uids), at.adp = "Uaniso", n1 = AniUs[Min(g)],
             m1 = {Displacements[i] : i \in g}
      PROVE  n1 = n2 /\ m1 = m2
  <2>1. PICK h \in FreeGroups(at.uids) : n2 = AniUs[Min(h)] /\ m2 = {Displacements[i] : i \in h}
    BY <1>1, <1>2, <1>6, NamesDistinct DEF AtomDrives
  <2>2. g \cap h # {}
    BY <1>2, <1>6, <2>1, NamesDistinct
  <2> QED BY <1>2, <1>6, <2>1, <2>2
<1> QED BY <1>3, <1>4, <1>5, <1>6 DEF AtomDrives
------------------------------------------------------------------------------
(* A GSAS-II variable v and the tie t of the recipe that it stands for.    *)
DrivesInst(v, t) == \E k \in Instrument : v = <<Histogram, "inst", k, None>> /\ t = {InstrumentLeaf(k)}
DrivesBack(v, t) ==
    \E i \in 0 .. recipe.coefficients - 1 : v = <<Histogram, "Back", "term", i>> /\ t = {CoefficientLeaf(i)}
DrivesBkPk(v, t) ==
    \E k \in PeakLists, i \in 0 .. recipe.bkPeaks - 1 :
      v = <<Histogram, "BkPk", k, i>> /\ t = {PeakLeaf("background", k, i)}
DrivesPeak(v, t) ==
    \E k \in PeakLists, i \in 0 .. recipe.peaks - 1 :
      v = <<Histogram, "peak", k, i>> /\ t = {PeakLeaf("single_peaks", k, i)}
DrivesHap(v, t) ==
    \E i \in 1 .. Total : \E k \in PhaseLeaves :
      v = <<i - 1, "hap", k, None>> /\ t = {PhaseLeaf(recipe.phases[i], k)}
DrivesCell(v, t) ==
    \E i \in 1 .. Total : \E g \in CellTies(recipe.phases[i]) :
      v = <<i - 1, "A", "term", Term[FirstOf(g)]>> /\ t = {CellLeaf(recipe.phases[i], k) : k \in g}
DrivesAtom(v, t) ==
    \E i \in 1 .. Total : \E a \in DOMAIN recipe.phases[i].atoms : \E name, ms :
      /\ AtomDrives(recipe.phases[i].atoms[a], name, ms)
      /\ v = <<i - 1, "atom", name, a - 1>>
      /\ t = {AtomLeaf(recipe.phases[i], recipe.phases[i].atoms[a], m) : m \in ms}

Drives(v, t) ==
    \/ DrivesInst(v, t) \/ DrivesBack(v, t) \/ DrivesBkPk(v, t) \/ DrivesPeak(v, t)
    \/ DrivesHap(v, t) \/ DrivesCell(v, t) \/ DrivesAtom(v, t)

LEMMA KindOfVariable ==
  ASSUME NEW v, NEW t
  PROVE  /\ DrivesInst(v, t) => v[2] = "inst"
         /\ DrivesBack(v, t) => v[2] = "Back"
         /\ DrivesBkPk(v, t) => v[2] = "BkPk"
         /\ DrivesPeak(v, t) => v[2] = "peak"
         /\ DrivesHap(v, t) => v[2] = "hap"
         /\ DrivesCell(v, t) => v[2] = "A"
         /\ DrivesAtom(v, t) => v[2] = "atom"
<1>1. DrivesInst(v, t) => v[2] = "inst"
  BY DEF DrivesInst
<1>2. DrivesBack(v, t) => v[2] = "Back"
  BY DEF DrivesBack
<1>3. DrivesBkPk(v, t) => v[2] = "BkPk"
  BY DEF DrivesBkPk
<1>4. DrivesPeak(v, t) => v[2] = "peak"
  BY DEF DrivesPeak
<1>5. DrivesHap(v, t) => v[2] = "hap"
  BY DEF DrivesHap
<1>6. DrivesCell(v, t) => v[2] = "A"
  BY DEF DrivesCell
<1>7. DrivesAtom(v, t) => v[2] = "atom"
  BY DEF DrivesAtom
<1> QED BY <1>1, <1>2, <1>3, <1>4, <1>5, <1>6, <1>7

LEMMA KindOfLeaf ==
  ASSUME NEW v, NEW t, NEW x \in t
  PROVE  /\ DrivesInst(v, t) => x[2] = "instrument"
         /\ DrivesBack(v, t) => x[2] = "background" /\ x[3] = "coefficients"
         /\ DrivesBkPk(v, t) => x[2] = "background" /\ x[3] \in PeakLists
         /\ DrivesPeak(v, t) => x[2] = "single_peaks"
         /\ DrivesHap(v, t) => x[2] = "phase"
         /\ DrivesCell(v, t) => x[2] = "unit_cell"
         /\ DrivesAtom(v, t) => x[2] = "atoms"
<1>1. DrivesInst(v, t) => x[2] = "instrument"
  BY DEF DrivesInst, InstrumentLeaf
<1>2. DrivesBack(v, t) => x[2] = "background" /\ x[3] = "coefficients"
  BY DEF DrivesBack, CoefficientLeaf
<1>3. DrivesBkPk(v, t) => x[2] = "background" /\ x[3] \in PeakLists
  BY DEF DrivesBkPk, PeakLeaf
<1>4. DrivesPeak(v, t) => x[2] = "single_peaks"
  BY DEF DrivesPeak, PeakLeaf
<1>5. DrivesHap(v, t) => x[2] = "phase"
  BY DEF DrivesHap, PhaseLeaf
<1>6. DrivesCell(v, t) => x[2] = "unit_cell"
  BY DEF DrivesCell, CellLeaf
<1>7. DrivesAtom(v, t) => x[2] = "atoms"
  BY DEF DrivesAtom, AtomLeaf
<1> QED BY <1>1, <1>2, <1>3, <1>4, <1>5, <1>6, <1>7
------------------------------------------------------------------------------
(* Ties of one kind are told apart by any leaf, and by their variables.    *)
LEMMA InstApart ==
  ASSUME NEW v1, NEW t1, NEW v2, NEW t2, DrivesInst(v1, t1), DrivesInst(v2, t2), v1 = v2 \/ t1 \cap t2 # {}
  PROVE  v1 = v2 /\ t1 = t2
  BY DEF DrivesInst, InstrumentLeaf

LEMMA BackApart ==
  ASSUME NEW v1, NEW t1, NEW v2, NEW t2, DrivesBack(v1, t1), DrivesBack(v2, t2), v1 = v2 \/ t1 \cap t2 # {}
  PROVE  v1 = v2 /\ t1 = t2
  BY DEF DrivesBack, CoefficientLeaf

LEMMA BkPkApart ==
  ASSUME NEW v1, NEW t1, NEW v2, NEW t2, DrivesBkPk(v1, t1), DrivesBkPk(v2, t2), v1 = v2 \/ t1 \cap t2 # {}
  PROVE  v1 = v2 /\ t1 = t2
  BY DEF DrivesBkPk, PeakLeaf

LEMMA PeakApart ==
  ASSUME NEW v1, NEW t1, NEW v2, NEW t2, DrivesPeak(v1, t1), DrivesPeak(v2, t2), v1 = v2 \/ t1 \cap t2 # {}
  PROVE  v1 = v2 /\ t1 = t2
  BY DEF DrivesPeak, PeakLeaf

LEMMA HapApart ==
  ASSUME RecipeOK,
         NEW v1, NEW t1, NEW v2, NEW t2, DrivesHap(v1, t1), DrivesHap(v2, t2), v1 = v2 \/ t1 \cap t2 # {}
  PROVE  v1 = v2 /\ t1 = t2
<1>1. PICK i \in 1 .. Total, k \in PhaseLeaves : v1 = <<i - 1, "hap", k, None>> /\ t1 = {PhaseLeaf(recipe.phases[i], k)}
  BY DEF DrivesHap
<1>2. PICK j \in 1 .. Total, l \in PhaseLeaves : v2 = <<j - 1, "hap", l, None>> /\ t2 = {PhaseLeaf(recipe.phases[j], l)}
  BY DEF DrivesHap
<1>3. Total \in Nat /\ (recipe.phases[i].name = recipe.phases[j].name => i = j)
  BY RecipeTyped
<1>4. i = j /\ k = l
  BY <1>1, <1>2, <1>3 DEF PhaseLeaf
<1> QED BY <1>1, <1>2, <1>4

(* The flagged parameters of the cell of a phase. *)
CellAsked(ph) == {k \in Lengths \cup Angles : Flagged(CellLeaf(ph, k))}

LEMMA CellApart ==
  ASSUME RecipeOK, \A i \in 1 .. Total : CellAgrees(recipe.phases[i], CellAsked(recipe.phases[i])),
         NEW v1, NEW t1, NEW v2, NEW t2, DrivesCell(v1, t1), DrivesCell(v2, t2), v1 = v2 \/ t1 \cap t2 # {}
  PROVE  v1 = v2 /\ t1 = t2
<1>1. PICK i \in 1 .. Total : \E g \in CellTies(recipe.phases[i]) :
        v1 = <<i - 1, "A", "term", Term[FirstOf(g)]>> /\ t1 = {CellLeaf(recipe.phases[i], k) : k \in g}
  BY DEF DrivesCell
<1>2. PICK j \in 1 .. Total : \E h \in CellTies(recipe.phases[j]) :
        v2 = <<j - 1, "A", "term", Term[FirstOf(h)]>> /\ t2 = {CellLeaf(recipe.phases[j], k) : k \in h}
  BY DEF DrivesCell
<1>3. PICK g \in CellTies(recipe.phases[i]) :
        v1 = <<i - 1, "A", "term", Term[FirstOf(g)]>> /\ t1 = {CellLeaf(recipe.phases[i], k) : k \in g}
  BY <1>1
<1>4. PICK h \in CellTies(recipe.phases[j]) :
        v2 = <<j - 1, "A", "term", Term[FirstOf(h)]>> /\ t2 = {CellLeaf(recipe.phases[j], k) : k \in h}
  BY <1>2
<1>5. Total \in Nat /\ (recipe.phases[i].name = recipe.phases[j].name => i = j)
  BY RecipeTyped
<1>6. i = j /\ (Term[FirstOf(g)] = Term[FirstOf(h)] \/ g \cap h # {})
  <2>1. CASE v1 = v2
    BY <1>3, <1>4, <1>5, <2>1
  <2>2. CASE t1 \cap t2 # {}
    <3>1. PICK k \in g, l \in h : CellLeaf(recipe.phases[i], k) = CellLeaf(recipe.phases[j], l)
      BY <1>3, <1>4, <2>2
    <3>2. recipe.phases[i].name = recipe.phases[j].name /\ k = l
      BY <3>1 DEF CellLeaf
    <3> QED BY <1>5, <3>2
  <2> QED BY <2>1, <2>2
<1>7. g = h
  BY <1>6 DEF CellAgrees
<1> QED BY <1>3, <1>4, <1>6, <1>7

LEMMA AtomApart ==
  ASSUME RecipeOK,
         NEW v1, NEW t1, NEW v2, NEW t2, DrivesAtom(v1, t1), DrivesAtom(v2, t2), v1 = v2 \/ t1 \cap t2 # {}
  PROVE  v1 = v2 /\ t1 = t2
<1>1. PICK i \in 1 .. Total : \E a \in DOMAIN recipe.phases[i].atoms : \E name, ms :
        /\ AtomDrives(recipe.phases[i].atoms[a], name, ms)
        /\ v1 = <<i - 1, "atom", name, a - 1>>
        /\ t1 = {AtomLeaf(recipe.phases[i], recipe.phases[i].atoms[a], m) : m \in ms}
  BY DEF DrivesAtom
<1>2. PICK j \in 1 .. Total : \E a \in DOMAIN recipe.phases[j].atoms : \E name, ms :
        /\ AtomDrives(recipe.phases[j].atoms[a], name, ms)
        /\ v2 = <<j - 1, "atom", name, a - 1>>
        /\ t2 = {AtomLeaf(recipe.phases[j], recipe.phases[j].atoms[a], m) : m \in ms}
  BY DEF DrivesAtom
<1>9. PICK a \in DOMAIN recipe.phases[i].atoms : \E name1, ms1 :
        /\ AtomDrives(recipe.phases[i].atoms[a], name1, ms1)
        /\ v1 = <<i - 1, "atom", name1, a - 1>>
        /\ t1 = {AtomLeaf(recipe.phases[i], recipe.phases[i].atoms[a], m) : m \in ms1}
  BY <1>1
<1>3. PICK name1, ms1 :
        /\ AtomDrives(recipe.phases[i].atoms[a], name1, ms1)
        /\ v1 = <<i - 1, "atom", name1, a - 1>>
        /\ t1 = {AtomLeaf(recipe.phases[i], recipe.phases[i].atoms[a], m) : m \in ms1}
  BY <1>9
<1>10. PICK b \in DOMAIN recipe.phases[j].atoms : \E name2, ms2 :
        /\ AtomDrives(recipe.phases[j].atoms[b], name2, ms2)
        /\ v2 = <<j - 1, "atom", name2, b - 1>>
        /\ t2 = {AtomLeaf(recipe.phases[j], recipe.phases[j].atoms[b], m) : m \in ms2}
  BY <1>2
<1>4. PICK name2, ms2 :
        /\ AtomDrives(recipe.phases[j].atoms[b], name2, ms2)
        /\ v2 = <<j - 1, "atom", name2, b - 1>>
        /\ t2 = {AtomLeaf(recipe.phases[j], recipe.phases[j].atoms[b], m) : m \in ms2}
  BY <1>10
<1>5. /\ Total \in Nat /\ (recipe.phases[i].name = recipe.phases[j].name => i = j)
      /\ recipe.phases[i] \in PhaseBlock /\ recipe.phases[j] \in PhaseBlock
      /\ i = j => (recipe.phases[i].atoms[a].label = recipe.phases[j].atoms[b].label => a = b)
  BY RecipeTyped
<1>6. /\ a \in Nat /\ b \in Nat /\ recipe.phases[i].atoms[a] \in AtomBlock
  BY <1>5 DEF PhaseBlock
<1>7. i = j /\ a = b /\ (name1 = name2 \/ ms1 \cap ms2 # {})
  <2>1. CASE v1 = v2
    BY <1>3, <1>4, <1>5, <1>6, <2>1
  <2>2. CASE t1 \cap t2 # {}
    <3>1. PICK k \in ms1, l \in ms2 : AtomLeaf(recipe.phases[i], recipe.phases[i].atoms[a], k)
                                        = AtomLeaf(recipe.phases[j], recipe.phases[j].atoms[b], l)
      BY <1>3, <1>4, <2>2
    <3>2. /\ recipe.phases[i].name = recipe.phases[j].name /\ k = l
          /\ recipe.phases[i].atoms[a].label = recipe.phases[j].atoms[b].label
      BY <3>1 DEF AtomLeaf
    <3> QED BY <1>5, <3>2
  <2> QED BY <2>1, <2>2
<1>8. name1 = name2 /\ ms1 = ms2
  BY <1>3, <1>4, <1>6, <1>7, AtomDetermined
<1> QED BY <1>3, <1>4, <1>7, <1>8
------------------------------------------------------------------------------
LEMMA AtomTie ==
  ASSUME NEW ph, NEW at, NEW t
  PROVE  t \in AtomTies(ph, at) <=> \E name, ms : AtomDrives(at, name, ms) /\ t = {AtomLeaf(ph, at, m) : m \in ms}
<1>1. ASSUME t \in AtomTies(ph, at)
      PROVE  \E name, ms : AtomDrives(at, name, ms) /\ t = {AtomLeaf(ph, at, m) : m \in ms}
  <2>1. ASSUME NEW g \in FreeGroups(at.ids), t = {AtomLeaf(ph, at, Coordinates[i]) : i \in g}
        PROVE  \E name, ms : AtomDrives(at, name, ms) /\ t = {AtomLeaf(ph, at, m) : m \in ms}
    <3>1. AtomDrives(at, Shifts[Min(g)], {Coordinates[i] : i \in g})
      BY DEF AtomDrives
    <3>2. t = {AtomLeaf(ph, at, m) : m \in {Coordinates[i] : i \in g}}
      BY <2>1
    <3> QED BY <3>1, <3>2
  <2>2. ASSUME NEW g \in FreeGroups(at.uids), at.adp = "Uaniso", t = {AtomLeaf(ph, at, Displacements[i]) : i \in g}
        PROVE  \E name, ms : AtomDrives(at, name, ms) /\ t = {AtomLeaf(ph, at, m) : m \in ms}
    <3>1. AtomDrives(at, AniUs[Min(g)], {Displacements[i] : i \in g})
      BY <2>2 DEF AtomDrives
    <3>2. t = {AtomLeaf(ph, at, m) : m \in {Displacements[i] : i \in g}}
      BY <2>2
    <3> QED BY <3>1, <3>2
  <2>3. ASSUME at.adp # "Uaniso", t = {AtomLeaf(ph, at, "Uiso")}
        PROVE  \E name, ms : AtomDrives(at, name, ms) /\ t = {AtomLeaf(ph, at, m) : m \in ms}
    <3>1. AtomDrives(at, "AUiso", {"Uiso"}) /\ t = {AtomLeaf(ph, at, m) : m \in {"Uiso"}}
      BY <2>3 DEF AtomDrives
    <3> QED BY <3>1
  <2>4. ASSUME t = {AtomLeaf(ph, at, "occupancy")}
        PROVE  \E name, ms : AtomDrives(at, name, ms) /\ t = {AtomLeaf(ph, at, m) : m \in ms}
    <3>1. AtomDrives(at, "Afrac", {"occupancy"}) /\ t = {AtomLeaf(ph, at, m) : m \in {"occupancy"}}
      BY <2>4 DEF AtomDrives
    <3> QED BY <3>1
  <2> QED BY <1>1, <2>1, <2>2, <2>3, <2>4 DEF AtomTies
<1>2. ASSUME NEW name, NEW ms, AtomDrives(at, name, ms), t = {AtomLeaf(ph, at, m) : m \in ms}
      PROVE  t \in AtomTies(ph, at)
  <2>1. ASSUME NEW g \in FreeGroups(at.ids), ms = {Coordinates[i] : i \in g}
        PROVE  t \in AtomTies(ph, at)
    <3>1. t = {AtomLeaf(ph, at, Coordinates[i]) : i \in g}
      BY <1>2, <2>1
    <3> QED BY <3>1 DEF AtomTies
  <2>2. ASSUME NEW g \in FreeGroups(at.uids), at.adp = "Uaniso", ms = {Displacements[i] : i \in g}
        PROVE  t \in AtomTies(ph, at)
    <3>1. t = {AtomLeaf(ph, at, Displacements[i]) : i \in g}
      BY <1>2, <2>2
    <3> QED BY <2>2, <3>1 DEF AtomTies
  <2>3. ASSUME at.adp # "Uaniso", ms = {"Uiso"}
        PROVE  t \in AtomTies(ph, at)
    <3>1. t = {AtomLeaf(ph, at, "Uiso")}
      BY <1>2, <2>3
    <3> QED BY <2>3, <3>1 DEF AtomTies
  <2>4. ASSUME ms = {"occupancy"}
        PROVE  t \in AtomTies(ph, at)
    <3>1. t = {AtomLeaf(ph, at, "occupancy")}
      BY <1>2, <2>4
    <3> QED BY <3>1 DEF AtomTies
  <2> QED BY <1>2, <2>1, <2>2, <2>3, <2>4 DEF AtomDrives
<1> QED BY <1>1, <1>2

(* The ties of a recipe are those the variables stand for.                 *)
LEMMA TieOfVariable ==
  ASSUME RecipeOK, NEW t
  PROVE  t \in Ties(recipe) <=> \E v : Drives(v, t)
<1>1. /\ DOMAIN recipe.phases = 1 .. Total
      /\ ToSet(recipe.phases) = {recipe.phases[i] : i \in 1 .. Total}
  BY RecipeTyped DEF ToSet
<1>2. t \in Ties(recipe) <=>
        \/ \E i \in 1 .. Total : t \in PhaseTies(recipe.phases[i])
        \/ \E k \in Instrument : t = {InstrumentLeaf(k)}
        \/ \E i \in 0 .. recipe.coefficients - 1 : t = {CoefficientLeaf(i)}
        \/ \E k \in PeakLists, i \in 0 .. recipe.bkPeaks - 1 : t = {PeakLeaf("background", k, i)}
        \/ \E k \in PeakLists, i \in 0 .. recipe.peaks - 1 : t = {PeakLeaf("single_peaks", k, i)}
  <2> DEFINE A == UNION {PhaseTies(ph) : ph \in ToSet(recipe.phases)}
             B == {{InstrumentLeaf(k)} : k \in Instrument}
             C == {{CoefficientLeaf(i)} : i \in 0 .. recipe.coefficients - 1}
             D == {{PeakLeaf("background", k, i)} : k \in PeakLists, i \in 0 .. recipe.bkPeaks - 1}
             E == {{PeakLeaf("single_peaks", k, i)} : k \in PeakLists, i \in 0 .. recipe.peaks - 1}
  <2>1. Ties(recipe) = A \cup B \cup C \cup D \cup E
    BY DEF Ties
  <2>2. t \in A <=> \E i \in 1 .. Total : t \in PhaseTies(recipe.phases[i])
    BY <1>1
  <2>3. t \in B <=> \E k \in Instrument : t = {InstrumentLeaf(k)}
    OBVIOUS
  <2>4. t \in C <=> \E i \in 0 .. recipe.coefficients - 1 : t = {CoefficientLeaf(i)}
    OBVIOUS
  <2>5. t \in D <=> \E k \in PeakLists, i \in 0 .. recipe.bkPeaks - 1 : t = {PeakLeaf("background", k, i)}
    OBVIOUS
  <2>6. t \in E <=> \E k \in PeakLists, i \in 0 .. recipe.peaks - 1 : t = {PeakLeaf("single_peaks", k, i)}
    OBVIOUS
  <2> HIDE DEF A, B, C, D, E
  <2> QED BY <2>1, <2>2, <2>3, <2>4, <2>5, <2>6
<1>3. \A ph : t \in PhaseTies(ph) <=>
        \/ \E g \in CellTies(ph) : t = {CellLeaf(ph, k) : k \in g}
        \/ \E k \in PhaseLeaves : t = {PhaseLeaf(ph, k)}
        \/ \E a \in DOMAIN ph.atoms : t \in AtomTies(ph, ph.atoms[a])
  BY DEF PhaseTies, ToSet
<1>4. (\E v : DrivesInst(v, t)) <=> \E k \in Instrument : t = {InstrumentLeaf(k)}
  BY DEF DrivesInst
<1>5. (\E v : DrivesBack(v, t)) <=> \E i \in 0 .. recipe.coefficients - 1 : t = {CoefficientLeaf(i)}
  BY DEF DrivesBack
<1>6. (\E v : DrivesBkPk(v, t)) <=>
        \E k \in PeakLists, i \in 0 .. recipe.bkPeaks - 1 : t = {PeakLeaf("background", k, i)}
  BY DEF DrivesBkPk
<1>7. (\E v : DrivesPeak(v, t)) <=>
        \E k \in PeakLists, i \in 0 .. recipe.peaks - 1 : t = {PeakLeaf("single_peaks", k, i)}
  BY DEF DrivesPeak
<1>8. (\E v : DrivesHap(v, t)) <=>
        \E i \in 1 .. Total : \E k \in PhaseLeaves : t = {PhaseLeaf(recipe.phases[i], k)}
  BY DEF DrivesHap
<1>9. (\E v : DrivesCell(v, t)) <=>
        \E i \in 1 .. Total : \E g \in CellTies(recipe.phases[i]) : t = {CellLeaf(recipe.phases[i], k) : k \in g}
  BY DEF DrivesCell
<1>10. (\E v : DrivesAtom(v, t)) <=>
        \E i \in 1 .. Total : \E a \in DOMAIN recipe.phases[i].atoms :
          t \in AtomTies(recipe.phases[i], recipe.phases[i].atoms[a])
  <2>1. ASSUME NEW i \in 1 .. Total, NEW a \in DOMAIN recipe.phases[i].atoms
        PROVE  t \in AtomTies(recipe.phases[i], recipe.phases[i].atoms[a]) <=>
                 \E name, ms :
                   /\ AtomDrives(recipe.phases[i].atoms[a], name, ms)
                   /\ t = {AtomLeaf(recipe.phases[i], recipe.phases[i].atoms[a], m) : m \in ms}
    BY AtomTie
  <2>2. (\E v : DrivesAtom(v, t)) <=>
          \E i \in 1 .. Total : \E a \in DOMAIN recipe.phases[i].atoms : \E name, ms :
            /\ AtomDrives(recipe.phases[i].atoms[a], name, ms)
            /\ t = {AtomLeaf(recipe.phases[i], recipe.phases[i].atoms[a], m) : m \in ms}
    BY Zenon DEF DrivesAtom
  <2> QED BY Zenon, <2>1, <2>2
<1> QED BY <1>2, <1>3, <1>4, <1>5, <1>6, <1>7, <1>8, <1>9, <1>10 DEF Drives

LEMMA CellsAgree ==
  ASSUME RecipeOK, NEW i \in 1 .. Total
  PROVE  CellAgrees(recipe.phases[i], CellAsked(recipe.phases[i]))
<1> DEFINE ph == recipe.phases[i]
           F == CellAsked(ph)
<1>1. ph \in ToSet(recipe.phases) /\ ph.laue \in LaueClasses /\ (ph.laue = "2/m" => ph.uniq \in Lengths)
  BY RecipeTyped DEF PhaseBlock
<1>2. \A g \in CellTies(ph) : {CellLeaf(ph, k) : k \in g} \in Ties(recipe)
  <2> SUFFICES ASSUME NEW g \in CellTies(ph) PROVE {CellLeaf(ph, k) : k \in g} \in Ties(recipe)
    OBVIOUS
  <2>1. DrivesCell(<<i - 1, "A", "term", Term[FirstOf(g)]>>, {CellLeaf(ph, k) : k \in g})
    BY DEF DrivesCell
  <2> QED BY <2>1, TieOfVariable DEF Drives
<1>3. CellTies(ph) \subseteq SUBSET (Lengths \cup Angles) /\ GsasiiCellGroups(ph) \subseteq SUBSET (Lengths \cup Angles)
  <2>1. ph.laue = "2/m" => AngleOf[ph.uniq] \in Angles
    BY <1>1 DEF AngleOf, Lengths, Angles
  <2>2. CellTies(ph) \subseteq SUBSET (Lengths \cup Angles)
    BY <1>1, <2>1 DEF LaueClasses, CellTies, Rhombohedral, Lengths
  <2>3. GsasiiCellGroups(ph) \subseteq SUBSET (Lengths \cup Angles)
    BY <1>1, <2>1, <2>2 DEF GsasiiCellGroups
  <2> QED BY <2>2, <2>3
<1>4. \A g \in CellTies(ph) \cup GsasiiCellGroups(ph) : g \subseteq F \/ Clear(g, F)
  <2>1. ASSUME NEW g \in SUBSET (Lengths \cup Angles),
               LET tied == {CellLeaf(ph, k) : k \in g}
               IN  tied \subseteq recipe.flagged \/ tied \cap recipe.flagged = {}
        PROVE  g \subseteq F \/ Clear(g, F)
    BY <2>1 DEF CellAsked, Flagged, Clear
  <2>2. \A g \in CellTies(ph) \cup GsasiiCellGroups(ph) :
          LET tied == {CellLeaf(ph, k) : k \in g}
          IN  tied \subseteq recipe.flagged \/ tied \cap recipe.flagged = {}
    BY <1>1, <1>2 DEF RecipeOK, Accepted
  <2> QED BY <1>3, <2>1, <2>2
<1>5. F \subseteq UNION CellTies(ph)
  <2> SUFFICES ASSUME NEW k \in F PROVE k \in UNION CellTies(ph)
    OBVIOUS
  <2>1. CellLeaf(ph, k) \in UNION Ties(recipe)
    BY DEF CellAsked, Flagged, RecipeOK, Accepted
  <2>2. PICK t \in Ties(recipe) : CellLeaf(ph, k) \in t
    BY <2>1
  <2>3. PICK v : Drives(v, t)
    BY <2>2, TieOfVariable
  <2>4. CellLeaf(ph, k)[2] = "unit_cell" /\ CellLeaf(ph, k)[1] = ph.name /\ CellLeaf(ph, k)[3] = k
    BY DEF CellLeaf
  <2>5. DrivesCell(v, t)
    BY <2>2, <2>3, <2>4, KindOfLeaf DEF Drives
  <2>10. PICK j \in 1 .. Total : \E g \in CellTies(recipe.phases[j]) : t = {CellLeaf(recipe.phases[j], l) : l \in g}
    BY <2>5 DEF DrivesCell
  <2>6. PICK g \in CellTies(recipe.phases[j]) : t = {CellLeaf(recipe.phases[j], l) : l \in g}
    BY <2>10
  <2>7. PICK l \in g : CellLeaf(ph, k) = CellLeaf(recipe.phases[j], l)
    BY <2>2, <2>6
  <2>8. k = l /\ ph.name = recipe.phases[j].name
    BY <2>7 DEF CellLeaf
  <2>9. j = i
    BY <2>8, RecipeTyped
  <2> QED BY <2>6, <2>8, <2>9
<1>6. CellFlags(ph, F)
  BY <1>4, <1>5 DEF CellFlags
<1> HIDE DEF ph, F
<1>7. CellAgrees(ph, F)
  BY <1>1, <1>6, CellFacts
<1> QED BY <1>7 DEF ph, F

(* One variable for a tie, and one tie for a variable.                     *)
LEMMA Determined ==
  ASSUME RecipeOK, NEW v1, NEW t1, NEW v2, NEW t2, Drives(v1, t1), Drives(v2, t2), v1 = v2 \/ t1 \cap t2 # {}
  PROVE  v1 = v2 /\ t1 = t2
<1>1. \/ DrivesInst(v1, t1) /\ DrivesInst(v2, t2)
      \/ DrivesBack(v1, t1) /\ DrivesBack(v2, t2)
      \/ DrivesBkPk(v1, t1) /\ DrivesBkPk(v2, t2)
      \/ DrivesPeak(v1, t1) /\ DrivesPeak(v2, t2)
      \/ DrivesHap(v1, t1) /\ DrivesHap(v2, t2)
      \/ DrivesCell(v1, t1) /\ DrivesCell(v2, t2)
      \/ DrivesAtom(v1, t1) /\ DrivesAtom(v2, t2)
  <2>1. CASE v1 = v2
    BY <2>1, KindOfVariable DEF Drives
  <2>2. CASE t1 \cap t2 # {}
    <3>1. PICK x \in t1 : x \in t2
      BY <2>2
    <3>2. "coefficients" \notin PeakLists
      BY DEF PeakLists
    <3> QED BY <3>1, <3>2, KindOfLeaf DEF Drives
  <2> QED BY <2>1, <2>2
<1> QED BY <1>1, InstApart, BackApart, BkPkApart, PeakApart, HapApart, CellApart, AtomApart, CellsAgree

(* A tie has a leaf. *)
LEMMA TieNotEmpty ==
  ASSUME RecipeOK, NEW v, NEW t, Drives(v, t)
  PROVE  t # {}
<1>1. CASE DrivesInst(v, t) \/ DrivesBack(v, t) \/ DrivesBkPk(v, t) \/ DrivesPeak(v, t) \/ DrivesHap(v, t)
  BY <1>1 DEF DrivesInst, DrivesBack, DrivesBkPk, DrivesPeak, DrivesHap
<1>2. CASE DrivesCell(v, t)
  BY <1>2, CellsAgree DEF DrivesCell, CellAgrees
<1>3. CASE DrivesAtom(v, t)
  <2>1. PICK i \in 1 .. Total : \E a \in DOMAIN recipe.phases[i].atoms : \E name, ms :
          /\ AtomDrives(recipe.phases[i].atoms[a], name, ms)
          /\ t = {AtomLeaf(recipe.phases[i], recipe.phases[i].atoms[a], m) : m \in ms}
    BY <1>3 DEF DrivesAtom
  <2>8. PICK a \in DOMAIN recipe.phases[i].atoms : \E name, ms :
          /\ AtomDrives(recipe.phases[i].atoms[a], name, ms)
          /\ t = {AtomLeaf(recipe.phases[i], recipe.phases[i].atoms[a], m) : m \in ms}
    BY <2>1
  <2>2. PICK name, ms :
          /\ AtomDrives(recipe.phases[i].atoms[a], name, ms)
          /\ t = {AtomLeaf(recipe.phases[i], recipe.phases[i].atoms[a], m) : m \in ms}
    BY <2>8
  <2>3. recipe.phases[i].atoms[a] \in AtomBlock
    BY RecipeTyped DEF PhaseBlock
  <2>5. /\ \A g \in FreeGroups(recipe.phases[i].atoms[a].ids) : g # {}
        /\ \A g \in FreeGroups(recipe.phases[i].atoms[a].uids) : g # {}
    BY <2>3, GroupFacts DEF AtomBlock
  <2>4. ms # {}
    BY <2>2, <2>5 DEF AtomDrives
  <2> QED BY <2>2, <2>4
<1> QED BY <1>1, <1>2, <1>3 DEF Drives
------------------------------------------------------------------------------
(* What a peak fit varies of the instrument, and what of the recipe's      *)
(* flags is then varied at all.                                            *)
Unused == IF recipe.spf THEN {InstrumentLeaf(k) : k \in {"Zero", "Polariz.", "Lam"}} ELSE {}
Asked == recipe.flagged \ Unused

LEMMA NotUnused ==
  ASSUME NEW v, NEW t, Drives(v, t), ~ DrivesInst(v, t)
  PROVE  t \subseteq Asked <=> t \subseteq recipe.flagged
<1>1. \A x \in t : x[2] # "instrument"
  BY KindOfLeaf DEF Drives
<1>2. \A x \in Unused : x[2] = "instrument"
  BY DEF Unused, InstrumentLeaf
<1> QED BY <1>1, <1>2 DEF Asked

LEMMA WholeTies ==
  ASSUME RecipeOK, NEW v, NEW t, Drives(v, t)
  PROVE  (t \subseteq Asked \/ t \cap Asked = {}) /\ (t \subseteq recipe.flagged \/ t \cap recipe.flagged = {})
<1>1. t \subseteq recipe.flagged \/ t \cap recipe.flagged = {}
  BY TieOfVariable DEF RecipeOK, Accepted
<1>2. CASE DrivesInst(v, t)
  BY <1>1, <1>2 DEF DrivesInst, Asked
<1>3. CASE ~ DrivesInst(v, t)
  BY <1>1, <1>3, NotUnused DEF Asked
<1> QED BY <1>1, <1>2, <1>3

LEMMA InstVaries ==
  ASSUME RecipeOK, Built, NEW v
  PROVE  v \in {<<Histogram, "inst", k, None>> :
                  k \in IF recipe.spf THEN proj.on \cap ({"SH/L"} \cup IF recipe.useIP THEN ProfileTerms ELSE {})
                                      ELSE proj.on}
           <=> \E t : DrivesInst(v, t) /\ t \subseteq Asked
<1> DEFINE on == IF recipe.spf THEN proj.on \cap ({"SH/L"} \cup IF recipe.useIP THEN ProfileTerms ELSE {})
                               ELSE proj.on
<1>1. proj.on = InstrumentFlags
  BY DEF Built, Project
<1>2. \A k \in Instrument : InstrumentLeaf(k) \in Unused <=> recipe.spf /\ k \in {"Zero", "Polariz.", "Lam"}
  BY RecipeTyped DEF Unused, InstrumentLeaf
<1>3. ~ recipe.useIP /\ recipe.spf => \A k \in ProfileTerms : InstrumentLeaf(k) \notin recipe.flagged
  BY DEF RecipeOK, Accepted
<1>4. \A k : k \in on <=> k \in Instrument /\ InstrumentLeaf(k) \in Asked
  <2>1. ASSUME NEW k \in Instrument
        PROVE  k \in on <=> InstrumentLeaf(k) \in Asked
    <3>1. k \in proj.on <=> InstrumentLeaf(k) \in recipe.flagged
      BY <1>1 DEF InstrumentFlags, Flagged
    <3>2. k \in {"SH/L"} \cup ProfileTerms <=> k \notin {"Zero", "Polariz.", "Lam"}
      BY DEF Instrument, ProfileTerms
    <3>3. CASE ~ recipe.spf
      BY <1>2, <3>1, <3>3 DEF Asked
    <3>4. CASE recipe.spf /\ recipe.useIP
      BY <1>2, <3>1, <3>2, <3>4 DEF Asked
    <3>5. CASE recipe.spf /\ ~ recipe.useIP
      BY <1>2, <1>3, <3>1, <3>2, <3>5 DEF Asked
    <3> QED BY <3>3, <3>4, <3>5
  <2>2. \A k : k \in on => k \in Instrument
    BY <1>1 DEF InstrumentFlags
  <2> QED BY <2>1, <2>2
<1>5. v \in {<<Histogram, "inst", k, None>> : k \in on} <=> \E k \in on : v = <<Histogram, "inst", k, None>>
  OBVIOUS
<1> HIDE DEF on
<1>6. (\E k \in on : v = <<Histogram, "inst", k, None>>) <=> \E t : DrivesInst(v, t) /\ t \subseteq Asked
  <2>1. ASSUME NEW k \in on, v = <<Histogram, "inst", k, None>>
        PROVE  \E t : DrivesInst(v, t) /\ t \subseteq Asked
    <3>1. DrivesInst(v, {InstrumentLeaf(k)}) /\ {InstrumentLeaf(k)} \subseteq Asked
      BY <1>4, <2>1 DEF DrivesInst
    <3> QED BY <3>1
  <2>2. ASSUME NEW t, DrivesInst(v, t), t \subseteq Asked
        PROVE  \E k \in on : v = <<Histogram, "inst", k, None>>
    BY <1>4, <2>2 DEF DrivesInst
  <2> QED BY <2>1, <2>2
<1> QED BY <1>5, <1>6 DEF on

LEMMA BackVaries ==
  ASSUME RecipeOK, Built, NEW v
  PROVE  v \in (IF proj.back THEN {<<Histogram, "Back", "term", i>> : i \in 0 .. proj.terms - 1} ELSE {})
           <=> \E t : DrivesBack(v, t) /\ t \subseteq recipe.flagged
<1> DEFINE n == recipe.coefficients
           all == {CoefficientLeaf(i) : i \in 0 .. n - 1}
<1>1. (proj.back <=> CoefficientLeaf(0) \in recipe.flagged) /\ proj.terms = n /\ n \in Nat
  BY RecipeTyped DEF Built, Project, Back, Flagged
<1>2. all \subseteq recipe.flagged \/ all \cap recipe.flagged = {}
  BY DEF RecipeOK, Accepted
<1>3. \A i \in 0 .. n - 1 : proj.back <=> CoefficientLeaf(i) \in recipe.flagged
  <2> SUFFICES ASSUME NEW i \in 0 .. n - 1 PROVE proj.back <=> CoefficientLeaf(i) \in recipe.flagged
    OBVIOUS
  <2>1. 0 \in 0 .. n - 1
    BY <1>1
  <2>2. CoefficientLeaf(0) \in all /\ CoefficientLeaf(i) \in all
    BY <2>1
  <2> HIDE DEF all
  <2> QED BY <1>1, <1>2, <2>2
<1>4. ASSUME NEW i \in 0 .. n - 1, proj.back, v = <<Histogram, "Back", "term", i>>
      PROVE  \E t : DrivesBack(v, t) /\ t \subseteq recipe.flagged
  <2>1. DrivesBack(v, {CoefficientLeaf(i)}) /\ {CoefficientLeaf(i)} \subseteq recipe.flagged
    BY <1>3, <1>4 DEF DrivesBack
  <2> QED BY <2>1
<1>5. ASSUME NEW t, DrivesBack(v, t), t \subseteq recipe.flagged
      PROVE  proj.back /\ \E i \in 0 .. n - 1 : v = <<Histogram, "Back", "term", i>>
  BY <1>3, <1>5 DEF DrivesBack
<1> QED BY <1>1, <1>4, <1>5

LEMMA BkPkVaries ==
  ASSUME RecipeOK, Built, NEW v
  PROVE  v \in UNION {{<<Histogram, "BkPk", k, i - 1>> : k \in proj.bkPeaks[i]} : i \in DOMAIN proj.bkPeaks}
           <=> \E t : DrivesBkPk(v, t) /\ t \subseteq recipe.flagged
<1> DEFINE n == recipe.bkPeaks
<1>1. n \in Nat
  BY RecipeTyped
<1>2. DOMAIN proj.bkPeaks = 1 .. n
      /\ \A i \in 1 .. n : \A k : k \in proj.bkPeaks[i] <=>
           k \in PeakLists /\ PeakLeaf("background", k, i - 1) \in recipe.flagged
  BY DEF Built, Project, BkFlags, PeakFlags, Flagged
<1>3. ASSUME NEW i \in 1 .. n, NEW k \in proj.bkPeaks[i], v = <<Histogram, "BkPk", k, i - 1>>
      PROVE  \E t : DrivesBkPk(v, t) /\ t \subseteq recipe.flagged
  <2>1. k \in PeakLists /\ i - 1 \in 0 .. n - 1 /\ PeakLeaf("background", k, i - 1) \in recipe.flagged
    BY <1>1, <1>2
  <2>2. DrivesBkPk(v, {PeakLeaf("background", k, i - 1)})
    BY <1>3, <2>1 DEF DrivesBkPk
  <2> QED BY <2>1, <2>2
<1>4. ASSUME NEW t, DrivesBkPk(v, t), t \subseteq recipe.flagged
      PROVE  \E i \in 1 .. n : \E k \in proj.bkPeaks[i] : v = <<Histogram, "BkPk", k, i - 1>>
  <2>1. PICK k \in PeakLists, j \in 0 .. n - 1 :
          v = <<Histogram, "BkPk", k, j>> /\ t = {PeakLeaf("background", k, j)}
    BY <1>4 DEF DrivesBkPk
  <2>2. j + 1 \in 1 .. n /\ j + 1 - 1 = j
    BY <1>1
  <2>3. k \in proj.bkPeaks[j + 1]
    BY <1>2, <1>4, <2>1, <2>2
  <2> QED BY <2>1, <2>2, <2>3
<1> QED BY <1>2, <1>3, <1>4

LEMMA PeakVaries ==
  ASSUME RecipeOK, Built, NEW v
  PROVE  v \in UNION {{<<Histogram, "peak", k, i - 1>> :
                         k \in proj.peaks[i] \ (IF recipe.useIP THEN {"sig", "gam"} ELSE {})} : i \in DOMAIN proj.peaks}
           <=> \E t : DrivesPeak(v, t) /\ t \subseteq recipe.flagged
<1> DEFINE n == recipe.peaks
           out == IF recipe.useIP THEN {"sig", "gam"} ELSE {}
<1>1. n \in Nat
  BY RecipeTyped
<1>2. DOMAIN proj.peaks = 1 .. n
      /\ \A i \in 1 .. n : \A k : k \in proj.peaks[i] <=>
           k \in PeakLists /\ PeakLeaf("single_peaks", k, i - 1) \in recipe.flagged
  BY DEF Built, Project, SpfFlags, PeakFlags, Flagged
<1>5. \A j \in 0 .. n - 1 : \A k \in out : PeakLeaf("single_peaks", k, j) \notin recipe.flagged
  <2>1. CASE recipe.spf
    BY <2>1 DEF RecipeOK, Accepted
  <2>2. CASE ~ recipe.spf
    BY <2>2, RecipeTyped
  <2> QED BY <2>1, <2>2
<1> HIDE DEF out
<1>3. ASSUME NEW i \in 1 .. n, NEW k \in proj.peaks[i], v = <<Histogram, "peak", k, i - 1>>
      PROVE  \E t : DrivesPeak(v, t) /\ t \subseteq recipe.flagged
  <2>1. k \in PeakLists /\ i - 1 \in 0 .. n - 1 /\ PeakLeaf("single_peaks", k, i - 1) \in recipe.flagged
    BY <1>1, <1>2
  <2>2. DrivesPeak(v, {PeakLeaf("single_peaks", k, i - 1)})
    BY <1>3, <2>1 DEF DrivesPeak
  <2> QED BY <2>1, <2>2
<1>4. ASSUME NEW t, DrivesPeak(v, t), t \subseteq recipe.flagged
      PROVE  \E i \in 1 .. n : \E k \in proj.peaks[i] \ out : v = <<Histogram, "peak", k, i - 1>>
  <2>1. PICK k \in PeakLists, j \in 0 .. n - 1 :
          v = <<Histogram, "peak", k, j>> /\ t = {PeakLeaf("single_peaks", k, j)}
    BY <1>4 DEF DrivesPeak
  <2>2. j + 1 \in 1 .. n /\ j + 1 - 1 = j
    BY <1>1
  <2>3. k \in proj.peaks[j + 1] \ out
    BY <1>2, <1>4, <1>5, <2>1, <2>2
  <2> QED BY <2>1, <2>2, <2>3
<1> QED BY <1>2, <1>3, <1>4 DEF out

LEMMA HistogramVariesAsked ==
  ASSUME RecipeOK, Built, NEW v
  PROVE  v \in HistogramVaries <=>
           \E t : (DrivesInst(v, t) \/ DrivesBack(v, t) \/ DrivesBkPk(v, t) \/ DrivesPeak(v, t)) /\ t \subseteq Asked
<1>1. v \in HistogramVaries <=>
        \/ \E t : DrivesInst(v, t) /\ t \subseteq Asked
        \/ \E t : DrivesBack(v, t) /\ t \subseteq recipe.flagged
        \/ \E t : DrivesBkPk(v, t) /\ t \subseteq recipe.flagged
        \/ \E t : DrivesPeak(v, t) /\ t \subseteq recipe.flagged
  BY InstVaries, BackVaries, BkPkVaries, PeakVaries DEF HistogramVaries
<1>2. ASSUME NEW t, DrivesBack(v, t) \/ DrivesBkPk(v, t) \/ DrivesPeak(v, t)
      PROVE  t \subseteq Asked <=> t \subseteq recipe.flagged
  <2>1. Drives(v, t) /\ ~ DrivesInst(v, t)
    BY <1>2, KindOfVariable DEF Drives
  <2> QED BY <2>1, NotUnused
<1> QED BY <1>1, <1>2
------------------------------------------------------------------------------
(* Of an atom's coordinates, or displacements, a group moves if and only   *)
(* if it is asked for.                                                     *)
LEMMA GroupMoves ==
  ASSUME NEW n \in {3, 6}, NEW ids \in [1 .. n -> Nat], NEW members, NEW names, NEW ph, NEW at, NEW q, NEW a,
         \A i, j \in 1 .. n : names[i] = names[j] => i = j,
         NEW g \in FreeGroups(ids),
         \/ \A i \in g : Flagged(AtomLeaf(ph, at, members[i]))
         \/ \A i \in g : ~ Flagged(AtomLeaf(ph, at, members[i]))
  PROVE  Refining(ph, at, ids, members) # {}
           /\ <<q, "atom", names[Min(g)], a>> \notin AtomHolds(ph, at, ids, members, names, q, a)
         <=> \A i \in g : Flagged(AtomLeaf(ph, at, members[i]))
<1> DEFINE on == Refining(ph, at, ids, members)
           v == <<q, "atom", names[Min(g)], a>>
<1>1. /\ \A h \in FreeGroups(ids) : h # {} /\ h \subseteq 1 .. n /\ Min(h) \in h
      /\ \A h1, h2 \in FreeGroups(ids) : h1 \cap h2 # {} => h1 = h2
  BY GroupFacts
<1>2. on \subseteq FreeGroups(ids)
  BY DEF Refining
<1>3. g \in on <=> \A i \in g : Flagged(AtomLeaf(ph, at, members[i]))
  BY <1>1 DEF Refining
<1> HIDE DEF on
<1>4. on # {} => (v \in AtomHolds(ph, at, ids, members, names, q, a) <=> g \notin on)
  <2> SUFFICES ASSUME on # {} PROVE v \in AtomHolds(ph, at, ids, members, names, q, a) <=> g \notin on
    OBVIOUS
  <2>1. AtomHolds(ph, at, ids, members, names, q, a)
          = {<<q, "atom", names[i], a>> : i \in UNION (FreeGroups(ids) \ on)}
    BY DEF AtomHolds, on
  <2>2. v \in AtomHolds(ph, at, ids, members, names, q, a)
          <=> \E h \in FreeGroups(ids) \ on : \E i \in h : names[i] = names[Min(g)]
    BY <2>1
  <2>3. \A h \in FreeGroups(ids) : \A i \in h : names[i] = names[Min(g)] => h = g
    BY <1>1
  <2> QED BY <1>1, <2>2, <2>3
<1> QED BY <1>3, <1>4 DEF on

(* What an atom varies once its flags are set. *)
AtomVaries(ph, at, q, a) ==
    (IF "F" \in AtomFlags(ph, at) THEN {<<q, "atom", "Afrac", a>>} ELSE {})
    \cup (IF "X" \in AtomFlags(ph, at) THEN Independent(at.ids, Shifts, q, a) ELSE {})
    \cup (IF "U" \notin AtomFlags(ph, at) THEN {}
          ELSE IF at.adp = "Uaniso" THEN Independent(at.uids, AniUs, q, a)
          ELSE {<<q, "atom", "AUiso", a>>})

AtomsHeld(ph, at, q, a) ==
    AtomHolds(ph, at, at.ids, Coordinates, Shifts, q, a)
    \cup (IF at.adp = "Uaniso" THEN AtomHolds(ph, at, at.uids, Displacements, AniUs, q, a) ELSE {})

LEMMA AtomVariesAsked ==
  ASSUME RecipeOK, NEW p \in 1 .. Total, NEW a \in DOMAIN recipe.phases[p].atoms, NEW v
  PROVE  LET ph == recipe.phases[p]
             at == ph.atoms[a]
         IN  v \in AtomVaries(ph, at, p - 1, a - 1) /\ v \notin AtomsHeld(ph, at, p - 1, a - 1)
               <=> \E name, ms : /\ AtomDrives(at, name, ms) /\ v = <<p - 1, "atom", name, a - 1>>
                                 /\ \A m \in ms : Flagged(AtomLeaf(ph, at, m))
<1> DEFINE ph == recipe.phases[p]
           at == ph.atoms[a]
           q == p - 1
           b == a - 1
           Held1 == AtomHolds(ph, at, at.ids, Coordinates, Shifts, q, b)
           Held2 == AtomHolds(ph, at, at.uids, Displacements, AniUs, q, b)
           On1 == Refining(ph, at, at.ids, Coordinates)
           On2 == Refining(ph, at, at.uids, Displacements)
           Asks(ms) == \A m \in ms : Flagged(AtomLeaf(ph, at, m))
<1>1. ph \in PhaseBlock /\ at \in AtomBlock
  BY RecipeTyped DEF PhaseBlock
<1>2. /\ at.ids \in [1 .. 3 -> Nat] /\ at.uids \in [1 .. 6 -> Nat] /\ at.adp \in {"Uiso", "Uaniso"}
  BY <1>1 DEF AtomBlock
<1>3. ASSUME NEW name, NEW ms, AtomDrives(at, name, ms)
      PROVE  (\A m \in ms : Flagged(AtomLeaf(ph, at, m))) \/ (\A m \in ms : ~ Flagged(AtomLeaf(ph, at, m)))
  <2>1. DrivesAtom(<<q, "atom", name, b>>, {AtomLeaf(ph, at, m) : m \in ms})
    BY <1>3 DEF DrivesAtom
  <2>2. \/ {AtomLeaf(ph, at, m) : m \in ms} \subseteq recipe.flagged
        \/ {AtomLeaf(ph, at, m) : m \in ms} \cap recipe.flagged = {}
    BY <2>1, WholeTies DEF Drives
  <2> QED BY <2>2 DEF Flagged
<1>4. ASSUME NEW g \in FreeGroups(at.ids)
      PROVE  On1 # {} /\ <<q, "atom", Shifts[Min(g)], b>> \notin Held1 <=> Asks({Coordinates[i] : i \in g})
  <2>1. AtomDrives(at, Shifts[Min(g)], {Coordinates[i] : i \in g})
    BY DEF AtomDrives
  <2>2. \/ \A i \in g : Flagged(AtomLeaf(ph, at, Coordinates[i]))
        \/ \A i \in g : ~ Flagged(AtomLeaf(ph, at, Coordinates[i]))
    BY <1>3, <2>1
  <2> HIDE DEF ph, at, q, b
  <2>3. On1 # {} /\ <<q, "atom", Shifts[Min(g)], b>> \notin Held1
          <=> \A i \in g : Flagged(AtomLeaf(ph, at, Coordinates[i]))
    BY <1>2, <2>2, GroupMoves, NamesDistinct
  <2> QED BY <2>3
<1>5. ASSUME NEW g \in FreeGroups(at.uids), at.adp = "Uaniso"
      PROVE  On2 # {} /\ <<q, "atom", AniUs[Min(g)], b>> \notin Held2 <=> Asks({Displacements[i] : i \in g})
  <2>1. AtomDrives(at, AniUs[Min(g)], {Displacements[i] : i \in g})
    BY <1>5 DEF AtomDrives
  <2>2. \/ \A i \in g : Flagged(AtomLeaf(ph, at, Displacements[i]))
        \/ \A i \in g : ~ Flagged(AtomLeaf(ph, at, Displacements[i]))
    BY <1>3, <2>1
  <2> HIDE DEF ph, at, q, b
  <2>3. On2 # {} /\ <<q, "atom", AniUs[Min(g)], b>> \notin Held2
          <=> \A i \in g : Flagged(AtomLeaf(ph, at, Displacements[i]))
    BY <1>2, <2>2, GroupMoves, NamesDistinct
  <2> QED BY <2>3
<1>6. /\ "F" \in AtomFlags(ph, at) <=> Flagged(AtomLeaf(ph, at, "occupancy"))
      /\ "X" \in AtomFlags(ph, at) <=> On1 # {}
      /\ "U" \in AtomFlags(ph, at) <=> IF at.adp = "Uaniso" THEN On2 # {} ELSE Flagged(AtomLeaf(ph, at, "Uiso"))
  BY DEF AtomFlags
<1>7. /\ \A w \in Held1 : w[3] \in {Shifts[i] : i \in 1 .. 3}
      /\ \A w \in Held2 : w[3] \in {AniUs[i] : i \in 1 .. 6}
  <2>1. /\ \A g \in FreeGroups(at.ids) : g \subseteq 1 .. 3
        /\ \A g \in FreeGroups(at.uids) : g \subseteq 1 .. 6
    BY <1>2, GroupFacts
  <2> HIDE DEF ph, at, q, b
  <2> QED BY <2>1 DEF AtomHolds
<1>8. /\ \A g \in FreeGroups(at.ids) : Min(g) \in 1 .. 3
      /\ \A g \in FreeGroups(at.uids) : Min(g) \in 1 .. 6
  BY <1>2, GroupFacts
<1> DEFINE Goal == \E name, ms : AtomDrives(at, name, ms) /\ v = <<q, "atom", name, b>> /\ Asks(ms)
<1> HIDE DEF ph, at, q, b, Held1, Held2, On1, On2
<1>9. \A i \in 1 .. 3 : \A j \in 1 .. 6 : \A w1, w2 :
        w1 = <<q, "atom", Shifts[i], b>> /\ w2 = <<q, "atom", AniUs[j], b>> => w1 \notin Held2 /\ w2 \notin Held1
  BY <1>7, NamesDistinct
<1>10. \A name \in {"Afrac", "AUiso"} : <<q, "atom", name, b>> \notin Held1 \cup Held2
  BY <1>7, NamesDistinct
<1>11. AtomsHeld(ph, at, q, b) = Held1 \cup (IF at.adp = "Uaniso" THEN Held2 ELSE {})
  BY DEF AtomsHeld, Held1, Held2
<1>12. v \in AtomVaries(ph, at, q, b) <=>
         \/ Flagged(AtomLeaf(ph, at, "occupancy")) /\ v = <<q, "atom", "Afrac", b>>
         \/ On1 # {} /\ \E g \in FreeGroups(at.ids) : v = <<q, "atom", Shifts[Min(g)], b>>
         \/ at.adp = "Uaniso" /\ On2 # {} /\ \E g \in FreeGroups(at.uids) : v = <<q, "atom", AniUs[Min(g)], b>>
         \/ at.adp # "Uaniso" /\ Flagged(AtomLeaf(ph, at, "Uiso")) /\ v = <<q, "atom", "AUiso", b>>
  BY <1>6 DEF AtomVaries, Independent
<1>13. ASSUME v \in AtomVaries(ph, at, q, b), v \notin AtomsHeld(ph, at, q, b)
       PROVE  Goal
  <2>1. ASSUME Flagged(AtomLeaf(ph, at, "occupancy")), v = <<q, "atom", "Afrac", b>>
        PROVE  Goal
    <3>1. AtomDrives(at, "Afrac", {"occupancy"}) /\ Asks({"occupancy"})
      BY <2>1 DEF AtomDrives
    <3> QED BY <2>1, <3>1
  <2>2. ASSUME On1 # {}, NEW g \in FreeGroups(at.ids), v = <<q, "atom", Shifts[Min(g)], b>>
        PROVE  Goal
    <3>1. AtomDrives(at, Shifts[Min(g)], {Coordinates[i] : i \in g}) /\ Asks({Coordinates[i] : i \in g})
      BY <1>4, <1>11, <1>13, <2>2 DEF AtomDrives
    <3> HIDE DEF Asks
    <3> QED BY <2>2, <3>1
  <2>3. ASSUME at.adp = "Uaniso", On2 # {}, NEW g \in FreeGroups(at.uids), v = <<q, "atom", AniUs[Min(g)], b>>
        PROVE  Goal
    <3>1. AtomDrives(at, AniUs[Min(g)], {Displacements[i] : i \in g}) /\ Asks({Displacements[i] : i \in g})
      BY <1>5, <1>11, <1>13, <2>3 DEF AtomDrives
    <3> HIDE DEF Asks
    <3> QED BY <2>3, <3>1
  <2>4. ASSUME at.adp # "Uaniso", Flagged(AtomLeaf(ph, at, "Uiso")), v = <<q, "atom", "AUiso", b>>
        PROVE  Goal
    <3>1. AtomDrives(at, "AUiso", {"Uiso"}) /\ Asks({"Uiso"})
      BY <2>4 DEF AtomDrives
    <3> QED BY <2>4, <3>1
  <2> HIDE DEF Goal
  <2> QED BY <1>12, <1>13, <2>1, <2>2, <2>3, <2>4
<1>14. ASSUME NEW name, NEW ms, AtomDrives(at, name, ms), v = <<q, "atom", name, b>>, Asks(ms)
       PROVE  v \in AtomVaries(ph, at, q, b) /\ v \notin AtomsHeld(ph, at, q, b)
  <2>1. CASE name = "Afrac" /\ ms = {"occupancy"}
    BY <1>10, <1>11, <1>12, <1>14, <2>1
  <2>2. CASE at.adp # "Uaniso" /\ name = "AUiso" /\ ms = {"Uiso"}
    BY <1>10, <1>11, <1>12, <1>14, <2>2
  <2>3. ASSUME NEW g \in FreeGroups(at.ids), name = Shifts[Min(g)], ms = {Coordinates[i] : i \in g}
        PROVE  v \in AtomVaries(ph, at, q, b) /\ v \notin AtomsHeld(ph, at, q, b)
    <3>1. On1 # {} /\ v \notin Held1
      BY <1>4, <1>14, <2>3
    <3>2. v \notin Held2
      BY <1>7, <1>8, <1>14, <2>3, NamesDistinct
    <3> QED BY <1>11, <1>12, <1>14, <2>3, <3>1, <3>2
  <2>4. ASSUME NEW g \in FreeGroups(at.uids), at.adp = "Uaniso",
               name = AniUs[Min(g)], ms = {Displacements[i] : i \in g}
        PROVE  v \in AtomVaries(ph, at, q, b) /\ v \notin AtomsHeld(ph, at, q, b)
    <3>1. On2 # {} /\ v \notin Held2
      BY <1>5, <1>14, <2>4
    <3>2. v \notin Held1
      BY <1>7, <1>8, <1>14, <2>4, NamesDistinct
    <3> QED BY <1>11, <1>12, <1>14, <2>4, <3>1, <3>2
  <2> QED BY <1>14, <2>1, <2>2, <2>3, <2>4 DEF AtomDrives
<1>15. v \in AtomVaries(ph, at, q, b) /\ v \notin AtomsHeld(ph, at, q, b) <=> Goal
  BY <1>13, <1>14
<1> QED BY <1>15 DEF ph, at, q, b
------------------------------------------------------------------------------
BuiltVaries(ph, q) ==
    (IF CellRefines(ph) THEN {<<q, "A", "term", n>> : n \in CellVary(ph)} ELSE {})
    \cup {<<q, "hap", k, None>> : k \in PhaseFlags(ph)}
    \cup (UNION {AtomVaries(ph, ph.atoms[a], q, a - 1) : a \in DOMAIN ph.atoms})

(* A phase of the built project carries the name, the labels and the flags *)
(* of the recipe's phase in its place.                                     *)
LEMMA BuiltProject ==
  ASSUME RecipeOK, Built, NEW p \in 1 .. Total
  PROVE  LET rp == recipe.phases[p]
             gp == proj.phases[p]
         IN  /\ gp.name = rp.name /\ gp.cell = CellRefines(rp) /\ gp.on = PhaseFlags(rp)
             /\ \A a \in DOMAIN rp.atoms : /\ gp.atoms[a].flags = AtomFlags(rp, rp.atoms[a])
                                           /\ gp.atoms[a].label = rp.atoms[a].label
<1> DEFINE rp == recipe.phases[p]
           gp == proj.phases[p]
<1>1. gp = Parameterized(NewPhase(rp), rp)
  BY RecipeTyped DEF Built, Project, PhasesTo
<1>2. NewPhase(rp) = [name |-> rp.name, cell |-> FALSE, on |-> {},
                      atoms |-> [i \in DOMAIN rp.atoms |-> [label |-> rp.atoms[i].label, flags |-> {}]]]
  BY DEF NewPhase
<1>3. /\ gp.name = rp.name /\ gp.cell = CellRefines(rp) /\ gp.on = PhaseFlags(rp)
      /\ gp.atoms = [a \in DOMAIN rp.atoms |->
                       [[label |-> rp.atoms[a].label, flags |-> {}] EXCEPT !.flags = AtomFlags(rp, rp.atoms[a])]]
  <2> DEFINE new == NewPhase(rp)
  <2>1. /\ new.name = rp.name /\ DOMAIN new.atoms = DOMAIN rp.atoms
        /\ \A a \in DOMAIN rp.atoms : new.atoms[a] = [label |-> rp.atoms[a].label, flags |-> {}]
    BY <1>2
  <2>2. new = [name |-> new.name, cell |-> new.cell, on |-> new.on, atoms |-> new.atoms]
    BY <1>2
  <2> HIDE DEF new
  <2>3. /\ Parameterized(new, rp).name = new.name
        /\ Parameterized(new, rp).cell = CellRefines(rp)
        /\ Parameterized(new, rp).on = PhaseFlags(rp)
    BY <2>2 DEF Parameterized
  <2>4. Parameterized(new, rp).atoms
          = [a \in DOMAIN new.atoms |-> [new.atoms[a] EXCEPT !.flags = AtomFlags(rp, rp.atoms[a])]]
    BY <2>2 DEF Parameterized
  <2>5. gp = Parameterized(new, rp)
    BY <1>1 DEF new
  <2> HIDE DEF rp, gp
  <2> QED BY <2>1, <2>3, <2>4, <2>5
<1>4. \A a \in DOMAIN rp.atoms :
        LET atom == [[label |-> rp.atoms[a].label, flags |-> {}] EXCEPT !.flags = AtomFlags(rp, rp.atoms[a])]
        IN  atom.flags = AtomFlags(rp, rp.atoms[a]) /\ atom.label = rp.atoms[a].label
  OBVIOUS
<1> HIDE DEF rp, gp
<1>5. \A a \in DOMAIN rp.atoms : gp.atoms[a].flags = AtomFlags(rp, rp.atoms[a]) /\ gp.atoms[a].label = rp.atoms[a].label
  BY <1>3, <1>4
<1> QED BY <1>3, <1>5 DEF rp, gp

LEMMA BuiltPhase ==
  ASSUME RecipeOK, Built, NEW p \in 1 .. Total
  PROVE  PhaseVaries(p) = BuiltVaries(recipe.phases[p], p - 1)
<1> DEFINE rp == recipe.phases[p]
           gp == proj.phases[p]
           ph == CHOOSE ph \in ToSet(recipe.phases) : ph.name = gp.name
<1>2. /\ gp.name = rp.name /\ gp.cell = CellRefines(rp) /\ gp.on = PhaseFlags(rp)
      /\ \A a \in DOMAIN rp.atoms : gp.atoms[a].flags = AtomFlags(rp, rp.atoms[a])
  BY BuiltProject
<1>3. ph = rp
  <2>1. rp \in ToSet(recipe.phases) /\ \A other \in ToSet(recipe.phases) : other.name = rp.name => other = rp
    BY RecipeTyped DEF ToSet
  <2> HIDE DEF rp, gp
  <2> QED BY <1>2, <2>1
<1>4. PhaseVaries(p) =
        (IF gp.cell THEN {<<p - 1, "A", "term", n>> : n \in CellVary(ph)} ELSE {})
        \cup {<<p - 1, "hap", k, None>> : k \in gp.on}
        \cup (UNION {LET at == ph.atoms[a]
                         fl == gp.atoms[a].flags
                     IN  (IF "F" \in fl THEN {<<p - 1, "atom", "Afrac", a - 1>>} ELSE {})
                         \cup (IF "X" \in fl THEN Independent(at.ids, Shifts, p - 1, a - 1) ELSE {})
                         \cup (IF "U" \notin fl THEN {}
                               ELSE IF at.adp = "Uaniso" THEN Independent(at.uids, AniUs, p - 1, a - 1)
                               ELSE {<<p - 1, "atom", "AUiso", a - 1>>})
                     : a \in DOMAIN ph.atoms})
  BY DEF PhaseVaries
<1> HIDE DEF rp, gp, ph
<1>5. PhaseVaries(p) =
        (IF CellRefines(rp) THEN {<<p - 1, "A", "term", n>> : n \in CellVary(rp)} ELSE {})
        \cup {<<p - 1, "hap", k, None>> : k \in PhaseFlags(rp)}
        \cup (UNION {AtomVaries(rp, rp.atoms[a], p - 1, a - 1) : a \in DOMAIN rp.atoms})
  BY <1>2, <1>3, <1>4 DEF AtomVaries
<1> QED BY <1>5 DEF BuiltVaries, rp

(* The holds of the project, phase by phase.                               *)
LEMMA HoldsShape ==
  ASSUME NEW ph, NEW q, NEW v, v \in PhaseHolds(ph, q)
  PROVE  v[1] = q /\ v[2] \in {"A", "atom"}
<1>1. \A at, ids, members, names, a : \A w \in AtomHolds(ph, at, ids, members, names, q, a) :
        w[1] = q /\ w[2] = "atom"
  BY DEF AtomHolds
<1>2. \A w \in CellHolds(ph, q) : w[1] = q /\ w[2] = "A"
  BY DEF CellHolds
<1> QED BY <1>1, <1>2 DEF PhaseHolds

LEMMA HoldsOfPhase ==
  ASSUME RecipeOK, Built, NEW v
  PROVE  /\ \A p \in 1 .. Total : v[1] = p - 1 => (v \in proj.holds <=> v \in PhaseHolds(recipe.phases[p], p - 1))
         /\ v[1] = Histogram => v \notin proj.holds
         /\ v[2] = "hap" => v \notin proj.holds
<1>1. proj.holds = UNION {PhaseHolds(recipe.phases[i], i - 1) : i \in 1 .. Total}
  BY DEF Built, Project, Holds
<1>2. v \in proj.holds <=> \E i \in 1 .. Total : v \in PhaseHolds(recipe.phases[i], i - 1)
  BY <1>1
<1>3. Total \in Nat
  BY RecipeTyped
<1>4. \A i \in 1 .. Total : v \in PhaseHolds(recipe.phases[i], i - 1) => v[1] = i - 1 /\ v[2] \in {"A", "atom"}
  BY HoldsShape
<1> QED BY <1>2, <1>3, <1>4 DEF Histogram

LEMMA PhaseHoldsByKind ==
  ASSUME NEW ph, NEW q, NEW v
  PROVE  /\ v[2] = "A" => (v \in PhaseHolds(ph, q) <=> CellRefines(ph) /\ v \in CellHolds(ph, q))
         /\ ph.atoms \in Seq(AtomBlock) => \A a \in DOMAIN ph.atoms : v[2] = "atom" /\ v[4] = a - 1 =>
              (v \in PhaseHolds(ph, q) <=> v \in AtomsHeld(ph, ph.atoms[a], q, a - 1))
<1>1. \A at, a : \A w \in AtomsHeld(ph, at, q, a) : w[2] = "atom" /\ w[4] = a
  BY DEF AtomsHeld, AtomHolds
<1>2. \A w \in CellHolds(ph, q) : w[2] = "A"
  BY DEF CellHolds
<1>3. PhaseHolds(ph, q) = (IF CellRefines(ph) THEN CellHolds(ph, q) ELSE {})
                          \cup UNION {AtomsHeld(ph, ph.atoms[a], q, a - 1) : a \in DOMAIN ph.atoms}
  BY DEF PhaseHolds, AtomsHeld
<1>4. v \in PhaseHolds(ph, q) <=> \/ CellRefines(ph) /\ v \in CellHolds(ph, q)
                                  \/ \E a \in DOMAIN ph.atoms : v \in AtomsHeld(ph, ph.atoms[a], q, a - 1)
  BY <1>3
<1>5. ASSUME ph.atoms \in Seq(AtomBlock), NEW a \in DOMAIN ph.atoms, v[2] = "atom", v[4] = a - 1
      PROVE  v \in PhaseHolds(ph, q) <=> v \in AtomsHeld(ph, ph.atoms[a], q, a - 1)
  <2>1. \A b \in DOMAIN ph.atoms : b \in Int
    BY <1>5
  <2>2. \A b \in DOMAIN ph.atoms : v \in AtomsHeld(ph, ph.atoms[b], q, b - 1) => b = a
    BY <1>1, <1>5, <2>1
  <2> QED BY <1>2, <1>4, <1>5, <2>2
<1> QED BY <1>1, <1>2, <1>4, <1>5

LEMMA CellVariesAsked ==
  ASSUME RecipeOK, NEW p \in 1 .. Total, NEW v
  PROVE  LET ph == recipe.phases[p]
         IN  CellRefines(ph) /\ v \in {<<p - 1, "A", "term", n>> : n \in CellVary(ph)} /\ v \notin CellHolds(ph, p - 1)
               <=> \E g \in CellTies(ph) : /\ v = <<p - 1, "A", "term", Term[FirstOf(g)]>>
                                           /\ \A k \in g : Flagged(CellLeaf(ph, k))
<1> DEFINE ph == recipe.phases[p]
           F == CellAsked(ph)
           q == p - 1
<1>1. ph.laue \in LaueClasses /\ (ph.laue = "2/m" => ph.uniq \in Lengths)
  BY RecipeTyped DEF PhaseBlock
<1>2. CellAgrees(ph, F)
  BY CellsAgree
<1>3. \A g \in CellDofGroups(ph) : g[1] \subseteq Lengths \cup Angles
  <2>1. ph.laue = "2/m" => \A g \in MonoclinicGroups(ph.uniq) : g[1] \subseteq Lengths \cup Angles
    BY <1>1 DEF MonoclinicGroups, Lengths, Angles
  <2> HIDE DEF ph
  <2> QED BY <1>1, <2>1 DEF CellDofGroups, LaueClasses, Rhombohedral, Lengths, Angles
<1> HIDE DEF ph
<1>4. \A k \in Lengths \cup Angles : k \in F <=> Flagged(CellLeaf(ph, k))
  BY DEF CellAsked
<1> HIDE DEF F, q
<1>5. CellRefines(ph) <=> CellOn(ph, F)
  BY <1>3, <1>4 DEF CellRefines, CellOn
<1>6. \A n : <<q, "A", "term", n>> \in CellHolds(ph, q) <=> n \in HeldTerms(ph, F)
  <2>1. {g \in CellDofGroups(ph) : \A k \in g[1] : ~ Flagged(CellLeaf(ph, k))}
          = {g \in CellDofGroups(ph) : g[1] \cap F = {}}
    BY <1>3, <1>4
  <2>2. CellHolds(ph, q) = {<<q, "A", "term", n>> : n \in HeldTerms(ph, F)}
    BY <2>1 DEF CellHolds, HeldTerms
  <2> QED BY <2>2
<1>7. \A n : n \in CellVary(ph) <=> \E g \in CellTies(ph) : n = Term[FirstOf(g)]
  BY DEF CellVary
<1>8. \A g \in CellTies(ph) : /\ g \subseteq F <=> \A k \in g : Flagged(CellLeaf(ph, k))
                              /\ CellOn(ph, F) /\ Term[FirstOf(g)] \notin HeldTerms(ph, F) <=> g \subseteq F
  BY <1>2, <1>4 DEF CellAgrees
<1>9. CellRefines(ph) /\ v \in {<<q, "A", "term", n>> : n \in CellVary(ph)} /\ v \notin CellHolds(ph, q)
        <=> \E g \in CellTies(ph) : /\ v = <<q, "A", "term", Term[FirstOf(g)]>>
                                    /\ \A k \in g : Flagged(CellLeaf(ph, k))
  <2>1. v \in {<<q, "A", "term", n>> : n \in CellVary(ph)}
          <=> \E g \in CellTies(ph) : v = <<q, "A", "term", Term[FirstOf(g)]>>
    BY <1>7
  <2> QED BY <1>5, <1>6, <1>8, <2>1
<1> QED BY <1>9 DEF ph, q

LEMMA PhaseVariesAsked ==
  ASSUME RecipeOK, Built, NEW v
  PROVE  (\E p \in 1 .. Total : v \in PhaseVaries(p) /\ v \notin proj.holds)
           <=> \E t : (DrivesHap(v, t) \/ DrivesCell(v, t) \/ DrivesAtom(v, t)) /\ t \subseteq recipe.flagged
<1>1. ASSUME NEW p \in 1 .. Total
      PROVE  LET ph == recipe.phases[p] IN
             v \in PhaseVaries(p) /\ v \notin proj.holds <=>
               \/ \E k \in PhaseLeaves : v = <<p - 1, "hap", k, None>> /\ Flagged(PhaseLeaf(ph, k))
               \/ \E g \in CellTies(ph) : /\ v = <<p - 1, "A", "term", Term[FirstOf(g)]>>
                                          /\ \A k \in g : Flagged(CellLeaf(ph, k))
               \/ \E a \in DOMAIN ph.atoms : \E name, ms :
                    /\ AtomDrives(ph.atoms[a], name, ms) /\ v = <<p - 1, "atom", name, a - 1>>
                    /\ \A m \in ms : Flagged(AtomLeaf(ph, ph.atoms[a], m))
  <2> DEFINE ph == recipe.phases[p]
             q == p - 1
             Cell == CellRefines(ph) /\ v \in {<<q, "A", "term", n>> : n \in CellVary(ph)}
             Hap == \E k \in PhaseLeaves : v = <<q, "hap", k, None>> /\ Flagged(PhaseLeaf(ph, k))
             Atom(a) == v \in AtomVaries(ph, ph.atoms[a], q, a - 1)
  <2>1. v \in PhaseVaries(p) <=> Cell \/ Hap \/ \E a \in DOMAIN ph.atoms : Atom(a)
    <3>1. v \in PhaseVaries(p) <=> v \in BuiltVaries(ph, q)
      BY BuiltPhase
    <3>2. v \in {<<q, "hap", k, None>> : k \in PhaseFlags(ph)} <=> Hap
      BY DEF PhaseFlags
    <3> HIDE DEF ph, q
    <3> QED BY <3>1, <3>2 DEF BuiltVaries
  <2>2. \A a \in DOMAIN ph.atoms : Atom(a) => v[1] = q /\ v[2] = "atom" /\ v[4] = a - 1
    <3> HIDE DEF ph, q
    <3> QED BY DEF AtomVaries, Independent
  <2>3. Cell => v[1] = q /\ v[2] = "A"
    OBVIOUS
  <2>4. Hap => v[1] = q /\ v[2] = "hap"
    OBVIOUS
  <2>5. /\ v[1] = q => (v \in proj.holds <=> v \in PhaseHolds(ph, q))
        /\ v[2] = "hap" => v \notin proj.holds
    BY HoldsOfPhase
  <2>6. ph.atoms \in Seq(AtomBlock)
    BY RecipeTyped DEF PhaseBlock
  <2>7. /\ v[2] = "A" => (v \in PhaseHolds(ph, q) <=> CellRefines(ph) /\ v \in CellHolds(ph, q))
        /\ \A a \in DOMAIN ph.atoms : v[2] = "atom" /\ v[4] = a - 1 =>
              (v \in PhaseHolds(ph, q) <=> v \in AtomsHeld(ph, ph.atoms[a], q, a - 1))
    BY <2>6, PhaseHoldsByKind
  <2>8. Cell /\ v \notin proj.holds <=>
          \E g \in CellTies(ph) : /\ v = <<p - 1, "A", "term", Term[FirstOf(g)]>>
                                  /\ \A k \in g : Flagged(CellLeaf(ph, k))
    <3>1. Cell /\ v \notin proj.holds <=> Cell /\ v \notin CellHolds(ph, q)
      BY <2>3, <2>5, <2>7
    <3> QED BY <3>1, CellVariesAsked
  <2>9. ASSUME NEW a \in DOMAIN ph.atoms
        PROVE  Atom(a) /\ v \notin proj.holds <=>
                 \E name, ms : /\ AtomDrives(ph.atoms[a], name, ms) /\ v = <<p - 1, "atom", name, a - 1>>
                               /\ \A m \in ms : Flagged(AtomLeaf(ph, ph.atoms[a], m))
    <3>1. Atom(a) /\ v \notin proj.holds <=> Atom(a) /\ v \notin AtomsHeld(ph, ph.atoms[a], q, a - 1)
      BY <2>2, <2>5, <2>7
    <3> QED BY <3>1, AtomVariesAsked
  <2>10. Hap => v \notin proj.holds
    BY <2>4, <2>5
  <2> HIDE DEF Cell, Hap, Atom
  <2>11. v \in PhaseVaries(p) /\ v \notin proj.holds <=>
           (Cell /\ v \notin proj.holds) \/ Hap \/ \E a \in DOMAIN ph.atoms : Atom(a) /\ v \notin proj.holds
    BY <2>1, <2>10
  <2> QED BY <2>8, <2>9, <2>11 DEF Hap
<1>2. (\E t : DrivesHap(v, t) /\ t \subseteq recipe.flagged) <=>
        \E p \in 1 .. Total : \E k \in PhaseLeaves :
          v = <<p - 1, "hap", k, None>> /\ Flagged(PhaseLeaf(recipe.phases[p], k))
  BY DEF DrivesHap, Flagged
<1>3. (\E t : DrivesCell(v, t) /\ t \subseteq recipe.flagged) <=>
        \E p \in 1 .. Total : \E g \in CellTies(recipe.phases[p]) :
          /\ v = <<p - 1, "A", "term", Term[FirstOf(g)]>>
          /\ \A k \in g : Flagged(CellLeaf(recipe.phases[p], k))
  BY DEF DrivesCell, Flagged
<1>4. (\E t : DrivesAtom(v, t) /\ t \subseteq recipe.flagged) <=>
        \E p \in 1 .. Total : \E a \in DOMAIN recipe.phases[p].atoms : \E name, ms :
          /\ AtomDrives(recipe.phases[p].atoms[a], name, ms) /\ v = <<p - 1, "atom", name, a - 1>>
          /\ \A m \in ms : Flagged(AtomLeaf(recipe.phases[p], recipe.phases[p].atoms[a], m))
  <2>1. \A ph, at, ms : {AtomLeaf(ph, at, m) : m \in ms} \subseteq recipe.flagged
                          <=> \A m \in ms : Flagged(AtomLeaf(ph, at, m))
    BY DEF Flagged
  <2>2. ASSUME NEW t, DrivesAtom(v, t), t \subseteq recipe.flagged
        PROVE  \E p \in 1 .. Total : \E a \in DOMAIN recipe.phases[p].atoms : \E name, ms :
                 /\ AtomDrives(recipe.phases[p].atoms[a], name, ms) /\ v = <<p - 1, "atom", name, a - 1>>
                 /\ \A m \in ms : Flagged(AtomLeaf(recipe.phases[p], recipe.phases[p].atoms[a], m))
    BY <2>1, <2>2 DEF DrivesAtom
  <2>3. ASSUME NEW p \in 1 .. Total, NEW a \in DOMAIN recipe.phases[p].atoms, NEW name, NEW ms,
               AtomDrives(recipe.phases[p].atoms[a], name, ms), v = <<p - 1, "atom", name, a - 1>>,
               \A m \in ms : Flagged(AtomLeaf(recipe.phases[p], recipe.phases[p].atoms[a], m))
        PROVE  \E t : DrivesAtom(v, t) /\ t \subseteq recipe.flagged
    <3> DEFINE t == {AtomLeaf(recipe.phases[p], recipe.phases[p].atoms[a], m) : m \in ms}
    <3>1. DrivesAtom(v, t) /\ t \subseteq recipe.flagged
      BY <2>1, <2>3 DEF DrivesAtom
    <3> HIDE DEF t
    <3> QED BY <3>1
  <2> QED BY <2>2, <2>3
<1> QED BY <1>1, <1>2, <1>3, <1>4

(* A built project varies one variable for every tie the recipe asks for.  *)
LEMMA VariesAsked ==
  ASSUME RecipeOK, Built, NEW v
  PROVE  v \in ProjectVaries <=> \E t : Drives(v, t) /\ t \subseteq Asked
<1>1. \A w \in HistogramVaries : w \notin proj.holds
  <2>1. \A w \in HistogramVaries : w[1] = Histogram
    BY DEF HistogramVaries
  <2> QED BY <2>1, HoldsOfPhase
<1>2. DOMAIN proj.phases = 1 .. Total
  BY DEF Built, Project, PhasesTo
<1>3. v \in ProjectVaries <=> v \in HistogramVaries \/ \E p \in 1 .. Total : v \in PhaseVaries(p) /\ v \notin proj.holds
  BY <1>1, <1>2 DEF ProjectVaries
<1>4. ASSUME NEW t, DrivesHap(v, t) \/ DrivesCell(v, t) \/ DrivesAtom(v, t)
      PROVE  t \subseteq Asked <=> t \subseteq recipe.flagged
  <2>1. Drives(v, t) /\ ~ DrivesInst(v, t)
    BY <1>4, KindOfVariable DEF Drives
  <2> QED BY <2>1, NotUnused
<1> QED BY <1>3, <1>4, HistogramVariesAsked, PhaseVariesAsked DEF Drives
------------------------------------------------------------------------------
(* A variable of an atom is read back onto one of the parameters it moves. *)
Member(name) ==
    CASE name \in ToSet(Shifts) -> Named(Shifts, Coordinates, name)
      [] name \in ToSet(AniUs)  -> Named(AniUs, Displacements, name)
      [] name = "Afrac" -> "occupancy"
      [] name = "AUiso" -> "Uiso"

LEMMA MemberDriven ==
  ASSUME NEW at \in AtomBlock, NEW name, NEW ms, AtomDrives(at, name, ms)
  PROVE  Member(name) \in ms
<1>1. /\ \A k : k \in ToSet(Shifts) <=> \E i \in 1 .. 3 : k = Shifts[i]
      /\ \A k : k \in ToSet(AniUs) <=> \E i \in 1 .. 6 : k = AniUs[i]
  <2>1. DOMAIN Shifts = 1 .. 3 /\ DOMAIN AniUs = 1 .. 6
    BY DEF Shifts, AniUs
  <2> HIDE DEF Shifts, AniUs
  <2> QED BY <2>1 DEF ToSet
<1>2. /\ \A i \in 1 .. 3 : Named(Shifts, Coordinates, Shifts[i]) = Coordinates[i]
      /\ \A i \in 1 .. 6 : Named(AniUs, Displacements, AniUs[i]) = Displacements[i]
  <2>1. DOMAIN Shifts = 1 .. 3 /\ DOMAIN AniUs = 1 .. 6
    BY DEF Shifts, AniUs
  <2> HIDE DEF Shifts, AniUs, Coordinates, Displacements
  <2>2. \A i \in 1 .. 3 : (CHOOSE j \in 1 .. 3 : Shifts[j] = Shifts[i]) = i
    BY NamesDistinct
  <2>3. \A i \in 1 .. 6 : (CHOOSE j \in 1 .. 6 : AniUs[j] = AniUs[i]) = i
    BY NamesDistinct
  <2>4. \A k : Named(Shifts, Coordinates, k) = Coordinates[CHOOSE j \in 1 .. 3 : Shifts[j] = k]
    BY <2>1 DEF Named
  <2>5. \A k : Named(AniUs, Displacements, k) = Displacements[CHOOSE j \in 1 .. 6 : AniUs[j] = k]
    BY <2>1 DEF Named
  <2> QED BY <2>2, <2>3, <2>4, <2>5
<1>3. /\ \A g \in FreeGroups(at.ids) : g \subseteq 1 .. 3 /\ Min(g) \in g
      /\ \A g \in FreeGroups(at.uids) : g \subseteq 1 .. 6 /\ Min(g) \in g
  BY GroupFacts DEF AtomBlock
<1> HIDE DEF Shifts, AniUs, Coordinates, Displacements
<1>4. \A i \in 1 .. 3 : Member(Shifts[i]) = Coordinates[i]
  BY <1>1, <1>2, NamesDistinct DEF Member
<1>5. \A i \in 1 .. 6 : Member(AniUs[i]) = Displacements[i]
  BY <1>1, <1>2, NamesDistinct DEF Member
<1>6. Member("Afrac") = "occupancy" /\ Member("AUiso") = "Uiso"
  <2>1. \A k \in {"Afrac", "AUiso"} : k \notin ToSet(Shifts) /\ k \notin ToSet(AniUs)
    BY <1>1, NamesDistinct
  <2> QED BY <2>1 DEF Member
<1> QED BY <1>3, <1>4, <1>5, <1>6 DEF AtomDrives

(* A group of tied parameters is found again from the name of its variable. *)
LEMMA TiedGroup ==
  ASSUME NEW n \in {3, 6}, NEW ids \in [1 .. n -> Nat], NEW names,
         \A i, j \in 1 .. n : names[i] = names[j] => i = j,
         NEW g \in FreeGroups(ids)
  PROVE  TiedTo(ids, names, names[Min(g)]) = g
<1>1. /\ \A h \in FreeGroups(ids) : h \subseteq 1 .. n /\ Min(h) \in h
      /\ \A h \in FreeGroups(ids) : h \cap g # {} => h = g
  BY GroupFacts
<1>2. \A h \in FreeGroups(ids) : (\E i \in h : names[i] = names[Min(g)]) <=> h = g
  BY <1>1
<1> QED BY <1>2 DEF TiedTo

(* What a variable of an atom moves. *)
AtomMoves(ph, at, name) ==
    CASE name \in ToSet(Shifts) -> {AtomLeaf(ph, at, Coordinates[i]) : i \in TiedTo(at.ids, Shifts, name)}
      [] name \in ToSet(AniUs)  -> {AtomLeaf(ph, at, Displacements[i]) : i \in TiedTo(at.uids, AniUs, name)}
      [] name = "Afrac" -> {AtomLeaf(ph, at, "occupancy")}
      [] name = "AUiso" -> {AtomLeaf(ph, at, "Uiso")}

LEMMA AtomMovesTie ==
  ASSUME NEW ph, NEW at \in AtomBlock, NEW name, NEW ms, AtomDrives(at, name, ms)
  PROVE  AtomMoves(ph, at, name) = {AtomLeaf(ph, at, m) : m \in ms}
<1>1. /\ \A k : k \in ToSet(Shifts) <=> \E i \in 1 .. 3 : k = Shifts[i]
      /\ \A k : k \in ToSet(AniUs) <=> \E i \in 1 .. 6 : k = AniUs[i]
  <2>1. DOMAIN Shifts = 1 .. 3 /\ DOMAIN AniUs = 1 .. 6
    BY DEF Shifts, AniUs
  <2> HIDE DEF Shifts, AniUs
  <2> QED BY <2>1 DEF ToSet
<1> HIDE DEF Shifts, AniUs, Coordinates, Displacements
<1>2. /\ at.ids \in [1 .. 3 -> Nat] /\ at.uids \in [1 .. 6 -> Nat]
      /\ \A g \in FreeGroups(at.ids) : Min(g) \in 1 .. 3
      /\ \A g \in FreeGroups(at.uids) : Min(g) \in 1 .. 6
  BY GroupFacts DEF AtomBlock
<1>3. \A k \in {"Afrac", "AUiso"} : k \notin ToSet(Shifts) /\ k \notin ToSet(AniUs)
  BY <1>1, NamesDistinct
<1>4. CASE name = "Afrac" /\ ms = {"occupancy"}
  BY <1>3, <1>4 DEF AtomMoves
<1>5. CASE name = "AUiso" /\ ms = {"Uiso"}
  BY <1>3, <1>5 DEF AtomMoves
<1>6. ASSUME NEW g \in FreeGroups(at.ids), name = Shifts[Min(g)], ms = {Coordinates[i] : i \in g}
      PROVE  AtomMoves(ph, at, name) = {AtomLeaf(ph, at, m) : m \in ms}
  <2>1. TiedTo(at.ids, Shifts, name) = g
    BY <1>2, <1>6, NamesDistinct, TiedGroup
  <2>2. name \in ToSet(Shifts)
    BY <1>1, <1>2, <1>6
  <2>3. AtomMoves(ph, at, name) = {AtomLeaf(ph, at, Coordinates[i]) : i \in g}
    <3> DEFINE tied == TiedTo(at.ids, Shifts, name)
    <3>1. AtomMoves(ph, at, name) = {AtomLeaf(ph, at, Coordinates[i]) : i \in tied}
      BY <1>1, <2>2, NamesDistinct DEF AtomMoves
    <3> HIDE DEF tied
    <3>2. tied = g
      BY <2>1 DEF tied
    <3> QED BY <3>1, <3>2
  <2> QED BY <1>6, <2>3
<1>7. ASSUME NEW g \in FreeGroups(at.uids), name = AniUs[Min(g)], ms = {Displacements[i] : i \in g}
      PROVE  AtomMoves(ph, at, name) = {AtomLeaf(ph, at, m) : m \in ms}
  <2>1. TiedTo(at.uids, AniUs, name) = g
    BY <1>2, <1>7, NamesDistinct, TiedGroup
  <2>2. name \in ToSet(AniUs) /\ name \notin ToSet(Shifts)
    BY <1>1, <1>2, <1>7, NamesDistinct
  <2>3. AtomMoves(ph, at, name) = {AtomLeaf(ph, at, Displacements[i]) : i \in g}
    <3> DEFINE tied == TiedTo(at.uids, AniUs, name)
    <3>1. AtomMoves(ph, at, name) = {AtomLeaf(ph, at, Displacements[i]) : i \in tied}
      BY <1>1, <2>2, NamesDistinct DEF AtomMoves
    <3> HIDE DEF tied
    <3>2. tied = g
      BY <2>1 DEF tied
    <3> QED BY <3>1, <3>2
  <2> QED BY <1>7, <2>3
<1> QED BY <1>4, <1>5, <1>6, <1>7 DEF AtomDrives

(* The phase and the atom that a variable's names stand for. *)
LEMMA NamesRead ==
  ASSUME RecipeOK, Built, NEW i \in 1 .. Total, NEW v, v[1] = i - 1
  PROVE  /\ PhaseOf(v) = recipe.phases[i] /\ recipe.phases[v[1] + 1] = recipe.phases[i]
         /\ \A a \in DOMAIN recipe.phases[i].atoms :
              v[4] = a - 1 => /\ AtomOf(v) = recipe.phases[i].atoms[a]
                              /\ recipe.phases[i].atoms[v[4] + 1] = recipe.phases[i].atoms[a]
<1> DEFINE ph == recipe.phases[i]
<1>1. /\ Total \in Nat /\ ph \in ToSet(recipe.phases) /\ ph \in PhaseBlock
      /\ \A other \in ToSet(recipe.phases) : other.name = ph.name => other = ph
      /\ \A a, b \in DOMAIN ph.atoms : ph.atoms[a].label = ph.atoms[b].label => a = b
  BY RecipeTyped DEF ToSet
<1>2. /\ proj.phases[i].name = ph.name
      /\ \A a \in DOMAIN ph.atoms : proj.phases[i].atoms[a].label = ph.atoms[a].label
  BY BuiltProject
<1>3. v[1] + 1 = i
  BY <1>1
<1>4. PhaseOf(v) = ph
  <2> HIDE DEF ph
  <2> QED BY <1>1, <1>2, <1>3 DEF PhaseOf
<1>5. ASSUME NEW a \in DOMAIN ph.atoms, v[4] = a - 1
      PROVE  AtomOf(v) = ph.atoms[a] /\ v[4] + 1 = a
  <2>1. a \in Nat
    BY <1>1 DEF PhaseBlock
  <2>2. v[4] + 1 = a
    BY <1>5, <2>1
  <2>3. AtomOf(v) = CHOOSE at \in ToSet(ph.atoms) : at.label = ph.atoms[a].label
    BY <1>2, <1>3, <1>4, <2>2 DEF AtomOf
  <2> HIDE DEF ph
  <2>4. ph.atoms[a] \in ToSet(ph.atoms) /\ \A at \in ToSet(ph.atoms) : at.label = ph.atoms[a].label => at = ph.atoms[a]
    BY <1>1, <1>5 DEF ToSet
  <2> QED BY <2>2, <2>3, <2>4
<1> QED BY <1>3, <1>4, <1>5

(* Outside the cells a variable moves the tie it stands for, and is read   *)
(* back onto a leaf of it; a metric term is not read back.                 *)
LEMMA PathOfVariable ==
  ASSUME RecipeOK, Built, NEW v, NEW t, Drives(v, t)
  PROVE  IF DrivesCell(v, t) THEN PathOf(v) = {} ELSE Moves(v) = t /\ \E x \in t : PathOf(v) = {x}
<1>1. CASE DrivesInst(v, t) \/ DrivesBack(v, t) \/ DrivesBkPk(v, t) \/ DrivesPeak(v, t)
  <2>1. ~ DrivesCell(v, t)
    BY <1>1, KindOfVariable
  <2>2. \E x : PathOf(v) = {x} /\ t = {x}
    <3>1. CASE DrivesInst(v, t)
      BY <3>1 DEF DrivesInst, PathOf
    <3>2. CASE DrivesBack(v, t)
      BY <3>2 DEF DrivesBack, PathOf
    <3>3. CASE DrivesBkPk(v, t)
      <4>1. PICK k \in PeakLists, i \in 0 .. recipe.bkPeaks - 1 :
              v = <<Histogram, "BkPk", k, i>> /\ t = {PeakLeaf("background", k, i)}
        BY <3>3 DEF DrivesBkPk
      <4>2. PathOf(v) = {PeakLeaf("background", k, i)}
        BY <4>1 DEF PathOf
      <4> QED BY <4>1, <4>2
    <3>4. CASE DrivesPeak(v, t)
      BY <3>4 DEF DrivesPeak, PathOf
    <3> QED BY <1>1, <3>1, <3>2, <3>3, <3>4
  <2>3. Moves(v) = PathOf(v)
    <3>1. v[2] \in {"inst", "Back", "BkPk", "peak"}
      BY <1>1, KindOfVariable
    <3> QED BY <3>1 DEF Moves
  <2> QED BY <2>1, <2>2, <2>3
<1>2. CASE DrivesHap(v, t)
  <2>1. PICK i \in 1 .. Total, k \in PhaseLeaves :
          v = <<i - 1, "hap", k, None>> /\ t = {PhaseLeaf(recipe.phases[i], k)}
    BY <1>2 DEF DrivesHap
  <2>2. PhaseOf(v) = recipe.phases[i] /\ recipe.phases[v[1] + 1] = recipe.phases[i]
    BY <2>1, NamesRead
  <2>3. PathOf(v) = {PhaseLeaf(recipe.phases[i], k)}
    BY <2>1, <2>2 DEF PathOf
  <2>4. Moves(v) = {PhaseLeaf(recipe.phases[i], k)}
    BY <2>1, <2>2 DEF Moves
  <2> QED BY <1>2, <2>1, <2>3, <2>4, KindOfVariable
<1>3. CASE DrivesCell(v, t)
  <2>1. v[2] = "A"
    BY <1>3, KindOfVariable
  <2> QED BY <1>3, <2>1 DEF PathOf
<1>4. CASE DrivesAtom(v, t)
  <2>1. PICK i \in 1 .. Total : \E a \in DOMAIN recipe.phases[i].atoms : \E name, ms :
          /\ AtomDrives(recipe.phases[i].atoms[a], name, ms)
          /\ v = <<i - 1, "atom", name, a - 1>>
          /\ t = {AtomLeaf(recipe.phases[i], recipe.phases[i].atoms[a], m) : m \in ms}
    BY <1>4 DEF DrivesAtom
  <2>8. PICK a \in DOMAIN recipe.phases[i].atoms : \E name, ms :
          /\ AtomDrives(recipe.phases[i].atoms[a], name, ms)
          /\ v = <<i - 1, "atom", name, a - 1>>
          /\ t = {AtomLeaf(recipe.phases[i], recipe.phases[i].atoms[a], m) : m \in ms}
    BY <2>1
  <2>2. PICK name, ms :
          /\ AtomDrives(recipe.phases[i].atoms[a], name, ms)
          /\ v = <<i - 1, "atom", name, a - 1>>
          /\ t = {AtomLeaf(recipe.phases[i], recipe.phases[i].atoms[a], m) : m \in ms}
    BY <2>8
  <2> DEFINE ph == recipe.phases[i]
             at == ph.atoms[a]
  <2>4. at \in AtomBlock
    BY RecipeTyped DEF PhaseBlock
  <2>5. /\ PhaseOf(v) = ph /\ AtomOf(v) = at /\ v[2] = "atom" /\ v[3] = name
        /\ recipe.phases[v[1] + 1] = ph /\ ph.atoms[v[4] + 1] = at
    BY <2>2, NamesRead
  <2>6. PathOf(v) = {AtomLeaf(ph, at, Member(name))}
    <3> HIDE DEF ph, at
    <3> QED BY <2>5 DEF PathOf, Member
  <2>7. Member(name) \in ms
    BY <2>2, <2>4, MemberDriven
  <2>9. Moves(v) = {AtomLeaf(ph, at, m) : m \in ms}
    <3>1. Moves(v) = AtomMoves(ph, at, name)
      <4> HIDE DEF ph, at
      <4> QED BY <2>5 DEF Moves, AtomMoves
    <3>2. AtomDrives(at, name, ms)
      BY <2>2
    <3> HIDE DEF ph, at
    <3> QED BY <2>4, <3>1, <3>2, AtomMovesTie
  <2> QED BY <1>4, <2>2, <2>6, <2>7, <2>9, KindOfVariable
<1> QED BY <1>1, <1>2, <1>3, <1>4 DEF Drives

(* What moves with a variable is asked for, and is the whole tie.          *)
LEMMA MovesAsked ==
  ASSUME RecipeOK, Built, NEW v, NEW t, Drives(v, t), t \subseteq Asked
  PROVE  t \subseteq Moves(v) /\ Moves(v) \subseteq Asked
<1>1. CASE ~ DrivesCell(v, t)
  BY <1>1, PathOfVariable
<1>2. CASE DrivesCell(v, t)
  <2>1. PICK i \in 1 .. Total : \E g \in CellTies(recipe.phases[i]) :
          v = <<i - 1, "A", "term", Term[FirstOf(g)]>> /\ t = {CellLeaf(recipe.phases[i], k) : k \in g}
    BY <1>2 DEF DrivesCell
  <2>2. PICK g \in CellTies(recipe.phases[i]) :
          v = <<i - 1, "A", "term", Term[FirstOf(g)]>> /\ t = {CellLeaf(recipe.phases[i], k) : k \in g}
    BY <2>1
  <2> DEFINE ph == recipe.phases[i]
             F == CellAsked(ph)
             moving == CellMoves(ph, Term[FirstOf(g)])
  <2>3. CellAgrees(ph, F)
    BY CellsAgree
  <2>4. g \subseteq Lengths \cup Angles
    BY <2>3 DEF CellAgrees
  <2>5. v[1] + 1 = i /\ v[2] = "A" /\ v[4] = Term[FirstOf(g)]
    BY <2>2, RecipeTyped
  <2>6. Moves(v) = {CellLeaf(ph, k) : k \in moving}
    BY <2>5 DEF Moves
  <2>7. \A k \in g : CellLeaf(ph, k) \in recipe.flagged
    BY <2>2 DEF Asked
  <2>8. g \subseteq F
    BY <2>4, <2>7 DEF CellAsked, Flagged
  <2>9. g \subseteq moving /\ moving \subseteq F
    BY <2>3, <2>8 DEF CellAgrees
  <2>10. \A k \in F : CellLeaf(ph, k) \in Asked
    <3>1. \A x \in Unused : x[2] = "instrument"
      BY DEF Unused, InstrumentLeaf
    <3>2. \A k : CellLeaf(ph, k) \notin Unused
      BY <3>1 DEF CellLeaf
    <3> QED BY <3>2 DEF CellAsked, Flagged, Asked
  <2> HIDE DEF ph, F, moving
  <2>11. t = {CellLeaf(ph, k) : k \in g}
    BY <2>2 DEF ph
  <2> QED BY <2>6, <2>9, <2>10, <2>11
<1> QED BY <1>1, <1>2
------------------------------------------------------------------------------
(* The ties the recipe flags, and those of them that can be varied.        *)
FlaggedTies == {t \in Ties(recipe) : t \subseteq recipe.flagged}
AskedTies == {t \in Ties(recipe) : t \subseteq Asked}

(* GSAS-II varies as many variables as there are ties asked for.           *)
LEMMA BuiltCount ==
  ASSUME RecipeOK, Built
  PROVE  /\ IsFiniteSet(FlaggedTies) /\ AskedTies \subseteq FlaggedTies
         /\ IsFiniteSet(ProjectVaries) /\ Cardinality(ProjectVaries) = Cardinality(AskedTies)
         /\ Requested(recipe) = Cardinality(FlaggedTies)
         /\ ~ recipe.spf => AskedTies = FlaggedTies
<1> DEFINE T(v) == CHOOSE t : Drives(v, t) /\ t \subseteq Asked
           f == [v \in ProjectVaries |-> T(v)]
<1>1. Asked \subseteq recipe.flagged /\ (~ recipe.spf => Asked = recipe.flagged)
  BY DEF Asked, Unused
<1>2. AskedTies \subseteq FlaggedTies /\ (~ recipe.spf => AskedTies = FlaggedTies)
  BY <1>1 DEF AskedTies, FlaggedTies
<1>3. IsFiniteSet(FlaggedTies) /\ IsFiniteSet(AskedTies)
  <2>1. IsFiniteSet(SUBSET recipe.flagged)
    BY RecipeTyped, FS_SUBSET
  <2>2. FlaggedTies \in SUBSET (SUBSET recipe.flagged) /\ AskedTies \in SUBSET FlaggedTies
    BY <1>2 DEF FlaggedTies
  <2>3. IsFiniteSet(FlaggedTies)
    BY <2>1, <2>2, FS_Subset
  <2> QED BY <2>2, <2>3, FS_Subset
<1>4. Requested(recipe) = Cardinality(FlaggedTies)
  <2>1. \A t \in Ties(recipe) : t \cap recipe.flagged # {} <=> t \subseteq recipe.flagged
    <3> SUFFICES ASSUME NEW t \in Ties(recipe)
                 PROVE  t \cap recipe.flagged # {} <=> t \subseteq recipe.flagged
      OBVIOUS
    <3>1. PICK v : Drives(v, t)
      BY TieOfVariable
    <3>2. t # {} /\ (t \subseteq recipe.flagged \/ t \cap recipe.flagged = {})
      BY <3>1, TieNotEmpty, WholeTies
    <3> QED BY <3>2
  <2>2. {t \in Ties(recipe) : t \cap recipe.flagged # {}} = FlaggedTies
    BY <2>1 DEF FlaggedTies
  <2> QED BY <2>2 DEF Requested
<1>5. ASSUME NEW v \in ProjectVaries
      PROVE  Drives(v, T(v)) /\ T(v) \in AskedTies
  <2>1. \E t : Drives(v, t) /\ t \subseteq Asked
    BY VariesAsked
  <2>2. Drives(v, T(v)) /\ T(v) \subseteq Asked
    BY <2>1
  <2> HIDE DEF T
  <2> QED BY <2>2, TieOfVariable DEF AskedTies
<1> HIDE DEF T
<1>6. f \in [ProjectVaries -> AskedTies]
  BY <1>5
<1>7. \A v, w \in ProjectVaries : f[v] = f[w] => v = w
  <2> SUFFICES ASSUME NEW v \in ProjectVaries, NEW w \in ProjectVaries, T(v) = T(w)
               PROVE  v = w
    OBVIOUS
  <2>1. Drives(v, T(v)) /\ Drives(w, T(w)) /\ T(v) \cap T(w) # {}
    BY <1>5, TieNotEmpty
  <2> QED BY <2>1, Determined
<1>8. \A t \in AskedTies : \E v \in ProjectVaries : f[v] = t
  <2> SUFFICES ASSUME NEW t \in AskedTies
               PROVE  \E v \in ProjectVaries : T(v) = t
    OBVIOUS
  <2>1. t \in Ties(recipe) /\ t \subseteq Asked
    BY DEF AskedTies
  <2>2. PICK v : Drives(v, t)
    BY <2>1, TieOfVariable
  <2>3. v \in ProjectVaries
    BY <2>1, <2>2, VariesAsked
  <2>4. T(v) = t
    BY <1>5, <2>2, <2>3, Determined
  <2> QED BY <2>3, <2>4
<1>9. f \in Bijection(ProjectVaries, AskedTies)
  <2> HIDE DEF f
  <2> QED BY <1>6, <1>7, <1>8, Fun_IsBij
<1>10. ExistsBijection(AskedTies, ProjectVaries)
  BY <1>9, Fun_ExistsBij, Fun_ExistsBijSymmetric
<1>11. IsFiniteSet(ProjectVaries) /\ Cardinality(ProjectVaries) = Cardinality(AskedTies)
  BY <1>3, <1>10, FS_Bijection
<1> QED BY <1>2, <1>3, <1>4, <1>11

LEMMA BuiltMoves ==
  ASSUME RecipeOK, Built
  PROVE  UNION {Moves(v) : v \in ProjectVaries} = Asked
<1>1. ASSUME NEW v \in ProjectVaries
      PROVE  Moves(v) \subseteq Asked
  BY VariesAsked, MovesAsked
<1>2. ASSUME NEW x \in Asked
      PROVE  \E v \in ProjectVaries : x \in Moves(v)
  <2>1. PICK t \in Ties(recipe) : x \in t
    BY DEF Asked, RecipeOK, Accepted
  <2>2. PICK v : Drives(v, t)
    BY TieOfVariable
  <2>3. t \subseteq Asked
    BY <2>1, <2>2, WholeTies
  <2> QED BY <2>1, <2>2, <2>3, VariesAsked, MovesAsked
<1> QED BY <1>1, <1>2

(* The ties that stay put when all of the project's variables are varied.  *)
LEMMA BuiltSilent ==
  ASSUME RecipeOK, Built
  PROVE  {g \in Ties(recipe) : g \subseteq recipe.flagged /\ g \cap Asked = {}} = FlaggedTies \ AskedTies
<1> SUFFICES ASSUME NEW g \in Ties(recipe)
             PROVE  g \cap Asked = {} <=> ~ g \subseteq Asked
  BY DEF FlaggedTies, AskedTies
<1>1. PICK v : Drives(v, g)
  BY TieOfVariable
<1>2. g # {} /\ (g \subseteq Asked \/ g \cap Asked = {})
  BY <1>1, TieNotEmpty, WholeTies
<1> QED BY <1>2

(* A variable of the project: it moves a tie that was asked for, and is     *)
(* read back onto a leaf of it, or it is a metric term.                    *)
LEMMA PathAsked ==
  ASSUME RecipeOK, Built, NEW v \in ProjectVaries
  PROVE  /\ PathOf(v) \subseteq recipe.flagged
         /\ \/ \E t : Drives(v, t) /\ Moves(v) = t /\ \E x \in t : PathOf(v) = {x}
            \/ PathOf(v) = {} /\ \A x \in Moves(v) : x[2] = "unit_cell"
<1>1. PICK t : Drives(v, t) /\ t \subseteq Asked
  BY VariesAsked
<1>2. t \subseteq recipe.flagged
  BY <1>1 DEF Asked
<1>3. CASE DrivesCell(v, t)
  <2>1. PathOf(v) = {} /\ v[2] = "A"
    BY <1>1, <1>3, PathOfVariable, KindOfVariable
  <2>2. \A x \in Moves(v) : x[2] = "unit_cell"
    BY <2>1 DEF Moves, CellLeaf
  <2> QED BY <2>1, <2>2
<1>4. CASE ~ DrivesCell(v, t)
  BY <1>1, <1>2, <1>4, PathOfVariable
<1> QED BY <1>3, <1>4
==============================================================================
