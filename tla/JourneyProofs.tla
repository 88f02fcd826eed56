---------------------------- MODULE JourneyProofs ----------------------------
(***************************************************************************)
(* What holds of the journey of a recipe's parameters for every set of     *)
(* parameters, every ties and every engine: what the engines free, what     *)
(* stays held, what is written of what the fit moved, and that a run that  *)
(* ends inside its bounds ends in a valid output recipe.                   *)
(***************************************************************************)
EXTENDS Journey, FiniteSetTheorems, FunctionTheorems, TLAPS

LEMMA RepFree == \A p \in Free : /\ Rep[p] \in Free /\ Rep[Rep[p]] = Rep[p]
                                 /\ Rep[p] \in Reps /\ p \in Members(Rep[p])
  BY TiesAssumption DEF Free, Reps, Members

LEMMA RepsAre == \A g \in Reps : g \in Free /\ Rep[g] = g /\ K[g] = 1 /\ C[g] = 0
  BY TiesAssumption, RepFree DEF Free, Reps

(* The values a model holds are whole numbers that obey the ties. *)
LEMMA DerivedTied ==
  ASSUME NEW v \in [Param -> Int]
  PROVE  /\ Derived(v) \in [Param -> Int]
         /\ \A p \in Free : Derived(v)[p] = Tied(p, Derived(v)[Rep[p]])
         /\ \A g \in Reps : Derived(v)[g] = v[g]
<1>1. \A p \in Free : Rep[p] \in Free /\ K[Rep[p]] = 1 /\ C[Rep[p]] = 0 /\ Rep[Rep[p]] = Rep[p]
  BY TiesAssumption, RepFree DEF Free
<1>2. ASSUME NEW p \in Param PROVE Derived(v)[p] \in Int
  BY TiesAssumption DEF Derived, Tied
<1>3. Derived(v) \in [Param -> Int]
  BY <1>2 DEF Derived
<1>4. ASSUME NEW g \in Reps PROVE Derived(v)[g] = v[g]
  BY RepsAre, TiesAssumption DEF Derived, Tied, Free
<1>5. ASSUME NEW p \in Free PROVE Derived(v)[p] = Tied(p, Derived(v)[Rep[p]])
  <2>1. Derived(v)[p] = Tied(p, v[Rep[p]])
    BY DEF Derived, Free
  <2>2. Derived(v)[Rep[p]] = v[Rep[p]]
    BY <1>4, RepFree
  <2> QED BY <2>1, <2>2
<1> QED BY <1>3, <1>4, <1>5

LEMMA UntiedInt ==
  ASSUME NEW p \in Param, NEW x \in Int
  PROVE  Untied(p, x) \in Int
<1>1. K[p] \in Int /\ K[p] # 0 /\ C[p] \in Int
  BY TiesAssumption
<1>2. K[p] * K[p] > 0 /\ K[p] * K[p] \in Int
  BY <1>1
<1>3. K[p] * (x - C[p]) \in Int
  BY <1>1
<1> QED BY <1>2, <1>3 DEF Untied

LEMMA UntiedEqual ==
  ASSUME NEW p \in Param, NEW x \in Int, K[p] = 1, C[p] = 0
  PROVE  Untied(p, x) = x
  BY DEF Untied

LEMMA BoundTyped ==
  ASSUME NEW r \in Recipe, NEW p \in Param
  PROVE  TiedMin(r, p) \in Bound /\ TiedMax(r, p) \in Bound
  BY TiesAssumption DEF TiedMin, TiedMax, TiedBound, Tied, Bound, Recipe

LEMMA ValidatedTyped ==
  ASSUME NEW r \in Recipe
  PROVE  /\ Validated(r) \in Recipe
         /\ Validated(r).value = Derived(r.value)
         /\ Validated(r).flag = r.flag
<1>1. r.value \in [Param -> Int] /\ r.flag \in [Param -> BOOLEAN]
      /\ r.min \in [Param -> Bound] /\ r.max \in [Param -> Bound]
  BY DEF Recipe
<1>2. Derived(r.value) \in [Param -> Int]
  BY <1>1, DerivedTied
<1>3. [p \in Param |-> IF p \in Fixed THEN r.min[p] ELSE TiedMin(r, p)] \in [Param -> Bound]
  BY <1>1, BoundTyped
<1>4. [p \in Param |-> IF p \in Fixed THEN r.max[p] ELSE TiedMax(r, p)] \in [Param -> Bound]
  BY <1>1, BoundTyped
<1> QED BY <1>1, <1>2, <1>3, <1>4 DEF Validated, Recipe

(* What a gateway reads back: values of free parameters, and of held ones  *)
(* only in a cell that GSAS-II refines.                                    *)
ReportOK(m, rep) ==
    /\ rep.at \subseteq Free
    /\ rep.value \in [rep.at -> Int]
    /\ \A p \in rep.at : \/ m.flag[p]
                          \/ /\ engine = "gsasii"
                             /\ \E c \in Cells : p \in c /\ c \cap Flagged(m) # {}

LEMMA StandIn ==
  ASSUME NEW m, NEW rep, ReportOK(m, rep), NEW g \in Reps, Reported(rep, g)
  PROVE  Stand(rep, g) \in Members(g) /\ Stand(rep, g) \in rep.at
<1>1. CASE g \in rep.at
  BY <1>1, RepsAre DEF Stand, Members
<1>2. CASE g \notin rep.at
  <2>1. \E x \in Members(g) : x \in rep.at
    BY DEF Reported
  <2> QED BY <1>2, <2>1 DEF Stand
<1> QED BY <1>1, <1>2

LEMMA RepValueInt ==
  ASSUME NEW m \in Recipe, NEW rep, ReportOK(m, rep), NEW g \in Reps
  PROVE  RepValue(m, rep, g) \in Int
<1>1. CASE Reported(rep, g)
  <2>1. Stand(rep, g) \in Free /\ Stand(rep, g) \in rep.at
    BY <1>1, StandIn DEF Members
  <2>2. rep.value[Stand(rep, g)] \in Int
    BY <2>1 DEF ReportOK
  <2> QED BY <1>1, <2>1, <2>2, UntiedInt DEF RepValue, Free
<1>2. CASE ~ Reported(rep, g)
  BY <1>2, RepsAre DEF RepValue, Recipe, Free
<1> QED BY <1>1, <1>2

(* The output recipe is a recipe whose values obey every tie. *)
LEMMA OutputTied ==
  ASSUME NEW m \in Recipe, NEW rep, ReportOK(m, rep)
  PROVE  /\ OutputOf(m, rep) \in Recipe
         /\ OutputOf(m, rep).value = Written(m, rep)
         /\ \A p \in Free : Written(m, rep)[p] = Tied(p, Written(m, rep)[Rep[p]])
         /\ \A g \in Reps : Written(m, rep)[g] = RepValue(m, rep, g)
<1>1. m.value \in [Param -> Int] /\ m.flag \in [Param -> BOOLEAN]
      /\ m.min \in [Param -> Bound] /\ m.max \in [Param -> Bound]
  BY DEF Recipe
<1>2. \A p \in Free : /\ p \in Param /\ Rep[p] \in Reps
                      /\ RepValue(m, rep, Rep[p]) \in Int
  BY RepValueInt, RepFree DEF Free
<1>3. \A p \in Param : Written(m, rep)[p] \in Int
  <2>1. TAKE p \in Param
  <2>2. CASE p \in Fixed
    <3>1. p \notin rep.at
      BY <2>2 DEF ReportOK, Free
    <3> QED BY <2>2, <3>1, <1>1 DEF Written
  <2>3. CASE p \notin Fixed
    <3>1. p \in Free
      BY <2>3 DEF Free
    <3> QED BY <2>3, <3>1, <1>2, TiesAssumption DEF Written, Tied
  <2> QED BY <2>2, <2>3
<1>4. Written(m, rep) \in [Param -> Int]
  BY <1>3 DEF Written
<1>5. \A g \in Reps : Written(m, rep)[g] = RepValue(m, rep, g)
  <2>1. TAKE g \in Reps
  <2>2. g \in Free /\ g \in Param /\ g \notin Fixed /\ Rep[g] = g /\ K[g] = 1 /\ C[g] = 0
    BY RepsAre DEF Free
  <2>3. RepValue(m, rep, g) \in Int
    BY <2>2, <1>2
  <2> QED BY <2>2, <2>3 DEF Written, Tied
<1>6. \A p \in Free : Written(m, rep)[p] = Tied(p, Written(m, rep)[Rep[p]])
  <2>1. TAKE p \in Free
  <2>2. Written(m, rep)[p] = Tied(p, RepValue(m, rep, Rep[p]))
    BY DEF Written, Free
  <2> QED BY <2>2, <1>2, <1>5
<1>7. OutputOf(m, rep) \in Recipe /\ OutputOf(m, rep).value = Written(m, rep)
  BY <1>1, <1>4 DEF OutputOf, Recipe
<1> QED BY <1>5, <1>6, <1>7
------------------------------------------------------------------------------
Running == {"model", "built", "fitted", "read", "done"}

(* The strengthening: what each stage knows of the stages before it. *)
RawOK == /\ raw \in Recipe /\ engine \in Engines /\ left \subseteq Param
         /\ run \in 1 .. MaxRuns /\ pc \in Stages
ModelOK == pc \in Running => Accepts(engine, raw) /\ model = Validated(raw)
FreedOK == IF pc \in {"built", "fitted", "read", "done", "diverged"}
           THEN /\ freed = Frees(model)
                /\ engine = "easydiffraction" => NotTiedAlike(model) = {}
           ELSE freed = {}
FitOK == /\ pc \notin {"fitted", "read", "done"} => fit = NoFit
         /\ pc \in {"fitted", "read", "done"} =>
              /\ fit.varied \subseteq freed
              /\ fit.value \in [fit.varied -> Int]
              /\ engine = "easydiffraction" => fit.varied = freed
ReportIsOK == IF pc \in {"read", "done"} THEN ReportOK(model, report) ELSE report = NoReport
Noise == [CellParam \cap Free -> Int]
ReadOK == pc \in {"read", "done"} =>
            \/ /\ engine = "gsasii"
               /\ \E noise \in Noise, lost \in SUBSET (fit.varied \ CellParam) :
                    /\ report = GsasiiRead(noise, lost)
                    /\ ~ fit.stray => \A p \in CellParam \cap Free : noise[p] \in {0, 1}
            \/ engine = "topas" /\ \E missing \in SUBSET freed : report = TopasRead(missing)
            \/ engine = "easydiffraction" /\ report = EasydiffractionRead
OutOK == pc = "done" => /\ out = OutputOf(model, report)
                        /\ valid = Valid(engine, model, report)
                        /\ rows = Rows(model, report, left)

Inv == RawOK /\ ModelOK /\ FreedOK /\ FitOK /\ ReportIsOK /\ ReadOK /\ OutOK

(* In an accepted recipe a tie group carries one flag, and every gateway   *)
(* frees the flagged groups, GSAS-II because its cell groups are refined   *)
(* together or not at all.                                                 *)
LEMMA FreesFlagged ==
  ASSUME RawOK, Accepts(engine, raw), model = Validated(raw)
  PROVE  /\ Frees(model) = {Rep[p] : p \in Flagged(model)}
         /\ Frees(model) \subseteq Reps
         /\ \A g \in Frees(model) : \A p \in Members(g) : model.flag[p] = TRUE
<1>1. /\ model.flag = raw.flag /\ raw.flag \in [Param -> BOOLEAN]
  BY ValidatedTyped DEF RawOK, Recipe
<1>2. /\ \A p \in Fixed : ~ raw.flag[p]
      /\ \A p \in Free : raw.flag[p] = raw.flag[Rep[p]]
  BY DEF Accepts, TieRules
<1>3. \A p \in Flagged(model) : p \in Free /\ Rep[p] \in Reps /\ raw.flag[Rep[p]]
  BY <1>1, <1>2, RepFree DEF Flagged, Free
<1>4. \A g \in Reps : g \in Free /\ g \in Param /\ Rep[g] = g
  BY RepsAre DEF Free
<1>5. {g \in Reps : raw.flag[g]} = {Rep[p] : p \in Flagged(model)}
  <2>1. ASSUME NEW g \in Reps, raw.flag[g] PROVE g \in {Rep[p] : p \in Flagged(model)}
    BY <2>1, <1>1, <1>4 DEF Flagged
  <2> QED BY <2>1, <1>3
<1>6. ASSUME engine = "gsasii" PROVE GsasiiFrees(model) = {g \in Reps : raw.flag[g]}
  <2>1. \A p, q \in Free : CellGroup[p] = CellGroup[q] => raw.flag[p] = raw.flag[q]
    BY <1>6 DEF Accepts, CellGroupRule
  <2>2. ASSUME NEW g \in Reps, raw.flag[g] PROVE g \in GsasiiFrees(model)
    BY <2>2, <1>1, <1>4 DEF GsasiiFrees
  <2>3. ASSUME NEW g \in GsasiiFrees(model) PROVE g \in Reps /\ raw.flag[g]
    BY <2>1, <1>1, <1>4 DEF GsasiiFrees
  <2> QED BY <2>2, <2>3
<1>7. Frees(model) = {g \in Reps : raw.flag[g]}
  <2>1. engine \in {"gsasii", "topas", "easydiffraction"}
    BY BoundsAssumption DEF RawOK
  <2>2. CASE engine = "gsasii"
    BY <2>2, <1>6 DEF Frees
  <2>3. CASE engine = "topas"
    BY <2>3, <1>1 DEF Frees, TopasFrees
  <2>4. CASE engine = "easydiffraction"
    BY <2>4, <1>1 DEF Frees, EasydiffractionFrees
  <2> QED BY <2>1, <2>2, <2>3, <2>4
<1>8. \A g \in Frees(model) : \A p \in Members(g) : model.flag[p] = TRUE
  BY <1>7, <1>1, <1>2 DEF Members, Free
<1> QED BY <1>5, <1>7, <1>8

(* A recipe is first read as its author wrote it, in the first run.        *)
THEOREM JourneyInit == Init => Inv
<1> SUFFICES ASSUME Init PROVE Inv
  OBVIOUS
<1>1. RawOK
  BY BoundsAssumption DEF Init, RawOK, Stages
<1> QED BY <1>1 DEF Init, Inv, ModelOK, FreedOK, FitOK, ReportIsOK, ReadOK, OutOK, Running

(* The member easydiffraction frees for a group is one of the group. *)
LEMMA FreeMemberIn ==
  ASSUME NEW m, NotTiedAlike(m) = {}, NEW g \in EasydiffractionFrees(m)
  PROVE  FreeMember(g) \in Members(g) /\ FreeMember(g) \in Param /\ Rep[FreeMember(g)] = g
<1>1. Cardinality(Unconstrained[g]) = 1 /\ g \in Reps
  BY DEF NotTiedAlike, EasydiffractionFrees
<1>2. Unconstrained[g] # {}
  BY <1>1, FS_EmptySet
<1>3. FreeMember(g) \in Unconstrained[g]
  BY <1>2 DEF FreeMember
<1> QED BY <1>1, <1>3, EngineTies DEF Members, Free

(* A fit ends with whole numbers. *)
LEMMA ReachInt ==
  ASSUME RawOK, NEW g \in Reps,
         engine = "easydiffraction" => FreeMember(g) \in Param
  PROVE  Reach(g) \subseteq Int
<1>1. g \in Param /\ Values[g] \subseteq Int
  BY RepsAre, BoundsAssumption DEF Free
<1>2. engine \in {"gsasii", "topas", "easydiffraction"}
  BY BoundsAssumption DEF RawOK
<1>3. CASE engine = "gsasii"
  BY <1>1, <1>3 DEF Reach
<1>4. CASE engine = "topas"
  BY <1>1, <1>4 DEF Reach
<1>5. CASE engine = "easydiffraction"
  <2> DEFINE f == FreeMember(g)
  <2>1. f \in Param /\ Values[f] \subseteq Int /\ Shift[f] \in Int
    BY <1>5, BoundsAssumption
  <2>2. \A v \in Values[f] : v - Shift[f] \in Int
    BY <2>1
  <2> QED BY <1>5, <2>2 DEF Reach
<1> QED BY <1>2, <1>3, <1>4, <1>5

LEMMA FitStep == Inv /\ Fit => Inv'
<1> SUFFICES ASSUME Inv, Fit PROVE Inv'
  OBVIOUS
<1> USE DEF Inv
<1>1. Accepts(engine, raw) /\ model = Validated(raw) /\ freed = Frees(model)
      /\ (engine = "easydiffraction" => NotTiedAlike(model) = {})
  BY DEF Fit, ModelOK, FreedOK, Running
<1>2. freed \subseteq Reps
  BY <1>1, FreesFlagged
<1>3. ASSUME NEW g \in freed PROVE Reach(g) \subseteq Int
  <2>1. engine = "easydiffraction" => FreeMember(g) \in Param
    BY <1>1, <1>3, FreeMemberIn DEF Frees
  <2> QED BY <1>2, <2>1, ReachInt
<1>4. PICK varied \in SUBSET freed :
       \E noEsd \in SUBSET freed :
       \E value \in [varied -> UNION {Reach(g) : g \in varied}] :
       \E stray \in BOOLEAN :
         /\ engine = "easydiffraction" => varied = freed
         /\ \A g \in varied : value[g] \in Reach(g)
         /\ fit' = [varied |-> varied, noEsd |-> noEsd, value |-> value, stray |-> stray]
  BY DEF Fit
<1>8. PICK noEsd \in SUBSET freed, value \in [varied -> UNION {Reach(g) : g \in varied}],
           stray \in BOOLEAN :
         /\ engine = "easydiffraction" => varied = freed
         /\ \A g \in varied : value[g] \in Reach(g)
         /\ fit' = [varied |-> varied, noEsd |-> noEsd, value |-> value, stray |-> stray]
  BY <1>4
<1>5. value \in [varied -> Int]
  BY <1>3, <1>8
<1>6. FitOK'
  BY <1>5, <1>8 DEF Fit, FitOK
<1>7. RawOK'
  BY DEF Fit, RawOK, Stages
<1> QED BY <1>1, <1>6, <1>7 DEF Fit, ModelOK, FreedOK, ReportIsOK, ReadOK, OutOK, Running,
             Frees, GsasiiFrees, TopasFrees, EasydiffractionFrees

(* What each gateway reads back is well formed. *)
LEMMA GsasiiReadOK ==
  ASSUME Inv, pc = "fitted", engine = "gsasii",
         NEW noise \in [CellParam \cap Free -> Int], NEW lost
  PROVE  ReportOK(model, GsasiiRead(noise, lost))
<1>1. /\ Accepts(engine, raw) /\ model = Validated(raw) /\ freed = Frees(model)
      /\ fit.varied \subseteq freed /\ fit.value \in [fit.varied -> Int]
  BY DEF Inv, ModelOK, FreedOK, FitOK, Running
<1>2. freed \subseteq Reps /\ \A g \in freed : model.flag[g] = TRUE
  <2>1. \A g \in Reps : g \in Members(g)
    BY RepsAre DEF Members
  <2> QED BY <1>1, <2>1, FreesFlagged DEF Inv
<1>3. model \in Recipe /\ model.value \in [Param -> Int]
  BY <1>1, ValidatedTyped DEF Inv, RawOK, Recipe
<1>4. ASSUME NEW g \in Reps PROVE Final(g) \in Int
  BY <1>1, <1>3, RepsAre DEF Final, Free
<1> DEFINE cell == UNION {c \cap Free : c \in RefinedCells}
           at == cell \cup (fit.varied \ (CellParam \cup lost))
<1>5. at \subseteq Free /\ fit.varied \subseteq Reps
  BY <1>1, <1>2, RepsAre
<1>6. ASSUME NEW p \in cell PROVE Tied(p, Final(Rep[p])) + noise[p] \in Int
  <2>1. p \in Free /\ p \in CellParam /\ p \in Param
    BY DEF Free, CellParam, RefinedCells
  <2>2. Final(Rep[p]) \in Int
    BY <1>4, <2>1, RepFree
  <2>3. noise[p] \in Int
    BY <2>1
  <2> QED BY <2>1, <2>2, <2>3, TiesAssumption DEF Tied
<1>7. ASSUME NEW p \in at
      PROVE  (IF p \in cell THEN Tied(p, Final(Rep[p])) + noise[p] ELSE Final(p)) \in Int
  <2>1. CASE p \in cell
    BY <2>1, <1>6
  <2>2. CASE p \notin cell
    <3>1. p \in Reps
      BY <2>2, <1>5
    <3> QED BY <2>2, <3>1, <1>4
  <2> QED BY <2>1, <2>2
<1>8. \A p \in at : \/ model.flag[p]
                   \/ \E c \in Cells : p \in c /\ c \cap Flagged(model) # {}
  BY <1>1, <1>2 DEF RefinedCells
<1>9. GsasiiRead(noise, lost).at = at
  BY DEF GsasiiRead
<1>10. GsasiiRead(noise, lost).value \in [at -> Int]
  BY <1>7 DEF GsasiiRead
<1> HIDE DEF at
<1> QED BY <1>5, <1>8, <1>9, <1>10 DEF ReportOK

LEMMA TopasReadOK ==
  ASSUME Inv, pc = "fitted", engine = "topas", NEW missing
  PROVE  ReportOK(model, TopasRead(missing))
<1>1. /\ Accepts(engine, raw) /\ model = Validated(raw) /\ freed = Frees(model)
      /\ fit.varied \subseteq freed /\ fit.value \in [fit.varied -> Int]
  BY DEF Inv, ModelOK, FreedOK, FitOK, Running
<1>2. freed \subseteq Reps /\ \A g \in freed : model.flag[g] = TRUE
  <2>1. \A g \in Reps : g \in Members(g)
    BY RepsAre DEF Members
  <2> QED BY <1>1, <2>1, FreesFlagged DEF Inv
<1>3. model \in Recipe /\ model.value \in [Param -> Int]
  BY <1>1, ValidatedTyped DEF Inv, RawOK, Recipe
<1>4. \A g \in freed : Final(g) \in Int /\ g \in Free
  BY <1>1, <1>2, <1>3, RepsAre DEF Final, Free
<1>5. /\ TopasRead(missing).at = freed \ missing
      /\ TopasRead(missing).value = [g \in freed \ missing |-> Final(g)]
  BY DEF TopasRead
<1> QED BY <1>2, <1>4, <1>5 DEF ReportOK

LEMMA EasydiffractionReadOK ==
  ASSUME Inv, pc = "fitted", engine = "easydiffraction"
  PROVE  ReportOK(model, EasydiffractionRead)
<1>1. /\ Accepts(engine, raw) /\ model = Validated(raw) /\ freed = Frees(model)
      /\ fit.varied = freed /\ fit.value \in [fit.varied -> Int]
      /\ NotTiedAlike(model) = {}
  BY DEF Inv, ModelOK, FreedOK, FitOK, Running
<1>2. /\ freed \subseteq Reps /\ freed = EasydiffractionFrees(model)
      /\ \A g \in freed : \A p \in Members(g) : model.flag[p] = TRUE
  BY <1>1, FreesFlagged DEF Inv, Frees
<1>3. \A g \in freed : /\ FreeMember(g) \in Members(g) /\ FreeMember(g) \in Param
                       /\ Rep[FreeMember(g)] = g
  BY <1>1, <1>2, FreeMemberIn
<1> DEFINE at == {FreeMember(g) : g \in freed}
<1>4. \A p \in at : /\ p \in Free /\ p \in Param /\ Rep[p] \in freed /\ model.flag[p] = TRUE
  BY <1>2, <1>3 DEF Members
<1>5. \A p \in at : fit.value[Rep[p]] + Shift[p] \in Int
  BY <1>1, <1>4, BoundsAssumption
<1>6. EasydiffractionRead.at = at
      /\ EasydiffractionRead.value = [p \in at |-> fit.value[Rep[p]] + Shift[p]]
  BY DEF EasydiffractionRead, FinalMember
<1> HIDE DEF at
<1> QED BY <1>4, <1>5, <1>6 DEF ReportOK

LEMMA ReadBackStep == Inv /\ ReadBack => Inv'
<1> SUFFICES ASSUME Inv, ReadBack PROVE Inv'
  OBVIOUS
<1>1. pc = "fitted" /\ pc' = "read"
      /\ UNCHANGED <<engine, run, raw, left, model, freed, fit, out, rows, valid>>
  BY DEF ReadBack
<1>2. ReportOK(model, report')
  <2>1. CASE engine = "gsasii"
    <3>1. PICK off \in Off, lost \in SUBSET (fit.varied \ CellParam) :
            report' = GsasiiRead([p \in CellParam \cap Free |->
                                    IF p \notin off THEN 0 ELSE IF fit.stray THEN Tol + 2 ELSE 1], lost)
      BY <1>1, <2>1 DEF ReadBack
    <3>2. [p \in CellParam \cap Free |-> IF p \notin off THEN 0 ELSE IF fit.stray THEN Tol + 2 ELSE 1]
            \in [CellParam \cap Free -> Int]
      BY TiesAssumption
    <3> QED BY <1>1, <2>1, <3>1, <3>2, GsasiiReadOK
  <2>2. CASE engine = "topas"
    BY <1>1, <2>2, TopasReadOK DEF ReadBack
  <2>3. CASE engine = "easydiffraction"
    BY <1>1, <2>3, EasydiffractionReadOK DEF ReadBack
  <2> QED BY <2>1, <2>2, <2>3 DEF ReadBack
<1>3. ReportIsOK'
  BY <1>1, <1>2 DEF ReportIsOK, ReportOK
<1>5. ReadOK'
  <2>1. CASE engine = "gsasii"
    <3>1. PICK off \in Off, lost \in SUBSET (fit.varied \ CellParam) :
            report' = GsasiiRead([p \in CellParam \cap Free |->
                                    IF p \notin off THEN 0 ELSE IF fit.stray THEN Tol + 2 ELSE 1], lost)
      BY <2>1 DEF ReadBack
    <3>2. PICK noise \in Noise :
            /\ report' = GsasiiRead(noise, lost)
            /\ ~ fit.stray => \A p \in CellParam \cap Free : noise[p] \in {0, 1}
      <4> DEFINE n == [p \in CellParam \cap Free |->
                         IF p \notin off THEN 0 ELSE IF fit.stray THEN Tol + 2 ELSE 1]
      <4>1. n \in Noise /\ (~ fit.stray => \A p \in CellParam \cap Free : n[p] \in {0, 1})
        BY TiesAssumption DEF Noise
      <4> QED BY <3>1, <4>1
    <3>3. GsasiiRead(noise, lost)' = GsasiiRead(noise, lost)
      BY <1>1 DEF GsasiiRead, Final, RefinedCells
    <3>4. \E n \in Noise', l \in SUBSET (fit'.varied \ CellParam) :
            /\ report' = GsasiiRead(n, l)'
            /\ ~ fit'.stray => \A p \in CellParam \cap Free : n[p] \in {0, 1}
      BY <1>1, <3>2, <3>3 DEF Noise
    <3> QED BY <1>1, <2>1, <3>4 DEF ReadOK
  <2>2. CASE engine = "topas"
    <3>1. PICK missing \in SUBSET freed : report' = TopasRead(missing)
      BY <2>2 DEF ReadBack
    <3>2. TopasRead(missing)' = TopasRead(missing)
      BY <1>1 DEF TopasRead, Final
    <3> QED BY <1>1, <2>2, <3>1, <3>2 DEF ReadOK
  <2>3. CASE engine = "easydiffraction"
    BY <1>1, <2>3 DEF ReadBack, ReadOK, EasydiffractionRead, FinalMember
  <2> QED BY <2>1, <2>2, <2>3 DEF ReadBack
<1>4. (RawOK /\ ModelOK /\ FreedOK /\ FitOK /\ OutOK)'
  BY <1>1 DEF Inv, RawOK, ModelOK, FreedOK, FitOK, OutOK, Running, Stages,
              Frees, GsasiiFrees, TopasFrees, EasydiffractionFrees
<1> QED BY <1>3, <1>4, <1>5 DEF Inv

(* A step that leaves the report, and what it was read from, keeps it read. *)
LEMMA ReadKept ==
  ASSUME ReadOK, UNCHANGED <<engine, model, freed, fit, report>>,
         pc' \in {"read", "done"} => pc \in {"read", "done"}
  PROVE  ReadOK'
<1> SUFFICES ASSUME pc' \in {"read", "done"} PROVE ReadOK'
  BY DEF ReadOK
<1>1. \A noise, lost : GsasiiRead(noise, lost)' = GsasiiRead(noise, lost)
  BY DEF GsasiiRead, Final, RefinedCells
<1>2. \A missing : TopasRead(missing)' = TopasRead(missing)
  BY DEF TopasRead, Final
<1>3. EasydiffractionRead' = EasydiffractionRead
  BY DEF EasydiffractionRead, FinalMember
<1> QED BY <1>1, <1>2, <1>3 DEF ReadOK

LEMMA WriteOutputStep == Inv /\ WriteOutput => Inv'
<1> SUFFICES ASSUME Inv, WriteOutput PROVE Inv'
  OBVIOUS
<1>1. ReadOK'
  BY ReadKept DEF WriteOutput, Inv
<1> QED BY <1>1 DEF WriteOutput, Inv, RawOK, ModelOK, FreedOK, FitOK, ReportIsOK, OutOK,
               Running, Stages, Frees, GsasiiFrees, TopasFrees, EasydiffractionFrees, ReportOK

(* The model of an accepted recipe and a well-formed report make a recipe. *)
LEMMA NextRunStep == Inv /\ NextRun => Inv'
<1> SUFFICES ASSUME Inv, NextRun PROVE Inv'
  OBVIOUS
<1>1. /\ pc = "done" /\ valid /\ run < MaxRuns /\ run' = run + 1 /\ pc' = "raw"
      /\ raw' = out /\ left' = {} /\ freed' = {} /\ fit' = NoFit /\ report' = NoReport
      /\ engine' = engine
  BY DEF NextRun
<1>2. /\ model = Validated(raw) /\ raw \in Recipe /\ engine \in Engines
      /\ ReportOK(model, report) /\ out = OutputOf(model, report)
      /\ Valid(engine, model, report)
  BY <1>1 DEF Inv, ModelOK, RawOK, ReportIsOK, OutOK, Running
<1>3. out \in Recipe
  BY <1>2, ValidatedTyped, OutputTied
<1>4. RawOK'
  BY <1>1, <1>3, BoundsAssumption DEF Inv, RawOK, Stages
<1> QED BY <1>1, <1>4 DEF Inv, ModelOK, FreedOK, FitOK, ReportIsOK, ReadOK, OutOK, Running

LEMMA ValidateStep == Inv /\ Validate => Inv'
<1> SUFFICES ASSUME Inv, Validate PROVE Inv'
  OBVIOUS
<1> QED BY DEF Validate, Inv, RawOK, ModelOK, FreedOK, FitOK, ReportIsOK, ReadOK, OutOK,
               Running, Stages

LEMMA BuildStep == Inv /\ Build => Inv'
<1> SUFFICES ASSUME Inv, Build PROVE Inv'
  OBVIOUS
<1>1. (RawOK /\ ModelOK /\ FitOK /\ ReportIsOK /\ ReadOK /\ OutOK)'
  BY DEF Build, Inv, RawOK, ModelOK, FitOK, ReportIsOK, ReadOK, OutOK, Running, Stages
<1>2. CASE engine = "easydiffraction" /\ NotTiedAlike(model) # {}
  BY <1>1, <1>2 DEF Build, Inv, FreedOK
<1>3. CASE ~ (engine = "easydiffraction" /\ NotTiedAlike(model) # {})
  <2>1. pc' = "built" /\ freed' = Frees(model) /\ UNCHANGED <<engine, model>>
    BY <1>3 DEF Build
  <2> QED BY <1>1, <1>3, <2>1 DEF Inv, FreedOK, Frees, GsasiiFrees, TopasFrees,
             EasydiffractionFrees, NotTiedAlike
<1> QED BY <1>2, <1>3

LEMMA DivergeStep == Inv /\ Diverge => Inv'
<1> SUFFICES ASSUME Inv, Diverge PROVE Inv'
  OBVIOUS
<1>1. (RawOK /\ ModelOK /\ FitOK /\ ReportIsOK /\ ReadOK /\ OutOK)'
  BY DEF Diverge, Inv, RawOK, ModelOK, FitOK, ReportIsOK, ReadOK, OutOK, Running, Stages
<1>2. FreedOK'
  BY DEF Diverge, Inv, FreedOK, Frees, GsasiiFrees, TopasFrees, EasydiffractionFrees,
         NotTiedAlike
<1> QED BY <1>1, <1>2 DEF Inv

LEMMA StutterStep == Inv /\ UNCHANGED vars => Inv'
<1> SUFFICES ASSUME Inv, UNCHANGED vars PROVE Inv'
  OBVIOUS
<1>1. ReadOK'
  BY ReadKept DEF vars, Inv
<1> QED BY <1>1 DEF vars, Inv, RawOK, ModelOK, FreedOK, FitOK, ReportIsOK, OutOK,
               Running, Stages, Frees, GsasiiFrees, TopasFrees, EasydiffractionFrees,
               NotTiedAlike, ReportOK

(* The inductive invariant: every stage of a run knows the stages before.  *)
THEOREM JourneyInvariant == Spec => []Inv
<1>1. Init => Inv
  BY JourneyInit
<1>2. Inv /\ [Next]_vars => Inv'
  BY ValidateStep, BuildStep, FitStep, DivergeStep, ReadBackStep, WriteOutputStep,
     NextRunStep, StutterStep DEF Next
<1> QED BY <1>1, <1>2, PTL DEF Spec

(* The gateways' builders: each of the three frees exactly the tie groups  *)
(* of the flagged parameters.                                              *)
THEOREM JourneyFreesWhatIsAsked == Spec => []FreesWhatIsAsked
<1>1. Inv => FreesWhatIsAsked
  BY FreesFlagged DEF Inv, ModelOK, FreedOK, Running, FreesWhatIsAsked
<1> QED BY <1>1, JourneyInvariant, PTL

(* build_output, the held check: a parameter whose flag is false keeps its *)
(* value exactly, but in a cell that GSAS-II refines, where a valid output *)
(* recipe keeps it to within the tolerance.                                *)
THEOREM JourneyHeldStays == Spec => []HeldStays
<1>1. Inv => HeldStays
  <2> SUFFICES ASSUME Inv, pc = "done", NEW p \in Param, ~ model.flag[p]
               PROVE IF engine = "gsasii" /\ \E c \in RefinedCells : p \in c
                     THEN valid => Near(out.value[p], model.value[p])
                     ELSE out.value[p] = model.value[p]
    BY DEF HeldStays
  <2>1. /\ raw \in Recipe /\ model = Validated(raw) /\ Accepts(engine, raw)
        /\ ReportOK(model, report) /\ out.value = Written(model, report)
        /\ valid => HeldMoved(model, report) = {}
    BY ValidatedTyped, OutputTied DEF Inv, RawOK, ModelOK, ReportIsOK, OutOK, Running, Valid
  <2>2. /\ model \in Recipe /\ model.value \in [Param -> Int] /\ model.flag = raw.flag
        /\ \A q \in Free : model.value[q] = Tied(q, model.value[Rep[q]])
    BY <2>1, ValidatedTyped, DerivedTied DEF Recipe
  <2>3. Near(model.value[p], model.value[p])
    BY <2>2, TiesAssumption DEF Near
  <2>4. CASE p \in Fixed
    <3>1. out.value[p] = model.value[p]
      BY <2>1, <2>4 DEF Written, ReportOK, Free
    <3> QED BY <3>1, <2>3
  <2>5. CASE p \notin Fixed
    <3> DEFINE g == Rep[p]
    <3>1. p \in Free /\ g \in Reps /\ g \in Param /\ out.value[p] = Tied(p, RepValue(model, report, g))
      BY <2>1, <2>5, RepFree, TiesAssumption DEF Written, Free
    <3>2. CASE ~ Reported(report, g)
      <4>1. out.value[p] = model.value[p]
        BY <3>1, <3>2, <2>2 DEF RepValue
      <4> QED BY <4>1, <2>3
    <3>3. CASE Reported(report, g)
      <4> DEFINE m == Stand(report, g)
      <4>1. m \in Members(g) /\ m \in report.at
        BY <2>1, <3>1, <3>3, StandIn
      <4>2. m \in Free /\ m \in Param /\ Rep[m] = g /\ report.value[m] \in Int
        BY <4>1, <2>1 DEF Members, Free, ReportOK
      <4>3. model.flag[m] = model.flag[p]
        <5>1. \A q \in Free : raw.flag[q] = raw.flag[Rep[q]]
          BY <2>1 DEF Accepts, TieRules
        <5> QED BY <5>1, <4>2, <3>1, <2>2
      <4>4. PICK c \in Cells : m \in c /\ c \cap Flagged(model) # {} /\ engine = "gsasii"
        <5> HIDE DEF m
        <5> QED BY <4>1, <4>3, <2>1 DEF ReportOK
      <4>5. p \in c /\ c \in RefinedCells /\ m \in CellParam /\ p \in CellParam
        <5>1. Rep[m] \in c
          BY <4>2, <4>4, EngineTies
        <5>2. p \in c
          BY <5>1, <4>2, <3>1, EngineTies
        <5> QED BY <4>4, <5>2 DEF RefinedCells, CellParam
      <4>6. K[m] = 1 /\ C[m] = 0 /\ K[p] = 1 /\ C[p] = 0
        BY <4>5, EngineTies
      <4>7. out.value[p] = report.value[m]
        <5>1. RepValue(model, report, g) = report.value[m]
          BY <3>3, <4>2, <4>6, UntiedEqual DEF RepValue
        <5> QED BY <5>1, <3>1, <4>2, <4>6 DEF Tied
      <4>8. model.value[m] = model.value[p]
        BY <2>2, <3>1, <4>2, <4>6 DEF Tied
      <4>9. valid => Near(report.value[m], model.value[m])
        BY <2>1, <4>1, <4>3 DEF HeldMoved
      <4> QED BY <4>4, <4>5, <4>7, <4>8, <4>9
    <3> QED BY <3>2, <3>3
  <2> QED BY <2>4, <2>5
<1> QED BY <1>1, JourneyInvariant, PTL

(* Every stage's variables keep their types; the output recipe is whole    *)
(* and has a row for every parameter.                                      *)
THEOREM JourneyTypeCorrect == Spec => []TypeOK
<1>1. Inv => TypeOK
  <2> SUFFICES ASSUME Inv PROVE TypeOK
    OBVIOUS
  <2>1. engine \in Engines /\ pc \in Stages /\ run \in 1 .. MaxRuns /\ raw \in Recipe /\ left \subseteq Param
    BY DEF Inv, RawOK
  <2>2. pc \in Running => model \in Recipe
    BY <2>1, ValidatedTyped DEF Inv, ModelOK
  <2>3. freed \subseteq Reps
    <3>1. Frees(model) \subseteq Reps
      BY <2>1, BoundsAssumption
         DEF Frees, GsasiiFrees, TopasFrees, EasydiffractionFrees
    <3> QED BY <3>1 DEF Inv, FreedOK
  <2>4. fit.varied \subseteq freed
    BY DEF Inv, FitOK, NoFit
  <2>5. report.at \subseteq Param
    BY DEF Inv, ReportIsOK, ReportOK, NoReport, Free
  <2>6. ASSUME pc = "done"
        PROVE  /\ out \in Recipe
               /\ rows \in [Param -> [disposition : DISPOSITIONS, atLimit : BOOLEAN]]
    <3>1. model \in Recipe /\ ReportOK(model, report) /\ out = OutputOf(model, report)
          /\ rows = Rows(model, report, left)
      BY <2>2, <2>6 DEF Inv, ReportIsOK, OutOK, Running
    <3>2. \A p \in Param : Disposition(model, report, left, p) \in DISPOSITIONS
      BY DEF Disposition, DISPOSITIONS
    <3> QED BY <3>1, <3>2, OutputTied DEF Rows
  <2> QED BY <2>1, <2>2, <2>3, <2>4, <2>5, <2>6 DEF TypeOK, Running
<1> QED BY <1>1, JourneyInvariant, PTL

(* A tie keeps the order of two values, or turns it round when k < 0.      *)
LEMMA TiedOrder ==
  ASSUME NEW p \in Param, NEW x \in Int, NEW y \in Int, x <= y
  PROVE  /\ K[p] > 0 => Tied(p, x) <= Tied(p, y)
         /\ K[p] < 0 => Tied(p, y) <= Tied(p, x)
<1>1. K[p] \in Int /\ C[p] \in Int /\ y - x \in Nat
  BY TiesAssumption
<1>2. K[p] * y = K[p] * x + K[p] * (y - x) /\ K[p] * x \in Int /\ K[p] * y \in Int
  BY <1>1
<1>3. K[p] > 0 => K[p] * (y - x) >= 0
  BY <1>1
<1>4. K[p] < 0 => K[p] * (y - x) <= 0
  BY <1>1
<1>5. K[p] * (y - x) \in Int
  BY <1>1
<1> QED BY <1>1, <1>2, <1>3, <1>4, <1>5 DEF Tied

(* validate_recipe: the model differs from the recipe by no more than the  *)
(* tolerance, and its derived values keep its derived bounds, also where   *)
(* a negative coefficient swaps them.                                      *)
THEOREM JourneyModelStatesRecipe == Spec => []ModelStatesRecipe
<1>1. Inv => ModelStatesRecipe
  <2> SUFFICES ASSUME Inv, pc = "model", NEW p \in Param
               PROVE  /\ Near(model.value[p], raw.value[p])
                      /\ Inside(model.value[p], model.min[p], model.max[p])
    BY DEF ModelStatesRecipe
  <2>1. raw \in Recipe /\ Accepts(engine, raw) /\ model = Validated(raw)
    BY DEF Inv, RawOK, ModelOK, Running
  <2>2. /\ raw.value \in [Param -> Int] /\ model.value = Derived(raw.value)
        /\ raw.min \in [Param -> Bound] /\ raw.max \in [Param -> Bound]
        /\ model.value \in [Param -> Int]
    BY <2>1, ValidatedTyped, DerivedTied DEF Recipe
  <2>3. Near(model.value[p], raw.value[p])
    <3>1. Near(raw.value[p], model.value[p])
      BY <2>1, <2>2 DEF Accepts, Misstated
    <3>2. raw.value[p] \in Int /\ model.value[p] \in Int /\ Tol \in Nat
      BY <2>2, TiesAssumption
    <3> QED BY <3>1, <3>2 DEF Near
  <2>4. CASE p \in Fixed
    <3>1. model.min[p] = NoBound /\ model.max[p] = NoBound
      BY <2>1, <2>4 DEF Accepts, TieRules, Validated
    <3> QED BY <2>3, <3>1 DEF Inside
  <2>5. CASE p \notin Fixed
    <3> DEFINE g == Rep[p]
               lo == raw.min[g]
               hi == raw.max[g]
    <3>1. g \in Param /\ raw.value[g] \in Int /\ lo \in Bound /\ hi \in Bound
          /\ model.value[p] = Tied(p, raw.value[g])
      BY <2>2, <2>5, TiesAssumption DEF Derived
    <3>2. Inside(raw.value[g], lo, hi)
      BY <2>1, <3>1 DEF Accepts, BoundsHold
    <3>3. model.min[p] = TiedMin(raw, p) /\ model.max[p] = TiedMax(raw, p)
      BY <2>1, <2>5 DEF Validated
    <3>4. K[p] \in Int /\ K[p] # 0 /\ NoBound \notin Int
          /\ \A x \in Int : Tied(p, x) \in Int
      BY TiesAssumption DEF Tied
    <3> HIDE DEF g, lo, hi
    <3>5. CASE K[p] > 0
      <4>1. model.min[p] = TiedBound(p, lo) /\ model.max[p] = TiedBound(p, hi)
        BY <3>3, <3>5 DEF TiedMin, TiedMax, g, lo, hi
      <4>2. lo # NoBound => Tied(p, lo) <= model.value[p]
        BY <3>1, <3>2, <3>5, TiedOrder DEF Inside, Bound
      <4>3. hi # NoBound => model.value[p] <= Tied(p, hi)
        BY <3>1, <3>2, <3>5, TiedOrder DEF Inside, Bound
      <4> QED BY <2>3, <4>1, <4>2, <4>3 DEF Inside, TiedBound
    <3>6. CASE ~ (K[p] > 0)
      <4>1. model.min[p] = TiedBound(p, hi) /\ model.max[p] = TiedBound(p, lo)
        BY <3>3, <3>6 DEF TiedMin, TiedMax, g, lo, hi
      <4>2. hi # NoBound => Tied(p, hi) <= model.value[p]
        BY <3>1, <3>2, <3>4, <3>6, TiedOrder DEF Inside, Bound
      <4>3. lo # NoBound => model.value[p] <= Tied(p, lo)
        BY <3>1, <3>2, <3>4, <3>6, TiedOrder DEF Inside, Bound
      <4> QED BY <2>3, <4>1, <4>2, <4>3 DEF Inside, TiedBound
    <3> QED BY <3>5, <3>6
  <2> QED BY <2>3, <2>4, <2>5
<1> QED BY <1>1, JourneyInvariant, PTL
LEMMA DivisionRemainder ==
  ASSUME NEW n \in Int, NEW m \in Int, m > 0
  PROVE  m * (n \div m) <= n /\ n < m * (n \div m) + m
  OBVIOUS

(* Dividing by the coefficient of a tie loses less than a tolerance.       *)
LEMMA UntiedNear ==
  ASSUME NEW p \in Param, NEW x \in Int
  PROVE  Near(x, Tied(p, Untied(p, x)))
<1> DEFINE k == K[p]
           d == x - C[p]
           q == Untied(p, x)
           e == d - k * q
<1>1. k \in Int /\ k # 0 /\ d \in Int /\ C[p] \in Int /\ x = d + C[p]
  BY TiesAssumption
<1>2. q \in Int /\ k * q \in Int /\ e \in Int
  BY <1>1, UntiedInt
<1>3. k * k \in Int /\ k * k > 0 /\ k * d \in Int
  BY <1>1
<1>4. (k * k) * q <= k * d /\ k * d < (k * k) * q + k * k
  <2>1. q = (k * d) \div (k * k)
    BY DEF Untied
  <2> HIDE DEF q, k, d
  <2> QED BY <2>1, <1>3, DivisionRemainder
<1>5. k * e = k * d - (k * k) * q
  BY <1>1, <1>2
<1>6. 0 <= k * e /\ k * e < k * k
  <2>1. (k * k) * q \in Int
    BY <1>2, <1>3
  <2> HIDE DEF q, k, d, e
  <2> QED BY <2>1, <1>3, <1>4, <1>5
<1>7. Tol \in Nat /\ k - 1 <= Tol /\ -k - 1 <= Tol
  BY TiesAssumption, ToleranceAssumption
<1>8. x - Tied(p, q) = e
  <2>1. Tied(p, q) = k * q + C[p]
    BY DEF Tied
  <2> HIDE DEF q, k
  <2> QED BY <2>1, <1>1, <1>2
<1> HIDE DEF q, k, d, e
<1>9. e \in (-Tol) .. Tol
  <2>1. CASE k > 0
    <3>1. e >= 0
      <4> SUFFICES ASSUME e <= -1 PROVE FALSE
        BY <1>2
      <4>1. k * e <= k * (-1)
        BY <1>1, <1>2, <2>1
      <4> QED BY <4>1, <1>1, <1>2, <1>6, <2>1
    <3>2. e <= k - 1
      <4> SUFFICES ASSUME e >= k PROVE FALSE
        BY <1>1, <1>2
      <4>1. k * e >= k * k
        BY <1>1, <1>2, <2>1
      <4>2. k * e \in Int /\ k * k \in Int
        BY <1>1, <1>2
      <4> QED BY <4>1, <4>2, <1>6
    <3> QED BY <3>1, <3>2, <1>1, <1>2, <1>7
  <2>2. CASE k < 0
    <3>1. e <= 0
      <4> SUFFICES ASSUME e >= 1 PROVE FALSE
        BY <1>2
      <4>1. k * e <= k * 1
        BY <1>1, <1>2, <2>2
      <4> QED BY <4>1, <1>1, <1>2, <1>6, <2>2
    <3>2. e >= k + 1
      <4> SUFFICES ASSUME e <= k PROVE FALSE
        BY <1>1, <1>2
      <4>1. k * e >= k * k
        BY <1>1, <1>2, <2>2
      <4>2. k * e \in Int /\ k * k \in Int
        BY <1>1, <1>2
      <4> QED BY <4>1, <4>2, <1>6
    <3> QED BY <3>1, <3>2, <1>1, <1>2, <1>7
  <2> QED BY <2>1, <2>2, <1>1
<1> QED BY <1>8, <1>9 DEF Near, q

(* The bounds of the model: a representative's as stated, a member's after *)
(* its tie, a fixed parameter none.                                        *)
LEMMA ModelBounds ==
  ASSUME NEW e, NEW r \in Recipe, Accepts(e, r)
  PROVE  /\ \A g \in Reps : Validated(r).min[g] = r.min[g] /\ Validated(r).max[g] = r.max[g]
         /\ \A p \in Free : Validated(r).min[p] = TiedMin(r, p) /\ Validated(r).max[p] = TiedMax(r, p)
         /\ \A p \in Fixed : Validated(r).min[p] = NoBound /\ Validated(r).max[p] = NoBound
<1>1. \A p \in Free : Validated(r).min[p] = TiedMin(r, p) /\ Validated(r).max[p] = TiedMax(r, p)
  BY DEF Validated, Free
<1>2. \A p \in Fixed : p \in Param /\ r.min[p] = NoBound /\ r.max[p] = NoBound
  BY TiesAssumption DEF Accepts, TieRules
<1>3. \A p \in Fixed : Validated(r).min[p] = NoBound /\ Validated(r).max[p] = NoBound
  BY <1>2 DEF Validated
<1>4. ASSUME NEW g \in Reps PROVE TiedMin(r, g) = r.min[g] /\ TiedMax(r, g) = r.max[g]
  <2>1. g \in Param /\ Rep[g] = g /\ K[g] = 1 /\ C[g] = 0 /\ r.min[g] \in Bound /\ r.max[g] \in Bound
    BY RepsAre DEF Free, Recipe
  <2>2. \A x \in Int : Tied(g, x) = x
    BY <2>1 DEF Tied
  <2> QED BY <2>1, <2>2 DEF TiedMin, TiedMax, TiedBound, Bound
<1> QED BY <1>1, <1>3, <1>4, RepsAre

(* The facts a written report rests on. *)
LEMMA DoneFacts ==
  ASSUME Inv, pc = "done"
  PROVE  /\ raw \in Recipe /\ Accepts(engine, raw) /\ model = Validated(raw) /\ model \in Recipe
         /\ model.flag = raw.flag /\ freed = Frees(model) /\ freed \subseteq Reps
         /\ fit.varied \subseteq freed /\ fit.value \in [fit.varied -> Int]
         /\ ReportOK(model, report) /\ out = OutputOf(model, report) /\ out \in Recipe
         /\ out.value = Written(model, report)
         /\ rows = Rows(model, report, left) /\ valid = Valid(engine, model, report)
         /\ engine = "easydiffraction" => NotTiedAlike(model) = {} /\ fit.varied = freed
<1>1. /\ raw \in Recipe /\ Accepts(engine, raw) /\ model = Validated(raw) /\ freed = Frees(model)
      /\ fit.varied \subseteq freed /\ fit.value \in [fit.varied -> Int]
      /\ (engine = "easydiffraction" => NotTiedAlike(model) = {} /\ fit.varied = freed)
  BY DEF Inv, RawOK, ModelOK, FreedOK, FitOK, Running
<1>2. /\ ReportOK(model, report) /\ out = OutputOf(model, report)
      /\ rows = Rows(model, report, left) /\ valid = Valid(engine, model, report)
  BY DEF Inv, ReportIsOK, OutOK
<1>3. model \in Recipe /\ model.flag = raw.flag
  BY <1>1, ValidatedTyped
<1>4. out \in Recipe /\ out.value = Written(model, report)
  BY <1>2, <1>3, OutputTied
<1>5. freed \subseteq Reps
  BY <1>1, FreesFlagged DEF Inv
<1> QED BY <1>1, <1>2, <1>3, <1>4, <1>5

(* The member easydiffraction reports for a group is the one it freed.     *)
LEMMA EasydiffractionStand ==
  ASSUME Inv, pc = "done", engine = "easydiffraction", report = EasydiffractionRead,
         NEW g \in freed
  PROVE  /\ FreeMember(g) \in Members(g) /\ FreeMember(g) \in Free /\ FreeMember(g) \in Param
         /\ FreeMember(g) \in report.at /\ Reported(report, g) /\ Stand(report, g) = FreeMember(g)
<1>1. freed = EasydiffractionFrees(model) /\ NotTiedAlike(model) = {} /\ freed \subseteq Reps
  BY DoneFacts DEF Frees
<1>2. \A h \in freed : FreeMember(h) \in Members(h) /\ Rep[FreeMember(h)] = h
  BY <1>1, FreeMemberIn
<1>3. report.at = {FreeMember(h) : h \in freed}
  BY DEF EasydiffractionRead
<1>4. \A m \in Members(g) : m \in report.at => m = FreeMember(g)
  BY <1>2, <1>3 DEF Members
<1>5. FreeMember(g) \in Members(g) /\ FreeMember(g) \in report.at
  BY <1>2, <1>3
<1>6. Stand(report, g) \in Members(g) /\ Stand(report, g) \in report.at
  BY <1>1, <1>5, StandIn, DoneFacts DEF Reported
<1> QED BY <1>4, <1>5, <1>6 DEF Reported, Members, Free

(* _limit_hits and build_output: a refined parameter that ended on a bound *)
(* the recipe states is marked, on the row of its representative, also     *)
(* where the engine bounded and reported another member of the group.      *)
THEOREM JourneyLimitIsMarked == Spec => []LimitIsMarked
<1>1. Inv => LimitIsMarked
  <2> SUFFICES ASSUME Inv, pc = "done", engine # "gsasii", NEW g \in Reps,
                      NEW b \in {model.min[g], model.max[g]},
                      b # NoBound, Reported(report, g), out.value[g] = b
               PROVE  rows[g].atLimit
    BY DEF LimitIsMarked
  <2>1. g \in Free /\ g \in Param /\ Rep[g] = g /\ K[g] = 1 /\ C[g] = 0
    BY RepsAre DEF Free
  <2>2. model.min[g] = raw.min[g] /\ model.max[g] = raw.max[g] /\ b \in Int
    BY <2>1, DoneFacts, ModelBounds DEF Recipe, Bound
  <2>3. out.value[g] = RepValue(model, report, g)
    BY DoneFacts, OutputTied
  <2>4. rows[g].atLimit = (g \in Inherited(report, report.atLimit))
    BY <2>1, DoneFacts DEF Rows
  <2>5. \A x \in Int : Near(x, x)
    BY TiesAssumption DEF Near
  <2>6. CASE engine = "topas"
    <3>1. PICK missing \in SUBSET freed : report = TopasRead(missing)
      BY <2>6 DEF Inv, ReadOK
    <3>2. g \in report.at /\ report.value[g] = Final(g)
      <4>1. report.at = freed \ missing /\ report.value = [h \in report.at |-> Final(h)]
        BY <3>1 DEF TopasRead
      <4>2. PICK p \in Members(g) : p \in report.at
        BY DEF Reported
      <4>3. p \in Reps /\ p = g
        BY <4>1, <4>2, DoneFacts, RepsAre DEF Members
      <4> QED BY <4>1, <4>2, <4>3
    <3>3. Final(g) \in Int
      BY <2>1, <3>2, DoneFacts DEF ReportOK
    <3>4. Reported(report, g) /\ Stand(report, g) = g
      BY <2>1, <3>2 DEF Reported, Stand, Members
    <3>5. Final(g) = b
      BY <2>1, <2>3, <3>2, <3>3, <3>4, UntiedEqual DEF RepValue
    <3>6. Near(Final(g), b)
      BY <2>2, <2>5, <3>5
    <3>7. g \in report.atLimit
      <4>1. report.at = freed \ missing
            /\ report.atLimit = {h \in freed \ missing : \E c \in {model.min[h], model.max[h]} :
                                                            c # NoBound /\ Near(Final(h), c)}
        BY <3>1 DEF TopasRead
      <4> QED BY <3>2, <3>6, <4>1
    <3> QED BY <2>4, <3>7 DEF Inherited
  <2>7. CASE engine = "easydiffraction"
    <3> DEFINE f == FreeMember(g)
    <3>1. report = EasydiffractionRead
      BY <2>7 DEF Inv, ReadOK
    <3>2. /\ f \in Free /\ f \in Param /\ Rep[f] = g /\ f \in report.at
          /\ Reported(report, g) /\ Stand(report, g) = f
      <4>1. PICK h \in freed : FreeMember(h) \in Members(g)
        BY <3>1 DEF Reported, EasydiffractionRead
      <4>2. FreeMember(h) \in Members(h)
        BY <2>7, <3>1, EasydiffractionStand
      <4>3. h = g
        BY <4>1, <4>2 DEF Members
      <4> QED BY <2>7, <3>1, <4>3, EasydiffractionStand DEF Members
    <3>3. report.value[f] \in Int
      BY <3>2, DoneFacts DEF ReportOK
    <3>4. Untied(f, report.value[f]) = b
      BY <2>3, <3>2 DEF RepValue
    <3>5. Near(report.value[f], Tied(f, b))
      BY <3>2, <3>3, <3>4, UntiedNear
    <3>6. Tied(f, b) \in {model.min[f], model.max[f]}
      <4>1. model.min[f] = TiedMin(raw, f) /\ model.max[f] = TiedMax(raw, f)
        BY <3>2, DoneFacts, ModelBounds
      <4>2. {TiedMin(raw, f), TiedMax(raw, f)} = {TiedBound(f, raw.min[g]), TiedBound(f, raw.max[g])}
        BY <3>2 DEF TiedMin, TiedMax
      <4>3. TiedBound(f, b) = Tied(f, b)
        BY DEF TiedBound
      <4> QED BY <2>2, <4>1, <4>2, <4>3
    <3>7. Tied(f, b) # NoBound
      BY <2>2, <3>2, TiesAssumption DEF Tied
    <3>8. report.value = [p \in report.at |-> fit.value[Rep[p]] + Shift[p]]
          /\ report.atLimit = {p \in report.at : \E c \in {model.min[p], model.max[p]} :
                                                   c # NoBound /\ Near(report.value[p], c)}
      BY <3>1 DEF EasydiffractionRead, FinalMember
    <3>9. f \in report.atLimit
      BY <3>2, <3>5, <3>6, <3>7, <3>8
    <3> QED BY <2>4, <3>2, <3>9 DEF Inherited
  <2> QED BY <2>6, <2>7, BoundsAssumption DEF Inv, RawOK
<1> QED BY <1>1, JourneyInvariant, PTL

(* build_output: the value of a representative whose row says varied is    *)
(* where the fit ended, within a tolerance, whichever member the engine    *)
(* freed and reported and in whichever unit cell it wrote it.              *)
THEOREM JourneyVariedIsWritten == Spec => []VariedIsWritten
<1>1. Inv => VariedIsWritten
  <2> SUFFICES ASSUME Inv, pc = "done", ~ fit.stray, NEW g \in Reps,
                      rows[g].disposition = "varied"
               PROVE  LET m == IF engine = "easydiffraction" THEN FreeMember(g) ELSE g
                          s == IF engine = "easydiffraction" THEN Shift[m] ELSE 0
                      IN  g \in freed /\ Near(out.value[m], Final(g) + s)
    BY DEF VariedIsWritten
  <2>1. g \in Free /\ g \in Param /\ Rep[g] = g /\ K[g] = 1 /\ C[g] = 0
    BY RepsAre DEF Free
  <2>2. model.flag[g] /\ g \notin report.notVaried
    <3>1. Disposition(model, report, left, g) = "varied"
      BY <2>1, DoneFacts DEF Rows
    <3> QED BY <3>1 DEF Disposition, Inherited
  <2>3. g \in freed
    <3>1. Frees(model) = {Rep[p] : p \in Flagged(model)}
      BY DoneFacts, FreesFlagged DEF Inv
    <3> QED BY <3>1, <2>1, <2>2, DoneFacts DEF Flagged
  <2>4. /\ out.value[g] = RepValue(model, report, g) /\ out.value \in [Param -> Int]
        /\ \A p \in Free : out.value[p] = Tied(p, out.value[Rep[p]])
    BY DoneFacts, OutputTied DEF Recipe
  <2>5. Final(g) \in Int /\ Tol \in Nat /\ Tol >= 1
    BY <2>1, DoneFacts, TiesAssumption, ToleranceAssumption DEF Final, Recipe
  <2>6. ASSUME NEW x \in Int, g \in report.at, report.value[g] = x PROVE out.value[g] = x
    <3>1. Reported(report, g) /\ Stand(report, g) = g
      BY <2>1, <2>6 DEF Reported, Stand, Members
    <3> QED BY <2>1, <2>4, <2>6, <3>1, UntiedEqual DEF RepValue
  <2>7. ASSUME engine # "easydiffraction", Near(out.value[g], Final(g))
        PROVE  LET m == IF engine = "easydiffraction" THEN FreeMember(g) ELSE g
                   s == IF engine = "easydiffraction" THEN Shift[m] ELSE 0
               IN  g \in freed /\ Near(out.value[m], Final(g) + s)
    BY <2>3, <2>5, <2>7
  <2>8. Near(Final(g), Final(g))
    BY <2>5 DEF Near
  <2>9. CASE engine = "gsasii"
    <3>1. PICK noise \in Noise, lost \in SUBSET (fit.varied \ CellParam) :
                 /\ report = GsasiiRead(noise, lost)
                 /\ \A p \in CellParam \cap Free : noise[p] \in {0, 1}
      BY <2>9 DEF Inv, ReadOK
    <3> DEFINE cell == UNION {c \cap Free : c \in RefinedCells}
    <3>2. /\ report.notVaried = Flagged(model) \ report.at
          /\ \A p \in report.at : report.value[p] = IF p \in cell THEN Tied(p, Final(Rep[p])) + noise[p]
                                                                   ELSE Final(p)
      BY <3>1 DEF GsasiiRead
    <3>3. g \in report.at
      BY <2>1, <2>2, <3>2 DEF Flagged
    <3>4. CASE g \in cell
      <4>1. noise[g] \in {0, 1}
        BY <3>1, <3>4 DEF RefinedCells, CellParam
      <4>2. report.value[g] = Final(g) + noise[g]
        BY <2>1, <2>5, <3>2, <3>3, <3>4 DEF Tied
      <4>3. out.value[g] = Final(g) + noise[g]
        BY <2>5, <2>6, <3>3, <4>1, <4>2
      <4>4. Near(out.value[g], Final(g))
        BY <2>5, <4>1, <4>3 DEF Near
      <4> QED BY <2>7, <2>9, <4>4
    <3>5. CASE g \notin cell
      BY <2>5, <2>6, <2>7, <2>8, <2>9, <3>2, <3>3, <3>5
    <3> QED BY <3>4, <3>5
  <2>10. CASE engine = "topas"
    <3>1. PICK missing \in SUBSET freed : report = TopasRead(missing)
      BY <2>10 DEF Inv, ReadOK
    <3>2. /\ report.at = freed \ missing /\ missing \subseteq report.notVaried
          /\ report.value = [h \in freed \ missing |-> Final(h)]
      BY <3>1 DEF TopasRead
    <3>3. g \in report.at /\ report.value[g] = Final(g)
      BY <2>2, <2>3, <3>2
    <3> QED BY <2>5, <2>6, <2>7, <2>8, <2>10, <3>3
  <2>11. CASE engine = "easydiffraction"
    <3> DEFINE f == FreeMember(g)
               x == fit.value[g] + Shift[f]
    <3>1. report = EasydiffractionRead
      BY <2>11 DEF Inv, ReadOK
    <3>2. /\ f \in Free /\ f \in Param /\ Rep[f] = g /\ f \in report.at
          /\ Reported(report, g) /\ Stand(report, g) = f
      BY <2>3, <2>11, <3>1, EasydiffractionStand DEF Members
    <3>3. report.value[f] = x /\ Final(g) = fit.value[g] /\ x \in Int /\ Shift[f] \in Int
      <4>1. g \in fit.varied /\ fit.value[g] \in Int
        BY <2>3, <2>11, DoneFacts
      <4>2. report.value[f] = FinalMember(f)
        BY <3>1, <3>2 DEF EasydiffractionRead
      <4> QED BY <3>2, <4>1, <4>2, BoundsAssumption DEF FinalMember, Final
    <3>4. out.value[f] = Tied(f, Untied(f, x))
      BY <2>4, <3>2, <3>3 DEF RepValue
    <3>5. Near(x, out.value[f]) /\ out.value[f] \in Int
      BY <2>4, <3>2, <3>3, <3>4, UntiedNear
    <3>6. Near(out.value[f], x)
      BY <2>5, <3>3, <3>5 DEF Near
    <3> QED BY <2>3, <2>11, <3>3, <3>6
  <2> QED BY <2>9, <2>10, <2>11, BoundsAssumption DEF Inv, RawOK
<1> QED BY <1>1, JourneyInvariant, PTL

(* parameters_requested, which every result compares with what its engine  *)
(* varied: the flags less the tied ones count the groups that were freed.  *)
THEOREM JourneyRequestedIsFreed == Spec => []RequestedIsFreed
<1>1. Inv => RequestedIsFreed
  <2> SUFFICES ASSUME Inv, pc = "built"
               PROVE  Cardinality(freed) = ParametersRequested(model)
    BY DEF RequestedIsFreed
  <2> DEFINE flagged == Flagged(model)
             first(g) == FirstFlagged(model, g)
             firsts == flagged \ Beyond(model)
  <2>1. raw \in Recipe /\ Accepts(engine, raw) /\ model = Validated(raw) /\ model.flag = raw.flag
    BY ValidatedTyped DEF Inv, ModelOK, RawOK, Running
  <2>2. freed = {Rep[p] : p \in flagged}
    BY <2>1, FreesFlagged DEF Inv, FreedOK
  <2>3. flagged \subseteq Free /\ flagged \subseteq Param
    BY <2>1 DEF Accepts, TieRules, Flagged, Free
  <2>4. IsFiniteSet(flagged)
    BY <2>3, FS_Subset, TiesAssumption
  <2>5. Beyond(model) \subseteq flagged
    BY DEF Beyond, Flagged, Free
  <2>6. ASSUME NEW p \in flagged
        PROVE  first(Rep[p]) \in flagged /\ Rep[first(Rep[p])] = Rep[p]
    <3>1. p \in Members(Rep[p]) /\ model.flag[p]
      BY <2>3 DEF Members, Flagged
    <3>2. first(Rep[p]) \in Members(Rep[p]) /\ model.flag[first(Rep[p])]
      BY <3>1 DEF FirstFlagged
    <3> QED BY <3>2 DEF Members, Flagged, Free
  <2>7. \A p \in flagged : p \in firsts <=> p = first(Rep[p])
    BY <2>3 DEF Beyond, Flagged
  <2>8. ExistsBijection(freed, firsts)
    <3> DEFINE fn == [g \in freed |-> first(g)]
    <3>1. \A g \in freed : first(g) \in firsts /\ Rep[first(g)] = g
      BY <2>2, <2>6, <2>7
    <3>2. \A p \in firsts : Rep[p] \in freed /\ first(Rep[p]) = p
      BY <2>2, <2>7
    <3> HIDE DEF firsts, first
    <3>3. fn \in [freed -> firsts]
      BY <3>1
    <3>4. \A g, h \in freed : fn[g] = fn[h] => g = h
      BY <3>1
    <3>5. \A p \in firsts : \E g \in freed : fn[g] = p
      BY <3>2
    <3> HIDE DEF fn
    <3>6. fn \in Bijection(freed, firsts)
      BY <3>3, <3>4, <3>5 DEF Bijection, Injection, IsInjective, Surjection
    <3> QED BY <3>6 DEF ExistsBijection
  <2>9. IsFiniteSet(firsts) /\ Cardinality(firsts) = Cardinality(flagged) - Cardinality(Beyond(model))
    <3>1. flagged \cap Beyond(model) = Beyond(model)
      BY <2>5
    <3> QED BY <2>4, <3>1, FS_Difference
  <2>10. ExistsBijection(firsts, freed)
    BY <2>8, Fun_ExistsBijSymmetric
  <2>11. Cardinality(freed) = Cardinality(firsts)
    BY <2>9, <2>10, FS_Bijection
  <2> QED BY <2>9, <2>11 DEF ParametersRequested
<1> QED BY <1>1, JourneyInvariant, PTL
(* The output recipe as it is written obeys the schema's tie rules and     *)
(* bounds, has no value to derive, and gives GSAS-II whole cell groups,    *)
(* whenever its representatives ended inside their bounds.                 *)
LEMMA OutputAccepted ==
  ASSUME Inv, pc = "done",
         \A g \in Reps : Inside(out.value[g], model.min[g], model.max[g])
  PROVE  Accepts(engine, out) /\ Noted(out) = {}
<1>1. /\ raw \in Recipe /\ Accepts(engine, raw) /\ model = Validated(raw) /\ model \in Recipe
      /\ model.flag = raw.flag /\ ReportOK(model, report) /\ out \in Recipe
      /\ out.value = Written(model, report)
  BY DoneFacts
<1>2. out.flag = raw.flag /\ out.min = model.min /\ out.max = model.max
  BY <1>1, DoneFacts DEF OutputOf, Recipe
<1>3. /\ \A g \in Reps : model.min[g] = raw.min[g] /\ model.max[g] = raw.max[g]
      /\ \A p \in Free : model.min[p] = TiedMin(raw, p) /\ model.max[p] = TiedMax(raw, p)
      /\ \A p \in Fixed : model.min[p] = NoBound /\ model.max[p] = NoBound
  BY <1>1, ModelBounds
<1>4. /\ out.value \in [Param -> Int]
      /\ \A p \in Free : out.value[p] = Tied(p, out.value[Rep[p]])
  BY <1>1, OutputTied DEF Recipe
<1>5. raw.min \in [Param -> Bound] /\ raw.max \in [Param -> Bound] /\ raw.value \in [Param -> Int]
      /\ raw.flag \in [Param -> BOOLEAN]
  BY <1>1 DEF Recipe
<1>6. \A p \in Param : Derived(out.value)[p] = out.value[p]
  <2>1. TAKE p \in Param
  <2>2. CASE p \in Fixed
    <3>1. out.value[p] = model.value[p]
      BY <2>2, <1>1 DEF Written, ReportOK, Free
    <3>2. model.value[p] = Exact[p]
      BY <2>2, <1>1, ValidatedTyped DEF Derived
    <3> QED BY <2>2, <3>1, <3>2 DEF Derived
  <2>3. CASE p \notin Fixed
    BY <2>3, <1>4 DEF Derived, Free
  <2> QED BY <2>2, <2>3
<1>7. Noted(out) = {}
  BY <1>6 DEF Noted
<1>8. Misstated(out.value) = {}
  <2>1. \A x \in Int : Near(x, x)
    BY TiesAssumption DEF Near
  <2> QED BY <1>4, <1>6, <2>1 DEF Misstated
<1>9. ASSUME NEW p \in Param
      PROVE  /\ Inside(out.value[p], out.min[p], out.max[p])
             /\ out.min[p] # NoBound => Inside(out.min[p], NoBound, out.max[p])
  <2>1. CASE p \in Fixed
    BY <2>1, <1>2, <1>3 DEF Inside
  <2>2. CASE p \notin Fixed
    <3> DEFINE g == Rep[p]
               x == out.value[g]
               lo == raw.min[g]
               hi == raw.max[g]
    <3>1. g \in Reps /\ g \in Param /\ x \in Int /\ lo \in Bound /\ hi \in Bound
          /\ out.value[p] = Tied(p, x) /\ out.value[p] \in Int
      BY <2>2, <1>4, <1>5, RepFree DEF Free
    <3>2. Inside(x, lo, hi)
      BY <3>1, <1>3
    <3>3. lo # NoBound => Inside(lo, NoBound, hi)
      BY <3>1, <1>1 DEF Accepts, BoundsHold
    <3>4. out.min[p] = TiedMin(raw, p) /\ out.max[p] = TiedMax(raw, p)
      BY <2>2, <1>2, <1>3 DEF Free
    <3>5. K[p] \in Int /\ K[p] # 0 /\ NoBound \notin Int
          /\ \A y \in Int : Tied(p, y) \in Int
      BY TiesAssumption DEF Tied
    <3> HIDE DEF g, x, lo, hi
    <3>6. CASE K[p] > 0
      <4>1. out.min[p] = TiedBound(p, lo) /\ out.max[p] = TiedBound(p, hi)
        BY <3>4, <3>6 DEF TiedMin, TiedMax, g, lo, hi
      <4>2. lo # NoBound => Tied(p, lo) <= out.value[p]
        BY <3>1, <3>2, <3>6, TiedOrder DEF Inside, Bound
      <4>3. hi # NoBound => out.value[p] <= Tied(p, hi)
        BY <3>1, <3>2, <3>6, TiedOrder DEF Inside, Bound
      <4>4. lo # NoBound /\ hi # NoBound => Tied(p, lo) <= Tied(p, hi)
        BY <3>1, <3>3, <3>6, TiedOrder DEF Inside, Bound
      <4> QED BY <4>1, <4>2, <4>3, <4>4 DEF Inside, TiedBound
    <3>7. CASE ~ (K[p] > 0)
      <4>1. out.min[p] = TiedBound(p, hi) /\ out.max[p] = TiedBound(p, lo)
        BY <3>4, <3>7 DEF TiedMin, TiedMax, g, lo, hi
      <4>2. hi # NoBound => Tied(p, hi) <= out.value[p]
        BY <3>1, <3>2, <3>5, <3>7, TiedOrder DEF Inside, Bound
      <4>3. lo # NoBound => out.value[p] <= Tied(p, lo)
        BY <3>1, <3>2, <3>5, <3>7, TiedOrder DEF Inside, Bound
      <4>4. lo # NoBound /\ hi # NoBound => Tied(p, hi) <= Tied(p, lo)
        BY <3>1, <3>3, <3>5, <3>7, TiedOrder DEF Inside, Bound
      <4> QED BY <4>1, <4>2, <4>3, <4>4 DEF Inside, TiedBound
    <3> QED BY <3>6, <3>7
  <2> QED BY <2>1, <2>2
<1>10. TieRules(out)
  <2>1. \A p \in Fixed : ~ out.flag[p] /\ out.min[p] = NoBound /\ out.max[p] = NoBound
    BY <1>1, <1>2, <1>3 DEF Accepts, TieRules
  <2>2. ASSUME NEW p \in Free
        PROVE  /\ out.flag[p] = out.flag[Rep[p]]
               /\ out.min[p] = TiedMin(out, p) /\ out.max[p] = TiedMax(out, p)
               /\ out.min[p] \in Bound /\ out.max[p] \in Bound
    <3>1. out.flag[p] = out.flag[Rep[p]]
      BY <1>1, <1>2 DEF Accepts, TieRules
    <3>2. out.min[Rep[p]] = raw.min[Rep[p]] /\ out.max[Rep[p]] = raw.max[Rep[p]]
      BY <1>2, <1>3, RepFree
    <3>3. TiedMin(out, p) = TiedMin(raw, p) /\ TiedMax(out, p) = TiedMax(raw, p)
      BY <3>2 DEF TiedMin, TiedMax
    <3> QED BY <3>1, <3>3, <1>1, <1>2, <1>3, BoundTyped DEF Free
  <2>3. \A b \in Bound : States(b, b)
    BY TiesAssumption DEF States, Bound, Near
  <2> QED BY <2>1, <2>2, <2>3 DEF TieRules
<1>11. engine = "gsasii" => CellGroupRule(out) /\ Unbounded(out)
  <2> SUFFICES ASSUME engine = "gsasii" PROVE CellGroupRule(out) /\ Unbounded(out)
    OBVIOUS
  <2>1. CellGroupRule(raw) /\ Unbounded(raw)
    BY <1>1 DEF Accepts
  <2>2. CellGroupRule(out)
    BY <2>1, <1>2 DEF CellGroupRule
  <2>3. ASSUME NEW p \in Param PROVE out.min[p] = NoBound /\ out.max[p] = NoBound
    <3>1. Rep[p] \in Param
      BY TiesAssumption
    <3> QED BY <2>1, <3>1, <1>2, <1>3 DEF Unbounded, TiedMin, TiedMax, TiedBound, Free
  <2> QED BY <2>2, <2>3 DEF Unbounded
<1>12. BoundsHold(out)
  BY <1>9 DEF BoundsHold
<1> QED BY <1>7, <1>8, <1>10, <1>11, <1>12 DEF Accepts

(* What a gateway reads back disagrees with no tie, and moves no parameter *)
(* that is held, as long as the engine keeps its holds.                    *)
LEMMA ReportAgrees ==
  ASSUME Inv, pc = "done", ~ fit.stray
  PROVE  HeldMoved(model, report) = {} /\ Disagrees(model, report) = {} /\ ~ report.unknown
<1>1. /\ raw \in Recipe /\ Accepts(engine, raw) /\ model = Validated(raw) /\ model \in Recipe
      /\ model.flag = raw.flag /\ freed = Frees(model) /\ freed \subseteq Reps
      /\ fit.varied \subseteq freed /\ ReportOK(model, report)
  BY DoneFacts
<1>2. /\ model.value \in [Param -> Int]
      /\ \A p \in Free : model.value[p] = Tied(p, model.value[Rep[p]])
  BY <1>1, ValidatedTyped, DerivedTied DEF Recipe
<1>3. \A g \in freed : \A p \in Members(g) : model.flag[p] = TRUE
  BY <1>1, FreesFlagged DEF Inv
<1>4. \A p \in report.at : p \in Free /\ p \in Param /\ report.value[p] \in Int
  BY <1>1 DEF ReportOK, Free
<1>5. CASE engine = "gsasii"
  <2>1. PICK noise \in Noise, lost \in SUBSET (fit.varied \ CellParam) :
               /\ report = GsasiiRead(noise, lost)
               /\ \A p \in CellParam \cap Free : noise[p] \in {0, 1}
    BY <1>5 DEF Inv, ReadOK
  <2> DEFINE cell == UNION {c \cap Free : c \in RefinedCells}
  <2>2. /\ report.at = cell \cup (fit.varied \ (CellParam \cup lost)) /\ ~ report.unknown
        /\ \A p \in cell : report.value[p] = Tied(p, Final(Rep[p])) + noise[p]
    BY <2>1 DEF GsasiiRead
  <2>3. cell \subseteq CellParam \cap Free
    BY DEF CellParam, RefinedCells
  <2>6. \A p \in cell, q \in Free : Rep[p] = Rep[q] => q \in cell
    BY EngineTies DEF RefinedCells, Free
  <2> HIDE DEF cell
  <2>4. ASSUME NEW p \in report.at, ~ model.flag[p]
        PROVE  Near(report.value[p], model.value[p])
    <3>1. p \in cell
      <4>1. \A g \in fit.varied : model.flag[g] = TRUE
        BY <1>1, <1>3, RepsAre DEF Members
      <4> QED BY <2>2, <2>4, <4>1
    <3>2. p \in Free /\ p \in Members(Rep[p]) /\ noise[p] \in {0, 1}
      BY <2>1, <2>3, <3>1 DEF Members
    <3>3. Rep[p] \notin fit.varied
      BY <1>1, <1>3, <2>4, <3>2
    <3>4. report.value[p] = model.value[p] + noise[p]
      BY <1>2, <2>2, <3>1, <3>2, <3>3 DEF Final
    <3>5. model.value[p] \in Int /\ Tol \in Nat /\ Tol >= 1
      BY <1>2, <3>2, TiesAssumption, ToleranceAssumption DEF Free
    <3> QED BY <3>2, <3>4, <3>5 DEF Near
  <2>5. ASSUME NEW p \in report.at \cap Free, Rep[p] # p
        PROVE  Near(report.value[p], Tied(p, RepValue(model, report, Rep[p])))
    <3> DEFINE g == Rep[p]
               m == Stand(report, g)
    <3>1. p \in cell
      BY <1>1, <2>2, <2>5, RepsAre
    <3>2. g \in Reps /\ p \in Members(g) /\ p \in Free /\ p \in CellParam
      BY <2>3, <3>1, RepFree
    <3>3. Reported(report, g)
      BY <2>5, <3>2 DEF Reported
    <3>4. m \in Members(g) /\ m \in report.at
      BY <1>1, <3>2, <3>3, StandIn
    <3>6. m \in cell
      BY <2>6, <3>1, <3>4 DEF Members
    <3>5. m \in Free /\ Rep[m] = g /\ m \in CellParam
      BY <2>3, <3>4, <3>6 DEF Members
    <3>7. K[m] = 1 /\ C[m] = 0 /\ K[p] = 1 /\ C[p] = 0
      BY <3>2, <3>5, EngineTies
    <3>8. report.value[m] \in Int /\ report.value[p] \in Int /\ m \in Param /\ p \in Param
      BY <1>4, <2>5, <3>4
    <3>9. RepValue(model, report, g) = report.value[m]
      BY <3>3, <3>7, <3>8, UntiedEqual DEF RepValue
    <3>10. report.value[m] = Tied(m, Final(g)) + noise[m] /\ report.value[p] = Tied(p, Final(g)) + noise[p]
      BY <2>2, <3>1, <3>5, <3>6
    <3>11. noise[m] \in {0, 1} /\ noise[p] \in {0, 1}
      BY <2>1, <2>3, <3>1, <3>6
    <3>12. Final(g) \in Int
      <4>1. g \in Param
        BY <3>2, RepsAre DEF Free
      <4>2. fit.value \in [fit.varied -> Int]
        BY DoneFacts
      <4> QED BY <4>1, <4>2, <1>2 DEF Final
    <3>13. Tied(m, Final(g)) = Final(g) /\ Tied(p, Final(g)) = Final(g)
      BY <3>7, <3>12 DEF Tied
    <3>14. Tied(p, report.value[m]) = report.value[m]
      BY <3>7, <3>8 DEF Tied
    <3>15. Tol \in Nat /\ Tol >= 1
      BY TiesAssumption, ToleranceAssumption
    <3>16. Near(report.value[p], report.value[m])
      <4> HIDE DEF m, g
      <4> QED BY <3>10, <3>11, <3>12, <3>13, <3>15 DEF Near
    <3> QED BY <3>9, <3>14, <3>16
  <2> QED BY <2>2, <2>4, <2>5 DEF HeldMoved, Disagrees
<1>6. CASE engine = "topas"
  <2>1. PICK missing \in SUBSET freed : report = TopasRead(missing)
    BY <1>6 DEF Inv, ReadOK
  <2>2. report.at \subseteq freed /\ ~ report.unknown
    BY <2>1 DEF TopasRead
  <2>3. \A p \in report.at : model.flag[p] = TRUE /\ Rep[p] = p
    BY <1>1, <1>3, <2>2, RepsAre DEF Members
  <2> QED BY <2>2, <2>3 DEF HeldMoved, Disagrees
<1>7. CASE engine = "easydiffraction"
  <2>1. report = EasydiffractionRead
    BY <1>7 DEF Inv, ReadOK
  <2>2. report.at = {FreeMember(g) : g \in freed} /\ ~ report.unknown
    BY <2>1 DEF EasydiffractionRead
  <2>3. ASSUME NEW p \in report.at
        PROVE  model.flag[p] = TRUE /\ Near(report.value[p], Tied(p, RepValue(model, report, Rep[p])))
    <3>1. PICK g \in freed : p = FreeMember(g)
      BY <2>2
    <3>2. p \in Members(g) /\ p \in Param /\ Reported(report, g) /\ Stand(report, g) = p
      BY <1>7, <2>1, <3>1, EasydiffractionStand
    <3>3. Rep[p] = g /\ model.flag[p] = TRUE
      BY <1>3, <3>2 DEF Members
    <3>4. RepValue(model, report, g) = Untied(p, report.value[p])
      BY <3>2 DEF RepValue
    <3> QED BY <1>4, <3>2, <3>3, <3>4, UntiedNear
  <2> QED BY <2>2, <2>3 DEF HeldMoved, Disagrees
<1> QED BY <1>5, <1>6, <1>7, BoundsAssumption DEF Inv, RawOK

(* build_output: a run whose engine keeps its holds and ends inside the    *)
(* bounds and clear of special positions gives a valid output recipe,      *)
(* whichever member of a group each engine reports.                        *)
THEOREM JourneyInsideIsValid == Spec => []InsideIsValid
<1>1. Inv => InsideIsValid
  <2> SUFFICES ASSUME Inv, pc = "done", ~ fit.stray,
                      \A g \in Reps : Inside(out.value[g], model.min[g], model.max[g]),
                      ~ OnSpecial(out.value)
               PROVE  valid
    BY DEF InsideIsValid
  <2>1. out = OutputOf(model, report) /\ valid = Valid(engine, model, report)
    BY DoneFacts
  <2>2. Accepts(engine, out) /\ Noted(out) = {}
    BY OutputAccepted
  <2>3. HeldMoved(model, report) = {} /\ Disagrees(model, report) = {} /\ ~ report.unknown
    BY ReportAgrees
  <2> QED BY <2>1, <2>2, <2>3 DEF Valid, Refused, Rederived, MultiplicityChanges
<1> QED BY <1>1, JourneyInvariant, PTL
==============================================================================
