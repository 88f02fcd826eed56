--------------------------- MODULE GsasBuildProofs ---------------------------
(***************************************************************************)
(* What holds of the building of a GSAS-II project for every set of        *)
(* well-formed recipes: every crystal system, any number of phases, atoms  *)
(* and peaks, any site symmetry.  What GSAS-II varies is what the recipe   *)
(* flags; what it does not vary is reported; what is read back is what     *)
(* moved; and nothing is written of a fit that was rejected.               *)
(***************************************************************************)
EXTENDS GsasBuildVariables

Before == {"new", "histogram", "background", "phases", "sites", "parameterize", "hold",
           "instrument", "refine"}
Sited == {"parameterize", "hold", "instrument", "refine", "report", "extract", "export", "read"}

ControlOK ==
    /\ pc \in Steps /\ outcome \in {"running", "success", "failed", "raised"}
    /\ Running => pc \notin {"read", "end"}
    /\ outcome = "success" => pc \in {"read", "end"}
    /\ pc \in Before \cup {"report", "extract", "export"} => Running
    /\ pc = "read" => outcome = "success"

Staged ==
    /\ pc = "new" => proj = EmptyProject /\ holds = {} /\ next = 1
    /\ pc = "histogram" =>
         proj = Project({"Scale"}, FALSE, 3, <<>>, <<>>, <<>>, {}) /\ holds = {} /\ next = 1
    /\ pc = "background" =>
         /\ proj = Project({}, Back, recipe.coefficients, BkFlags, <<>>, <<>>, {})
         /\ holds = {} /\ next = 1
    /\ pc = "phases" =>
         proj = WithPhases(PhasesTo(next - 1, 0)) /\ holds = {} /\ next \in 1 .. Total
    /\ pc = "sites" => proj = WithPhases(PhasesTo(Total, 0)) /\ holds = {} /\ next = 1 /\ 1 <= Total
    /\ pc = "parameterize" =>
         proj = WithPhases(PhasesTo(Total, next - 1)) /\ holds = Holds(next - 1) /\ next \in 1 .. Total
    /\ pc = "hold" => proj = WithPhases(PhasesTo(Total, Total)) /\ holds = Holds(Total)
    /\ pc = "instrument" =>
         /\ proj = Project({}, Back, recipe.coefficients, BkFlags, SpfFlags,
                           PhasesTo(Total, Total), Holds(Total))
         /\ holds = Holds(Total)
    /\ pc \in {"refine", "report", "extract", "export", "read"} \/ outcome = "success" => Built

(* Whatever fails, and at whatever step. *)
Shaped(project, held) ==
    /\ project.on \subseteq Instrument \cup {"Scale"}
    /\ \A p \in DOMAIN project.phases :
         /\ project.phases[p].name = recipe.phases[p].name
         /\ project.phases[p].on \subseteq PhaseLeaves
    /\ project.holds \subseteq held
Shape == Shaped(proj, holds)

FitOK ==
    /\ pc \in Before => fit = "none" /\ varied = {} /\ warned = {} /\ counted = 0 /\ tables = {}
    /\ pc = "report" => tables = {}
    /\ refined # {} => pc = "end" /\ outcome = "success"
    /\ Worthless => tables = {} /\ outcome # "success" /\ pc \in {"report", "end"}

SitesOK == pc \in Sited \/ outcome = "success" => SiteProblems = {}

CountOK ==
    /\ warned \subseteq {"message", "not_converged", "not_varied"}
    /\ counted \in Nat
    /\ pc \in {"report", "extract", "export", "read"} \/ outcome = "success" =>
         /\ varied \subseteq ProjectVaries
         /\ counted = Cardinality(IF recipe.spf THEN varied ELSE ProjectVaries)
         /\ varied # ProjectVaries /\ ~ recipe.spf => "message" \in warned
         /\ "not_varied" \in warned <=> pc # "report" /\ counted < Requested(recipe)

ReadOK ==
    /\ outcome = "success" => rows \subseteq varied
    /\ outcome = "success" /\ pc = "end" =>
        refined = (UNION {PathOf(v) : v \in rows})
             \cup UNION {IF \E leaf \in CellOf(ph) : Flagged(leaf) THEN CellOf(ph) ELSE {}
                         : ph \in ToSet(recipe.phases)}

Inv == /\ RecipeOK /\ ControlOK /\ Staged /\ Shape
       /\ FitOK /\ SitesOK /\ CountOK /\ ReadOK
------------------------------------------------------------------------------
LEMMA EmptyPhases ==
  /\ \A m : PhasesTo(0, m) = <<>>
  /\ Holds(0) = {}
<1>1. \A m : PhasesTo(0, m) = <<>>
  BY DEF PhasesTo
<1>2. Holds(0) = {}
  BY DEF Holds
<1> QED BY <1>1, <1>2

LEMMA AppendedPhase ==
  ASSUME NEW n \in Nat
  PROVE  Append(PhasesTo(n, 0), NewPhase(recipe.phases[n + 1])) = PhasesTo(n + 1, 0)
<1> DEFINE S == {NewPhase(recipe.phases[i]) : i \in 1 .. n + 1}
<1>1. PhasesTo(n, 0) = [i \in 1 .. n |-> NewPhase(recipe.phases[i])]
  BY DEF PhasesTo
<1>2. PhasesTo(n + 1, 0) = [i \in 1 .. n + 1 |-> NewPhase(recipe.phases[i])]
  BY DEF PhasesTo
<1>3. PhasesTo(n, 0) \in Seq(S) /\ Len(PhasesTo(n, 0)) = n
  BY <1>1
<1>4. NewPhase(recipe.phases[n + 1]) \in S
  OBVIOUS
<1> QED BY <1>1, <1>2, <1>3, <1>4, AppendProperties

LEMMA HoldsNext ==
  ASSUME NEW n \in Nat
  PROVE  Holds(n + 1) = Holds(n) \cup PhaseHolds(recipe.phases[n + 1], n)
<1>1. 1 .. n + 1 = (1 .. n) \cup {n + 1}
  OBVIOUS
<1>2. n + 1 - 1 = n
  OBVIOUS
<1> QED BY <1>1, <1>2 DEF Holds

(* A phase of a project under construction is the recipe's of that place.  *)
LEMMA PhasesShaped ==
  ASSUME NEW n \in Nat, NEW m \in Nat, NEW p \in DOMAIN PhasesTo(n, m)
  PROVE  /\ PhasesTo(n, m)[p].name = recipe.phases[p].name
         /\ PhasesTo(n, m)[p].on \subseteq PhaseLeaves
<1>1. \A ph : NewPhase(ph).name = ph.name /\ NewPhase(ph).on = {}
  BY DEF NewPhase
<1>2. \A ph : /\ Parameterized(NewPhase(ph), ph).name = ph.name
              /\ Parameterized(NewPhase(ph), ph).on = PhaseFlags(ph)
  BY DEF NewPhase, Parameterized
<1>3. \A ph : PhaseFlags(ph) \subseteq PhaseLeaves
  BY DEF PhaseFlags
<1>4. p \in 1 .. n
  BY DEF PhasesTo
<1>5. PhasesTo(n, m)[p] = IF p <= m THEN Parameterized(NewPhase(recipe.phases[p]), recipe.phases[p])
                                    ELSE NewPhase(recipe.phases[p])
  BY <1>4 DEF PhasesTo
<1> QED BY <1>1, <1>2, <1>3, <1>5

LEMMA ProjectShaped ==
  ASSUME NEW on, NEW back, NEW terms, NEW bk, NEW pk, NEW n \in Nat, NEW m \in Nat, NEW held,
         NEW asked, on \subseteq Instrument \cup {"Scale"}, held \subseteq asked
  PROVE  Shaped(Project(on, back, terms, bk, pk, PhasesTo(n, m), held), asked)
<1> DEFINE project == Project(on, back, terms, bk, pk, PhasesTo(n, m), held)
<1>1. project.on = on /\ project.phases = PhasesTo(n, m) /\ project.holds = held
  BY DEF Project
<1> HIDE DEF project
<1>2. Shaped(project, asked)
  BY <1>1, PhasesShaped DEF Shaped
<1> QED BY <1>2 DEF project

(* The setters meet the phase they parameterize, by its name.              *)
LEMMA ParameterizedNext ==
  ASSUME RecipeOK, NEW n \in 1 .. Total, proj = WithPhases(PhasesTo(Total, n - 1))
  PROVE  LET ph == recipe.phases[n]
             p == CHOOSE i \in DOMAIN proj.phases : proj.phases[i].name = ph.name
         IN  /\ p = n
             /\ [proj EXCEPT !.phases[p] = Parameterized(@, ph)] = WithPhases(PhasesTo(Total, n))
<1> DEFINE ph == recipe.phases[n]
           p == CHOOSE i \in DOMAIN proj.phases : proj.phases[i].name = ph.name
<1>1. Total \in Nat /\ n \in Nat /\ n - 1 \in Nat
  BY RecipeTyped
<1>2. proj.phases = PhasesTo(Total, n - 1)
  BY DEF WithPhases, Project
<1>3. DOMAIN PhasesTo(Total, n - 1) = 1 .. Total
  BY DEF PhasesTo
<1>4. \A i \in 1 .. Total : proj.phases[i].name = recipe.phases[i].name
  BY <1>1, <1>2, <1>3, PhasesShaped
<1>5. p = n
  <2>1. \A i \in DOMAIN proj.phases : proj.phases[i].name = ph.name <=> i = n
    BY <1>2, <1>3, <1>4, RecipeTyped
  <2> QED BY <2>1, <1>2, <1>3
<1>6. [PhasesTo(Total, n - 1) EXCEPT ![n] = Parameterized(@, ph)] = PhasesTo(Total, n)
  <2>1. PhasesTo(Total, n - 1)[n] = NewPhase(ph)
    BY <1>1 DEF PhasesTo
  <2>2. PhasesTo(Total, n)[n] = Parameterized(NewPhase(ph), ph)
    BY <1>1 DEF PhasesTo
  <2>3. \A i \in 1 .. Total : i # n => PhasesTo(Total, n)[i] = PhasesTo(Total, n - 1)[i]
    BY <1>1 DEF PhasesTo
  <2>4. DOMAIN PhasesTo(Total, n) = 1 .. Total
    BY DEF PhasesTo
  <2>5. PhasesTo(Total, n) = [i \in 1 .. Total |-> PhasesTo(Total, n)[i]]
    BY DEF PhasesTo
  <2>6. [PhasesTo(Total, n - 1) EXCEPT ![n] = Parameterized(@, ph)]
          = [i \in 1 .. Total |-> IF i = n THEN Parameterized(NewPhase(ph), ph)
                                  ELSE PhasesTo(Total, n - 1)[i]]
    BY <1>3, <2>1
  <2> QED BY <2>2, <2>3, <2>5, <2>6
<1>7. [proj EXCEPT !.phases[n] = Parameterized(@, ph)]
        = WithPhases([PhasesTo(Total, n - 1) EXCEPT ![n] = Parameterized(@, ph)])
  BY <1>2 DEF WithPhases, Project
<1> QED BY <1>5, <1>6, <1>7

------------------------------------------------------------------------------
(* Every run starts with the empty project, before any phase is added.     *)
THEOREM GsasBuildInit == Init => Inv
<1> SUFFICES ASSUME Init PROVE Inv
  OBVIOUS
<1>1. RecipeOK /\ ControlOK
  BY DEF Init, RecipeOK, ControlOK, Steps, Running, Before
<1>2. Staged /\ Shape
  BY DEF Init, Staged, Shape, Shaped, EmptyProject
<1>3. FitOK
  BY DEF Init, FitOK, Before, Worthless
<1>4. SitesOK
  BY DEF Init, SitesOK, Sited
<1>5. CountOK
  BY DEF Init, CountOK
<1>6. ReadOK
  BY DEF Init, ReadOK
<1> QED BY <1>1, <1>2, <1>3, <1>4, <1>5, <1>6 DEF Inv

(* A step before the refinement leaves no more than flags in the project.  *)
LEMMA EarlyStep ==
  ASSUME Inv, pc \in Before, UNCHANGED <<recipe, varied, counted, fit, warned, tables, rows, refined>>,
         \/ pc' \in Before /\ outcome' = outcome
         \/ pc' = "end" /\ outcome' \in {"failed", "raised"}
  PROVE  (RecipeOK /\ ControlOK /\ FitOK /\ CountOK /\ ReadOK)'
<1>1. UNCHANGED <<recipe, varied, counted, fit, warned, tables, rows, refined>>
  OBVIOUS
<1>2. Running /\ ~ Worthless /\ refined = {}
  BY DEF Inv, ControlOK, FitOK, Before, Running
<1>3. RecipeOK' /\ ControlOK'
  BY <1>1, <1>2 DEF Inv, RecipeOK, ControlOK, Before, Steps, Running
<1>4. FitOK'
  BY <1>1, <1>2 DEF Inv, FitOK, Worthless, Before
<1>5. CountOK' /\ ReadOK'
  BY <1>1, <1>2 DEF Inv, CountOK, ReadOK, Before, Running
<1> QED BY <1>3, <1>4, <1>5

(* The stages are functions of the recipe. *)
LEMMA SameRecipe ==
  ASSUME UNCHANGED recipe
  PROVE  /\ UNCHANGED <<Back, BkFlags, SpfFlags, InstrumentFlags, Total, SiteProblems>>
         /\ \A n, m : PhasesTo(n, m)' = PhasesTo(n, m)
         /\ \A m : Holds(m)' = Holds(m)
         /\ \A f : WithPhases(f)' = WithPhases(f)
         /\ \A project, held : Shaped(project, held)' <=> Shaped(project, held)
<1>1. \A leaf : Flagged(leaf)' <=> Flagged(leaf)
  BY DEF Flagged
<1>2. Back' = Back /\ BkFlags' = BkFlags /\ SpfFlags' = SpfFlags /\ InstrumentFlags' = InstrumentFlags
  BY DEF Back, BkFlags, SpfFlags, InstrumentFlags, PeakFlags, Flagged
<1>3. Total' = Total
  BY DEF Total
<1>4. SiteProblems' = SiteProblems
  BY DEF SiteProblems, RefinesSite, Flagged
<1>5. \A gp, ph : Parameterized(gp, ph)' = Parameterized(gp, ph)
  BY DEF Parameterized, CellRefines, PhaseFlags, AtomFlags, Refining, Flagged
<1>6. \A n, m : PhasesTo(n, m)' = PhasesTo(n, m)
  BY <1>5 DEF PhasesTo
<1>7. \A ph, p : PhaseHolds(ph, p)' = PhaseHolds(ph, p)
  BY DEF PhaseHolds, CellRefines, CellHolds, AtomHolds, Refining, Flagged
<1>8. \A m : Holds(m)' = Holds(m)
  BY <1>7 DEF Holds
<1>9. \A f : WithPhases(f)' = WithPhases(f)
  BY <1>2 DEF WithPhases
<1>10. \A project, held : Shaped(project, held)' <=> Shaped(project, held)
  BY DEF Shaped
<1> QED BY <1>2, <1>3, <1>4, <1>6, <1>8, <1>9, <1>10

LEMMA AddHistogramStep == Inv /\ AddHistogram => Inv'
<1> SUFFICES ASSUME Inv, AddHistogram PROVE Inv'
  OBVIOUS
<1>1. /\ pc = "new" /\ pc' = "histogram" /\ Running /\ outcome' = outcome /\ holds' = holds /\ Unchanged
      /\ proj' = [proj EXCEPT !.on = {"Scale"}, !.terms = 3]
  BY DEF AddHistogram, Goto
<1>2. proj = EmptyProject /\ holds = {} /\ next = 1
  BY <1>1 DEF Inv, Staged
<1>3. proj' = Project({"Scale"}, FALSE, 3, <<>>, <<>>, <<>>, {})
  BY <1>1, <1>2 DEF EmptyProject, Project
<1>4. Staged'
  BY <1>1, <1>2, <1>3 DEF Staged, Unchanged, Running
<1>7. Shape'
  <2>1. Shaped(proj', {})
    BY <1>3, ProjectShaped, EmptyPhases
  <2> QED BY <1>1, <1>2, <2>1 DEF Shape, Shaped, Unchanged
<1>5. (RecipeOK /\ ControlOK /\ FitOK /\ CountOK /\ ReadOK)'
  BY <1>1, EarlyStep DEF Before, Unchanged
<1>6. SitesOK'
  BY <1>1 DEF SitesOK, Sited, Running
<1> QED BY <1>4, <1>5, <1>6, <1>7 DEF Inv

LEMMA SetBackgroundStep == Inv /\ SetBackground => Inv'
<1> SUFFICES ASSUME Inv, SetBackground PROVE Inv'
  OBVIOUS
<1>1. /\ pc = "histogram" /\ pc' = "background" /\ Running /\ outcome' = outcome /\ holds' = holds /\ Unchanged
      /\ proj' = [proj EXCEPT !.on = @ \ {"Scale"},
                              !.back = Back,
                              !.terms = recipe.coefficients,
                              !.bkPeaks = @ \o BkFlags]
  BY DEF SetBackground, Goto, Back, BkFlags
<1>2. /\ proj = Project({"Scale"}, FALSE, 3, <<>>, <<>>, <<>>, {}) /\ holds = {} /\ next = 1
  BY <1>1 DEF Inv, Staged
<1>3. <<>> \o BkFlags = BkFlags
  <2>1. BkFlags \in Seq(SUBSET PeakLists)
    BY RecipeTyped DEF Inv, BkFlags, PeakFlags
  <2> QED BY <2>1, ConcatEmptySeq
<1>4. proj' = Project({}, Back, recipe.coefficients, BkFlags, <<>>, <<>>, {})
  BY <1>1, <1>2, <1>3 DEF Project
<1>5. UNCHANGED <<recipe, next>> /\ Back' = Back /\ BkFlags' = BkFlags
  BY <1>1, SameRecipe DEF Unchanged
<1>6. Staged'
  BY <1>1, <1>2, <1>4, <1>5 DEF Staged, Project, Running
<1>7. Shape'
  <2>1. Shaped(proj', {})
    BY <1>4, ProjectShaped, EmptyPhases
  <2> QED BY <1>1, <1>2, <2>1 DEF Shape, Shaped, Unchanged
<1>8. (RecipeOK /\ ControlOK /\ FitOK /\ CountOK /\ ReadOK)'
  BY <1>1, EarlyStep DEF Before, Unchanged
<1>9. SitesOK'
  BY <1>1 DEF SitesOK, Sited, Running
<1> QED BY <1>6, <1>7, <1>8, <1>9 DEF Inv

LEMMA SetPeaksStep == Inv /\ SetPeaks => Inv'
<1> SUFFICES ASSUME Inv, SetPeaks PROVE Inv'
  OBVIOUS
<1>1. /\ pc = "background" /\ Running /\ outcome' = outcome /\ holds' = holds /\ Unchanged
      /\ pc' = (IF recipe.phases = <<>> THEN "instrument" ELSE "phases")
      /\ proj' = [proj EXCEPT !.peaks = SpfFlags]
  BY DEF SetPeaks, Goto, SpfFlags
<1>2. /\ proj = Project({}, Back, recipe.coefficients, BkFlags, <<>>, <<>>, {})
      /\ holds = {} /\ next = 1
  BY <1>1 DEF Inv, Staged
<1>3. proj' = Project({}, Back, recipe.coefficients, BkFlags, SpfFlags, <<>>, {})
  BY <1>1, <1>2 DEF Project
<1>4. proj' = WithPhases(PhasesTo(0, 0))
  BY <1>3, EmptyPhases DEF WithPhases
<1>5. UNCHANGED <<recipe, next, holds, Back, BkFlags, SpfFlags, Total, SiteProblems>>
      /\ (\A n, m : PhasesTo(n, m)' = PhasesTo(n, m))
      /\ (\A m : Holds(m)' = Holds(m)) /\ (\A f : WithPhases(f)' = WithPhases(f))
  BY <1>1, SameRecipe DEF Unchanged
<1>6. Shape'
  <2>1. Shaped(proj', {})
    BY <1>3, ProjectShaped, EmptyPhases
  <2> QED BY <1>1, <1>2, <2>1 DEF Shape, Shaped, Unchanged
<1>7. ASSUME recipe.phases = <<>> PROVE Staged' /\ SitesOK' /\ pc' \in Before
  <2>1. Total = 0 /\ Holds(Total) = {} /\ PhasesTo(Total, Total) = <<>>
    BY <1>7, EmptyPhases DEF Total
  <2>2. pc' = "instrument"
    BY <1>1, <1>7
  <2>3. Staged'
    BY <1>1, <1>2, <1>3, <1>5, <2>1, <2>2 DEF Staged, Running
  <2>4. SiteProblems = {}
    BY <1>7 DEF SiteProblems, ToSet
  <2> QED BY <1>5, <2>2, <2>3, <2>4 DEF SitesOK, Before
<1>8. ASSUME recipe.phases # <<>> PROVE Staged' /\ SitesOK' /\ pc' \in Before
  <2>1. pc' = "phases"
    BY <1>1, <1>8
  <2>2. Total \in Nat \ {0}
    BY <1>8, RecipeTyped, EmptySeq, LenProperties DEF Inv, Total
  <2>3. Staged'
    BY <1>1, <1>2, <1>4, <1>5, <2>1, <2>2 DEF Staged, Running
  <2> QED BY <1>1, <2>1, <2>3 DEF SitesOK, Sited, Before, Running
<1>9. (RecipeOK /\ ControlOK /\ FitOK /\ CountOK /\ ReadOK)'
  <2>1. pc \in Before /\ pc' \in Before
    BY <1>1, <1>7, <1>8 DEF Before
  <2> QED BY <1>1, <2>1, EarlyStep DEF Unchanged
<1> QED BY <1>6, <1>7, <1>8, <1>9 DEF Inv

LEMMA AddPhaseStep == Inv /\ AddPhase => Inv'
<1> SUFFICES ASSUME Inv, AddPhase PROVE Inv'
  OBVIOUS
<1>1. /\ pc = "phases" /\ Running /\ outcome' = outcome /\ holds' = holds
      /\ proj' = [proj EXCEPT !.phases = Append(@, NewPhase(recipe.phases[next]))]
      /\ IF next < Total THEN next' = next + 1 /\ pc' = pc ELSE next' = 1 /\ pc' = "sites"
      /\ UNCHANGED <<recipe, varied, counted, fit, warned, tables, rows, refined>>
  BY DEF AddPhase, Goto, Total
<1>2. proj = WithPhases(PhasesTo(next - 1, 0)) /\ holds = {} /\ next \in 1 .. Total /\ Total \in Nat
  BY <1>1, RecipeTyped DEF Inv, Staged
<1>3. proj' = WithPhases(PhasesTo(next, 0))
  <2>1. next - 1 \in Nat /\ (next - 1) + 1 = next
    BY <1>2
  <2>2. Append(PhasesTo(next - 1, 0), NewPhase(recipe.phases[next])) = PhasesTo(next, 0)
    BY <2>1, AppendedPhase
  <2> HIDE DEF PhasesTo
  <2> QED BY <1>1, <1>2, <2>2 DEF WithPhases, Project
<1>4. UNCHANGED <<recipe, Total>>
      /\ (\A n, m : PhasesTo(n, m)' = PhasesTo(n, m)) /\ (\A f : WithPhases(f)' = WithPhases(f))
  BY <1>1, SameRecipe
<1>5. Staged'
  <2>1. CASE next < Total
    <3>1. next' = next + 1 /\ next' - 1 = next /\ pc' = "phases" /\ next' \in 1 .. Total
      BY <1>1, <1>2, <2>1
    <3> QED BY <1>1, <1>2, <1>3, <1>4, <3>1 DEF Staged, Running
  <2>2. CASE ~ (next < Total)
    <3>1. next' = 1 /\ pc' = "sites" /\ next = Total /\ 1 <= Total
      BY <1>1, <1>2, <2>2
    <3> QED BY <1>1, <1>2, <1>3, <1>4, <3>1 DEF Staged, Running
  <2> QED BY <2>1, <2>2
<1>6. Shape'
  <2>1. Shaped(proj', {})
    BY <1>2, <1>3, ProjectShaped DEF WithPhases
  <2> QED BY <1>1, <1>2, <2>1 DEF Shape, Shaped
<1>7. pc' \in {"phases", "sites"}
  BY <1>1
<1>8. (RecipeOK /\ ControlOK /\ FitOK /\ CountOK /\ ReadOK)'
  BY <1>1, <1>7, EarlyStep DEF Before
<1>9. SitesOK'
  BY <1>1, <1>7 DEF SitesOK, Sited, Running
<1> QED BY <1>5, <1>6, <1>8, <1>9 DEF Inv

LEMMA CheckSitesStep == Inv /\ CheckSites => Inv'
<1> SUFFICES ASSUME Inv, CheckSites PROVE Inv'
  OBVIOUS
<1>1. /\ pc = "sites" /\ Running /\ Unchanged /\ proj' = proj /\ holds' = holds
      /\ IF SiteProblems # {} THEN pc' = "end" /\ outcome' = "raised"
         ELSE pc' = "parameterize" /\ outcome' = outcome
  BY DEF CheckSites, Goto, Stop
<1>2. proj = WithPhases(PhasesTo(Total, 0)) /\ holds = {} /\ next = 1 /\ 1 <= Total /\ Total \in Nat
  BY <1>1, RecipeTyped DEF Inv, Staged
<1>3. UNCHANGED <<recipe, next, Total, SiteProblems>>
      /\ (\A n, m : PhasesTo(n, m)' = PhasesTo(n, m)) /\ (\A f : WithPhases(f)' = WithPhases(f))
      /\ (\A m : Holds(m)' = Holds(m))
  BY <1>1, SameRecipe DEF Unchanged
<1>4. Staged'
  <2>1. CASE SiteProblems # {}
    BY <1>1, <2>1 DEF Staged
  <2>2. CASE SiteProblems = {}
    <3>1. next' = 1 /\ next' - 1 = 0 /\ 1 \in 1 .. Total /\ pc' = "parameterize"
      BY <1>1, <1>2, <1>3, <2>2
    <3> QED BY <1>1, <1>2, <1>3, <3>1, EmptyPhases DEF Staged, Running
  <2> QED BY <2>1, <2>2
<1>5. Shape'
  BY <1>1, <1>3, SameRecipe DEF Inv, Shape
<1>6. (RecipeOK /\ ControlOK /\ FitOK /\ CountOK /\ ReadOK)'
  BY <1>1, EarlyStep DEF Before, Unchanged
<1>7. SitesOK'
  BY <1>1, <1>3 DEF SitesOK, Sited, Running
<1> QED BY <1>4, <1>5, <1>6, <1>7 DEF Inv

LEMMA ParameterizeStep == Inv /\ Parameterize => Inv'
<1> SUFFICES ASSUME Inv, Parameterize PROVE Inv'
  OBVIOUS
<1> DEFINE ph == recipe.phases[next]
           p == CHOOSE i \in DOMAIN proj.phases : proj.phases[i].name = ph.name
<1>1. /\ pc = "parameterize" /\ Running /\ UNCHANGED <<recipe, varied, counted, fit, warned, tables, rows, refined>>
      /\ \/ pc' = "end" /\ outcome' = "failed" /\ UNCHANGED <<proj, holds, next>>
         \/ /\ proj' = [proj EXCEPT !.phases[p] = Parameterized(@, ph)]
            /\ holds' = holds \cup PhaseHolds(ph, p - 1)
            /\ IF next < Total THEN next' = next + 1 /\ pc' = pc ELSE next' = 1 /\ pc' = "hold"
            /\ outcome' = outcome
  BY DEF Parameterize, Goto, Stop, Total
<1>2. /\ proj = WithPhases(PhasesTo(Total, next - 1)) /\ holds = Holds(next - 1)
      /\ next \in 1 .. Total /\ Total \in Nat
  BY <1>1, RecipeTyped DEF Inv, Staged
<1>3. UNCHANGED <<recipe, Total, SiteProblems>>
      /\ (\A n, m : PhasesTo(n, m)' = PhasesTo(n, m)) /\ (\A f : WithPhases(f)' = WithPhases(f))
      /\ (\A m : Holds(m)' = Holds(m))
  BY <1>1, SameRecipe
<1>4. (RecipeOK /\ ControlOK /\ FitOK /\ CountOK /\ ReadOK)'
  BY <1>1, EarlyStep DEF Before
<1>5. SiteProblems = {}
  BY <1>1 DEF Inv, SitesOK, Sited
<1>6. SitesOK'
  BY <1>3, <1>5 DEF SitesOK
<1>7. CASE pc' = "end" /\ outcome' = "failed" /\ UNCHANGED <<proj, holds, next>>
  <2>1. Staged'
    BY <1>7 DEF Staged
  <2>2. Shape'
    BY <1>3, <1>7, SameRecipe DEF Inv, Shape
  <2> QED BY <1>4, <1>6, <2>1, <2>2 DEF Inv
<1>8. CASE /\ proj' = [proj EXCEPT !.phases[p] = Parameterized(@, ph)]
           /\ holds' = holds \cup PhaseHolds(ph, p - 1)
           /\ IF next < Total THEN next' = next + 1 /\ pc' = pc ELSE next' = 1 /\ pc' = "hold"
           /\ outcome' = outcome
  <2>1. p = next /\ proj' = WithPhases(PhasesTo(Total, next))
    BY <1>2, <1>8, ParameterizedNext DEF Inv
  <2>2. holds' = Holds(next)
    <3>1. next - 1 \in Nat /\ (next - 1) + 1 = next
      BY <1>2
    <3> HIDE DEF p
    <3> QED BY <1>2, <1>8, <2>1, <3>1, HoldsNext
  <2>3. Staged'
    <3>1. CASE next < Total
      <4>1. next' - 1 = next /\ pc' = "parameterize" /\ next' \in 1 .. Total
        BY <1>1, <1>2, <1>8, <3>1
      <4> QED BY <1>1, <1>2, <1>3, <1>8, <2>1, <2>2, <4>1 DEF Staged, Running
    <3>2. CASE ~ (next < Total)
      <4>1. next' = 1 /\ pc' = "hold" /\ next = Total
        BY <1>1, <1>2, <1>8, <3>2
      <4> QED BY <1>1, <1>2, <1>3, <1>8, <2>1, <2>2, <4>1 DEF Staged, Running
    <3> QED BY <3>1, <3>2
  <2>4. Shape'
    <3>1. Shaped(proj', holds')
      BY <1>2, <2>1, ProjectShaped DEF WithPhases
    <3> QED BY <1>1, <3>1 DEF Shape, Shaped
  <2> QED BY <1>4, <1>6, <2>3, <2>4 DEF Inv
<1> QED BY <1>1, <1>7, <1>8

LEMMA AddHoldsStep == Inv /\ AddHolds => Inv'
<1> SUFFICES ASSUME Inv, AddHolds PROVE Inv'
  OBVIOUS
<1>1. /\ pc = "hold" /\ pc' = "instrument" /\ Running /\ Unchanged /\ outcome' = outcome /\ holds' = holds
      /\ proj' = [proj EXCEPT !.holds = holds]
  BY DEF AddHolds, Goto
<1>2. proj = WithPhases(PhasesTo(Total, Total)) /\ holds = Holds(Total) /\ Total \in Nat
  BY <1>1, RecipeTyped DEF Inv, Staged
<1>3. UNCHANGED <<recipe, Back, BkFlags, SpfFlags, Total, SiteProblems>>
      /\ (\A n, m : PhasesTo(n, m)' = PhasesTo(n, m)) /\ (\A m : Holds(m)' = Holds(m))
  BY <1>1, SameRecipe DEF Unchanged
<1>4. proj' = Project({}, Back, recipe.coefficients, BkFlags, SpfFlags, PhasesTo(Total, Total), Holds(Total))
  BY <1>1, <1>2 DEF WithPhases, Project
<1>5. Staged'
  BY <1>1, <1>2, <1>3, <1>4 DEF Staged, Running
<1>6. Shape'
  <2>1. Shaped(proj', holds')
    BY <1>1, <1>2, <1>4, ProjectShaped
  <2> QED BY <1>3, <2>1 DEF Shape, Shaped
<1>7. (RecipeOK /\ ControlOK /\ FitOK /\ CountOK /\ ReadOK)'
  BY <1>1, EarlyStep DEF Before, Unchanged
<1>8. SitesOK'
  BY <1>1, <1>3 DEF Inv, SitesOK, Sited
<1> QED BY <1>5, <1>6, <1>7, <1>8 DEF Inv

LEMMA SetInstrumentStep == Inv /\ SetInstrument => Inv'
<1> SUFFICES ASSUME Inv, SetInstrument PROVE Inv'
  OBVIOUS
<1>1. /\ pc = "instrument" /\ pc' = "refine" /\ Running /\ Unchanged /\ outcome' = outcome /\ holds' = holds
      /\ proj' = [proj EXCEPT !.on = (@ \ Instrument) \cup InstrumentFlags]
  BY DEF SetInstrument, Goto, InstrumentFlags
<1>2. /\ proj = Project({}, Back, recipe.coefficients, BkFlags, SpfFlags, PhasesTo(Total, Total), Holds(Total))
      /\ holds = Holds(Total) /\ Total \in Nat
  BY <1>1, RecipeTyped DEF Inv, Staged
<1>3. UNCHANGED <<recipe, Back, BkFlags, SpfFlags, InstrumentFlags, Total, SiteProblems>>
      /\ (\A n, m : PhasesTo(n, m)' = PhasesTo(n, m)) /\ (\A m : Holds(m)' = Holds(m))
  BY <1>1, SameRecipe DEF Unchanged
<1>4. proj' = Project(InstrumentFlags, Back, recipe.coefficients, BkFlags, SpfFlags,
                      PhasesTo(Total, Total), Holds(Total))
  BY <1>1, <1>2 DEF Project
<1>5. Staged'
  <2>1. Built'
    BY <1>3, <1>4 DEF Built
  <2> QED BY <1>1, <2>1 DEF Staged, Running
<1>6. Shape'
  <2>1. InstrumentFlags \subseteq Instrument \cup {"Scale"}
    BY DEF InstrumentFlags
  <2>2. Shaped(proj', holds')
    BY <1>1, <1>2, <1>4, <2>1, ProjectShaped
  <2> QED BY <1>3, <2>2 DEF Shape, Shaped
<1>7. (RecipeOK /\ ControlOK /\ FitOK /\ CountOK /\ ReadOK)'
  BY <1>1, EarlyStep DEF Before, Unchanged
<1>8. SitesOK'
  BY <1>1, <1>3 DEF Inv, SitesOK, Sited
<1> QED BY <1>5, <1>6, <1>7, <1>8 DEF Inv

(* Once the project is built nothing changes it. *)
LEMMA LateStep ==
  ASSUME Inv, UNCHANGED <<recipe, proj, holds>>,
         pc \in {"refine", "report", "extract", "export", "read"},
         \/ pc' \in {"report", "extract", "export"} /\ outcome' = outcome
         \/ pc' \in {"read", "end"} /\ outcome' = "success"
         \/ pc' = "end" /\ outcome' \in {"failed", "raised"}
  PROVE  /\ (RecipeOK /\ Staged /\ Shape /\ SitesOK)'
         /\ ProjectVaries' = ProjectVaries /\ Built /\ SiteProblems = {}
<1>1. UNCHANGED <<Back, BkFlags, SpfFlags, InstrumentFlags, Total, SiteProblems>>
      /\ (\A n, m : PhasesTo(n, m)' = PhasesTo(n, m)) /\ (\A m : Holds(m)' = Holds(m))
  BY SameRecipe
<1>2. Built /\ SiteProblems = {}
  BY DEF Inv, Staged, SitesOK, Sited
<1>3. Built'
  BY <1>1, <1>2 DEF Built
<1>4. Staged'
  BY <1>3 DEF Inv, ControlOK, Staged, Running
<1>5. SitesOK' /\ Shape' /\ RecipeOK'
  BY <1>1, <1>2, SameRecipe DEF Inv, Shape, SitesOK, RecipeOK
<1>6. ProjectVaries' = ProjectVaries
  BY DEF ProjectVaries, HistogramVaries, PhaseVaries
<1> QED BY <1>2, <1>4, <1>5, <1>6

LEMMA RefineStep == Inv /\ Refine => Inv'
<1> SUFFICES ASSUME Inv, Refine PROVE Inv'
  OBVIOUS
<1>1. /\ pc = "refine" /\ Running /\ UNCHANGED <<recipe, proj, holds, next, tables, rows, refined>>
      /\ \/ /\ \E dropped \in {{}} \cup {{v} : v \in ProjectVaries}, other \in BOOLEAN :
               /\ varied' = ProjectVaries \ dropped
               /\ counted' = Cardinality(IF recipe.spf THEN varied' ELSE ProjectVaries)
               /\ warned' = IF (dropped # {} \/ other) /\ ~ recipe.spf THEN {"message"} ELSE {}
            /\ pc' = "report" /\ outcome' = outcome
         \/ /\ pc' = "end" /\ outcome' \in {"failed", "raised"}
            /\ UNCHANGED <<varied, counted, warned, fit>>
  BY DEF Refine, Goto, Stop
<1>2. (RecipeOK /\ Staged /\ Shape /\ SitesOK)' /\ ProjectVaries' = ProjectVaries /\ Built
  BY <1>1, LateStep
<1>3. ControlOK'
  BY <1>1 DEF ControlOK, Steps, Running, Before
<1>4. CASE pc' = "end" /\ outcome' \in {"failed", "raised"} /\ UNCHANGED <<varied, counted, warned, fit>>
  <2>1. (CountOK /\ FitOK /\ ReadOK)'
    BY <1>1, <1>4, EarlyStep DEF Before
  <2> QED BY <1>2, <1>3, <2>1 DEF Inv
<1>5. CASE /\ \E dropped \in {{}} \cup {{v} : v \in ProjectVaries}, other \in BOOLEAN :
               /\ varied' = ProjectVaries \ dropped
               /\ counted' = Cardinality(IF recipe.spf THEN varied' ELSE ProjectVaries)
               /\ warned' = IF (dropped # {} \/ other) /\ ~ recipe.spf THEN {"message"} ELSE {}
           /\ pc' = "report" /\ outcome' = outcome
  <2>1. PICK dropped \in SUBSET ProjectVaries, other \in BOOLEAN :
               /\ varied' = ProjectVaries \ dropped
               /\ counted' = Cardinality(IF recipe.spf THEN varied' ELSE ProjectVaries)
               /\ warned' = IF (dropped # {} \/ other) /\ ~ recipe.spf THEN {"message"} ELSE {}
    BY <1>5
  <2>2. tables = {} /\ refined = {}
    BY <1>1 DEF Inv, FitOK, Before
  <2>3. FitOK'
    BY <1>1, <1>5, <2>2 DEF FitOK, Before, Worthless, Running
  <2>4. ReadOK'
    BY <1>1, <1>5 DEF ReadOK, Running
  <2>5. counted' \in Nat
    <3>1. IsFiniteSet(ProjectVaries) /\ varied' \in SUBSET ProjectVaries
      BY <1>2, <2>1, BuiltCount DEF Inv
    <3>2. IsFiniteSet(varied')
      BY <3>1, FS_Subset
    <3> QED BY <2>1, <3>1, <3>2, FS_CardinalityType
  <2>6. (dropped # {}) <=> (varied' # ProjectVaries)
    BY <2>1
  <2>7. varied' # ProjectVaries /\ ~ recipe.spf => "message" \in warned'
    BY <2>1, <2>6
  <2>8. "not_varied" \notin warned' /\ warned' \subseteq {"message", "not_converged", "not_varied"}
    BY <2>1
  <2>9. CountOK'
    BY <1>1, <1>2, <1>5, <2>1, <2>5, <2>7, <2>8 DEF CountOK
  <2> QED BY <1>2, <1>3, <2>3, <2>4, <2>9 DEF Inv
<1> QED BY <1>1, <1>4, <1>5

LEMMA ReportStep == Inv /\ Report => Inv'
<1> SUFFICES ASSUME Inv, Report PROVE Inv'
  OBVIOUS
<1>1. /\ pc = "report" /\ Running
      /\ UNCHANGED <<recipe, proj, holds, next, varied, counted, fit, tables, rows, refined>>
      /\ IF Worthless
         THEN pc' = "end" /\ outcome' = "raised" /\ UNCHANGED warned
         ELSE /\ pc' = "extract" /\ outcome' = outcome
              /\ warned' = warned
                   \cup (IF fit = "not_converged" /\ ~ recipe.simulation THEN {"not_converged"} ELSE {})
                   \cup (IF counted < Requested(recipe) THEN {"not_varied"} ELSE {})
  BY DEF Report, Goto, Stop
<1>2. (RecipeOK /\ Staged /\ Shape /\ SitesOK)' /\ ProjectVaries' = ProjectVaries
  BY <1>1, LateStep
<1>3. ControlOK'
  BY <1>1 DEF ControlOK, Steps, Running, Before
<1>4. Worthless' <=> Worthless
  BY <1>1 DEF Worthless
<1>5. FitOK'
  BY <1>1, <1>4 DEF Inv, FitOK, Before, Running
<1>6. ReadOK'
  BY <1>1 DEF ReadOK, Running
<1>7. CountOK'
  <2>1. Requested(recipe)' = Requested(recipe)
    BY <1>1
  <2>2. CASE Worthless
    BY <1>1, <2>2 DEF Inv, CountOK
  <2>3. CASE ~ Worthless
    <3>1. /\ warned \subseteq {"message", "not_converged", "not_varied"}
          /\ counted \in Nat
          /\ varied \subseteq ProjectVaries
          /\ counted = Cardinality(IF recipe.spf THEN varied ELSE ProjectVaries)
          /\ varied # ProjectVaries /\ ~ recipe.spf => "message" \in warned
          /\ "not_varied" \notin warned
      BY <1>1 DEF Inv, CountOK
    <3>2. PICK A \in SUBSET {"not_converged"}, B \in SUBSET {"not_varied"} :
            warned' = warned \cup A \cup B /\ ("not_varied" \in B <=> counted < Requested(recipe))
      <4> DEFINE A == IF fit = "not_converged" /\ ~ recipe.simulation THEN {"not_converged"} ELSE {}
                 B == IF counted < Requested(recipe) THEN {"not_varied"} ELSE {}
      <4>1. A \in SUBSET {"not_converged"} /\ B \in SUBSET {"not_varied"}
        OBVIOUS
      <4>2. "not_varied" \in B <=> counted < Requested(recipe)
        <5>1. CASE counted < Requested(recipe)
          BY <5>1
        <5>2. CASE ~ (counted < Requested(recipe))
          BY <5>2
        <5> QED BY <5>1, <5>2
      <4>3. warned' = warned \cup A \cup B
        BY <1>1, <2>3
      <4> QED BY <4>1, <4>2, <4>3
    <3>6. /\ warned' \subseteq {"message", "not_converged", "not_varied"}
          /\ "message" \in warned => "message" \in warned'
          /\ "not_varied" \in warned' <=> counted < Requested(recipe)
      BY <3>1, <3>2
    <3>3. pc' = "extract" /\ UNCHANGED <<recipe, varied, counted, ProjectVaries>>
      BY <1>1, <1>2, <2>3
    <3>4. counted' = Cardinality(IF recipe'.spf THEN varied' ELSE ProjectVaries')
      BY <3>1, <3>3
    <3>5. varied' # ProjectVaries' /\ ~ recipe'.spf => "message" \in warned'
      BY <3>1, <3>3, <3>6
    <3> QED BY <2>1, <3>1, <3>3, <3>4, <3>5, <3>6 DEF CountOK
  <2> QED BY <2>2, <2>3
<1> QED BY <1>2, <1>3, <1>5, <1>6, <1>7 DEF Inv

LEMMA ExtractStep == Inv /\ Extract => Inv'
<1> SUFFICES ASSUME Inv, Extract PROVE Inv'
  OBVIOUS
<1>1. /\ pc = "extract" /\ Running /\ pc' \in {"extract", "export"}
      /\ UNCHANGED <<recipe, proj, holds, varied, counted, fit, warned, rows, refined, outcome>>
  BY DEF Extract, Goto
<1>2. (RecipeOK /\ Staged /\ Shape /\ SitesOK)' /\ ProjectVaries' = ProjectVaries
  BY <1>1, LateStep
<1>3. ControlOK'
  BY <1>1 DEF ControlOK, Steps, Running, Before
<1>4. ~ Worthless /\ ~ Worthless' /\ refined = {}
  BY <1>1 DEF Inv, FitOK, Worthless, Running
<1>5. FitOK'
  BY <1>1, <1>4 DEF FitOK, Before
<1>6. ReadOK'
  BY <1>1 DEF ReadOK, Running
<1>7. CountOK'
  BY <1>1, <1>2 DEF Inv, CountOK
<1> QED BY <1>2, <1>3, <1>5, <1>6, <1>7 DEF Inv

LEMMA ExportRefinedStep == Inv /\ ExportRefined => Inv'
<1> SUFFICES ASSUME Inv, ExportRefined PROVE Inv'
  OBVIOUS
<1>1. /\ pc = "export" /\ Running /\ pc' = "read" /\ outcome' = "success" /\ rows' \subseteq varied
      /\ UNCHANGED <<recipe, proj, holds, next, varied, counted, fit, warned, refined>>
  BY DEF ExportRefined, Stop
<1>2. (RecipeOK /\ Staged /\ Shape /\ SitesOK)' /\ ProjectVaries' = ProjectVaries
  BY <1>1, LateStep
<1>3. ControlOK'
  BY <1>1 DEF ControlOK, Steps, Running, Before
<1>4. ~ Worthless /\ ~ Worthless' /\ refined = {}
  BY <1>1 DEF Inv, FitOK, Worthless, Running
<1>5. FitOK'
  BY <1>1, <1>4 DEF FitOK, Before
<1>6. ReadOK'
  BY <1>1 DEF ReadOK
<1>7. CountOK'
  BY <1>1, <1>2 DEF Inv, CountOK
<1> QED BY <1>2, <1>3, <1>5, <1>6, <1>7 DEF Inv

LEMMA SamePaths ==
  ASSUME UNCHANGED <<recipe, proj>>
  PROVE  (\A v : PathOf(v)' = PathOf(v)) /\ (\A leaf : Flagged(leaf)' <=> Flagged(leaf))
<1>1. \A v : PhaseOf(v)' = PhaseOf(v)
  BY DEF PhaseOf
<1>2. \A v : AtomOf(v)' = AtomOf(v)
  BY <1>1 DEF AtomOf
<1>3. \A v : PathOf(v)' = PathOf(v)
  BY <1>1, <1>2 DEF PathOf
<1> QED BY <1>3 DEF Flagged

LEMMA ReadBackStep == Inv /\ ReadBack => Inv'
<1> SUFFICES ASSUME Inv, ReadBack PROVE Inv'
  OBVIOUS
<1>1. /\ pc = "read" /\ pc' = "end" /\ outcome = "success"
      /\ UNCHANGED <<recipe, proj, holds, next, varied, counted, fit, warned, tables, rows, outcome>>
      /\ refined' = (UNION {PathOf(v) : v \in rows})
             \cup UNION {IF \E leaf \in CellOf(ph) : Flagged(leaf) THEN CellOf(ph) ELSE {}
                         : ph \in ToSet(recipe.phases)}
  BY DEF ReadBack, Goto, Inv, ControlOK
<1>2. (RecipeOK /\ Staged /\ Shape /\ SitesOK)' /\ ProjectVaries' = ProjectVaries
  BY <1>1, LateStep
<1>3. ControlOK'
  BY <1>1 DEF ControlOK, Steps, Running, Before
<1>4. FitOK'
  BY <1>1 DEF Inv, FitOK, Before, Worthless
<1>5. ReadOK'
  BY <1>1, SamePaths DEF Inv, ReadOK
<1>6. CountOK'
  BY <1>1, <1>2 DEF Inv, CountOK
<1> QED BY <1>2, <1>3, <1>4, <1>5, <1>6 DEF Inv

LEMMA BreakStep == Inv /\ Break => Inv'
<1> SUFFICES ASSUME Inv, Break PROVE Inv'
  OBVIOUS
<1>1. /\ Running /\ pc' = "end" /\ outcome' = "failed"
      /\ UNCHANGED <<recipe, proj, holds, next, varied, counted, fit, warned, tables, rows, refined>>
  BY DEF Break, Stop
<1>2. RecipeOK' /\ ControlOK'
  BY <1>1 DEF Inv, RecipeOK, ControlOK, Steps, Running, Before
<1>3. Staged' /\ SitesOK' /\ ReadOK'
  BY <1>1 DEF Staged, SitesOK, Sited, ReadOK
<1>4. Shape'
  BY <1>1, SameRecipe DEF Inv, Shape
<1>5. FitOK'
  BY <1>1 DEF Inv, FitOK, Before, Worthless, Running
<1>6. CountOK'
  BY <1>1 DEF Inv, CountOK
<1> QED BY <1>2, <1>3, <1>4, <1>5, <1>6 DEF Inv

LEMMA StutterStep == Inv /\ UNCHANGED vars => Inv'
<1> SUFFICES ASSUME Inv, UNCHANGED vars PROVE Inv'
  OBVIOUS
<1>1. UNCHANGED <<pc, recipe, proj, holds, next, varied, counted, fit, warned, tables, rows, refined, outcome>>
  BY DEF vars
<1>2. UNCHANGED <<Back, BkFlags, SpfFlags, InstrumentFlags, Total, SiteProblems>>
      /\ (\A n, m : PhasesTo(n, m)' = PhasesTo(n, m)) /\ (\A m : Holds(m)' = Holds(m))
      /\ (\A f : WithPhases(f)' = WithPhases(f))
  BY <1>1, SameRecipe
<1>3. Staged'
  <2>1. Built' <=> Built
    BY <1>1, <1>2 DEF Built
  <2> QED BY <1>1, <1>2, <2>1 DEF Inv, Staged
<1>4. (RecipeOK /\ ControlOK /\ FitOK /\ SitesOK)'
  BY <1>1, <1>2 DEF Inv, RecipeOK, ControlOK, FitOK, SitesOK, Worthless, Running
<1>5. Shape'
  BY <1>1, SameRecipe DEF Inv, Shape
<1>6. ProjectVaries' = ProjectVaries
  BY <1>1 DEF ProjectVaries, HistogramVaries, PhaseVaries
<1>7. CountOK'
  BY <1>1, <1>6 DEF Inv, CountOK
<1>8. ReadOK'
  BY <1>1, SamePaths DEF Inv, ReadOK
<1> QED BY <1>3, <1>4, <1>5, <1>7, <1>8 DEF Inv

(* A site of a phase that cannot be used is among the problems.            *)
LEMMA SiteOfProblem ==
  ASSUME NEW ph \in ToSet(recipe.phases), NEW at \in ToSet(ph.atoms),
         \/ at.reading = "misread"
         \/ at.reading = "unnamed" /\ RefinesSite(ph, at)
  PROVE  SiteProblems # {}
<1> DEFINE site == <<ph, at>>
<1>1. site[1] = ph /\ site[2] = at
  OBVIOUS
<1>2. site \in UNION {{<<other, a>> : a \in ToSet(other.atoms)} : other \in ToSet(recipe.phases)}
  OBVIOUS
<1> HIDE DEF site
<1>3. site \in SiteProblems
  BY <1>1, <1>2 DEF SiteProblems
<1> QED BY <1>3

(* The inductive invariant: the project is at every step a function of the *)
(* recipe, and the run's warnings and tables one of the fit.               *)
THEOREM GsasBuildInvariant == Spec => []Inv
<1>1. Init => Inv
  BY GsasBuildInit
<1>2. Inv /\ [Next]_vars => Inv'
  BY AddHistogramStep, SetBackgroundStep, SetPeaksStep, AddPhaseStep, CheckSitesStep,
     ParameterizeStep, AddHoldsStep, SetInstrumentStep, RefineStep, ReportStep, ExtractStep,
     ExportRefinedStep, ReadBackStep, BreakStep, StutterStep DEF Next
<1> QED BY <1>1, <1>2, PTL DEF Spec

(* The types, and the phases of the project are the recipe's in its order, *)
(* whatever fails on the way.                                              *)
THEOREM GsasBuildTypeCorrect == Spec => []TypeOK
<1>1. Inv => TypeOK
  BY DEF Inv, ControlOK, Shape, Shaped, CountOK, TypeOK, Running
<1> QED BY <1>1, GsasBuildInvariant, PTL

(* fit_report: a refinement that diverged or was aborted leaves no table   *)
(* and no output, and is never a success.                                  *)
THEOREM GsasBuildRejectedLeavesNothing == Spec => []RejectedLeavesNothing
<1>1. Inv => RejectedLeavesNothing
  BY DEF Inv, FitOK, Worthless, RejectedLeavesNothing
<1> QED BY <1>1, GsasBuildInvariant, PTL

(* check_sites: whatever the setters ask GSAS-II for, they meet no lookup  *)
(* that fails, and no misread site is refined or simulated with.           *)
THEOREM GsasBuildUnusableSiteIsRaised == Spec => []UnusableSiteIsRaised
<1>1. Inv => UnusableSiteIsRaised
  <2> SUFFICES ASSUME Inv PROVE UnusableSiteIsRaised
    OBVIOUS
  <2>1. ASSUME Running, pc = "parameterize", LookupFails(recipe.phases[next])
        PROVE  FALSE
    <3>1. SiteProblems = {} /\ next \in 1 .. Total /\ recipe.phases[next] \in ToSet(recipe.phases)
      BY <2>1, RecipeTyped DEF Inv, SitesOK, Sited, Staged
    <3>2. PICK at \in ToSet(recipe.phases[next].atoms) :
            at.reading = "unnamed" /\ RefinesSite(recipe.phases[next], at)
      BY <2>1 DEF LookupFails, RefinesSite
    <3> QED BY <3>1, <3>2, SiteOfProblem
  <2>2. ASSUME pc \in {"refine", "report", "extract", "export", "read"} \/ outcome = "success",
               NEW ph \in ToSet(recipe.phases), NEW at \in ToSet(ph.atoms)
        PROVE  at.reading # "misread"
    <3>1. SiteProblems = {}
      BY <2>2 DEF Inv, SitesOK, Sited
    <3>2. ASSUME at.reading = "misread" PROVE FALSE
      BY <3>1, <3>2, SiteOfProblem
    <3> QED BY <3>2
  <2> QED BY <2>1, <2>2 DEF UnusableSiteIsRaised
<1> QED BY <1>1, GsasBuildInvariant, PTL

(* The setters, constraints.py and GSAS-II's whole-cell and per-atom flags *)
(* let move what the recipe flags and nothing else, whatever the crystal   *)
(* system, the site symmetry and the order of the phases.                  *)
THEOREM GsasBuildVariesWhatIsAsked == Spec => []VariesWhatIsAsked
<1>1. Inv => VariesWhatIsAsked
  <2> SUFFICES ASSUME Inv, pc = "refine"
               PROVE  UNION {Moves(v) : v \in ProjectVaries} = Asked
    BY DEF VariesWhatIsAsked, Asked, Unused
  <2>1. RecipeOK /\ Built
    BY DEF Inv, Staged
  <2> QED BY <2>1, BuiltMoves
<1> QED BY <1>1, GsasBuildInvariant, PTL

LEMMA CountsTell ==
  ASSUME Inv, outcome = "success"
  PROVE  LET held == FlaggedTies \ AskedTies # {} \/ varied # ProjectVaries
         IN  /\ held => {"message", "not_varied"} \cap warned # {}
             /\ "not_varied" \in warned => held
<1>1. RecipeOK /\ Built
  BY DEF Inv, Staged
<1>2. /\ varied \in SUBSET ProjectVaries
      /\ counted = Cardinality(IF recipe.spf THEN varied ELSE ProjectVaries)
      /\ varied # ProjectVaries /\ ~ recipe.spf => "message" \in warned
      /\ "not_varied" \in warned <=> counted < Requested(recipe)
  BY DEF Inv, CountOK, ControlOK
<1>3. /\ IsFiniteSet(FlaggedTies) /\ AskedTies \in SUBSET FlaggedTies
      /\ IsFiniteSet(ProjectVaries) /\ Cardinality(ProjectVaries) = Cardinality(AskedTies)
      /\ Requested(recipe) = Cardinality(FlaggedTies)
      /\ ~ recipe.spf => AskedTies = FlaggedTies
  BY <1>1, BuiltCount
<1>4. /\ IsFiniteSet(varied) /\ IsFiniteSet(AskedTies)
      /\ Cardinality(varied) <= Cardinality(ProjectVaries)
      /\ Cardinality(varied) = Cardinality(ProjectVaries) => varied = ProjectVaries
      /\ Cardinality(AskedTies) <= Cardinality(FlaggedTies)
      /\ Cardinality(AskedTies) = Cardinality(FlaggedTies) => AskedTies = FlaggedTies
  BY <1>2, <1>3, FS_Subset
<1>5. /\ Cardinality(varied) \in Nat /\ Cardinality(ProjectVaries) \in Nat
      /\ Cardinality(AskedTies) \in Nat /\ Cardinality(FlaggedTies) \in Nat
  BY <1>3, <1>4, FS_CardinalityType
<1>6. {"message", "not_varied"} \cap warned # {} <=> "message" \in warned \/ "not_varied" \in warned
  OBVIOUS
<1>7. CASE ~ recipe.spf
  <2>1. "not_varied" \notin warned
    BY <1>2, <1>3, <1>5, <1>7
  <2> QED BY <1>2, <1>3, <1>6, <1>7, <2>1
<1>8. CASE recipe.spf
  <2>2. "not_varied" \in warned <=> Cardinality(varied) < Cardinality(FlaggedTies)
    BY <1>2, <1>3, <1>8
  <2>3. Cardinality(varied) < Cardinality(FlaggedTies) <=> (AskedTies # FlaggedTies \/ varied # ProjectVaries)
    BY <1>3, <1>4, <1>5
  <2>4. AskedTies # FlaggedTies <=> FlaggedTies \ AskedTies # {}
    BY <1>3
  <2> QED BY <1>6, <2>2, <2>3, <2>4
<1> QED BY <1>7, <1>8

(* fit_report: the message GSAS-II left and the count of its variables     *)
(* against the recipe's tie groups tell of every flagged parameter that    *)
(* was not varied, and the count of nothing else.                          *)
THEOREM GsasBuildNothingSilentlyHeld == Spec => []NothingSilentlyHeld
<1>1. Inv => NothingSilentlyHeld
  <2> DEFINE moved  == UNION {Moves(v) : v \in varied}
             silent == {g \in Ties(recipe) : g \subseteq recipe.flagged /\ g \cap moved = {}}
  <2> SUFFICES ASSUME Inv, outcome = "success"
               PROVE  LET held == silent # {} \/ varied # ProjectVaries
                      IN  /\ held => {"message", "not_varied"} \cap warned # {}
                          /\ "not_varied" \in warned => held
    BY DEF NothingSilentlyHeld
  <2>1. RecipeOK /\ Built
    BY DEF Inv, Staged
  <2>2. varied = ProjectVaries => silent = FlaggedTies \ AskedTies
    <3>1. varied = ProjectVaries => moved = Asked
      BY <2>1, BuiltMoves
    <3> HIDE DEF moved
    <3> QED BY <2>1, <3>1, BuiltSilent
  <2> HIDE DEF silent
  <2> QED BY <2>2, CountsTell
<1> QED BY <1>1, GsasBuildInvariant, PTL

(* refined_by_path: what is read back onto the recipe was asked for, or is *)
(* of a cell the recipe refines; and outside the cells a tie has a value   *)
(* exactly when the result carries a variable that moved it.               *)
THEOREM GsasBuildReadsBackWhatMoved == Spec => []ReadsBackWhatMoved
<1>1. Inv => ReadsBackWhatMoved
  <2> SUFFICES ASSUME Inv, pc = "end", outcome = "success"
               PROVE  /\ \A leaf \in refined :
                           \/ leaf \in recipe.flagged
                           \/ leaf[2] = "unit_cell" /\ \E k \in Lengths \cup Angles :
                                <<leaf[1], "unit_cell", k, None>> \in recipe.flagged
                      /\ \A g \in Ties(recipe) :
                           IF \E leaf \in g : leaf[2] = "unit_cell"
                           THEN g \subseteq recipe.flagged => g \subseteq refined
                           ELSE g \cap refined # {} <=> \E v \in rows : g \subseteq Moves(v)
    BY DEF ReadsBackWhatMoved
  <2>1. RecipeOK /\ Built /\ rows \subseteq ProjectVaries
    BY DEF Inv, Staged, CountOK, ReadOK
  <2>2. refined = (UNION {PathOf(v) : v \in rows})
             \cup UNION {IF \E leaf \in CellOf(ph) : Flagged(leaf) THEN CellOf(ph) ELSE {}
                         : ph \in ToSet(recipe.phases)}
    BY DEF Inv, ReadOK
  <2>3. \A x : x \in refined <=>
          \/ \E v \in rows : x \in PathOf(v)
          \/ \E ph \in ToSet(recipe.phases) : x \in CellOf(ph) /\ \E leaf \in CellOf(ph) : Flagged(leaf)
    <3> DEFINE Read(ph) == IF \E leaf \in CellOf(ph) : Flagged(leaf) THEN CellOf(ph) ELSE {}
    <3>1. \A ph, x : x \in Read(ph) <=> x \in CellOf(ph) /\ \E leaf \in CellOf(ph) : Flagged(leaf)
      OBVIOUS
    <3>2. refined = (UNION {PathOf(v) : v \in rows}) \cup UNION {Read(ph) : ph \in ToSet(recipe.phases)}
      BY <2>2
    <3> HIDE DEF Read
    <3>3. \A x : x \in refined <=>
            \/ \E v \in rows : x \in PathOf(v)
            \/ \E ph \in ToSet(recipe.phases) : x \in Read(ph)
      BY <3>2
    <3> QED BY <3>1, <3>3
  <2>4. ToSet(recipe.phases) = {recipe.phases[i] : i \in 1 .. Total}
    BY <2>1, RecipeTyped DEF ToSet
  <2>5. ASSUME NEW ph \in ToSet(recipe.phases), NEW leaf \in CellOf(ph)
        PROVE  \E k \in Lengths \cup Angles : leaf = <<ph.name, "unit_cell", k, None>>
    <3>1. PICK i \in 1 .. Total : ph = recipe.phases[i]
      BY <2>4
    <3>2. \A g \in CellTies(ph) : g \subseteq Lengths \cup Angles
      BY <2>1, <3>1, CellsAgree DEF CellAgrees
    <3> QED BY <3>2 DEF CellOf, CellLeaf
  <2>6. ASSUME NEW leaf \in refined
        PROVE  \/ leaf \in recipe.flagged
               \/ leaf[2] = "unit_cell" /\ \E k \in Lengths \cup Angles :
                    <<leaf[1], "unit_cell", k, None>> \in recipe.flagged
    <3>1. CASE \E v \in rows : leaf \in PathOf(v)
      BY <2>1, <3>1, PathAsked
    <3>2. ASSUME NEW ph \in ToSet(recipe.phases), leaf \in CellOf(ph), NEW other \in CellOf(ph), Flagged(other)
          PROVE  leaf[2] = "unit_cell" /\ \E k \in Lengths \cup Angles :
                    <<leaf[1], "unit_cell", k, None>> \in recipe.flagged
      <4>1. leaf[1] = ph.name /\ leaf[2] = "unit_cell"
        BY <2>5, <3>2
      <4> QED BY <2>5, <3>2, <4>1 DEF Flagged
    <3> QED BY <2>3, <3>1, <3>2
  <2>7. ASSUME NEW g \in Ties(recipe), NEW leaf \in g, leaf[2] = "unit_cell", g \subseteq recipe.flagged
        PROVE  g \subseteq refined
    <3>1. PICK w : Drives(w, g)
      BY <2>1, TieOfVariable
    <3>2. DrivesCell(w, g)
      BY <2>7, <3>1, KindOfLeaf DEF Drives
    <3>3. PICK ph \in ToSet(recipe.phases) : \E h \in CellTies(ph) : g = {CellLeaf(ph, k) : k \in h}
      BY <2>4, <3>2 DEF DrivesCell
    <3>4. g \subseteq CellOf(ph)
      BY <3>3 DEF CellOf
    <3> QED BY <2>3, <2>7, <3>4 DEF Flagged
  <2>8. ASSUME NEW g \in Ties(recipe), \A leaf \in g : leaf[2] # "unit_cell"
        PROVE  g \cap refined # {} <=> \E v \in rows : g \subseteq Moves(v)
    <3>1. PICK w : Drives(w, g)
      BY <2>1, TieOfVariable
    <3>2. ASSUME NEW x \in g, x \in refined
          PROVE  \E v \in rows : g \subseteq Moves(v)
      <4>1. \A ph \in ToSet(recipe.phases) : x \notin CellOf(ph)
        <5> SUFFICES ASSUME NEW ph \in ToSet(recipe.phases), x \in CellOf(ph) PROVE FALSE
          OBVIOUS
        <5>1. x[2] = "unit_cell"
          BY <2>5
        <5> QED BY <2>8, <5>1
      <4>2. PICK v \in rows : x \in PathOf(v)
        BY <2>3, <3>2, <4>1
      <4>3. PICK t : Drives(v, t) /\ Moves(v) = t /\ \E y \in t : PathOf(v) = {y}
        BY <2>1, <4>2, PathAsked
      <4>4. t = g
        BY <2>1, <3>1, <4>2, <4>3, Determined
      <4> QED BY <4>3, <4>4
    <3>3. ASSUME NEW v \in rows, g \subseteq Moves(v)
          PROVE  g \cap refined # {}
      <4>1. PICK y : y \in g
        BY <2>1, <3>1, TieNotEmpty
      <4>2. PICK t : Drives(v, t) /\ Moves(v) = t /\ \E x \in t : PathOf(v) = {x}
        BY <2>1, <2>8, <3>3, <4>1, PathAsked
      <4>3. t = g
        BY <2>1, <3>1, <3>3, <4>1, <4>2, Determined
      <4> QED BY <2>3, <4>2, <4>3
    <3> QED BY <3>2, <3>3
  <2> QED BY <2>6, <2>7, <2>8
<1> QED BY <1>1, GsasBuildInvariant, PTL
==============================================================================
