------------------------------- MODULE Journey -------------------------------
(***************************************************************************)
(* The journey of the refinable parameters through a run, and through a    *)
(* chain of runs: a recipe is validated, an engine's gateway frees the     *)
(* parameters it asks for, the engine moves them, the gateway reads back   *)
(* what the engine ended with, and the output recipe is written, which is  *)
(* the recipe of the next run.                                             *)
(*                                                                         *)
(* The three gateways free and read back in three ways: GSAS-II varies     *)
(* groups of cell parameters and reports the whole cell; TOPAS names the   *)
(* representative of every tie group; easydiffraction frees the member its *)
(* own symmetry templates leave free, which may be another one and may be  *)
(* held in another unit cell.                                              *)
(***************************************************************************)
EXTENDS OutputRecipe

CONSTANTS
    Engines,      \* the engines considered
    Optional,     \* parameters a recipe may leave out
    Default,      \* the documented default of an optional parameter
    Cells,        \* the cell parameters of each phase, which GSAS-II reports together
    Unconstrained,\* the members of a tie group easydiffraction leaves free
    Shift,        \* lattice translation of easydiffraction's writing of a coordinate
    Values,       \* bound: what a fit may end with, by parameter
    Off,          \* bound: the cell parameters a report is off in together
    RawRecipes,   \* bound: the recipes a user may state
    MaxRuns       \* bound: the runs of a chain

CellParam == UNION Cells

(* Cell ties are equalities (symmetry.py, _equal_group) within one cell, and *)
(* a tie group is in one cell group; easydiffraction leaves only members of *)
(* a group free.                                                           *)
ASSUME EngineTies ==
    /\ Cells \subseteq SUBSET Param
    /\ \A p \in Free, c \in Cells : p \in c <=> Rep[p] \in c
    /\ \A p \in CellParam : K[p] = 1 /\ C[p] = 0
    /\ \A p \in Free : CellGroup[p] = CellGroup[Rep[p]]
    /\ \A g \in Reps : Unconstrained[g] \subseteq Members(g)

ASSUME BoundsAssumption ==
    /\ Engines \subseteq {"gsasii", "topas", "easydiffraction"}
    /\ Optional \subseteq Param
    /\ Shift \in [Param -> Int]
    /\ Values \in [Param -> SUBSET Int]
    /\ RawRecipes \subseteq Recipe
    /\ MaxRuns \in Nat \ {0}

VARIABLES
    engine,   \* of the recipe's schema_name
    pc,       \* how far the run has come
    run,      \* the number of the run in the chain
    raw,      \* the recipe as stated
    left,     \* the parameters it leaves out
    model,    \* the validated recipe
    freed,    \* the tie groups the engine was told to vary
    fit,      \* what the engine ended with
    report,   \* what the gateway read back
    out,      \* the output recipe
    rows,     \* parameter_dispositions
    valid     \* output_recipe_valid

vars == <<engine, pc, run, raw, left, model, freed, fit, report, out, rows, valid>>

Stages == {"raw", "refused", "model", "unusable_site", "built", "diverged",
           "fitted", "read", "done"}
NoFit == [varied |-> {}, noEsd |-> {}, value |-> <<>>, stray |-> FALSE]
NoReport == [at |-> {}, value |-> <<>>, notVaried |-> {}, atLimit |-> {}, unknown |-> FALSE]

Init ==
    /\ engine \in Engines
    /\ pc = "raw" /\ run = 1
    /\ raw \in RawRecipes
    /\ left \in SUBSET Optional
    /\ \A p \in left : ~ raw.flag[p] /\ raw.value[p] = Default[p]
    /\ ~ OnSpecial(raw.value)
    /\ model = <<>> /\ freed = {} /\ fit = NoFit /\ report = NoReport
    /\ out = <<>> /\ rows = <<>> /\ valid = FALSE

(* validate_recipe: the model, or one error with every problem. *)
Validate ==
    /\ pc = "raw"
    /\ IF Accepts(engine, raw)
       THEN pc' = "model" /\ model' = Validated(raw)
       ELSE pc' = "refused" /\ UNCHANGED model
    /\ UNCHANGED <<engine, run, raw, left, freed, fit, report, out, rows, valid>>

(* cell_refinement_plan, atom_refinement_plan: a group with a requested    *)
(* member refines, every other one is held.                                *)
GsasiiFrees(m) ==
    {g \in Reps : \E p \in Free : CellGroup[p] = CellGroup[g] /\ m.flag[p]}

(* Every flagged parameter is made a TOPAS parameter of its own. *)
TopasFreesMembers(m) == Flagged(m)

(* keyword_token, _cell, _site: the representative is a parameter, without *)
(* "!" when flagged, and every other member is an equation of it.          *)
TopasFrees(m) == {g \in Reps : m.flag[g]}

(* _free_group: a flagged group frees the one member left unconstrained.   *)
EasydiffractionFrees(m) == {g \in Reps : m.flag[g]}
NotTiedAlike(m) ==
    {g \in EasydiffractionFrees(m) : Cardinality(Unconstrained[g]) # 1}
FreeMember(g) == CHOOSE p \in Unconstrained[g] : TRUE

Frees(m) == CASE engine = "gsasii"          -> GsasiiFrees(m)
              [] engine = "topas"           -> TopasFrees(m)
              [] engine = "easydiffraction" -> EasydiffractionFrees(m)

(* The gateway builds the engine's project. *)
Build ==
    /\ pc = "model"
    /\ IF engine = "easydiffraction" /\ NotTiedAlike(model) # {}
       THEN pc' = "unusable_site" /\ UNCHANGED freed
       ELSE pc' = "built" /\ freed' = Frees(model)
    /\ UNCHANGED <<engine, run, raw, left, model, fit, report, out, rows, valid>>

Moved(b, d) == IF b = NoBound THEN NoBound ELSE b + d

(* Where a fit may take the parameter the engine varies for a group, in    *)
(* the engine's own writing: GSAS-II knows no bounds, TOPAS stops a little *)
(* past one, easydiffraction stops on it.                                  *)
Reach(g) ==
    CASE engine = "gsasii" -> Values[g]
      [] engine = "topas"  ->
           {x \in Values[g] : Inside(x, Moved(model.min[g], -1), Moved(model.max[g], 1))}
      [] engine = "easydiffraction" ->
           LET m == FreeMember(g)
           IN  {x \in {v - Shift[m] : v \in Values[m]} :
                  Inside(x, Moved(model.min[m], -Shift[m]), Moved(model.max[m], -Shift[m]))}

(* The engine's fit.  A parameter without effect is not varied; only lmfit *)
(* varies all it is given.  An ESD may be missing for what was not varied  *)
(* and for what the data cannot determine.  GSAS-II may stray: change a    *)
(* cell parameter it was told to hold, or break a tie of the cell.         *)
Fit ==
    /\ pc = "built"
    /\ \E varied \in SUBSET freed :
       \E noEsd \in SUBSET freed :
       \E value \in [varied -> UNION {Reach(g) : g \in varied}] :
       \E stray \in BOOLEAN :
         /\ stray => engine = "gsasii"
         /\ engine = "easydiffraction" => varied = freed
         /\ engine = "gsasii" => noEsd = {}
         /\ engine = "topas" => freed \ varied \subseteq noEsd
         /\ \A g \in varied : value[g] \in Reach(g)
         /\ fit' = [varied |-> varied, noEsd |-> noEsd, value |-> value, stray |-> stray]
    /\ pc' = "fitted"
    /\ UNCHANGED <<engine, run, raw, left, model, freed, report, out, rows, valid>>

(* A value that is not finite, or an engine that failed: no output recipe. *)
Diverge ==
    /\ pc = "built"
    /\ pc' = "diverged"
    /\ UNCHANGED <<engine, run, raw, left, model, freed, fit, report, out, rows, valid>>

Final(g) == IF g \in fit.varied THEN fit.value[g] ELSE model.value[g]

(* refined_by_path: the independent coordinates GSAS-II varied, of which    *)
(* the result may have lost some or all, and every free parameter of a cell *)
(* the recipe refines, computed back from the metric tensor; a flagged path *)
(* without a row was not varied.                                           *)
RefinedCells == {c \in Cells : c \cap Flagged(model) # {}}
GsasiiRead(noise, lost) ==
    LET cell == UNION {c \cap Free : c \in RefinedCells}
        at   == cell \cup (fit.varied \ (CellParam \cup lost))
    IN  [at |-> at,
         value |-> [p \in at |-> IF p \in cell THEN Tied(p, Final(Rep[p])) + noise[p]
                                 ELSE Final(p)],
         notVaried |-> Flagged(model) \ at,
         atLimit |-> {}, unknown |-> FALSE]

(* topas _output_inputs and _limit_hits: every refined parameter that the  *)
(* results file has; one that is missing there was not varied, nor was one *)
(* without an ESD when TOPAS says it varied fewer than requested.          *)
TopasRead(missing) ==
    LET at == freed \ missing
    IN  [at |-> at,
         value |-> [g \in at |-> Final(g)],
         notVaried |-> missing \cup IF Cardinality(fit.varied) < ParametersRequested(model)
                                    THEN fit.noEsd ELSE {},
         atLimit |-> {g \in at : \E b \in {model.min[g], model.max[g]} :
                                   b # NoBound /\ Near(Final(g), b)},
         unknown |-> FALSE]

(* The lattice translation is forgotten. *)
FinalUnshifted(p) == fit.value[Rep[p]]

(* What easydiffraction ended with for a member, in the recipe's writing.  *)
FinalMember(p) == fit.value[Rep[p]] + Shift[p]

(* easydiffraction _output_inputs: the freed members.  lmfit varies all it *)
(* is given, and so never fewer than requested.                            *)
EasydiffractionRead ==
    LET at == {FreeMember(g) : g \in freed}
    IN  [at |-> at,
         value |-> [p \in at |-> FinalMember(p)],
         notVaried |-> IF Cardinality(freed) < ParametersRequested(model)
                       THEN {p \in at : Rep[p] \in fit.noEsd} ELSE {},
         atLimit |-> {p \in at : \E b \in {model.min[p], model.max[p]} :
                                   b # NoBound /\ Near(FinalMember(p), b)},
         unknown |-> FALSE]

ReadBack ==
    /\ pc = "fitted"
    /\ \/ /\ engine = "gsasii"
          /\ \E off \in Off, lost \in SUBSET (fit.varied \ CellParam) :
               report' = GsasiiRead([p \in CellParam \cap Free |->
                                       IF p \notin off THEN 0 ELSE IF fit.stray THEN Tol + 2 ELSE 1], lost)
       \/ engine = "topas" /\ \E missing \in SUBSET freed : report' = TopasRead(missing)
       \/ engine = "easydiffraction" /\ report' = EasydiffractionRead
    /\ pc' = "read"
    /\ UNCHANGED <<engine, run, raw, left, model, freed, fit, out, rows, valid>>

(* build_output and attach. *)
WriteOutput ==
    /\ pc = "read"
    /\ pc' = "done"
    /\ out' = OutputOf(model, report)
    /\ rows' = Rows(model, report, left)
    /\ valid' = Valid(engine, model, report)
    /\ UNCHANGED <<engine, run, raw, left, model, freed, fit, report>>

(* The next step of a series starts from a valid output recipe, which      *)
(* states every default.                                                   *)
NextRun ==
    /\ pc = "done" /\ valid /\ run < MaxRuns
    /\ run' = run + 1 /\ pc' = "raw"
    /\ raw' = out /\ left' = {}
    /\ model' = <<>> /\ freed' = {} /\ fit' = NoFit /\ report' = NoReport
    /\ out' = <<>> /\ rows' = <<>> /\ valid' = FALSE
    /\ UNCHANGED engine

Next == Validate \/ Build \/ Fit \/ Diverge \/ ReadBack \/ WriteOutput \/ NextRun

Spec == Init /\ [][Next]_vars
------------------------------------------------------------------------------
(* The state has its type; once an output recipe is written it is a whole  *)
(* recipe with a row for every parameter.                                  *)
TypeOK ==
    /\ engine \in Engines /\ pc \in Stages /\ run \in 1 .. MaxRuns
    /\ raw \in Recipe /\ left \subseteq Param
    /\ pc \in {"model", "built", "fitted", "read", "done"} => model \in Recipe
    /\ freed \subseteq Reps /\ fit.varied \subseteq freed
    /\ report.at \subseteq Param
    /\ pc = "done" => /\ out \in Recipe
                      /\ rows \in [Param -> [disposition : DISPOSITIONS, atLimit : BOOLEAN]]

(* Whatever an engine frees for a group and however it writes it, the      *)
(* value of a parameter the output recipe calls varied is where the fit    *)
(* ended, to within the rounding of the report and of the tie: neither the *)
(* start value, nor another member's, nor that of another unit cell.       *)
VariedIsWritten ==
    pc = "done" /\ ~ fit.stray =>
        \A g \in Reps :
            LET m == IF engine = "easydiffraction" THEN FreeMember(g) ELSE g
                s == IF engine = "easydiffraction" THEN Shift[m] ELSE 0
            IN  rows[g].disposition = "varied" =>
                    g \in freed /\ Near(out.value[m], Final(g) + s)

(* The three gateways agree with core on what a recipe asks for: the       *)
(* groups an engine is told to vary are those of the flagged parameters.   *)
FreesWhatIsAsked ==
    pc = "built" => freed = {Rep[p] : p \in Flagged(model)}

(* parameters_requested, which every result compares with what the engine  *)
(* varied, counts what the engine was told to vary.                        *)
RequestedIsFreed ==
    pc = "built" => Cardinality(freed) = ParametersRequested(model)

(* A parameter whose refine flag is false keeps its value through every    *)
(* run.  Only in a cell that GSAS-II refines may it move: within the       *)
(* rounding of the report, or the output recipe is marked not valid.       *)
HeldStays ==
    pc = "done" =>
        \A p \in Param : ~ model.flag[p] =>
            IF engine = "gsasii" /\ \E c \in RefinedCells : p \in c
            THEN valid => Near(out.value[p], model.value[p])
            ELSE out.value[p] = model.value[p]

(* A run whose engine keeps its holds, and ends inside the bounds and clear *)
(* of special positions, gives a valid output recipe: neither the tie      *)
(* propagation, nor the derived bounds, nor the writing of another unit    *)
(* cell makes one the schema would refuse.                                 *)
InsideIsValid ==
    pc = "done" /\ ~ fit.stray
      /\ (\A g \in Reps : Inside(out.value[g], model.min[g], model.max[g]))
      /\ ~ OnSpecial(out.value)
    => valid

(* The model never strays from what the user stated by more than the       *)
(* tolerance, and the values it holds keep the bounds it holds.            *)
ModelStatesRecipe ==
    pc = "model" => /\ \A p \in Param : Near(model.value[p], raw.value[p])
                    /\ \A p \in Param : Inside(model.value[p], model.min[p], model.max[p])

(* A reported parameter that ended on a stated bound is marked at its limit, *)
(* on the row of its representative whichever member the engine reported.  *)
LimitIsMarked ==
    pc = "done" /\ engine # "gsasii" =>
        \A g \in Reps : \A b \in {model.min[g], model.max[g]} :
            b # NoBound /\ Reported(report, g) /\ out.value[g] = b => rows[g].atLimit

(* docs/concepts/results.md: "requested_not_varied: its flag was true, but *)
(* the engine did not vary it".                                            *)
NotVariedWasNotVaried ==
    pc = "done" => \A p \in Param :
        rows[p].disposition = "requested_not_varied" => Rep[p] \notin fit.varied
==============================================================================
