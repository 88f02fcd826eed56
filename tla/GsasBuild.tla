------------------------------ MODULE GsasBuild ------------------------------
(***************************************************************************)
(* One GSAS-II run inside the engine process (gateways/gsasii/executors.py, *)
(* project.py, setters.py, constraints.py, sites.py, fit_report.py,         *)
(* paths.py): a validated recipe is translated, call by call, into a        *)
(* GSAS-II project; GSAS-II refines what the project's flags, less its Hold *)
(* constraints, leave free; PowderLine checks the fit, extracts the result  *)
(* and reads GSAS-II's parameter names back onto the recipe's paths.        *)
(*                                                                         *)
(* The recipe has one flag per parameter.  GSAS-II has one flag for a whole *)
(* cell, one for an atom's coordinates and one for its displacements.       *)
(*                                                                         *)
(* A leaf of the recipe is <<phase, section, member, index or atom>>.  A    *)
(* GSAS-II variable is <<phase index, kind, key, index>>; the histogram's   *)
(* phase index is -1.                                                      *)
(***************************************************************************)
EXTENDS Integers, Sequences, FiniteSets, FiniteSetsExt, SequencesExt

CONSTANT Recipes    \* bound: the recipes considered

Lengths == {"a", "b", "c"}
Angles  == {"alpha", "beta", "gamma"}
AngleOf == [a |-> "alpha", b |-> "beta", c |-> "gamma"]
Coordinates   == <<"x", "y", "z">>
Displacements == <<"U11", "U22", "U33", "U12", "U13", "U23">>
Shifts  == <<"dAx", "dAy", "dAz">>
AniUs   == <<"AU11", "AU22", "AU33", "AU12", "AU13", "AU23">>
ProfileTerms == {"U", "V", "W", "X", "Y", "Z"}
Instrument == ProfileTerms \cup {"Zero", "Polariz.", "SH/L", "Lam"}
PeakLists  == {"pos", "int", "sig", "gam"}
PhaseLeaves == {"scale", "isotropic_size", "size_LG_eta", "isotropic_strain",
                "strain_LG_eta", "ratio"}

Histogram == -1
None == -1
------------------------------------------------------------------------------
(* Symmetry of a cell.  A phase's Laue class is GSAS-II's; ":R" settings    *)
(* are "3R" and "3mR".                                                     *)
Rhombohedral(ph) == ph.laue \in {"3R", "3mR"}

(* cell_tie_groups *)
CellTies(ph) ==
    CASE ph.laue \in {"m3m", "m3"} -> {Lengths}
      [] Rhombohedral(ph)          -> {Lengths, Angles}
      [] ph.laue \in {"4/m", "4/mmm", "6/m", "6/mmm", "3", "3m1", "31m"} -> {{"a", "b"}, {"c"}}
      [] ph.laue = "mmm" -> {{l} : l \in Lengths}
      [] ph.laue = "2/m" -> {{l} : l \in Lengths \cup {AngleOf[ph.uniq]}}
      [] ph.laue = "-1"  -> {{l} : l \in Lengths \cup Angles}

(* gsasii_cell_groups: what validation wants refined together. *)
GsasiiCellGroups(ph) ==
    CASE ph.laue = "-1" \/ Rhombohedral(ph) -> {Lengths \cup Angles}
      [] ph.laue = "2/m" -> {{ph.uniq}, (Lengths \ {ph.uniq}) \cup {AngleOf[ph.uniq]}}
      [] OTHER -> CellTies(ph)

(* cell_dof_groups: <<direct parameters, independent A terms>>. *)
MonoclinicGroupsOfB(u) ==   \* whatever the unique axis
    {<<{"b"}, {1}>>, <<{"a", "c", "beta"}, {0, 2, 4}>>}
MonoclinicGroups(u) ==
    CASE u = "a" -> {<<{"a"}, {0}>>, <<{"b", "c", "alpha"}, {1, 2, 5}>>}
      [] u = "b" -> {<<{"b"}, {1}>>, <<{"a", "c", "beta"}, {0, 2, 4}>>}
      [] u = "c" -> {<<{"c"}, {2}>>, <<{"a", "b", "gamma"}, {0, 1, 3}>>}
CellDofGroups(ph) ==
    CASE ph.laue \in {"m3m", "m3"} -> {<<Lengths, {0}>>}
      [] ph.laue \in {"4/m", "4/mmm", "6/m", "6/mmm", "3", "3m1", "31m"} ->
             {<<{"a", "b"}, {0}>>, <<{"c"}, {2}>>}
      [] Rhombohedral(ph) -> {<<Lengths \cup Angles, {0, 3}>>}
      [] ph.laue = "mmm" -> {<<{"a"}, {0}>>, <<{"b"}, {1}>>, <<{"c"}, {2}>>}
      [] ph.laue = "2/m" -> MonoclinicGroups(ph.uniq)
      [] ph.laue = "-1" -> {<<Lengths \cup Angles, 0 .. 5>>}

(* GSAS-II: the metric terms its cell flag varies, one per tie group, named *)
(* for the group's first member ...                                        *)
Term == [a |-> 0, b |-> 1, c |-> 2, gamma |-> 3, beta |-> 4, alpha |-> 5]
FirstOf(g) == IF "a" \in g THEN "a" ELSE IF "b" \in g THEN "b" ELSE IF "c" \in g THEN "c"
              ELSE IF "gamma" \in g THEN "gamma" ELSE IF "beta" \in g THEN "beta" ELSE "alpha"
CellVary(ph) == {Term[FirstOf(g)] : g \in CellTies(ph)}

(* ... and the direct parameters a term moves: oblique axes are coupled.   *)
CellMoves(ph, n) ==
    LET oblique == Angles \cap UNION CellTies(ph)
    IN  IF oblique = {} THEN CHOOSE g \in CellTies(ph) : \E k \in g : Term[k] = n
        ELSE IF ph.laue # "2/m" THEN UNION CellTies(ph)
        ELSE IF Term[ph.uniq] = n THEN {ph.uniq}
        ELSE (Lengths \ {ph.uniq}) \cup oblique

(* _free_groups: the indices of an equal positive id vary together.        *)
FreeGroups(ids) == {{i \in DOMAIN ids : ids[i] = id} : id \in {ids[i] : i \in DOMAIN ids} \ {0}}
------------------------------------------------------------------------------
(* The leaves of a recipe and its ties. *)
CellLeaf(ph, k) == <<ph.name, "unit_cell", k, None>>
PhaseLeaf(ph, k) == <<ph.name, "phase", k, None>>
AtomLeaf(ph, at, k) == <<ph.name, "atoms", k, at.label>>
InstrumentLeaf(k) == <<"histogram", "instrument", k, None>>
PeakLeaf(section, k, i) == <<"histogram", section, k, i>>
CoefficientLeaf(i) == <<"histogram", "background", "coefficients", i>>

AtomTies(ph, at) ==
    {{AtomLeaf(ph, at, Coordinates[i]) : i \in g} : g \in FreeGroups(at.ids)}
    \cup (IF at.adp = "Uaniso"
          THEN {{AtomLeaf(ph, at, Displacements[i]) : i \in g} : g \in FreeGroups(at.uids)}
          ELSE {{AtomLeaf(ph, at, "Uiso")}})
    \cup {{AtomLeaf(ph, at, "occupancy")}}

PhaseTies(ph) ==
    {{CellLeaf(ph, k) : k \in g} : g \in CellTies(ph)}
    \cup {{PhaseLeaf(ph, k)} : k \in PhaseLeaves}
    \cup UNION {AtomTies(ph, at) : at \in ToSet(ph.atoms)}

Ties(r) ==
    (UNION {PhaseTies(ph) : ph \in ToSet(r.phases)})
    \cup {{InstrumentLeaf(k)} : k \in Instrument}
    \cup {{CoefficientLeaf(i)} : i \in 0 .. r.coefficients - 1}
    \cup {{PeakLeaf("background", k, i)} : k \in PeakLists, i \in 0 .. r.bkPeaks - 1}
    \cup {{PeakLeaf("single_peaks", k, i)} : k \in PeakLists, i \in 0 .. r.peaks - 1}

(* What validation lets through: whole tie groups, whole GSAS-II cell       *)
(* groups, the background as a whole, nothing in a simulation, and in a     *)
(* peak fit only the widths in use.                                        *)
Accepted(r) ==
    /\ r.flagged \subseteq UNION Ties(r)
    /\ \A g \in Ties(r) : g \subseteq r.flagged \/ g \cap r.flagged = {}
    /\ \A ph \in ToSet(r.phases) : \A g \in GsasiiCellGroups(ph) :
         LET tied == {CellLeaf(ph, k) : k \in g}
         IN  tied \subseteq r.flagged \/ tied \cap r.flagged = {}
    /\ LET back == {CoefficientLeaf(i) : i \in 0 .. r.coefficients - 1}
       IN  back \subseteq r.flagged \/ back \cap r.flagged = {}
    /\ r.simulation => r.flagged = {}
    /\ r.spf => /\ r.useIP => \A i \in 0 .. r.peaks - 1 : \A k \in {"sig", "gam"} :
                                PeakLeaf("single_peaks", k, i) \notin r.flagged
                /\ ~ r.useIP => \A k \in ProfileTerms : InstrumentLeaf(k) \notin r.flagged

(* The schemas: phases and atoms are keyed by unique names; a monoclinic    *)
(* cell has a unique axis; a peak fit has no phase, a refinement no peaks   *)
(* of its own.                                                             *)
LaueClasses == {"m3m", "m3", "4/m", "4/mmm", "6/m", "6/mmm", "3", "3m1", "31m",
                "3R", "3mR", "mmm", "2/m", "-1"}
AtomBlock == [label : STRING, adp : {"Uiso", "Uaniso"}, ids : [1 .. 3 -> Nat], uids : [1 .. 6 -> Nat],
              reading : {"right", "misread", "unnamed"}]
PhaseBlock == [name : STRING, laue : LaueClasses, uniq : Lengths \cup {"none"}, atoms : Seq(AtomBlock)]
WellFormed(r) ==
    /\ {r.spf, r.useIP, r.simulation} \subseteq BOOLEAN
    /\ {r.coefficients, r.bkPeaks, r.peaks} \subseteq Nat
    /\ r.phases \in Seq(PhaseBlock)
    /\ \A i, j \in DOMAIN r.phases : r.phases[i].name = r.phases[j].name => i = j
    /\ \A ph \in ToSet(r.phases) :
         /\ ph.laue = "2/m" => ph.uniq \in Lengths
         /\ \A a, b \in DOMAIN ph.atoms : ph.atoms[a].label = ph.atoms[b].label => a = b
    /\ IF r.spf THEN r.phases = <<>> ELSE r.peaks = 0
    /\ IsFiniteSet(r.flagged)

ASSUME RecipesAssumption == \A r \in Recipes : WellFormed(r)

(* Every flag counts, a tied one too. *)
RequestedFlags(r) == Cardinality(r.flagged)

(* parameters_requested: a refined tie group counts once. *)
Requested(r) == Cardinality({g \in Ties(r) : g \cap r.flagged # {}})
------------------------------------------------------------------------------
VARIABLES
    pc,        \* the step of run_refinement
    recipe,
    proj,      \* the flags of the GSAS-II project
    holds,     \* Hold variables the setters asked for so far
    next,      \* the phase a loop is at
    varied,    \* the variables GSAS-II varied to the end
    counted,   \* Nvars, or the length of sigDict
    fit,       \* what became of the refinement
    warned,    \* fit_report's warnings
    tables,    \* result tables written
    rows,      \* the variables of which the result carries a refined value
    refined,   \* refined_by_path: the leaves the output recipe takes
    outcome    \* "running", "success", "failed" (success False) or "raised"

vars == <<pc, recipe, proj, holds, next, varied, counted, fit, warned, tables, rows, refined, outcome>>

Steps == {"new", "histogram", "background", "phases", "sites", "parameterize", "hold",
          "instrument", "refine", "report", "extract", "export", "read", "end"}

Running == outcome = "running"
Goto(step) == pc' = step
Stop(step, result) == pc' = step /\ outcome' = result

EmptyProject == [on |-> {}, back |-> FALSE, terms |-> 0, bkPeaks |-> <<>>, peaks |-> <<>>,
                 phases |-> <<>>, holds |-> {}]

Init ==
    /\ recipe \in Recipes /\ Accepted(recipe)
    /\ pc = "new" /\ outcome = "running"
    /\ proj = EmptyProject /\ holds = {} /\ next = 1
    /\ varied = {} /\ counted = 0 /\ fit = "none"
    /\ warned = {} /\ tables = {} /\ rows = {} /\ refined = {}

Unchanged == UNCHANGED <<recipe, next, varied, counted, fit, warned, tables, rows, refined>>

Flagged(leaf) == leaf \in recipe.flagged

(* An exception of GSAS-II or of a setter: a result with success False.    *)
Break ==
    /\ Running /\ Stop("end", "failed")
    /\ UNCHANGED <<recipe, proj, holds, next, varied, counted, fit, warned, tables, rows, refined>>

(* G2Project and add_powder_histogram_from_arrays: GSAS-II's defaults       *)
(* refine the histogram scale, and no instrument parameter; three           *)
(* background terms, not refined.                                          *)
AddHistogram ==
    /\ Running /\ pc = "new" /\ Goto("histogram")
    /\ proj' = [proj EXCEPT !.on = {"Scale"}, !.terms = 3]
    /\ Unchanged /\ UNCHANGED <<holds, outcome>>

PeakFlags(section, i) == {k \in PeakLists : Flagged(PeakLeaf(section, k, i))}

(* set_hist_scale, set_chebyshev_background, set_single_peak_background:    *)
(* the peaks are appended to the list the project has.                     *)
SetBackground ==
    /\ Running /\ pc = "histogram" /\ Goto("background")
    /\ proj' = [proj EXCEPT !.on = @ \ {"Scale"},
                            !.back = Flagged(CoefficientLeaf(0)),
                            !.terms = recipe.coefficients,
                            !.bkPeaks = @ \o [i \in 1 .. recipe.bkPeaks |-> PeakFlags("background", i - 1)]]
    /\ Unchanged /\ UNCHANGED <<holds, outcome>>

(* set_single_peaks: the list is replaced. *)
SetPeaks ==
    /\ Running /\ pc = "background"
    /\ proj' = [proj EXCEPT !.peaks = [i \in 1 .. recipe.peaks |-> PeakFlags("single_peaks", i - 1)]]
    /\ Goto(IF recipe.phases = <<>> THEN "instrument" ELSE "phases")
    /\ Unchanged /\ UNCHANGED <<holds, outcome>>

(* add_phase_from_cif_dict: GSAS-II's own flags are all off; it reads each  *)
(* atom's site for itself.                                                 *)
NewPhase(ph) ==
    [name |-> ph.name, cell |-> FALSE, on |-> {},
     atoms |-> [i \in DOMAIN ph.atoms |-> [label |-> ph.atoms[i].label, flags |-> {}]]]

AddPhaseInFront ==          \* of those the project has
    /\ Running /\ pc = "phases"
    /\ proj' = [proj EXCEPT !.phases = <<NewPhase(recipe.phases[next])>> \o @]
    /\ IF next < Len(recipe.phases) THEN next' = next + 1 /\ UNCHANGED pc
                                    ELSE next' = 1 /\ Goto("sites")
    /\ UNCHANGED <<recipe, holds, varied, counted, fit, warned, tables, rows, refined, outcome>>

AddPhase ==
    /\ Running /\ pc = "phases"
    /\ proj' = [proj EXCEPT !.phases = Append(@, NewPhase(recipe.phases[next]))]
    /\ IF next < Len(recipe.phases) THEN next' = next + 1 /\ UNCHANGED pc
                                    ELSE next' = 1 /\ Goto("sites")
    /\ UNCHANGED <<recipe, holds, varied, counted, fit, warned, tables, rows, refined, outcome>>

RefinesCoordinates(ph, at) ==      \* displacements are forgotten
    \E k \in ToSet(Coordinates) : Flagged(AtomLeaf(ph, at, k))
RefinesSite(ph, at) ==
    \E k \in ToSet(Coordinates) \cup ToSet(Displacements) : Flagged(AtomLeaf(ph, at, k))

(* site_problems: a site of another multiplicity, or one without a name     *)
(* whose coordinates or displacements are refined.                         *)
SiteProblems ==
    {site \in UNION {{<<ph, at>> : at \in ToSet(ph.atoms)} : ph \in ToSet(recipe.phases)} :
        \/ site[2].reading = "misread"
        \/ site[2].reading = "unnamed" /\ RefinesSite(site[1], site[2])}

CheckSites ==
    /\ Running /\ pc = "sites"
    /\ IF SiteProblems # {} THEN Stop("end", "raised")
                            ELSE Goto("parameterize") /\ UNCHANGED outcome
    /\ Unchanged /\ UNCHANGED <<proj, holds>>

(* cell_refinement_plan *)
CellRefines(ph) == \E g \in CellDofGroups(ph) : \E k \in g[1] : Flagged(CellLeaf(ph, k))
CellHolds(ph, p) ==
    {<<p, "A", "term", n>> : n \in UNION {g[2] : g \in {g \in CellDofGroups(ph) :
                                  \A k \in g[1] : ~ Flagged(CellLeaf(ph, k))}}}

(* atom_refinement_plan, for coordinates or displacements: the groups with  *)
(* a requested member, and the names of the others.                        *)
Refining(ph, at, ids, members) ==
    {g \in FreeGroups(ids) : \E i \in g : Flagged(AtomLeaf(ph, at, members[i]))}
AtomHolds(ph, at, ids, members, names, p, a) ==
    LET on == Refining(ph, at, ids, members)
    IN  IF on = {} THEN {}
        ELSE {<<p, "atom", names[i], a>> : i \in UNION (FreeGroups(ids) \ on)}
AtomFlags(ph, at) ==
    {f \in {"F", "X", "U"} :
        CASE f = "F" -> Flagged(AtomLeaf(ph, at, "occupancy"))
          [] f = "X" -> Refining(ph, at, at.ids, Coordinates) # {}
          [] f = "U" -> IF at.adp = "Uaniso" THEN Refining(ph, at, at.uids, Displacements) # {}
                        ELSE Flagged(AtomLeaf(ph, at, "Uiso"))}

(* The scale, broadening and orientation setters. *)
PhaseFlags(ph) == {k \in PhaseLeaves : Flagged(PhaseLeaf(ph, k))}

(* The phase's holds, under the index it has in the project. *)
PhaseHolds(ph, p) ==
    (IF CellRefines(ph) THEN CellHolds(ph, p) ELSE {})
    \cup UNION {AtomHolds(ph, ph.atoms[a], ph.atoms[a].ids, Coordinates, Shifts, p, a - 1)
                \cup (IF ph.atoms[a].adp = "Uaniso"
                      THEN AtomHolds(ph, ph.atoms[a], ph.atoms[a].uids, Displacements, AniUs, p, a - 1)
                      ELSE {}) : a \in DOMAIN ph.atoms}

(* set_phase_unit_cell, set_phase_atom_parameters and the other setters: a  *)
(* phase of the project with the flags of the recipe's.                    *)
Parameterized(gp, ph) ==
    [gp EXCEPT !.cell = CellRefines(ph),
               !.on = PhaseFlags(ph),
               !.atoms = [a \in DOMAIN @ |-> [@[a] EXCEPT !.flags = AtomFlags(ph, ph.atoms[a])]]]

(* GetCSxinel, GetCSuinel: GSAS-II has no entry for a site it cannot name,  *)
(* and is asked when a coordinate, or a displacement of an anisotropic      *)
(* atom, is requested.                                                     *)
LookupFails(ph) ==
    \E at \in ToSet(ph.atoms) :
        /\ at.reading = "unnamed"
        /\ \/ \E k \in ToSet(Coordinates) : Flagged(AtomLeaf(ph, at, k))
           \/ at.adp = "Uaniso" /\ \E k \in ToSet(Displacements) : Flagged(AtomLeaf(ph, at, k))

(* set_phase_parameterization, one phase.  A failed lookup raises.          *)
Parameterize ==
    /\ Running /\ pc = "parameterize"
    /\ LET ph == recipe.phases[next]
           p  == CHOOSE i \in DOMAIN proj.phases : proj.phases[i].name = ph.name
       IN  IF LookupFails(ph)
           THEN Stop("end", "failed") /\ UNCHANGED <<proj, holds, next>>
           ELSE /\ proj' = [proj EXCEPT !.phases[p] = Parameterized(@, ph)]
                /\ holds' = holds \cup PhaseHolds(ph, p - 1)
                /\ IF next < Len(recipe.phases) THEN next' = next + 1 /\ UNCHANGED pc
                                                ELSE next' = 1 /\ Goto("hold")
                /\ UNCHANGED outcome
    /\ UNCHANGED <<recipe, varied, counted, fit, warned, tables, rows, refined>>

AddHolds ==
    /\ Running /\ pc = "hold" /\ Goto("instrument")
    /\ proj' = [proj EXCEPT !.holds = holds]
    /\ Unchanged /\ UNCHANGED <<holds, outcome>>

(* set_instrument_parameterization, set_refinement_cycles. *)
SetInstrument ==
    /\ Running /\ pc = "instrument" /\ Goto("refine")
    /\ proj' = [proj EXCEPT !.on = (@ \ Instrument) \cup {k \in Instrument : Flagged(InstrumentLeaf(k))}]
    /\ Unchanged /\ UNCHANGED <<holds, outcome>>
------------------------------------------------------------------------------
(* GSAS-II: what a project's flags let vary.  A group of tied coordinates   *)
(* or displacements is one variable, named for its first member; a peak fit *)
(* varies no phase, and of the instrument the profile it uses.             *)
Independent(ids, names, p, a) == {<<p, "atom", names[Min(g)], a>> : g \in FreeGroups(ids)}

PhaseVaries(p) ==
    LET gp == proj.phases[p]
        ph == CHOOSE ph \in ToSet(recipe.phases) : ph.name = gp.name
    IN  (IF gp.cell THEN {<<p - 1, "A", "term", n>> : n \in CellVary(ph)} ELSE {})
        \cup {<<p - 1, "hap", k, None>> : k \in gp.on}
        \cup UNION {LET at == ph.atoms[a]
                        fl == gp.atoms[a].flags
                    IN  (IF "F" \in fl THEN {<<p - 1, "atom", "Afrac", a - 1>>} ELSE {})
                        \cup (IF "X" \in fl THEN Independent(at.ids, Shifts, p - 1, a - 1) ELSE {})
                        \cup (IF "U" \notin fl THEN {}
                              ELSE IF at.adp = "Uaniso" THEN Independent(at.uids, AniUs, p - 1, a - 1)
                              ELSE {<<p - 1, "atom", "AUiso", a - 1>>})
                    : a \in DOMAIN ph.atoms}

HistogramVaries ==
    {<<Histogram, "inst", k, None>> :
        k \in IF recipe.spf THEN proj.on \cap ({"SH/L"} \cup IF recipe.useIP THEN ProfileTerms ELSE {})
                            ELSE proj.on}
    \cup (IF proj.back THEN {<<Histogram, "Back", "term", i>> : i \in 0 .. proj.terms - 1} ELSE {})
    \cup (UNION {{<<Histogram, "BkPk", k, i - 1>> : k \in proj.bkPeaks[i]} : i \in DOMAIN proj.bkPeaks})
    \cup UNION {{<<Histogram, "peak", k, i - 1>> :
                   k \in proj.peaks[i] \ (IF recipe.useIP THEN {"sig", "gam"} ELSE {})} : i \in DOMAIN proj.peaks}

ProjectVaries == (HistogramVaries \cup UNION {PhaseVaries(p) : p \in DOMAIN proj.phases}) \ proj.holds

(* The executors: GSAS-II refines, may drop singular parameters (a          *)
(* Rietveld refinement still counts them and leaves a message), leave a     *)
(* message for another reason, stop early, abort, diverge or fail.  A       *)
(* failed peak fit is PowderLine's own error.                              *)
Refine ==
    /\ Running /\ pc = "refine"
    /\ \/ /\ \E dropped \in {{}} \cup {{v} : v \in ProjectVaries} :
             \E end \in {"converged", "not_converged", "aborted", "diverged"}, other \in BOOLEAN :
               /\ recipe.spf => end \in {"converged", "diverged"}
               /\ varied' = ProjectVaries \ dropped
               /\ counted' = Cardinality(IF recipe.spf THEN varied' ELSE ProjectVaries)
               /\ warned' = IF (dropped # {} \/ other) /\ ~ recipe.spf THEN {"message"} ELSE {}
               /\ fit' = end
          /\ Goto("report") /\ UNCHANGED outcome
       \/ /\ Stop("end", IF recipe.spf THEN "raised" ELSE "failed")
          /\ UNCHANGED <<varied, counted, warned, fit>>
    /\ UNCHANGED <<recipe, proj, holds, next, tables, rows, refined>>

(* fit_report, after the project was saved and before any table: a          *)
(* diverged or aborted refinement has no result.                           *)
AbortedIsAResult == fit = "diverged"        \* an aborted one is not looked for
Worthless == fit = "diverged" \/ (fit = "aborted" /\ ~ recipe.simulation)
Report ==
    /\ Running /\ pc = "report"
    /\ IF Worthless
       THEN Stop("end", "raised") /\ UNCHANGED warned
       ELSE /\ Goto("extract") /\ UNCHANGED outcome
            /\ warned' = warned
                 \cup (IF fit = "not_converged" /\ ~ recipe.simulation THEN {"not_converged"} ELSE {})
                 \cup (IF counted < Requested(recipe) THEN {"not_varied"} ELSE {})
    /\ UNCHANGED <<recipe, proj, holds, next, varied, counted, fit, tables, rows, refined>>

(* The extractors write their tables one after the other; GSAS-II may have  *)
(* made no list of reflections.                                            *)
Reports ==
    <<"fit_profile">> \o (IF recipe.peaks > 0 THEN <<"peaks">> ELSE <<>>)
                      \o (IF recipe.phases # <<>> THEN <<"unit_cell", "peak_list">> ELSE <<>>)
Extract ==
    /\ Running /\ pc = "extract"
    /\ \/ tables' = tables \cup {Reports[next]}
       \/ Reports[next] = "peak_list" /\ UNCHANGED tables
    /\ IF next < Len(Reports) THEN next' = next + 1 /\ UNCHANGED pc
                              ELSE next' = 1 /\ Goto("export")
    /\ UNCHANGED <<recipe, proj, holds, varied, counted, fit, warned, rows, refined, outcome>>

(* _extract_refined_parameters, the last of them: a row for every variable, *)
(* one of which may have no value.  If the table cannot be made the error   *)
(* is dropped, the result has no rows, and the run is a success.  A peak    *)
(* fit has no such table: its rows are those of DoPeakFit.                  *)
ExportRefined ==
    /\ Running /\ pc = "export" /\ Stop("read", "success")
    /\ \/ /\ \E lost \in {{}} \cup {{v} : v \in varied} : rows' = varied \ lost
          /\ tables' = tables \cup (IF recipe.spf \/ varied = {} THEN {} ELSE {"refined_parameters"})
       \/ ~ recipe.spf /\ rows' = {} /\ UNCHANGED tables
    /\ UNCHANGED <<recipe, proj, holds, next, varied, counted, fit, warned, refined>>

Named(names, members, k) == members[CHOOSE i \in DOMAIN names : names[i] = k]

(* build_phase_name_mapping, _phase_name: the recipe's phase of the name    *)
(* that the project has at the index; an atom by its label, likewise.       *)
FirstPhase(v) == recipe.phases[1]           \* the index is forgotten
PhaseOf(v) == CHOOSE ph \in ToSet(recipe.phases) : ph.name = proj.phases[v[1] + 1].name
AtomOf(v) ==
    CHOOSE at \in ToSet(PhaseOf(v).atoms) : at.label = proj.phases[v[1] + 1].atoms[v[4] + 1].label

(* The recipe path of a GSAS-II variable; a metric term has none. *)
PathOf(v) ==
    CASE v[2] = "inst" -> {InstrumentLeaf(v[3])}
      [] v[2] = "Back" -> {CoefficientLeaf(v[4])}
      [] v[2] = "BkPk" -> {PeakLeaf("background", v[3], v[4])}
      [] v[2] = "peak" -> {PeakLeaf("single_peaks", v[3], v[4])}
      [] v[2] = "hap"  -> {PhaseLeaf(PhaseOf(v), v[3])}
      [] v[2] = "A"    -> {}
      [] v[2] = "atom" ->
           {AtomLeaf(PhaseOf(v), AtomOf(v),
                     CASE v[3] \in ToSet(Shifts) -> Named(Shifts, Coordinates, v[3])
                       [] v[3] \in ToSet(AniUs)  -> Named(AniUs, Displacements, v[3])
                       [] v[3] = "Afrac" -> "occupancy"
                       [] v[3] = "AUiso" -> "Uiso")}

CellOf(ph) == UNION {{CellLeaf(ph, k) : k \in g} : g \in CellTies(ph)}

(* refined_by_path: the rows with a value by their paths, and from the      *)
(* unit-cell report the whole cell of every phase whose recipe refines any  *)
(* of it.                                                                  *)
ReadBack ==
    /\ pc = "read" /\ Goto("end")
    /\ refined' = (UNION {PathOf(v) : v \in rows})
         \cup UNION {IF \E leaf \in CellOf(ph) : Flagged(leaf) THEN CellOf(ph) ELSE {}
                     : ph \in ToSet(recipe.phases)}
    /\ UNCHANGED <<recipe, proj, holds, next, varied, counted, fit, warned, tables, rows, outcome>>

Next == \/ AddHistogram \/ SetBackground \/ SetPeaks \/ AddPhase \/ CheckSites
        \/ Parameterize \/ AddHolds \/ SetInstrument \/ Refine \/ Report
        \/ Extract \/ ExportRefined \/ ReadBack \/ Break

Spec == Init /\ [][Next]_vars
------------------------------------------------------------------------------
(* The state has its type; the phases of the project are the recipe's, in   *)
(* its order, as far as the loop has come.                                 *)
TypeOK ==
    /\ pc \in Steps /\ outcome \in {"running", "success", "failed", "raised"}
    /\ Running => pc # "end"
    /\ proj.on \subseteq Instrument \cup {"Scale"}
    /\ \A p \in DOMAIN proj.phases :
         /\ proj.phases[p].name = recipe.phases[p].name
         /\ proj.phases[p].on \subseteq PhaseLeaves
    /\ proj.holds \subseteq holds
    /\ warned \subseteq {"message", "not_converged", "not_varied"}
    /\ counted \in Nat

(* GSAS-II: the leaves that move when it varies v, by the place that the    *)
(* phase and the atom have in the project.                                 *)
TiedTo(ids, names, k) == UNION {g \in FreeGroups(ids) : \E i \in g : names[i] = k}
Moves(v) ==
    LET ph == recipe.phases[v[1] + 1]
        at == ph.atoms[v[4] + 1]
    IN  CASE v[2] = "A"   -> {CellLeaf(ph, k) : k \in CellMoves(ph, v[4])}
          [] v[2] = "hap" -> {PhaseLeaf(ph, v[3])}
          [] v[2] = "atom" ->
               (CASE v[3] \in ToSet(Shifts) ->
                      {AtomLeaf(ph, at, Coordinates[i]) : i \in TiedTo(at.ids, Shifts, v[3])}
                  [] v[3] \in ToSet(AniUs) ->
                      {AtomLeaf(ph, at, Displacements[i]) : i \in TiedTo(at.uids, AniUs, v[3])}
                  [] v[3] = "Afrac" -> {AtomLeaf(ph, at, "occupancy")}
                  [] v[3] = "AUiso" -> {AtomLeaf(ph, at, "Uiso")})
          [] OTHER -> PathOf(v)

(* GSAS-II's whole-cell and per-atom flags, less the Hold constraints, let  *)
(* move exactly the parameters the recipe flags, in every crystal system:   *)
(* no GSAS-II default is left on, and no hold names another phase or atom.  *)
(* (A peak fit varies no wavelength, zero, or polarization.)               *)
VariesWhatIsAsked ==
    Running /\ pc = "refine" =>
        UNION {Moves(v) : v \in ProjectVaries}
          = recipe.flagged \ (IF recipe.spf THEN {InstrumentLeaf(k) : k \in {"Zero", "Polariz.", "Lam"}} ELSE {})

(* A flagged parameter the engine did not vary is never silent, and the     *)
(* warning that counts raises no false alarm: GSAS-II's count of its        *)
(* variables and core's count of tie groups agree in every crystal system.  *)
NothingSilentlyHeld ==
    outcome = "success" =>
        LET moved  == UNION {Moves(v) : v \in varied}
            silent == {g \in Ties(recipe) : g \subseteq recipe.flagged /\ g \cap moved = {}}
            held   == silent # {} \/ varied # ProjectVaries
        IN  /\ held => {"message", "not_varied"} \cap warned # {}
            /\ "not_varied" \in warned => held

(* A value read back was asked for, or is of a cell the recipe refines; and *)
(* outside the cells a tie group has one (and so escapes                    *)
(* requested_not_varied) exactly when the result carries a variable that    *)
(* moved it: whichever phase and atom GSAS-II counts it under, and also     *)
(* when the table of the refined parameters was lost and the run is a       *)
(* success all the same.                                                   *)
ReadsBackWhatMoved ==
    pc = "end" /\ outcome = "success" =>
        /\ \A leaf \in refined :
             \/ leaf \in recipe.flagged
             \/ leaf[2] = "unit_cell" /\ \E k \in Lengths \cup Angles :
                                           <<leaf[1], "unit_cell", k, None>> \in recipe.flagged
        /\ \A g \in Ties(recipe) :
             IF \E leaf \in g : leaf[2] = "unit_cell"
             THEN g \subseteq recipe.flagged => g \subseteq refined
             ELSE g \cap refined # {} <=> \E v \in rows : g \subseteq Moves(v)

(* A refinement that diverged, or that GSAS-II aborted in its first cycle   *)
(* and left with a rejected step's pattern, leaves no result table and is   *)
(* never a success, whatever fails on the way.                             *)
RejectedLeavesNothing ==
    (fit = "diverged" \/ (fit = "aborted" /\ ~ recipe.simulation)) =>
        tables = {} /\ refined = {} /\ outcome # "success"

(* A site GSAS-II cannot use is reported as such before the flags are set:  *)
(* no setter meets a lookup that fails, which would end the run as an       *)
(* unexplained failure, and no site of a wrong multiplicity is refined or   *)
(* simulated with.                                                         *)
UnusableSiteIsRaised ==
    /\ Running /\ pc = "parameterize" => ~ LookupFails(recipe.phases[next])
    /\ pc \in {"refine", "report", "extract", "export", "read"} \/ outcome = "success" =>
         \A ph \in ToSet(recipe.phases) : \A at \in ToSet(ph.atoms) : at.reading # "misread"
==============================================================================
