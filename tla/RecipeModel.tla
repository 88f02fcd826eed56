----------------------------- MODULE RecipeModel -----------------------------
(***************************************************************************)
(* What validation makes of the refinable parameters of one recipe         *)
(* (schema_core.py, symmetry.py, gateways/gsasii/schema.py): the values,   *)
(* the refine flags and the bounds as the user states them, the ties the   *)
(* space group imposes on them, the rules the two must obey together, and  *)
(* the model of the recipe the engines receive.                            *)
(*                                                                         *)
(* A value is a whole number of the smallest step a float can make; Tol    *)
(* steps are the tolerance a recipe may be off by (SPECIAL_POSITION_TOL,   *)
(* CELL_TOL, UIJ_TOL).  The ties are constants: a tied parameter p is      *)
(* K[p] * (its representative) + C[p], a fixed one is Exact[p].            *)
(***************************************************************************)
EXTENDS Integers, FiniteSets

CONSTANTS
    Param,      \* the refinable parameters of the recipe
    Rep,        \* the representative (first member) of a parameter's tie group
    K, C,       \* the relation of a member to its representative
    Fixed,      \* the parameters symmetry fixes
    Exact,      \* the value of a fixed parameter
    Special,    \* values of a parameter on a position of higher symmetry
    Tol,        \* how far off a stated value may be
    CellGroup,  \* GSAS-II's cell refinement group of a parameter
    NoBound     \* "null": no bound on this side

ASSUME TiesAssumption ==
    /\ IsFiniteSet(Param)
    /\ Rep \in [Param -> Param]
    /\ K \in [Param -> Int \ {0}]
    /\ C \in [Param -> Int]
    /\ Exact \in [Param -> Int]
    /\ Fixed \subseteq Param
    /\ \A p \in Param : /\ Rep[Rep[p]] = Rep[p]
                        /\ K[Rep[p]] = 1
                        /\ C[Rep[p]] = 0
                        /\ p \in Fixed => Rep[p] = p
                        /\ Rep[p] \in Fixed => p \in Fixed
    /\ Tol \in Nat
    /\ NoBound \notin Int

(* A tolerance is many steps of a float, and the coefficient of a tie is   *)
(* small: a tolerance covers the step that dividing by one loses.          *)
ASSUME ToleranceAssumption ==
    Tol >= 1 /\ \A p \in Param : K[p] - 1 <= Tol /\ -K[p] - 1 <= Tol

Bound == Int \cup {NoBound}

(* The refinable leaves of a recipe: [value, refine_flag, min, max] each.  *)
Recipe == [value : [Param -> Int], flag : [Param -> BOOLEAN],
           min : [Param -> Bound], max : [Param -> Bound]]

Free == Param \ Fixed
Reps == {Rep[p] : p \in Free}
Members(g) == {p \in Free : Rep[p] = g}

(* member = k * rep + c, exactly. *)
Tied(p, x) == K[p] * x + C[p]

(* _derive: the representatives keep their stated values, every other      *)
(* value follows from them.                                                *)
Derived(v) == [p \in Param |-> IF p \in Fixed THEN Exact[p]
                               ELSE Tied(p, v[Rep[p]])]

Near(x, y) == x - y \in (-Tol) .. Tol

(* A misstated value is taken for the derived one without a word. *)
MisstatedNowhere(v) == {}

(* _derive, "write": the values stated too far from the derived ones. *)
Misstated(v) == {p \in Param : ~ Near(v[p], Derived(v)[p])}

(* check_within_bounds and the order of the bounds. *)
Inside(x, lo, hi) == (lo # NoBound => lo <= x) /\ (hi # NoBound => x <= hi)
BoundsHold(r) ==
    \A p \in Param :
        /\ Inside(r.value[p], r.min[p], r.max[p])
        /\ r.min[p] # NoBound => Inside(r.min[p], NoBound, r.max[p])

(* _tie_rules, F4: the bounds of a member follow from those of the         *)
(* representative, swapped when k < 0; a null side stays null.             *)
TiedBound(p, b) == IF b = NoBound THEN NoBound ELSE Tied(p, b)
TiedMin(r, p) == TiedBound(p, IF K[p] > 0 THEN r.min[Rep[p]] ELSE r.max[Rep[p]])
TiedMax(r, p) == TiedBound(p, IF K[p] > 0 THEN r.max[Rep[p]] ELSE r.min[Rep[p]])
States(b, want) == \/ b = NoBound /\ want = NoBound
                   \/ b # NoBound /\ want # NoBound /\ Near(b, want)

(* _tie_rules: F1 one flag per group, F2 a fixed parameter is not refined, *)
(* A106 nor bounded, F4 the bounds follow the ties.                        *)
TieRules(r) ==
    /\ \A p \in Fixed : ~ r.flag[p] /\ r.min[p] = NoBound /\ r.max[p] = NoBound
    /\ \A p \in Free : /\ r.flag[p] = r.flag[Rep[p]]
                       /\ States(r.min[p], TiedMin(r, p))
                       /\ States(r.max[p], TiedMax(r, p))

(* Any cell parameter may be refined on its own. *)
CellGroupRuleLost(r) == TRUE

(* GsasiiPhase._gsasii_cell_groups: what GSAS-II cannot hold apart is      *)
(* refined together or not at all.                                         *)
CellGroupRule(r) ==
    \A p, q \in Free : CellGroup[p] = CellGroup[q] => r.flag[p] = r.flag[q]

(* RefinableParameter: GSAS-II parameters have no bounds. *)
Unbounded(r) == \A p \in Param : r.min[p] = NoBound /\ r.max[p] = NoBound

(* analyze_site: a position that has come within the tolerance of one of   *)
(* higher symmetry is another site, with other ties and multiplicity.      *)
OnSpecial(v) == \E p \in Free : \E s \in Special[p] : Near(v[p], s)

(* Phase._sites_check and the engine's own rules: a recipe they refuse     *)
(* raises one ValidationError with every problem.                          *)
Accepts(engine, r) ==
    /\ BoundsHold(r)
    /\ Misstated(r.value) = {}
    /\ TieRules(r)
    /\ engine = "gsasii" => CellGroupRule(r) /\ Unbounded(r)

(* _updated: the model holds the derived values and bounds. *)
Validated(r) ==
    [value |-> Derived(r.value), flag |-> r.flag,
     min |-> [p \in Param |-> IF p \in Fixed THEN r.min[p] ELSE TiedMin(r, p)],
     max |-> [p \in Param |-> IF p \in Fixed THEN r.max[p] ELSE TiedMax(r, p)]]

(* _note_derived: one symmetry_value_derived note per value that moved. *)
Noted(r) == {p \in Param : Derived(r.value)[p] # r.value[p]}

Flagged(r) == {p \in Param : r.flag[p]}                     \* refined_flags

(* Every flag counts, a tied one too. *)
FlagsRequested(r) == Cardinality(Flagged(r))

(* parameters_requested: one per flag, less the refined members of a tie    *)
(* group beyond the first, so that a refined group counts once.            *)
FirstFlagged(r, g) == CHOOSE p \in Members(g) : r.flag[p]
Beyond(r) == {p \in Free : r.flag[p] /\ p # FirstFlagged(r, Rep[p])}
ParametersRequested(r) == Cardinality(Flagged(r)) - Cardinality(Beyond(r))
=============================================================================
