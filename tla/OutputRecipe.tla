---------------------------- MODULE OutputRecipe -----------------------------
(***************************************************************************)
(* The output recipe of a run (roundtrip.py, build_output): the user's     *)
(* recipe with what the engine ended with written back, the ties made      *)
(* exact again, the disposition of every parameter, and the problems that  *)
(* make it not valid.                                                      *)
(*                                                                         *)
(* An engine's report is a record: the recipe paths it reports ("at") with *)
(* their values, those it did not vary, those that ended at a limit, and   *)
(* whether it named something the recipe does not have ("unknown").        *)
(***************************************************************************)
EXTENDS RecipeModel

Report == [at : SUBSET Param, value : [Param -> Int],
           notVaried : SUBSET Param, atLimit : SUBSET Param, unknown : BOOLEAN]

(* ParameterPath.tie, from _tie_table. *)
Tie(p) == IF p \in Fixed THEN "fixed"
          ELSE IF Rep[p] # p THEN "member"
          ELSE IF Members(p) # {p} THEN "representative" ELSE "free"

(* An engine may have freed another member than the representative: it     *)
(* stands for the group then.                                              *)
Stand(rep, g) == IF g \in rep.at THEN g
                 ELSE CHOOSE m \in Members(g) : m \in rep.at
Reported(rep, g) == Members(g) \cap rep.at # {}

(* The coefficient of the tie is forgotten. *)
UntiedUnscaled(p, x) == x - C[p]

(* rep = (member - c) / k, to the nearest step below. *)
Untied(p, x) == (K[p] * (x - C[p])) \div (K[p] * K[p])

RepValue(m, rep, g) ==
    IF Reported(rep, g)
    THEN Untied(Stand(rep, g), rep.value[Stand(rep, g)])
    ELSE m.value[g]

(* The value of every path of the output recipe. *)
Written(m, rep) ==
    [p \in Param |-> IF p \in Fixed
                     THEN IF p \in rep.at THEN rep.value[p] ELSE m.value[p]
                     ELSE Tied(p, RepValue(m, rep, Rep[p]))]

(* The dump with the values set; flags and bounds are the model's. *)
OutputOf(m, rep) == [m EXCEPT !.value = Written(m, rep)]

(* The markers stay on the member the engine reported. *)
InheritedByNone(rep, marked) == marked

(* A derived representative inherits the markers of the member reported.   *)
Inherited(rep, marked) ==
    marked \cup {g \in Reps : Reported(rep, g) /\ Stand(rep, g) \in marked}

(* What the engine moved without being asked is not looked for. *)
HeldMovedUnseen(m, rep) == {}

(* The engine moved what the user holds (formatting noise is not a move).  *)
HeldMoved(m, rep) ==
    {p \in rep.at : ~ m.flag[p] /\ ~ Near(rep.value[p], m.value[p])}

(* A reported member that disagrees with its tie. *)
Disagrees(m, rep) ==
    {p \in rep.at \cap Free : Rep[p] # p
        /\ ~ Near(rep.value[p], Tied(p, RepValue(m, rep, Rep[p])))}

(* Re-validation of the output recipe: refused, a value it would derive    *)
(* again, or an atom on a site of another multiplicity.                    *)
Refused(engine, out) == ~ Accepts(engine, out)
Rederived(out) == Noted(out)
MultiplicityChanges(out) == OnSpecial(out.value)

Valid(engine, m, rep) ==
    /\ ~ rep.unknown
    /\ HeldMoved(m, rep) = {}
    /\ Disagrees(m, rep) = {}
    /\ ~ Refused(engine, OutputOf(m, rep))
    /\ Rederived(OutputOf(m, rep)) = {}
    /\ ~ MultiplicityChanges(OutputOf(m, rep))

Disposition(m, rep, left, p) ==
    IF p \in left THEN "default_applied"
    ELSE IF Tie(p) \in {"member", "fixed"} THEN "held_by_symmetry"
    ELSE IF ~ m.flag[p] THEN "held_by_user"
    ELSE IF p \in Inherited(rep, rep.notVaried) THEN "requested_not_varied"
    ELSE "varied"

DISPOSITIONS == {"varied", "held_by_user", "held_by_symmetry",
                 "requested_not_varied", "default_applied"}

(* The rows of parameter_dispositions. *)
Rows(m, rep, left) ==
    [p \in Param |-> [disposition |-> Disposition(m, rep, left, p),
                      atLimit |-> p \in Inherited(rep, rep.atLimit)]]
==============================================================================
