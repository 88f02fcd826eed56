--------------------------- MODULE OutputDirectory ---------------------------
(***************************************************************************)
(* What powderline.run (api.py) does to an output directory, run after run *)
(* in the same one, with each of the three engines: PowderLine's own files *)
(* are cleared, the engine writes and is read back, PowderLine writes its  *)
(* result tables, and a failed run leaves failure.json.                    *)
(*                                                                         *)
(* A file is abstracted to the run that wrote it; 0 is a missing file.     *)
(* "project" stands for what PowderLine and the engine prepare (.gpx and   *)
(* .lst, or .inp and .xye), "results", "profile", "reflections" and        *)
(* "background" for what TOPAS writes and PowderLine reads back.           *)
(***************************************************************************)
EXTENDS Naturals, Sequences, SequencesExt

CONSTANTS
    Engines,  \* the gateways in use
    MaxRuns,  \* bound on the runs in the directory
    Faults    \* what goes wrong: "interrupt", "write"

ASSUME EnginesAssumption == Engines \subseteq {"gsasii", "topas", "easydiffraction"}
ASSUME MaxRunsAssumption == MaxRuns \in Nat
ASSUME FaultsAssumption  == Faults \subseteq {"interrupt", "write"}

VARIABLES
    run,     \* the current run, or the last one
    recipe,  \* its recipe, as far as the files depend on it
    pc,      \* where it is
    dir,     \* the directory: the run each file is from
    todo,    \* files the run has still to write, in order
    status,  \* the status of the envelope it is working on
    used,    \* the runs whose TOPAS files it has read
    before,  \* the directory as the run found it
    outcome  \* how each run ended

vars == <<run, recipe, pc, dir, todo, status, used, before, outcome>>

Report     == {"fit_profile", "refined_parameters", "phase_report", "spf_report"}
RoundTrip  == {"output_recipe", "parameter_dispositions"}
Own        == Report \cup RoundTrip \cup {"failure"}
EngineFile == {"project", "results", "profile", "reflections", "background"}
File       == Own \cup EngineFile \cup {"diagnostics"}

Run    == 1 .. MaxRuns
Stamp  == 0 .. MaxRuns
Recipe == {r \in [engine : Engines, workflow : {"rietveld", "spf"},
                   background : BOOLEAN, server : BOOLEAN] :
              /\ r.server => r.engine = "gsasii"
              /\ r.engine = "easydiffraction" => r.workflow = "rietveld"}
Stage  == {"idle", "check", "clear", "gateway", "dispatch", "refine", "extract",
           "transfer", "input", "discover", "forget", "tc", "background", "read",
           "fit", "tables", "record"}
Outcome == {"none", "refused", "ok", "generated", "failed", "error", "interrupted"}

TypeOK ==
    /\ run \in Stamp
    /\ recipe \in Recipe
    /\ pc \in Stage
    /\ dir \in [File -> Stamp]
    /\ todo \in Seq(File)
    /\ status \in {"ok", "failed", "generated"}
    /\ used \subseteq Stamp
    /\ before \in [File -> Stamp]
    /\ outcome \in [Run -> Outcome]

Init ==
    /\ run = 0
    /\ recipe \in Recipe
    /\ pc = "idle"
    /\ dir = [f \in File |-> 0]
    /\ todo = <<>>
    /\ status = "ok"
    /\ used = {}
    /\ before = dir
    /\ outcome = [r \in Run |-> "none"]

-----------------------------------------------------------------------------
(* Steps of a run                                                          *)

Goto(stage) == pc' = stage /\ UNCHANGED <<outcome, todo>>

(* The run is over: it returns, or raises.                                 *)
End(how) ==
    /\ pc' = "idle"
    /\ outcome' = [outcome EXCEPT ![run] = how]
    /\ todo' = <<>>

(* EngineExecutionError or ExecutionBackendError: run() records these two. *)
Fail == pc' = "record" /\ todo' = <<>> /\ UNCHANGED outcome

Written(files) == [f \in File |-> IF f \in files THEN run ELSE dir[f]]
Without(files) == [f \in File |-> IF f \in files THEN 0 ELSE dir[f]]

Is(engine) == recipe.engine = engine

-----------------------------------------------------------------------------
(* api.run                                                                 *)

Begin ==
    /\ pc = "idle"
    /\ run < MaxRuns
    /\ run' = run + 1
    /\ recipe' \in Recipe
    /\ pc' = "check"
    /\ before' = dir
    /\ status' = "ok"
    /\ used' = {}
    /\ UNCHANGED <<dir, todo, outcome>>

(* Every fixed name reports.clear_fixed_outputs removes, failure.json
   forgotten.                                                              *)
FixedOutputButFailure == Report \cup RoundTrip

(* FIXED_OUTPUT_NAMES and FIXED_OUTPUT_PATTERNS: not GSAS-II's SPF
   convergence diagnostics.                                                *)
FixedOutput == Own

(* The directory is cleared before the recipe is validated.                *)
CheckTooLate ==
    /\ pc = "check"
    /\ Goto("gateway") \/ End("refused")
    /\ dir' = Without(FixedOutput)
    /\ UNCHANGED <<run, recipe, status, used, before>>

(* An option that is not public, no gateway of that name, an invalid recipe,
   or an engine that is not importable: nothing on disk changes.           *)
Check ==
    /\ pc = "check"
    /\ Goto("clear") \/ End("refused")
    /\ UNCHANGED <<run, recipe, dir, status, used, before>>

(* Removing stops at the first file that cannot be removed, or half-way when
   the process is interrupted.                                             *)
Clear ==
    /\ pc = "clear"
    /\ \/ dir' = Without(FixedOutput) /\ Goto("gateway")
       \/ /\ \E removed \in SUBSET FixedOutput : dir' = Without(removed)
          /\ \/ "write" \in Faults /\ End("error")
             \/ "interrupt" \in Faults /\ End("interrupted")
    /\ UNCHANGED <<run, recipe, status, used, before>>

(* The gateway's own checks, of the engine's version and the options, come
   after the clearing; TOPAS's version check comes later still.            *)
Gateway ==
    /\ pc = "gateway"
    /\ \/ Is("gsasii") /\ Goto(IF recipe.server THEN "dispatch" ELSE "refine")
       \/ Is("topas") /\ Goto("input")
       \/ Is("easydiffraction") /\ Goto("fit")
       \/ End("error")
    /\ UNCHANGED <<run, recipe, dir, status, used, before>>

(* An exception that carries no envelope is not recorded.                  *)
RecordIfCarried ==
    /\ pc = "record"
    /\ dir' \in {Written({"failure"}), dir}
    /\ End("failed")
    /\ UNCHANGED <<run, recipe, status, used, before>>

(* _record_failure, then the exception goes on to the caller.              *)
Record ==
    /\ pc = "record"
    /\ \/ dir' = Written({"failure"}) /\ End("failed")
       \/ "write" \in Faults /\ UNCHANGED dir /\ End("error")
    /\ UNCHANGED <<run, recipe, status, used, before>>

-----------------------------------------------------------------------------
(* GSAS-II                                                                 *)

(* The tables run_refinement may have to write, in its order: no refined
   parameters in a simulation, diagnostics only for a peak that did not
   converge.                                                               *)
Extraction ==
    IF recipe.workflow = "spf"
    THEN {<<"fit_profile", "spf_report">>,
          <<"fit_profile", "spf_report", "diagnostics">>}
    ELSE {<<"fit_profile", "phase_report">>,
          <<"fit_profile", "phase_report", "refined_parameters">>}

(* GSASClient.submit_simulation (see GsasDispatch): the server's envelope
   with the files its job left, or no answer, or a run in this process.  A
   failed job leaves what it had written when it failed.                   *)
Dispatch ==
    /\ pc = "dispatch"
    /\ \/ Goto("refine") /\ UNCHANGED status
       \/ Fail /\ UNCHANGED status
       \/ \E files \in Extraction, n \in 0 .. 3 :
             /\ n <= Len(files)
             /\ pc' = "transfer"
             /\ todo' = <<"project">> \o SubSeq(files, 1, n)
             /\ status' \in {"failed"} \cup (IF n = Len(files) THEN {"ok"} ELSE {})
             /\ UNCHANGED outcome
    /\ UNCHANGED <<run, recipe, dir, used, before>>

(* _materialize skips a file it cannot write.                              *)
TransferWhatItCan ==
    /\ pc = "transfer"
    /\ \/ \E i \in 1 .. Len(todo) :
             /\ dir' \in {Written({todo[i]}), dir}
             /\ todo' = RemoveAt(todo, i)
             /\ UNCHANGED <<pc, outcome>>
       \/ /\ todo = <<>>
          /\ UNCHANGED <<dir, outcome>>
          /\ IF status = "failed" THEN pc' = "record" /\ UNCHANGED todo
             ELSE pc' = "tables" /\ todo' = <<"output_recipe", "parameter_dispositions">>
    /\ UNCHANGED <<run, recipe, status, used, before>>

(* _materialize writes the transferred files; if one cannot be written, those
   before it stay and the run fails with backend_error.                    *)
Transfer ==
    /\ pc = "transfer"
    /\ \/ \E i \in 1 .. Len(todo) :
             /\ dir' = Written({todo[i]})
             /\ todo' = RemoveAt(todo, i)
             /\ UNCHANGED <<pc, outcome>>
       \/ "write" \in Faults /\ todo # <<>> /\ Fail /\ UNCHANGED dir
       \/ /\ todo = <<>>
          /\ UNCHANGED <<dir, outcome>>
          /\ IF status = "failed" THEN pc' = "record" /\ UNCHANGED todo
             ELSE pc' = "tables" /\ todo' = <<"output_recipe", "parameter_dispositions">>
    /\ UNCHANGED <<run, recipe, status, used, before>>

(* run_refinement up to PowderLine's checks of the fit: GSAS-II's own files,
   and no table yet.                                                       *)
Refine ==
    /\ pc = "refine"
    /\ dir' = Written({"project"})
    /\ \/ Fail
       \/ pc' = "extract" /\ todo' \in Extraction /\ UNCHANGED outcome
    /\ UNCHANGED <<run, recipe, status, used, before>>

(* The extraction: each helper computes a table and writes it.  An exception,
   such as the RuntimeError for a varyList without parameters, fails the run
   where it is; a refined_parameters.csv that fails is left out.           *)
Extract ==
    /\ pc = "extract"
    /\ \/ /\ todo # <<>>
          /\ dir' = Written({Head(todo)})
          /\ todo' = Tail(todo)
          /\ UNCHANGED <<pc, outcome>>
       \/ /\ IF todo # <<>> /\ Head(todo) = "refined_parameters"
             THEN todo' = Tail(todo) /\ UNCHANGED <<pc, outcome>>
             ELSE Fail
          /\ UNCHANGED dir
       \/ /\ todo = <<>>
          /\ pc' = "tables"
          /\ todo' = <<"output_recipe", "parameter_dispositions">>
          /\ UNCHANGED <<dir, outcome>>
    /\ UNCHANGED <<run, recipe, status, used, before>>

-----------------------------------------------------------------------------
(* TOPAS                                                                   *)

(* The files build_result needs.                                           *)
Expected == {"results", "profile"}
            \cup (IF recipe.workflow = "rietveld" THEN {"reflections"} ELSE {})

WriteInput ==
    /\ pc = "input"
    /\ \/ dir' = Written({"project"}) /\ Goto("discover")
       \/ "write" \in Faults /\ UNCHANGED dir /\ End("error")
    /\ UNCHANGED <<run, recipe, status, used, before>>

(* Without tc.exe the run only generates the input; with it, the declared
   version must be the recipe's.                                           *)
Discover ==
    /\ pc = "discover"
    /\ \/ /\ pc' = "tables"
          /\ todo' = <<"output_recipe", "parameter_dispositions">>
          /\ status' = "generated"
          /\ UNCHANGED outcome
       \/ Goto("forget") /\ UNCHANGED status
       \/ End("error") /\ UNCHANGED status
    /\ UNCHANGED <<run, recipe, dir, used, before>>

(* Results of an earlier run are left for tc.exe to overwrite.             *)
ForgetNothing ==
    /\ pc = "forget"
    /\ Goto("tc")
    /\ UNCHANGED <<run, recipe, dir, status, used, before>>

Forget ==
    /\ pc = "forget"
    /\ \/ dir' = Without(Expected) /\ Goto("tc")
       \/ "write" \in Faults /\ UNCHANGED dir /\ End("error")
    /\ UNCHANGED <<run, recipe, status, used, before>>

(* tc.exe writes what it can, and its exit code is ignored: it ends, is
   stopped at the time limit, or cannot be started.                        *)
RunTc ==
    /\ pc = "tc"
    /\ \E files \in SUBSET Expected :
          /\ dir' = Written(files)
          /\ \/ Fail
             \/ (\A f \in Expected : dir'[f] # 0) /\ Goto("background")
    /\ UNCHANGED <<run, recipe, status, used, before>>

(* _run_background removes the profile of an earlier background run.  It is
   skipped without a background or when the fit diverged; a background run
   that is stopped leaves no profile, and one that cannot start, or whose
   input cannot be written, fails.                                         *)
Background ==
    /\ pc = "background"
    /\ \/ /\ ~recipe.background
          /\ dir' = Without({"background"})
          /\ Goto("read")
          /\ UNCHANGED used
       \/ /\ recipe.background
          /\ used' = used \cup {dir["results"]}
          /\ \/ dir' = Without({"background"}) /\ (Goto("read") \/ Fail \/ End("error"))
             \/ dir' = Written({"background"}) /\ Goto("read")
    /\ UNCHANGED <<run, recipe, status, before>>

Sources == Expected \cup (IF recipe.background /\ dir["background"] # 0
                          THEN {"background"} ELSE {})

(* The peak report under a name of its own.                                *)
NativeTablesUnlisted ==
    <<"refined_parameters", "fit_profile",
      IF recipe.workflow = "spf" THEN "peaks" ELSE "phase_report",
      "output_recipe", "parameter_dispositions">>

(* The tables of TOPAS and easydiffraction, then the output recipe.        *)
NativeTables ==
    <<"refined_parameters", "fit_profile",
      IF recipe.workflow = "spf" THEN "spf_report" ELSE "phase_report",
      "output_recipe", "parameter_dispositions">>

(* The tables are written as they are read, the reflection lists last.     *)
ReadLate ==
    /\ pc = "read"
    /\ used' = used \cup {dir[f] : f \in Sources}
    /\ \/ Fail /\ dir' = Written({"refined_parameters"})
       \/ pc' = "tables" /\ todo' = NativeTables /\ UNCHANGED <<dir, outcome>>
    /\ UNCHANGED <<run, recipe, status, before>>

(* build_result reads everything, and refuses a malformed or a non-finite
   number, before the first table is written.  Text it cannot decode is an
   exception that run() does not record.                                   *)
Read ==
    /\ pc = "read"
    /\ used' = used \cup {dir[f] : f \in Sources}
    /\ \/ Fail
       \/ End("error")
       \/ pc' = "tables" /\ todo' = NativeTables /\ UNCHANGED outcome
    /\ UNCHANGED <<run, recipe, dir, status, before>>

-----------------------------------------------------------------------------
(* easydiffraction: no files of the engine; a fit that fails, or a result
   that is refused, before the first table is written.                     *)
Fit ==
    /\ pc = "fit"
    /\ \/ Fail
       \/ pc' = "tables" /\ todo' = NativeTables /\ UNCHANGED outcome
    /\ UNCHANGED <<run, recipe, dir, status, used, before>>

(* The writers of reports.py and roundtrip.attach; an OSError from here is
   neither of the two exceptions run() records.                            *)
WriteTable ==
    /\ pc = "tables"
    /\ \/ /\ todo # <<>>
          /\ dir' = Written({Head(todo)})
          /\ todo' = Tail(todo)
          /\ UNCHANGED <<pc, outcome>>
       \/ "write" \in Faults /\ todo # <<>> /\ End("error") /\ UNCHANGED dir
       \/ todo = <<>> /\ End(status) /\ UNCHANGED dir
    /\ UNCHANGED <<run, recipe, status, used, before>>

-----------------------------------------------------------------------------
(* Ctrl-C, or any exception of the process itself: subprocess.run stops
   tc.exe on its way out.                                                  *)
Interrupt ==
    /\ "interrupt" \in Faults
    /\ pc # "idle"
    /\ End("interrupted")
    /\ UNCHANGED <<run, recipe, dir, status, used, before>>

Next ==
    \/ Begin \/ Check \/ Clear \/ Gateway \/ Record
    \/ Dispatch \/ Transfer \/ Refine \/ Extract
    \/ WriteInput \/ Discover \/ Forget \/ RunTc \/ Background \/ Read
    \/ Fit \/ WriteTable
    \/ Interrupt

Spec == Init /\ [][Next]_vars

-----------------------------------------------------------------------------
(* Properties                                                              *)

(* The last run is over, and ended so.                                     *)
Over(how) == pc = "idle" /\ run # 0 /\ outcome[run] \in how

(* From the clearing on, and in what a run leaves, every file PowderLine names
   is of this run: never a table or a failure.json of an earlier one, however
   that one ended (reports.clear_fixed_outputs).  GSAS-II's convergence
   diagnostics are the documented exception.                               *)
OneRunPerDirectory ==
    pc \notin {"idle", "check", "clear"} \/ Over({"ok", "generated", "failed"})
        => \A f \in Own : dir[f] \in {0, run}

(* An invalid recipe or a missing engine costs the directory nothing.      *)
RefusedKeepsResults == Over({"refused"}) => dir = before

(* A run that returned ok has all its tables and its output recipe in the
   directory, and no failure.json beside them.                             *)
OkIsComplete ==
    Over({"ok"}) =>
        /\ dir["fit_profile"] = run
        /\ dir[IF recipe.workflow = "spf" THEN "spf_report" ELSE "phase_report"] = run
        /\ recipe.engine # "gsasii" => dir["refined_parameters"] = run
        /\ \A f \in RoundTrip : dir[f] = run
        /\ dir["failure"] = 0

(* A failure.json in a directory is the record of a run that failed, and a
   failed run leaves one.                                                  *)
FailureIsRecorded ==
    /\ Over({"failed"}) => dir["failure"] = run
    /\ dir["failure"] # 0 => outcome[dir["failure"]] = "failed"

(* A failed TOPAS or easydiffraction run leaves no table, only the engine's
   files and failure.json: build_result refuses before it writes.          *)
NativeFailsClean ==
    Over({"failed"}) /\ recipe.engine # "gsasii"
        => \A f \in Report \cup RoundTrip : dir[f] = 0

(* native_run.py: a file left by an earlier run never passes for this run's,
   when tc.exe writes only part of its files, and whatever runs before left. *)
ReadsOwnFiles == used \subseteq {run}

(* docs/concepts/results.md: "a table in the folder comes from a run that
   succeeded".                                                             *)
TablesComeFromSuccess ==
    pc = "idle" => \A f \in Report : dir[f] # 0 => outcome[dir[f]] = "ok"
=============================================================================
