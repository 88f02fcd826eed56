------------------------------ MODULE TopasRun ------------------------------
(***************************************************************************)
(* One topas.* run after another in one output directory, with tc.exe as a *)
(* process of its own (gateways/topas/native_run.py, runner.py,            *)
(* gateway.py): it reads the INP it is given, writes its files one by one, *)
(* may hang, may stop half-way, and says nothing by its exit code.  The    *)
(* Python process that waits for it may be killed; tc.exe then lives on.   *)
(*                                                                         *)
(* A file is the run that wrote it, the fit it describes, whether every    *)
(* number in it is finite, and whether it is all there.                    *)
(***************************************************************************)
EXTENDS Naturals

CONSTANTS
    MaxRuns,  \* bound on the runs in the directory
    Jobs,     \* the recipes and settings a run may have
    NoFile,   \* what the directory holds under a name nobody wrote
    NoTc      \* no tc.exe

VARIABLES
    run,      \* the current run, or the last one
    job,      \* its recipe and settings
    pc,       \* where its Python process is
    dir,      \* the files of the directory
    child,    \* the tc.exe it waits for
    orphans,  \* the tc.exe of runs that were killed
    note,     \* the background run was stopped at the time limit
    alone,    \* no orphan was left when the run removed the old files
    built,    \* what the result of the last run was built from
    outcome   \* how the last run ended

vars == <<run, job, pc, dir, child, orphans, note, alone, built, outcome>>

Setting   == {"unset", "zero", "limit", "invalid"}
Installed == {"none", "declared", "undeclared", "another version"}
Job       == [phases : BOOLEAN, background : BOOLEAN, option : Setting,
              config : Setting, installed : Installed]
Run       == 1 .. MaxRuns
Content   == [by : Run, fit : Run, finite : BOOLEAN, whole : BOOLEAN]
File      == {"inp", "results", "profile", "reflections", "bkg_inp", "bkg_profile"}
Tc        == [by : Run, fit : Run, left : SUBSET File]
Stage     == {"idle", "input", "discover", "forget", "start", "tc", "check",
              "background", "bkg_start", "bkg_tc", "read"}
Outcome   == {"none", "refused", "generated", "ok", "killed", "error", "timeout",
              "backend_error", "engine_crashed", "output_missing",
              "output_malformed", "diverged"}
NotBuilt  == [from |-> {}, column |-> "none", bkg |-> NoFile, warned |-> FALSE]

ASSUME RunsAssumption  == MaxRuns \in Nat
ASSUME JobsAssumption  == Jobs \subseteq Job
ASSUME NamesAssumption == NoFile \notin Content /\ NoTc \notin Tc

Expected == {"results", "profile"} \cup (IF job.phases THEN {"reflections"} ELSE {})

(* The option, else the configuration, else an hour; 0 is no limit.        *)
ConfiguredTimeout(j) ==
    LET value == IF j.option # "unset" THEN j.option ELSE j.config
    IN  CASE value = "unset" -> "limit"
          [] value = "zero"  -> "never"
          [] OTHER           -> value

Limited == ConfiguredTimeout(job) = "limit"

Init ==
    /\ run = 0
    /\ job \in Jobs
    /\ pc = "idle"
    /\ dir = [f \in File |-> NoFile]
    /\ child = NoTc
    /\ orphans = {}
    /\ note = FALSE
    /\ alone = TRUE
    /\ built = NotBuilt
    /\ outcome = "none"

Goto(stage) == pc' = stage /\ UNCHANGED outcome
End(how)    == pc' = "idle" /\ outcome' = how
Written(f, content) == dir' = [dir EXCEPT ![f] = content]
Without(names)      == [f \in File |-> IF f \in names THEN NoFile ELSE dir[f]]
Plain == [by |-> run, fit |-> run, finite |-> TRUE, whole |-> TRUE]

(* A time limit that is not a number is refused before anything is written. *)
Begin ==
    /\ pc = "idle"
    /\ run < MaxRuns
    /\ run' = run + 1
    /\ \E j \in Jobs :
          /\ job' = j
          /\ IF ConfiguredTimeout(j) = "invalid" THEN End("refused")
             ELSE pc' = "input" /\ outcome' = "none"
    /\ built' = NotBuilt
    /\ note' = FALSE
    /\ UNCHANGED <<dir, child, orphans, alone>>

WriteInput ==
    /\ pc = "input"
    /\ Written("inp", Plain)
    /\ Goto("discover")
    /\ UNCHANGED <<run, job, child, orphans, note, alone, built>>

(* tc.exe is looked for only where it was declared; its version is the
   declared one, which must be the recipe's.                               *)
Discover ==
    /\ pc = "discover"
    /\ CASE job.installed = "none"     -> End("generated")
         [] job.installed = "declared" -> Goto("forget")
         [] OTHER                      -> End("error")
    /\ UNCHANGED <<run, job, dir, child, orphans, note, alone, built>>

(* What is there is left for tc.exe to overwrite.                          *)
ForgetNothing ==
    /\ pc = "forget"
    /\ Goto("start")
    /\ alone' = (orphans = {})
    /\ UNCHANGED <<run, job, dir, child, orphans, note, built>>

Forget ==
    /\ pc = "forget"
    /\ dir' = Without(Expected)
    /\ alone' = (orphans = {})
    /\ Goto("start")
    /\ UNCHANGED <<run, job, child, orphans, note, built>>

(* tc.exe starts, or it cannot name the folder, or cannot be started.      *)
StartTc ==
    /\ pc = "start"
    /\ \/ child' = [by |-> run, fit |-> run, left |-> Expected] /\ Goto("tc")
       \/ child' = NoTc /\ (End("backend_error") \/ End("engine_crashed"))
    /\ UNCHANGED <<run, job, dir, orphans, note, alone, built>>

-----------------------------------------------------------------------------
(* tc.exe: each file once, in any order, whole or cut off.                 *)
Writes(tc, f) ==
    \E finite, whole \in BOOLEAN :
        Written(f, [by |-> tc.by, fit |-> tc.fit, finite |-> finite, whole |-> whole])

TcWrites ==
    /\ \/ /\ child # NoTc
          /\ \E f \in child.left :
                /\ Writes(child, f)
                /\ child' = [child EXCEPT !.left = @ \ {f}]
          /\ UNCHANGED orphans
       \/ \E tc \in orphans : \E f \in tc.left :
                /\ Writes(tc, f)
                /\ orphans' = (orphans \ {tc}) \cup {[tc EXCEPT !.left = @ \ {f}]}
                /\ UNCHANGED child
    /\ UNCHANGED <<run, job, pc, note, alone, built, outcome>>

TcEnds ==
    /\ \/ /\ child # NoTc
          /\ child' = NoTc
          /\ pc' = IF pc = "tc" THEN "check" ELSE "read"
          /\ UNCHANGED orphans
       \/ \E tc \in orphans : orphans' = orphans \ {tc} /\ UNCHANGED <<child, pc>>
    /\ UNCHANGED <<run, job, dir, note, alone, built, outcome>>

-----------------------------------------------------------------------------
(* The run fails while tc.exe runs on.                                     *)
TimeOutKeepsTc ==
    /\ pc = "tc"
    /\ Limited
    /\ End("timeout")
    /\ UNCHANGED <<run, job, dir, child, orphans, note, alone, built>>

(* subprocess.run stops tc.exe at the limit before it raises.              *)
TimeOut ==
    /\ pc = "tc"
    /\ Limited
    /\ child' = NoTc
    /\ End("timeout")
    /\ UNCHANGED <<run, job, dir, orphans, note, alone, built>>

(* The exit code says nothing: the files do.                               *)
Check ==
    /\ pc = "check"
    /\ IF \E f \in Expected : dir[f] = NoFile THEN End("output_missing")
       ELSE Goto("background")
    /\ UNCHANGED <<run, job, dir, child, orphans, note, alone, built>>

(* The profile of an earlier background run is left in the directory.      *)
BackgroundOverOld ==
    /\ pc = "background"
    /\ IF ~job.background \/ ~dir["results"].finite
       THEN Goto("read") /\ UNCHANGED dir
       ELSE Written("bkg_inp", [Plain EXCEPT !.fit = dir["results"].fit]) /\ Goto("bkg_start")
    /\ UNCHANGED <<run, job, child, orphans, note, alone, built>>

(* The profile of an earlier background run goes first.  Nothing runs without
   a background, or after a fit that diverged; else the background alone is
   written down at the values just read, the recipe's where a results file that
   ends early has none.                                                    *)
Background ==
    /\ pc = "background"
    /\ \/ IF ~job.background \/ ~dir["results"].finite
          THEN dir' = Without({"bkg_profile"}) /\ Goto("read")
          ELSE /\ dir' = [Without({"bkg_profile"}) EXCEPT
                            !["bkg_inp"] = [Plain EXCEPT !.fit = dir["results"].fit]]
               /\ Goto("bkg_start")
       \/ /\ job.background
          /\ ~dir["results"].whole
          /\ dir' = Without({"bkg_profile"})
          /\ End("output_malformed")
    /\ UNCHANGED <<run, job, child, orphans, note, alone, built>>

StartBackground ==
    /\ pc = "bkg_start"
    /\ \/ /\ child' = [by |-> run, fit |-> dir["bkg_inp"].fit, left |-> {"bkg_profile"}]
          /\ Goto("bkg_tc")
       \/ child' = NoTc /\ (End("backend_error") \/ End("engine_crashed"))
    /\ UNCHANGED <<run, job, dir, orphans, note, alone, built>>

(* The limit is not passed on to the background run.                       *)
BackgroundUnlimited ==
    /\ pc = "bkg_tc"
    /\ Limited /\ ~job.background
    /\ child' = NoTc
    /\ Goto("read")
    /\ UNCHANGED <<run, job, dir, orphans, note, alone, built>>

(* A background run past the limit is stopped, what it wrote is removed, and
   the fit's result is kept.                                               *)
BackgroundTimesOut ==
    /\ pc = "bkg_tc"
    /\ Limited
    /\ child' = NoTc
    /\ dir' = Without({"bkg_profile"})
    /\ note' = TRUE
    /\ Goto("read")
    /\ UNCHANGED <<run, job, orphans, alone, built>>

(* y_bkg: zero without a background; the background run's values where it gave
   finite ones, and a warning unless that is everywhere.                   *)
Column ==
    LET bkg == dir["bkg_profile"]
        column == IF ~job.background THEN "zero"
                  ELSE IF bkg = NoFile \/ ~bkg.finite \/ ~bkg.whole THEN "lacking"
                  ELSE "full"
    IN  [from   |-> {dir[f] : f \in Expected},
         column |-> column,
         bkg    |-> IF job.background THEN bkg ELSE NoFile,
         warned |-> column = "lacking"]

(* build_result: a non-finite number in any of the fit's files is a divergence,
   a line it cannot read or a weighted point without a value is malformed
   output.  A results or reflection file that ends early, and a background
   profile that ends between two lines, is not noticed.                    *)
Diverges  == \E f \in Expected : ~dir[f].finite
Malformed == \E f \in Expected \cup (IF job.background /\ dir["bkg_profile"] # NoFile
                                     THEN {"bkg_profile"} ELSE {}) : ~dir[f].whole

BuildResult ==
    /\ pc = "read"
    /\ \/ Diverges /\ End("diverged") /\ UNCHANGED built
       \/ Malformed /\ End("output_malformed") /\ UNCHANGED built
       \/ /\ ~Diverges
          /\ dir["profile"].whole
          /\ built' = Column
          /\ End("ok")
    /\ UNCHANGED <<run, job, dir, child, orphans, note, alone>>

(* The Python process is killed: nobody stops its tc.exe.                  *)
Kill ==
    /\ pc # "idle"
    /\ orphans' = orphans \cup ({child} \ {NoTc})
    /\ child' = NoTc
    /\ End("killed")
    /\ UNCHANGED <<run, job, dir, note, alone, built>>

PowderLine ==
    \/ WriteInput \/ Discover \/ Forget \/ StartTc \/ TimeOut \/ Check
    \/ Background \/ StartBackground \/ BackgroundTimesOut \/ BuildResult

Next == Begin \/ PowderLine \/ TcWrites \/ TcEnds \/ Kill

(* PowderLine's own process is scheduled, and its time limit comes; tc.exe may
   hang for ever.                                                          *)
Spec == Init /\ [][Next]_vars /\ WF_vars(PowderLine)

-----------------------------------------------------------------------------
(* Properties                                                              *)

(* The values of the variables, and: PowderLine waits for a tc.exe exactly
   while it has one, so no way out of run_tc leaves one behind but a kill.  *)
TypeOK ==
    /\ run \in 0 .. MaxRuns
    /\ job \in Job
    /\ pc \in Stage
    /\ dir \in [File -> Content \cup {NoFile}]
    /\ child \in Tc \cup {NoTc}
    /\ orphans \subseteq Tc
    /\ note \in BOOLEAN /\ alone \in BOOLEAN
    /\ outcome \in Outcome
    /\ child # NoTc <=> pc \in {"tc", "bkg_tc"}

(* An ok result was built from files this run's tc.exe wrote, every number in
   them finite and the pattern complete, whatever earlier runs left in the
   directory and however tc.exe ended; unless the tc.exe of a killed run was
   still writing there (native_run.py, "a file left by an earlier run must
   never pass for this run's").                                            *)
OkIsThisRuns ==
    outcome = "ok" /\ alone =>
        /\ \A content \in built.from : content.by = run /\ content.finite
        /\ built.from # {}

(* A y_bkg that is full is this run's background at this run's refined values;
   one that lacks values has its warning; and a background run that was
   stopped costs the fit nothing but the column.                           *)
BackgroundFollowsFit ==
    outcome = "ok" /\ alone =>
        /\ built.column = "full" => built.bkg.by = run /\ built.bkg.fit = run
        /\ built.warned = (job.background /\ built.column # "full")
        /\ note => built.column = "lacking" /\ built.bkg = NoFile

(* A run under a time limit comes to its end, also when tc.exe hangs, in the
   fit or in the background run (native_run.py, run_tc: "must not block
   forever").                                                              *)
RunEnds == (pc # "idle" /\ Limited) ~> (pc = "idle")
=============================================================================
