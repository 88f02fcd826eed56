--------------------------- MODULE TopasRunProofs ---------------------------
(***************************************************************************)
(* What TopasRun promises for any number of runs, any recipes and settings *)
(* and any tc.exe left behind: an ok result is this run's.                 *)
(*                                                                         *)
(* The promises speak of runs that are over.  The invariant says at each   *)
(* stage whose files there can be, and which tc.exe may still write.       *)
(***************************************************************************)
EXTENDS TopasRun, TLAPS

(* The stages after the old files were removed, and after the fit.         *)
Forgotten == {"start", "tc", "check", "background", "bkg_start", "bkg_tc", "read"}
Fitted    == {"background", "bkg_start", "bkg_tc", "read"}

Begun == (pc # "idle" => run \in Run) /\ (outcome = "ok" => pc = "idle")

(* The tc.exe PowderLine waits for is this run's and writes only the files *)
(* of its stage; without an orphan its fit is this run's too.              *)
ChildIsOwn ==
    child # NoTc =>
        /\ child.by = run
        /\ pc = "tc" => child.fit = run /\ child.left \subseteq Expected
        /\ pc = "bkg_tc" => /\ alone => child.fit = run
                            /\ child.left \subseteq {"bkg_profile"}

(* An orphan of a killed run can only be older than the removal.           *)
NoOrphans == pc \in Forgotten /\ alone => orphans = {}

(* Hence the fit's files are absent or this run's from the removal on, and *)
(* there once tc.exe has been checked.                                     *)
FilesOwn ==
    /\ pc \in Forgotten /\ alone =>
          \A f \in Expected : dir[f] # NoFile => dir[f].by = run /\ dir[f].fit = run
    /\ pc \in Fitted => \A f \in Expected : dir[f] # NoFile

(* The background run works at this run's fit, after the old profile went. *)
BackgroundOwn ==
    /\ pc \in {"bkg_start", "bkg_tc"} => job.background
    /\ pc = "bkg_start" => /\ dir["bkg_inp"] # NoFile
                           /\ alone => /\ dir["bkg_inp"].fit = run
                                       /\ dir["bkg_profile"] = NoFile
    /\ pc \in {"bkg_tc", "read"} /\ alone /\ dir["bkg_profile"] # NoFile =>
          dir["bkg_profile"].by = run /\ dir["bkg_profile"].fit = run
    /\ note => pc \in {"read", "idle"}
    /\ note /\ pc = "read" => /\ job.background
                              /\ alone => dir["bkg_profile"] = NoFile

TopasInv == /\ TypeOK /\ Begun /\ ChildIsOwn /\ NoOrphans /\ FilesOwn /\ BackgroundOwn
            /\ OkIsThisRuns /\ BackgroundFollowsFit

LEMMA Contents ==
    /\ \A x \in Content : x # NoFile
    /\ \A tc \in Tc : tc # NoTc
    /\ run \in Run => Plain \in Content
BY NamesAssumption DEF Content, Plain

LEMMA ExpectedFiles ==
    /\ Expected \subseteq File /\ "results" \in Expected /\ "profile" \in Expected
    /\ "bkg_profile" \notin Expected /\ "bkg_inp" \notin Expected /\ "inp" \notin Expected
    /\ {"bkg_profile", "bkg_inp", "inp"} \subseteq File
BY DEF Expected, File

LEMMA InitTopasInv == Init => TopasInv
<1> SUFFICES ASSUME Init PROVE TopasInv
  OBVIOUS
<1>1. run \in 0 .. MaxRuns /\ job \in Job /\ dir \in [File -> Content \cup {NoFile}]
  BY RunsAssumption, JobsAssumption DEF Init
<1>2. TypeOK
  <2>1. child = NoTc /\ pc = "idle" /\ pc \notin {"tc", "bkg_tc"}
    BY DEF Init
  <2>2. pc \in Stage /\ outcome \in Outcome /\ orphans \subseteq Tc
        /\ note \in BOOLEAN /\ alone \in BOOLEAN
    BY DEF Init, Stage, Outcome
  <2> QED
    BY <1>1, <2>1, <2>2 DEF TypeOK
<1> QED
  BY <1>2 DEF Init, TopasInv, Begun, ChildIsOwn, NoOrphans, FilesOwn, BackgroundOwn,
       OkIsThisRuns, BackgroundFollowsFit, Forgotten, Fitted

LEMMA BeginStep == TopasInv /\ Begin => TopasInv'
<1> SUFFICES ASSUME TopasInv, Begin PROVE TopasInv'
  OBVIOUS
<1>1. run' \in Run /\ pc' \in {"idle", "input"} /\ outcome' \in {"none", "refused"}
      /\ note' = FALSE /\ job' \in Job /\ child = NoTc
      /\ UNCHANGED <<dir, child, orphans, alone>>
  BY RunsAssumption, JobsAssumption DEF Begin, End, TopasInv, TypeOK, Run
<1>2. pc' \in Stage /\ outcome' \in Outcome /\ run' \in 0 .. MaxRuns
      /\ pc' \notin {"tc", "bkg_tc"}
  BY <1>1, RunsAssumption DEF Stage, Outcome, Run
<1>3. TypeOK'
  BY <1>1, <1>2 DEF TopasInv, TypeOK
<1> QED
  BY <1>1, <1>3 DEF TopasInv, Begun, ChildIsOwn, NoOrphans, FilesOwn, BackgroundOwn,
       OkIsThisRuns, BackgroundFollowsFit, Forgotten, Fitted

LEMMA WriteInputStep == TopasInv /\ WriteInput => TopasInv'
<1> SUFFICES ASSUME TopasInv, WriteInput PROVE TopasInv'
  OBVIOUS
<1>1. dir' \in [File -> Content \cup {NoFile}]
  <2>1. Plain \in Content
    BY Contents DEF WriteInput, TopasInv, Begun
  <2> QED BY <2>1 DEF WriteInput, Written, TopasInv, TypeOK
<1>2. TypeOK'
  BY <1>1 DEF WriteInput, Goto, TopasInv, TypeOK, Stage
<1> QED
  BY <1>2 DEF WriteInput, Goto, TopasInv, TypeOK, Begun, ChildIsOwn, NoOrphans, FilesOwn, BackgroundOwn,
       OkIsThisRuns, BackgroundFollowsFit, Forgotten, Fitted

LEMMA DiscoverStep == TopasInv /\ Discover => TopasInv'
<1> SUFFICES ASSUME TopasInv, Discover PROVE TopasInv'
  OBVIOUS
<1>1. \/ pc' = "forget" /\ outcome' = outcome
      \/ pc' = "idle" /\ outcome' \in {"generated", "error"}
  BY DEF Discover, Goto, End
<1>2. TypeOK'
  BY <1>1 DEF Discover, TopasInv, TypeOK, Stage, Outcome
<1> QED
  BY <1>1, <1>2 DEF Discover, TopasInv, TypeOK, Begun, ChildIsOwn, NoOrphans, FilesOwn, BackgroundOwn,
       OkIsThisRuns, BackgroundFollowsFit, Forgotten, Fitted

LEMMA ForgetStep == TopasInv /\ Forget => TopasInv'
<1> SUFFICES ASSUME TopasInv, Forget PROVE TopasInv'
  OBVIOUS
<1>1. TypeOK'
  BY DEF Forget, Without, Goto, TopasInv, TypeOK, Stage
<1>2. \A f \in Expected : dir'[f] = NoFile
  BY ExpectedFiles DEF Forget, Without
<1>3. Expected' = Expected
  BY DEF Forget, Expected
<1> QED
  BY <1>1, <1>2, <1>3 DEF Forget, Goto, TopasInv, TypeOK, Begun, ChildIsOwn, NoOrphans, FilesOwn, BackgroundOwn,
       OkIsThisRuns, BackgroundFollowsFit, Forgotten, Fitted

LEMMA StartTcStep == TopasInv /\ StartTc => TopasInv'
<1> SUFFICES ASSUME TopasInv, StartTc PROVE TopasInv'
  OBVIOUS
<1>0. Expected' = Expected
  BY DEF StartTc, Expected
<1>1. CASE child' = [by |-> run, fit |-> run, left |-> Expected] /\ Goto("tc")
  <2>1. child' \in Tc
    BY <1>1, ExpectedFiles DEF StartTc, TopasInv, Begun, Tc
  <2>2. TypeOK'
    BY <1>1, <2>1, Contents DEF StartTc, Goto, TopasInv, TypeOK, Stage
  <2> QED
    BY <1>0, <1>1, <2>2 DEF StartTc, Goto, TopasInv, Begun, ChildIsOwn, NoOrphans, FilesOwn, BackgroundOwn,
       OkIsThisRuns, BackgroundFollowsFit, Forgotten, Fitted
<1>2. CASE child' = NoTc /\ (End("backend_error") \/ End("engine_crashed"))
  <2>1. TypeOK'
    BY <1>2 DEF StartTc, End, TopasInv, TypeOK, Stage, Outcome
  <2> QED
    BY <1>2, <2>1 DEF StartTc, End, TopasInv, Begun, ChildIsOwn, NoOrphans, FilesOwn, BackgroundOwn,
       OkIsThisRuns, BackgroundFollowsFit, Forgotten, Fitted
<1> QED BY <1>1, <1>2 DEF StartTc

(* A tc.exe that writes: the run's own writes its own files; an orphan may *)
(* write only where the promises are not made.                             *)
LEMMA TcWritesStep == TopasInv /\ TcWrites => TopasInv'
<1> SUFFICES ASSUME TopasInv, TcWrites PROVE TopasInv'
  OBVIOUS
<1>0. Expected' = Expected /\ UNCHANGED <<run, job, pc, note, alone, built, outcome>>
  BY DEF TcWrites, Expected
<1>1. ASSUME NEW tc \in Tc, NEW f \in tc.left, Writes(tc, f)
      PROVE  /\ f \in File /\ dir' = [dir EXCEPT ![f] = dir'[f]]
             /\ dir'[f] \in Content /\ dir'[f].by = tc.by /\ dir'[f].fit = tc.fit
  <2>1. PICK finite \in BOOLEAN, whole \in BOOLEAN :
          dir' = [dir EXCEPT ![f] = [by |-> tc.by, fit |-> tc.fit,
                                     finite |-> finite, whole |-> whole]]
    BY <1>1 DEF Writes, Written
  <2>2. f \in File /\ tc.by \in Run /\ tc.fit \in Run
    BY DEF Tc
  <2>3. dir'[f] = [by |-> tc.by, fit |-> tc.fit, finite |-> finite, whole |-> whole]
    BY <2>1, <2>2 DEF TopasInv, TypeOK
  <2>4. dir' = [dir EXCEPT ![f] = dir'[f]]
    BY <2>1, <2>3
  <2>5. dir'[f] \in Content
    BY <2>2, <2>3 DEF Content
  <2>6. dir'[f].by = tc.by /\ dir'[f].fit = tc.fit
    BY <2>3
  <2> QED BY <2>2, <2>4, <2>5, <2>6
<1>2. CASE child # NoTc /\ \E f \in child.left :
             Writes(child, f) /\ child' = [child EXCEPT !.left = @ \ {f}] /\ UNCHANGED orphans
  <2>1. PICK f \in child.left :
             Writes(child, f) /\ child' = [child EXCEPT !.left = @ \ {f}] /\ UNCHANGED orphans
    BY <1>2
  <2>2. child \in Tc
    BY <1>2 DEF TopasInv, TypeOK
  <2>3. /\ f \in File /\ dir' = [dir EXCEPT ![f] = dir'[f]]
        /\ dir'[f] \in Content /\ dir'[f].by = child.by /\ dir'[f].fit = child.fit
    BY <1>1, <2>1, <2>2
  <2>4. child' \in Tc /\ child'.by = child.by /\ child'.fit = child.fit
        /\ child'.left \subseteq child.left
    BY <2>1, <2>2 DEF Tc
  <2>5. TypeOK'
    BY <1>0, <1>2, <2>1, <2>3, <2>4, Contents DEF TopasInv, TypeOK
  <2>6. pc \in {"tc", "bkg_tc"} /\ dir'[f] # NoFile
    BY <1>2, <2>3, Contents DEF TopasInv, TypeOK
  <2>7. \A g \in File \ {f} : dir'[g] = dir[g]
    BY <2>3 DEF TopasInv, TypeOK
  <2>8. CASE pc = "tc"
    BY <1>0, <1>2, <2>1, <2>3, <2>4, <2>5, <2>6, <2>7, <2>8, ExpectedFiles
       DEF TopasInv, Begun, ChildIsOwn, NoOrphans, FilesOwn, BackgroundOwn,
           OkIsThisRuns, BackgroundFollowsFit, Forgotten, Fitted
  <2>9. CASE pc = "bkg_tc"
    <3>1. f = "bkg_profile"
      BY <1>2, <2>1, <2>9 DEF TopasInv, ChildIsOwn
    <3> QED
      BY <1>0, <1>2, <2>1, <2>3, <2>4, <2>5, <2>6, <2>7, <2>9, <3>1, ExpectedFiles
         DEF TopasInv, Begun, ChildIsOwn, NoOrphans, FilesOwn, BackgroundOwn,
             OkIsThisRuns, BackgroundFollowsFit, Forgotten, Fitted
  <2> QED BY <2>6, <2>8, <2>9
<1>3. CASE \E tc \in orphans : \E f \in tc.left :
             /\ Writes(tc, f)
             /\ orphans' = (orphans \ {tc}) \cup {[tc EXCEPT !.left = @ \ {f}]}
             /\ UNCHANGED child
  <2>0. PICK tc \in orphans : \E f \in tc.left :
             /\ Writes(tc, f)
             /\ orphans' = (orphans \ {tc}) \cup {[tc EXCEPT !.left = @ \ {f}]}
             /\ UNCHANGED child
    BY <1>3
  <2>1. PICK f \in tc.left :
             /\ Writes(tc, f)
             /\ orphans' = (orphans \ {tc}) \cup {[tc EXCEPT !.left = @ \ {f}]}
             /\ UNCHANGED child
    BY <2>0
  <2>2. tc \in Tc /\ [tc EXCEPT !.left = @ \ {f}] \in Tc
    BY <2>1 DEF TopasInv, TypeOK, Tc
  <2>3. f \in File /\ dir' = [dir EXCEPT ![f] = dir'[f]] /\ dir'[f] \in Content
    BY <1>1, <2>1, <2>2
  <2>4. TypeOK'
    BY <1>0, <2>1, <2>2, <2>3 DEF TopasInv, TypeOK
  <2>5. \A g \in File : dir'[g] = dir[g] \/ dir'[g] # NoFile
    BY <2>3, Contents DEF TopasInv, TypeOK
  <2>6. ~ (pc \in Forgotten /\ alone)
    BY <2>1 DEF TopasInv, NoOrphans
  <2> QED
    BY <1>0, <2>1, <2>4, <2>5, <2>6, ExpectedFiles
       DEF TopasInv, Begun, ChildIsOwn, NoOrphans, FilesOwn, BackgroundOwn,
           OkIsThisRuns, BackgroundFollowsFit, Forgotten, Fitted
<1> QED BY <1>2, <1>3 DEF TcWrites

LEMMA TcEndsStep == TopasInv /\ TcEnds => TopasInv'
<1> SUFFICES ASSUME TopasInv, TcEnds PROVE TopasInv'
  OBVIOUS
<1>0. Expected' = Expected /\ UNCHANGED <<run, job, dir, note, alone, built, outcome>>
  BY DEF TcEnds, Expected
<1>1. CASE child # NoTc /\ child' = NoTc /\ UNCHANGED orphans
           /\ pc' = IF pc = "tc" THEN "check" ELSE "read"
  <2>1. pc \in {"tc", "bkg_tc"}
    BY <1>1 DEF TopasInv, TypeOK
  <2>2. TypeOK'
    BY <1>0, <1>1 DEF TopasInv, TypeOK, Stage
  <2> QED
    BY <1>0, <1>1, <2>1, <2>2 DEF TopasInv, Begun, ChildIsOwn, NoOrphans, FilesOwn, BackgroundOwn,
           OkIsThisRuns, BackgroundFollowsFit, Forgotten, Fitted
<1>2. CASE \E tc \in orphans : orphans' = orphans \ {tc} /\ UNCHANGED <<child, pc>>
  <2>1. TypeOK'
    BY <1>0, <1>2 DEF TopasInv, TypeOK
  <2> QED
    BY <1>0, <1>2, <2>1 DEF TopasInv, Begun, ChildIsOwn, NoOrphans, FilesOwn, BackgroundOwn,
           OkIsThisRuns, BackgroundFollowsFit, Forgotten, Fitted
<1> QED BY <1>1, <1>2 DEF TcEnds

(* A run that ends without a result: refused, stopped, killed.             *)
LEMMA EndsWithout ==
    ASSUME TopasInv, pc' = "idle", child' = NoTc, outcome' \in Outcome \ {"ok"},
           orphans' \subseteq Tc, UNCHANGED <<run, job, note, alone, built>>,
           dir' \in [File -> Content \cup {NoFile}]
    PROVE  TopasInv'
<1>1. TypeOK'
  BY DEF TopasInv, TypeOK, Stage
<1> QED
  BY <1>1 DEF TopasInv, Begun, ChildIsOwn, NoOrphans, FilesOwn, BackgroundOwn,
       OkIsThisRuns, BackgroundFollowsFit, Forgotten, Fitted

LEMMA TimeOutStep == TopasInv /\ TimeOut => TopasInv'
BY EndsWithout DEF TimeOut, End, TopasInv, TypeOK, Outcome

LEMMA KillStep == TopasInv /\ Kill => TopasInv'
BY EndsWithout DEF Kill, End, TopasInv, TypeOK, Outcome

LEMMA CheckStep == TopasInv /\ Check => TopasInv'
<1> SUFFICES ASSUME TopasInv, Check PROVE TopasInv'
  OBVIOUS
<1>0. child = NoTc /\ UNCHANGED <<run, job, dir, child, orphans, note, alone, built>>
  BY DEF Check, TopasInv, TypeOK
<1>1. CASE End("output_missing")
  BY <1>0, <1>1, EndsWithout DEF End, TopasInv, TypeOK, Outcome
<1>2. CASE Goto("background") /\ \A f \in Expected : dir[f] # NoFile
  <2>1. TypeOK'
    BY <1>0, <1>2 DEF Check, Goto, TopasInv, TypeOK, Stage
  <2>2. Expected' = Expected
    BY <1>0 DEF Expected
  <2> QED
    BY <1>0, <1>2, <2>1, <2>2 DEF Check, Goto, TopasInv, Begun, ChildIsOwn, NoOrphans, FilesOwn,
       BackgroundOwn, OkIsThisRuns, BackgroundFollowsFit, Forgotten, Fitted
<1> QED BY <1>1, <1>2 DEF Check

(* The background's INP is written at the values of this run's results.    *)
LEMMA BackgroundStep == TopasInv /\ Background => TopasInv'
<1> SUFFICES ASSUME TopasInv, Background PROVE TopasInv'
  OBVIOUS
<1>0. /\ pc = "background" /\ child = NoTc
      /\ UNCHANGED <<run, job, child, orphans, note, alone, built>> /\ Expected' = Expected
  BY DEF Background, TopasInv, TypeOK, Expected
<1> DEFINE gone == Without({"bkg_profile"})
           inp  == [Plain EXCEPT !.fit = dir["results"].fit]
<1>1. gone \in [File -> Content \cup {NoFile}] /\ gone["bkg_profile"] = NoFile
      /\ \A f \in Expected : gone[f] = dir[f]
  BY ExpectedFiles DEF Without, TopasInv, TypeOK
<1>2. dir["results"] \in Content /\ inp \in Content /\ inp.fit = dir["results"].fit
  BY <1>0, ExpectedFiles DEF TopasInv, TypeOK, FilesOwn, Fitted, Begun, Content, Plain
<1>3. CASE dir' = gone /\ Goto("read")
  <2>1. TypeOK'
    BY <1>0, <1>1, <1>3 DEF Goto, TopasInv, TypeOK, Stage
  <2> QED
    BY <1>0, <1>1, <1>3, <2>1 DEF Goto, TopasInv, Begun, ChildIsOwn, NoOrphans, FilesOwn,
       BackgroundOwn, OkIsThisRuns, BackgroundFollowsFit, Forgotten, Fitted
<1>4. CASE job.background /\ dir' = [gone EXCEPT !["bkg_inp"] = inp] /\ Goto("bkg_start")
  <2>1. /\ dir' \in [File -> Content \cup {NoFile}] /\ dir'["bkg_inp"] = inp
        /\ dir'["bkg_profile"] = NoFile /\ \A f \in Expected : dir'[f] = dir[f]
    BY <1>1, <1>2, <1>4, ExpectedFiles
  <2>2. TypeOK'
    BY <1>0, <1>4, <2>1 DEF Goto, TopasInv, TypeOK, Stage
  <2>3. inp # NoFile /\ (alone => inp.fit = run)
    BY <1>0, <1>2, Contents, ExpectedFiles DEF TopasInv, FilesOwn, Forgotten, Fitted
  <2> HIDE DEF inp, gone
  <2> QED
    BY <1>0, <1>4, <2>1, <2>2, <2>3 DEF Goto, TopasInv, Begun, ChildIsOwn, NoOrphans, FilesOwn,
       BackgroundOwn, OkIsThisRuns, BackgroundFollowsFit, Forgotten, Fitted
<1>5. CASE dir' = gone /\ End("output_malformed")
  BY <1>0, <1>1, <1>5, EndsWithout DEF End, TopasInv, TypeOK, Outcome
<1> QED BY <1>3, <1>4, <1>5 DEF Background

LEMMA StartBackgroundStep == TopasInv /\ StartBackground => TopasInv'
<1> SUFFICES ASSUME TopasInv, StartBackground PROVE TopasInv'
  OBVIOUS
<1>0. /\ pc = "bkg_start" /\ Expected' = Expected
      /\ UNCHANGED <<run, job, dir, orphans, note, alone, built>>
  BY DEF StartBackground, Expected
<1>1. CASE child' = [by |-> run, fit |-> dir["bkg_inp"].fit, left |-> {"bkg_profile"}]
           /\ Goto("bkg_tc")
  <2>1. dir["bkg_inp"] \in Content
    BY <1>0, ExpectedFiles DEF TopasInv, TypeOK, BackgroundOwn
  <2>2. child' \in Tc
    BY <1>0, <1>1, <2>1, ExpectedFiles DEF TopasInv, Begun, Tc, Content
  <2>3. TypeOK'
    BY <1>0, <1>1, <2>2, Contents DEF Goto, TopasInv, TypeOK, Stage
  <2> QED
    BY <1>0, <1>1, <2>3 DEF Goto, TopasInv, Begun, ChildIsOwn, NoOrphans, FilesOwn,
       BackgroundOwn, OkIsThisRuns, BackgroundFollowsFit, Forgotten, Fitted
<1>2. CASE child' = NoTc /\ (End("backend_error") \/ End("engine_crashed"))
  BY <1>0, <1>2, EndsWithout DEF End, TopasInv, TypeOK, Outcome
<1> QED BY <1>1, <1>2 DEF StartBackground

LEMMA BackgroundTimesOutStep == TopasInv /\ BackgroundTimesOut => TopasInv'
<1> SUFFICES ASSUME TopasInv, BackgroundTimesOut PROVE TopasInv'
  OBVIOUS
<1>0. /\ pc = "bkg_tc" /\ pc' = "read" /\ child' = NoTc /\ note' = TRUE /\ Expected' = Expected
      /\ UNCHANGED <<run, job, orphans, alone, built, outcome>>
  BY DEF BackgroundTimesOut, Goto, Expected
<1>1. dir' \in [File -> Content \cup {NoFile}] /\ dir'["bkg_profile"] = NoFile
      /\ \A f \in Expected : dir'[f] = dir[f]
  BY ExpectedFiles DEF BackgroundTimesOut, Without, TopasInv, TypeOK
<1>2. TypeOK'
  BY <1>0, <1>1 DEF TopasInv, TypeOK, Stage
<1> QED
  BY <1>0, <1>1, <1>2 DEF TopasInv, Begun, ChildIsOwn, NoOrphans, FilesOwn,
       BackgroundOwn, OkIsThisRuns, BackgroundFollowsFit, Forgotten, Fitted

(* A result comes from the files that are there, which are this run's.     *)
LEMMA BuildResultStep == TopasInv /\ BuildResult => TopasInv'
<1> SUFFICES ASSUME TopasInv, BuildResult PROVE TopasInv'
  OBVIOUS
<1>0. /\ pc = "read" /\ child = NoTc
      /\ UNCHANGED <<run, job, dir, child, orphans, note, alone>> /\ Expected' = Expected
  BY DEF BuildResult, TopasInv, TypeOK, Expected
<1>1. CASE UNCHANGED built /\ (End("diverged") \/ End("output_malformed"))
  BY <1>0, <1>1, EndsWithout DEF End, TopasInv, TypeOK, Outcome
<1>2. CASE ~Diverges /\ built' = Column /\ End("ok")
  <2>1. TypeOK'
    BY <1>0, <1>2 DEF End, TopasInv, TypeOK, Stage, Outcome
  <2>2. built'.from = {dir[f] : f \in Expected}
    BY <1>2 DEF Column
  <2>3. alone => \A content \in built'.from : content.by = run /\ content.finite
    BY <1>0, <1>2, <2>2 DEF Diverges, TopasInv, FilesOwn, Forgotten, Fitted
  <2>4. built'.from # {}
    BY <2>2, ExpectedFiles
  <2>5. OkIsThisRuns'
    BY <1>0, <2>3, <2>4 DEF OkIsThisRuns
  <2>6. /\ built'.warned = (job.background /\ built'.column # "full")
        /\ alone /\ built'.column = "full" => built'.bkg.by = run /\ built'.bkg.fit = run
        /\ alone /\ note => built'.column = "lacking" /\ built'.bkg = NoFile
    BY <1>0, <1>2 DEF Column, TopasInv, BackgroundOwn
  <2>7. BackgroundFollowsFit'
    BY <1>0, <2>6 DEF BackgroundFollowsFit
  <2> QED
    BY <1>0, <1>2, <2>1, <2>5, <2>7 DEF End, TopasInv, Begun, ChildIsOwn, NoOrphans, FilesOwn,
       BackgroundOwn, Forgotten, Fitted
<1> QED BY <1>1, <1>2 DEF BuildResult

LEMMA StutterStep == TopasInv /\ UNCHANGED vars => TopasInv'
<1> SUFFICES ASSUME TopasInv, UNCHANGED vars PROVE TopasInv'
  OBVIOUS
<1>1. TypeOK' /\ Expected' = Expected
  BY DEF vars, TopasInv, TypeOK, Expected
<1> QED
  BY <1>1 DEF vars, TopasInv, Begun, ChildIsOwn, NoOrphans, FilesOwn,
       BackgroundOwn, OkIsThisRuns, BackgroundFollowsFit, Forgotten, Fitted

(* The invariant holds of every behaviour.                                 *)
THEOREM TopasInvariant == Spec => []TopasInv
<1>1. TopasInv /\ [Next]_vars => TopasInv'
  BY BeginStep, WriteInputStep, DiscoverStep, ForgetStep, StartTcStep, TcWritesStep, TcEndsStep,
     TimeOutStep, KillStep, CheckStep, BackgroundStep, StartBackgroundStep,
     BackgroundTimesOutStep, BuildResultStep, StutterStep DEF Next, PowderLine
<1> QED BY InitTopasInv, <1>1, PTL DEF Spec

(* The state stays well formed, and PowderLine waits for a tc.exe exactly  *)
(* while it has one: only a kill leaves one behind (run_tc).               *)
THEOREM TopasTypeCorrect == Spec => []TypeOK
<1>1. TopasInv => TypeOK
  BY DEF TopasInv
<1> QED BY TopasInvariant, <1>1, PTL

(* An ok result is built from finite files of this run (run_native, "a     *)
(* file left by an earlier run must never pass for this run's").           *)
THEOREM OkResultsAreThisRuns == Spec => []OkIsThisRuns
<1>1. TopasInv => OkIsThisRuns
  BY DEF TopasInv
<1> QED BY TopasInvariant, <1>1, PTL

(* The background column is of this run's fit, or lacks values and says so *)
(* (_run_background).                                                      *)
THEOREM BackgroundsFollowFits == Spec => []BackgroundFollowsFit
<1>1. TopasInv => BackgroundFollowsFit
  BY DEF TopasInv
<1> QED BY TopasInvariant, <1>1, PTL
=============================================================================
