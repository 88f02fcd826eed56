------------------------ MODULE OutputDirectoryProofs ------------------------
(***************************************************************************)
(* What OutputDirectory promises, for any number of runs, engines and      *)
(* faults.                                                                 *)
(*                                                                         *)
(* None of the promises is inductive: what a run may read and leave        *)
(* depends on how far it is.  DirInv says for each stage which files can   *)
(* be there and from which run.                                            *)
(***************************************************************************)
EXTENDS OutputDirectory, SequenceTheorems, TLAPS

(* Before the clearing the directory is as the run found it.               *)
Untouched ==
    pc \in {"check", "clear"} =>
        /\ dir = before
        /\ \A f \in File : dir[f] < run

(* After it, PowderLine's files are the run's, and failure.json comes last. *)
Cleared ==
    pc \notin {"idle", "check", "clear"} =>
        /\ \A f \in Own : dir[f] \in {0, run}
        /\ dir["failure"] = 0

(* Each gateway keeps to its stages.                                       *)
Stages ==
    /\ pc \in {"dispatch", "refine", "extract", "transfer"} => Is("gsasii")
    /\ pc \in {"input", "discover", "forget", "tc", "background", "read"} => Is("topas")
    /\ pc = "fit" => Is("easydiffraction")

(* TOPAS and easydiffraction write no table before the last stage.         *)
TablesLast ==
    recipe.engine # "gsasii" /\ pc \notin {"idle", "check", "clear", "tables"}
        => \A f \in Report \cup RoundTrip : dir[f] = 0

(* The files TOPAS is to write are gone before it runs, and there after.   *)
Fresh ==
    /\ pc = "tc" => \A f \in Expected : dir[f] = 0
    /\ pc \in {"background", "read"} => \A f \in Expected : dir[f] = run
    /\ pc = "read" => dir["background"] \in {0, run}

(* What a list of files may hold.                                          *)
Entry == File \ {"failure"}

(* No list of files has failure.json, and only a job of the server that
   failed reaches the recording with the status of its envelope.           *)
Listed ==
    /\ todo \in Seq(Entry)
    /\ pc \notin {"idle", "transfer", "record"} => status # "failed"

(* Files are of runs that have begun.                                      *)
Numbered ==
    /\ pc # "idle" => run # 0
    /\ \A f \in File : dir[f] <= run

(* What is promised of the runs that are over.                             *)
Outcomes ==
    /\ OneRunPerDirectory
    /\ RefusedKeepsResults
    /\ FailureIsRecorded
    /\ NativeFailsClean

DirInv ==
    /\ TypeOK
    /\ Listed
    /\ Numbered
    /\ Untouched
    /\ Cleared
    /\ Stages
    /\ TablesLast
    /\ Fresh
    /\ ReadsOwnFiles
    /\ Outcomes

(* Taking an element out of a sequence leaves a sequence.                  *)
LEMMA RemoveAtType ==
    ASSUME NEW S, NEW s \in Seq(S), NEW i \in 1 .. Len(s)
    PROVE  RemoveAt(s, i) \in Seq(S)
<1>1. SubSeq(s, 1, i - 1) \in Seq(S)
  BY SubSeqProperties, LenProperties
<1>2. SubSeq(s, i + 1, Len(s)) \in Seq(S)
  BY SubSeqProperties, LenProperties
<1> QED
  BY <1>1, <1>2, ConcatProperties DEF RemoveAt

(* Every list of files a stage starts from is a list of files.             *)
LEMMA ListTypes ==
    /\ Extraction \subseteq Seq(Entry)
    /\ NativeTables \in Seq(Entry)
    /\ <<"output_recipe", "parameter_dispositions">> \in Seq(Entry)
    /\ <<>> \in Seq(Entry)
<1>1. /\ Report \subseteq Entry
      /\ RoundTrip \subseteq Entry
      /\ "diagnostics" \in Entry
  BY DEF Entry, File, Own, Report, RoundTrip
<1>2. ASSUME NEW x \in Entry, NEW y \in Entry
      PROVE  <<x, y>> \in Seq(Entry)
  OBVIOUS
<1>3. ASSUME NEW x \in Entry, NEW y \in Entry, NEW z \in Entry
      PROVE  <<x, y, z>> \in Seq(Entry)
  OBVIOUS
<1>4. Extraction \subseteq Seq(Entry)
  BY <1>1, <1>2, <1>3 DEF Extraction, Report
<1>5. NativeTables \in Seq(Entry)
  BY <1>1 DEF NativeTables, Report, RoundTrip
<1>6. <<"output_recipe", "parameter_dispositions">> \in Seq(Entry)
  BY <1>1, <1>2 DEF RoundTrip
<1> QED
  BY <1>4, <1>5, <1>6

(* The project file and part of an extraction are a list of files too.     *)
LEMMA TransferType ==
    ASSUME NEW files \in Extraction, NEW n \in 0 .. 3, n <= Len(files)
    PROVE  <<"project">> \o SubSeq(files, 1, n) \in Seq(Entry)
<1>1. files \in Seq(Entry)
  BY ListTypes
<1>2. SubSeq(files, 1, n) \in Seq(Entry)
  BY <1>1, SubSeqProperties, LenProperties
<1>3. <<"project">> \in Seq(Entry)
  BY DEF Entry, File, Own, EngineFile
<1> QED
  BY <1>2, <1>3, ConcatProperties

(* A list of entries is a list of files.                                   *)
LEMMA EntriesAreFiles == Seq(Entry) \subseteq Seq(File)
BY DEF Entry

(* The empty directory before the first run.                               *)
LEMMA InitDirInv == Init => DirInv
BY MaxRunsAssumption, ListTypes, EntriesAreFiles
DEF Init, DirInv, Outcomes, TypeOK, Numbered, FailureIsRecorded, Untouched, Cleared, Stages, TablesLast, Fresh,
    OneRunPerDirectory, RefusedKeepsResults, NativeFailsClean, ReadsOwnFiles, Listed,
    Over, Stamp, Run, Stage, Outcome, File, Own, Is

(* The parts of the directory the steps tell apart.                        *)
LEMMA FileFacts ==
    /\ Own \subseteq File /\ Report \subseteq Own /\ RoundTrip \subseteq Own
    /\ "failure" \in Own /\ "failure" \notin Report \cup RoundTrip
    /\ Expected \subseteq File /\ Expected \cap Own = {}
    /\ "background" \in File /\ "background" \notin Own \cup Expected
    /\ "project" \in File /\ "project" \notin Own \cup Expected
    /\ "results" \in Expected
    /\ FixedOutput = Own
BY DEF File, Own, Report, RoundTrip, EngineFile, Expected, FixedOutput

(* Writing or removing files gives a directory again.                      *)
LEMMA DirType ==
    ASSUME TypeOK, NEW files
    PROVE  /\ Written(files) \in [File -> Stamp]
           /\ Without(files) \in [File -> Stamp]
BY MaxRunsAssumption DEF TypeOK, Written, Without, Stamp

(* What is left of a list of files is a list of files.                     *)
LEMMA TodoType ==
    ASSUME todo \in Seq(Entry)
    PROVE  /\ todo # <<>> => Tail(todo) \in Seq(Entry) /\ Head(todo) \in Entry
           /\ \A i \in 1 .. Len(todo) : RemoveAt(todo, i) \in Seq(Entry) /\ todo[i] \in Entry
BY RemoveAtType, HeadTailProperties, ElementOfSeq

(* Every step leaves a list of files, without failure.json.                *)
LEMMA StepListed ==
  ASSUME Listed, TypeOK, [Next]_vars
  PROVE  Listed'
<1> USE ListTypes, TodoType DEF Listed, Goto, End, Fail
<1>1. CASE Begin
  BY <1>1 DEF Begin
<1>2. CASE Check
  BY <1>2 DEF Check
<1>3. CASE Clear
  BY <1>3 DEF Clear
<1>4. CASE Gateway
  BY <1>4 DEF Gateway
<1>5. CASE Record
  BY <1>5 DEF Record
<1>6. CASE Dispatch
  <2>1. CASE Goto("refine") /\ UNCHANGED status
    BY <1>6, <2>1 DEF Dispatch
  <2>2. CASE Fail /\ UNCHANGED status
    BY <1>6, <2>2
  <2>3. CASE \E files \in Extraction, n \in 0 .. 3 :
                /\ n <= Len(files)
                /\ pc' = "transfer"
                /\ todo' = <<"project">> \o SubSeq(files, 1, n)
    BY <2>3, TransferType
  <2> QED
    BY <1>6, <2>1, <2>2, <2>3 DEF Dispatch
<1>7. CASE Transfer
  BY <1>7 DEF Transfer
<1>8. CASE Refine
  BY <1>8 DEF Refine
<1>9. CASE Extract
  BY <1>9 DEF Extract
<1>10. CASE WriteInput
  BY <1>10 DEF WriteInput
<1>11. CASE Discover
  BY <1>11 DEF Discover
<1>12. CASE Forget
  BY <1>12 DEF Forget
<1>13. CASE RunTc
  BY <1>13 DEF RunTc
<1>14. CASE Background
  BY <1>14 DEF Background
<1>15. CASE Read
  BY <1>15 DEF Read
<1>16. CASE Fit
  BY <1>16 DEF Fit
<1>17. CASE WriteTable
  BY <1>17 DEF WriteTable
<1>18. CASE Interrupt
  BY <1>18 DEF Interrupt
<1>19. CASE UNCHANGED vars
  BY <1>19 DEF vars
<1> QED
  BY <1>1, <1>2, <1>3, <1>4, <1>5, <1>6, <1>7, <1>8, <1>9, <1>10, <1>11, <1>12, <1>13, <1>14, <1>15, <1>16, <1>17, <1>18, <1>19 DEF Next

(* Every step keeps the types, one action at a time.                       *)
LEMMA StepType ==
  ASSUME TypeOK, Listed, [Next]_vars, pc # "idle" => run # 0
  PROVE  TypeOK'
<1>0. todo' \in Seq(File)
  BY StepListed, EntriesAreFiles DEF Listed
<1> USE MaxRunsAssumption, DirType, <1>0
<1> USE DEF TypeOK, Stamp, Run, Stage, Outcome, Goto, End, Fail
<1>1. CASE Begin
  BY <1>1 DEF Begin
<1>2. CASE Check
  BY <1>2 DEF Check
<1>3. CASE Clear
  BY <1>3 DEF Clear
<1>4. CASE Gateway
  BY <1>4 DEF Gateway
<1>5. CASE Record
  BY <1>5 DEF Record
<1>6. CASE Dispatch
  BY <1>6 DEF Dispatch
<1>7. CASE Transfer
  BY <1>7 DEF Transfer
<1>8. CASE Refine
  BY <1>8 DEF Refine
<1>9. CASE Extract
  BY <1>9 DEF Extract
<1>10. CASE WriteInput
  BY <1>10 DEF WriteInput
<1>11. CASE Discover
  BY <1>11 DEF Discover
<1>12. CASE Forget
  BY <1>12 DEF Forget
<1>13. CASE RunTc
  BY <1>13 DEF RunTc
<1>14. CASE Background
  <2>1. dir["results"] \in Stamp
    BY FileFacts
  <2> QED
    BY <1>14, <2>1 DEF Background
<1>15. CASE Read
  <2>1. {dir[f] : f \in Sources} \subseteq Stamp
    BY FileFacts DEF Sources
  <2> QED
    BY <1>15, <2>1 DEF Read
<1>16. CASE Fit
  BY <1>16 DEF Fit
<1>17. CASE WriteTable
  BY <1>17 DEF WriteTable
<1>18. CASE Interrupt
  BY <1>18 DEF Interrupt
<1>19. CASE UNCHANGED vars
  BY <1>19 DEF vars
<1> QED
  BY <1>1, <1>2, <1>3, <1>4, <1>5, <1>6, <1>7, <1>8, <1>9, <1>10, <1>11, <1>12, <1>13, <1>14, <1>15, <1>16, <1>17, <1>18, <1>19 DEF Next

(* Files and their runs are numbers.                                       *)
LEMMA Numbers ==
    ASSUME TypeOK
    PROVE  run \in Nat /\ \A f \in File : dir[f] \in Nat
BY MaxRunsAssumption DEF TypeOK, Stamp

(* What writing or removing files does to each of them.                    *)
LEMMA FilesChange ==
    ASSUME TypeOK, Numbered, NEW files
    PROVE  /\ \A f \in File : Written(files)[f] = IF f \in files THEN run ELSE dir[f]
           /\ \A f \in File : Without(files)[f] = IF f \in files THEN 0 ELSE dir[f]
           /\ \A f \in File : Written(files)[f] <= run /\ Without(files)[f] <= run
BY Numbers DEF Numbered, Written, Without

(* What a step leaves of the recipe's constants.                           *)
LEMMA SameRecipe ==
    ASSUME UNCHANGED recipe
    PROVE  Expected' = Expected /\ \A e : Is(e)' = Is(e)
BY DEF Expected, Is

(* A step on the way keeps what the runs before it left: the checks do not
   touch the directory, and after the clearing failure.json is gone.       *)
LEMMA Going ==
    ASSUME DirInv, UNCHANGED outcome, pc' # "idle", Cleared',
           pc' \in {"check", "clear"} => dir' = dir
    PROVE  Outcomes'
BY DEF DirInv, Cleared, Outcomes, OneRunPerDirectory, RefusedKeepsResults,
       FailureIsRecorded, NativeFailsClean, Over

(* The last step of a run, from what it leaves in the directory.           *)
LEMMA Ending ==
    ASSUME DirInv, NEW how, End(how), pc # "idle", UNCHANGED <<run, recipe>>,
           how = "refused" => dir' = before',
           how \in {"ok", "generated", "failed"}
               => \A f \in Own : dir'[f] \in {0, run},
           IF how = "failed" THEN dir'["failure"] = run
           ELSE dir'["failure"] \in {0, dir["failure"]} /\ dir["failure"] # run,
           how = "failed" /\ recipe.engine # "gsasii"
               => \A f \in Report \cup RoundTrip : dir'[f] = 0
    PROVE  Outcomes'
<1>1. outcome \in [Run -> Outcome] /\ run \in Run
  BY MaxRunsAssumption DEF DirInv, TypeOK, Numbered, Stamp, Run
<1>2. outcome'[run] = how
  BY <1>1 DEF End
<1>3. OneRunPerDirectory' /\ RefusedKeepsResults' /\ NativeFailsClean'
  BY <1>2 DEF End, OneRunPerDirectory, RefusedKeepsResults, NativeFailsClean, Over
<1>4. dir'["failure"] # 0 => outcome'[dir'["failure"]] = "failed"
  <2>1. CASE how = "failed"
    BY <1>2, <2>1
  <2>2. CASE how # "failed" /\ dir'["failure"] = dir["failure"] /\ dir["failure"] # 0
    <3>1. outcome[dir["failure"]] = "failed" /\ dir["failure"] # run
      BY <2>2 DEF DirInv, Outcomes, FailureIsRecorded
    <3>2. dir["failure"] \in Run
      BY <2>2, MaxRunsAssumption, FileFacts DEF DirInv, TypeOK, Stamp, Run
    <3> QED
      BY <1>1, <2>2, <3>1, <3>2 DEF End
  <2> QED
    BY <2>1, <2>2
<1>5. FailureIsRecorded'
  BY <1>2, <1>4 DEF FailureIsRecorded, Over
<1> QED
  BY <1>3, <1>5 DEF Outcomes

(* Every step keeps what is known of each stage, one action at a time.     *)
LEMMA StepDirInv ==
  ASSUME DirInv, [Next]_vars
  PROVE  DirInv'
<1>0. TypeOK /\ TypeOK' /\ Listed /\ Listed' /\ Numbered
  BY StepType, StepListed DEF DirInv, Numbered
<1> USE <1>0, Numbers, FilesChange, FileFacts, SameRecipe
<1> USE DEF Goto, Fail
<1>1. CASE Begin
  <2>1. Numbered' /\ Untouched' /\ Cleared' /\ Stages'
    BY <1>1 DEF DirInv, Begin, Numbered, Untouched, Cleared, Stages, Is, End
  <2>2. TablesLast' /\ Fresh' /\ ReadsOwnFiles'
    BY <1>1 DEF DirInv, Begin, TablesLast, Cleared, Stages, Fresh, ReadsOwnFiles, Is, End
  <2>3. Outcomes'
    BY <1>1, <2>1, Going DEF Begin
  <2> QED
    BY <2>1, <2>2, <2>3 DEF DirInv
<1>2. CASE Check
  <2>1. Numbered' /\ Untouched' /\ Cleared' /\ Stages'
    BY <1>2 DEF DirInv, Check, Numbered, Untouched, Cleared, Stages, Is, End
  <2>2. TablesLast' /\ Fresh' /\ ReadsOwnFiles'
    BY <1>2 DEF DirInv, Check, TablesLast, Cleared, Stages, Fresh, ReadsOwnFiles, Is, End
  <2>3. Outcomes'
    <3>1. CASE UNCHANGED outcome /\ pc' # "idle"
      BY <1>2, <2>1, <3>1, Going DEF Check
    <3>2. CASE End("refused")
      BY <1>2, <3>2, Ending DEF Check, DirInv, Untouched
    <3> QED
      BY <1>2, <3>1, <3>2 DEF Check
  <2> QED
    BY <2>1, <2>2, <2>3 DEF DirInv
<1>3. CASE Clear
  <2>1. Numbered' /\ Untouched' /\ Cleared' /\ Stages'
    BY <1>3 DEF DirInv, Clear, Numbered, Untouched, Cleared, Stages, Is, End
  <2>2. TablesLast' /\ Fresh' /\ ReadsOwnFiles'
    BY <1>3 DEF DirInv, Clear, TablesLast, Cleared, Stages, Fresh, ReadsOwnFiles, Is, End
  <2>3. Outcomes'
    <3>1. CASE UNCHANGED outcome /\ pc' # "idle"
      BY <1>3, <2>1, <3>1, Going DEF Clear, End
    <3>2. CASE End("error")
      BY <1>3, <3>2, Ending DEF Clear, DirInv, Untouched
    <3>3. CASE End("interrupted")
      BY <1>3, <3>3, Ending DEF Clear, DirInv, Untouched
    <3> QED
      BY <1>3, <3>1, <3>2, <3>3 DEF Clear
  <2> QED
    BY <2>1, <2>2, <2>3 DEF DirInv
<1>4. CASE Gateway
  <2>1. Numbered' /\ Untouched' /\ Cleared' /\ Stages'
    BY <1>4 DEF DirInv, Gateway, Numbered, Untouched, Cleared, Stages, Is, End
  <2>2. TablesLast' /\ Fresh' /\ ReadsOwnFiles'
    BY <1>4 DEF DirInv, Gateway, TablesLast, Cleared, Stages, Fresh, ReadsOwnFiles, Is, End
  <2>3. Outcomes'
    <3>1. CASE UNCHANGED outcome /\ pc' # "idle"
      BY <1>4, <2>1, <3>1, Going DEF Gateway
    <3>2. CASE End("error")
      BY <1>4, <3>2, Ending DEF Gateway, DirInv, Cleared, Numbered
    <3> QED
      BY <1>4, <3>1, <3>2 DEF Gateway
  <2> QED
    BY <2>1, <2>2, <2>3 DEF DirInv
<1>5. CASE Record
  <2>1. Numbered' /\ Untouched' /\ Cleared' /\ Stages'
    BY <1>5 DEF DirInv, Record, Numbered, Untouched, Cleared, Stages, Is, End
  <2>2. TablesLast' /\ Fresh' /\ ReadsOwnFiles'
    BY <1>5 DEF DirInv, Record, TablesLast, Cleared, Stages, Fresh, ReadsOwnFiles, Is, End
  <2>3. Outcomes'
    <3>1. CASE End("failed") /\ dir' = Written({"failure"})
      BY <1>5, <3>1, Ending DEF Record, DirInv, Cleared, Numbered, TablesLast
    <3>2. CASE End("error") /\ UNCHANGED dir
      BY <1>5, <3>2, Ending DEF Record, DirInv, Cleared, Numbered
    <3> QED
      BY <1>5, <3>1, <3>2 DEF Record
  <2> QED
    BY <2>1, <2>2, <2>3 DEF DirInv
<1>6. CASE Dispatch
  <2>1. Numbered' /\ Untouched' /\ Cleared' /\ Stages'
    BY <1>6 DEF DirInv, Dispatch, Numbered, Untouched, Cleared, Stages, Is, End
  <2>2. TablesLast' /\ Fresh' /\ ReadsOwnFiles'
    BY <1>6 DEF DirInv, Dispatch, TablesLast, Cleared, Stages, Fresh, ReadsOwnFiles, Is, End
  <2>3. Outcomes'
    BY <1>6, <2>1, Going DEF Dispatch
  <2> QED
    BY <2>1, <2>2, <2>3 DEF DirInv
<1>7. CASE Transfer
  <2>1. Numbered'
    BY <1>7 DEF DirInv, Transfer, Numbered, End
  <2>2. Untouched'
    BY <1>7 DEF DirInv, Transfer, Untouched, Numbered, End
  <2>3. Cleared'
    <3>1. \A i \in 1 .. Len(todo) : todo[i] # "failure"
      BY TodoType DEF Listed, Entry
    <3>2. CASE \E i \in 1 .. Len(todo) : dir' = Written({todo[i]})
      BY <1>7, <3>1, <3>2 DEF DirInv, Transfer, Cleared, End
    <3>3. CASE UNCHANGED dir
      BY <1>7, <3>3 DEF DirInv, Transfer, Cleared, End
    <3> QED
      BY <1>7, <3>2, <3>3 DEF Transfer
  <2>4. Stages'
    BY <1>7 DEF DirInv, Transfer, Stages, Is, End
  <2>5. TablesLast'
    BY <1>7 DEF DirInv, Transfer, TablesLast, Cleared, Stages, Is, End
  <2>6. Fresh'
    BY <1>7 DEF DirInv, Transfer, Fresh, Cleared, End
  <2>7. ReadsOwnFiles'
    BY <1>7 DEF DirInv, Transfer, ReadsOwnFiles, Fresh, End
  <2>8. Outcomes'
    BY <1>7, <2>3, Going DEF Transfer
  <2> QED
    BY <2>1, <2>2, <2>3, <2>4, <2>5, <2>6, <2>7, <2>8 DEF DirInv
<1>8. CASE Refine
  <2>1. Numbered' /\ Untouched' /\ Cleared' /\ Stages'
    BY <1>8 DEF DirInv, Refine, Numbered, Untouched, Cleared, Stages, Is, End
  <2>2. TablesLast' /\ Fresh' /\ ReadsOwnFiles'
    BY <1>8 DEF DirInv, Refine, TablesLast, Cleared, Stages, Fresh, ReadsOwnFiles, Is, End
  <2>3. Outcomes'
    BY <1>8, <2>1, Going DEF Refine
  <2> QED
    BY <2>1, <2>2, <2>3 DEF DirInv
<1>9. CASE Extract
  <2>1. Numbered'
    BY <1>9 DEF DirInv, Extract, Numbered, End
  <2>2. Untouched'
    BY <1>9 DEF DirInv, Extract, Untouched, Numbered, End
  <2>3. Cleared'
    <3>1. todo # <<>> => Head(todo) # "failure"
      BY TodoType DEF Listed, Entry
    <3> QED
      BY <1>9, <3>1 DEF DirInv, Extract, Cleared, End
  <2>4. Stages'
    BY <1>9 DEF DirInv, Extract, Stages, Is, End
  <2>5. TablesLast'
    BY <1>9 DEF DirInv, Extract, TablesLast, Cleared, Stages, Is, End
  <2>6. Fresh'
    BY <1>9 DEF DirInv, Extract, Fresh, Cleared, End
  <2>7. ReadsOwnFiles'
    BY <1>9 DEF DirInv, Extract, ReadsOwnFiles, Fresh, End
  <2>8. Outcomes'
    BY <1>9, <2>3, Going DEF Extract
  <2> QED
    BY <2>1, <2>2, <2>3, <2>4, <2>5, <2>6, <2>7, <2>8 DEF DirInv
<1>10. CASE WriteInput
  <2>1. Numbered' /\ Untouched' /\ Cleared' /\ Stages'
    BY <1>10 DEF DirInv, WriteInput, Numbered, Untouched, Cleared, Stages, Is, End
  <2>2. TablesLast' /\ Fresh' /\ ReadsOwnFiles'
    BY <1>10 DEF DirInv, WriteInput, TablesLast, Cleared, Stages, Fresh, ReadsOwnFiles, Is, End
  <2>3. Outcomes'
    <3>1. CASE UNCHANGED outcome /\ pc' # "idle"
      BY <1>10, <2>1, <3>1, Going DEF WriteInput
    <3>2. CASE End("error")
      BY <1>10, <3>2, Ending DEF WriteInput, DirInv, Cleared, Numbered
    <3> QED
      BY <1>10, <3>1, <3>2 DEF WriteInput
  <2> QED
    BY <2>1, <2>2, <2>3 DEF DirInv
<1>11. CASE Discover
  <2>1. Numbered' /\ Untouched' /\ Cleared' /\ Stages'
    BY <1>11 DEF DirInv, Discover, Numbered, Untouched, Cleared, Stages, Is, End
  <2>2. TablesLast' /\ Fresh' /\ ReadsOwnFiles'
    BY <1>11 DEF DirInv, Discover, TablesLast, Cleared, Stages, Fresh, ReadsOwnFiles, Is, End
  <2>3. Outcomes'
    <3>1. CASE UNCHANGED outcome /\ pc' # "idle"
      BY <1>11, <2>1, <3>1, Going DEF Discover
    <3>2. CASE End("error")
      BY <1>11, <3>2, Ending DEF Discover, DirInv, Cleared, Numbered
    <3> QED
      BY <1>11, <3>1, <3>2 DEF Discover
  <2> QED
    BY <2>1, <2>2, <2>3 DEF DirInv
<1>12. CASE Forget
  <2>1. Numbered' /\ Untouched' /\ Cleared' /\ Stages'
    BY <1>12 DEF DirInv, Forget, Numbered, Untouched, Cleared, Stages, Is, End
  <2>2. TablesLast' /\ Fresh' /\ ReadsOwnFiles'
    BY <1>12 DEF DirInv, Forget, TablesLast, Cleared, Stages, Fresh, ReadsOwnFiles, Is, End
  <2>3. Outcomes'
    <3>1. CASE UNCHANGED outcome /\ pc' # "idle"
      BY <1>12, <2>1, <3>1, Going DEF Forget
    <3>2. CASE End("error")
      BY <1>12, <3>2, Ending DEF Forget, DirInv, Cleared, Numbered
    <3> QED
      BY <1>12, <3>1, <3>2 DEF Forget
  <2> QED
    BY <2>1, <2>2, <2>3 DEF DirInv
<1>13. CASE RunTc
  <2>1. Numbered' /\ Untouched' /\ Cleared' /\ Stages'
    BY <1>13 DEF DirInv, RunTc, Numbered, Untouched, Cleared, Stages, Is, End
  <2>2. TablesLast' /\ Fresh' /\ ReadsOwnFiles'
    BY <1>13 DEF DirInv, RunTc, TablesLast, Cleared, Stages, Fresh, ReadsOwnFiles, Is, End
  <2>3. Outcomes'
    BY <1>13, <2>1, Going DEF RunTc
  <2> QED
    BY <2>1, <2>2, <2>3 DEF DirInv
<1>14. CASE Background
  <2>1. Numbered' /\ Untouched' /\ Cleared' /\ Stages'
    BY <1>14 DEF DirInv, Background, Numbered, Untouched, Cleared, Stages, Is, End
  <2>2. TablesLast' /\ Fresh' /\ ReadsOwnFiles'
    BY <1>14 DEF DirInv, Background, TablesLast, Cleared, Stages, Fresh, ReadsOwnFiles, Is, End
  <2>3. Outcomes'
    <3>1. CASE UNCHANGED outcome /\ pc' # "idle"
      BY <1>14, <2>1, <3>1, Going DEF Background, End
    <3>2. CASE End("error")
      BY <1>14, <3>2, Ending DEF Background, DirInv, Cleared, Numbered
    <3> QED
      BY <1>14, <3>1, <3>2 DEF Background
  <2> QED
    BY <2>1, <2>2, <2>3 DEF DirInv
<1>15. CASE Read
  <2>1. Numbered' /\ Untouched' /\ Cleared' /\ Stages'
    BY <1>15 DEF DirInv, Read, Sources, Numbered, Untouched, Cleared, Stages, Is, End
  <2>2. TablesLast' /\ Fresh' /\ ReadsOwnFiles'
    BY <1>15 DEF DirInv, Read, Sources, TablesLast, Cleared, Stages, Fresh, ReadsOwnFiles, Is, End
  <2>3. Outcomes'
    <3>1. CASE UNCHANGED outcome /\ pc' # "idle"
      BY <1>15, <2>1, <3>1, Going DEF Read
    <3>2. CASE End("error")
      BY <1>15, <3>2, Ending DEF Read, DirInv, Cleared, Numbered
    <3> QED
      BY <1>15, <3>1, <3>2 DEF Read
  <2> QED
    BY <2>1, <2>2, <2>3 DEF DirInv
<1>16. CASE Fit
  <2>1. Numbered' /\ Untouched' /\ Cleared' /\ Stages'
    BY <1>16 DEF DirInv, Fit, Numbered, Untouched, Cleared, Stages, Is, End
  <2>2. TablesLast' /\ Fresh' /\ ReadsOwnFiles'
    BY <1>16 DEF DirInv, Fit, TablesLast, Cleared, Stages, Fresh, ReadsOwnFiles, Is, End
  <2>3. Outcomes'
    BY <1>16, <2>1, Going DEF Fit
  <2> QED
    BY <2>1, <2>2, <2>3 DEF DirInv
<1>17. CASE WriteTable
  <2>1. Numbered'
    BY <1>17 DEF DirInv, WriteTable, Numbered, End
  <2>2. Untouched'
    BY <1>17 DEF DirInv, WriteTable, Untouched, Numbered, End
  <2>3. Cleared'
    <3>1. todo # <<>> => Head(todo) # "failure"
      BY TodoType DEF Listed, Entry
    <3> QED
      BY <1>17, <3>1 DEF DirInv, WriteTable, Cleared, End
  <2>4. Stages'
    BY <1>17 DEF DirInv, WriteTable, Stages, Is, End
  <2>5. TablesLast'
    BY <1>17 DEF DirInv, WriteTable, TablesLast, Cleared, Stages, Is, End
  <2>6. Fresh'
    BY <1>17 DEF DirInv, WriteTable, Fresh, Cleared, End
  <2>7. ReadsOwnFiles'
    BY <1>17 DEF DirInv, WriteTable, ReadsOwnFiles, Fresh, End
  <2>8. Outcomes'
    <3>1. CASE UNCHANGED outcome /\ pc' # "idle"
      BY <1>17, <2>3, <3>1, Going DEF WriteTable
    <3>2. CASE End("error") /\ UNCHANGED dir
      BY <1>17, <3>2, Ending DEF WriteTable, DirInv, Cleared, Listed, Numbered, TypeOK
    <3>3. CASE End(status) /\ UNCHANGED dir
      BY <1>17, <3>3, Ending DEF WriteTable, DirInv, Cleared, Listed, Numbered, TypeOK
    <3> QED
      BY <1>17, <3>1, <3>2, <3>3 DEF WriteTable
  <2> QED
    BY <2>1, <2>2, <2>3, <2>4, <2>5, <2>6, <2>7, <2>8 DEF DirInv
<1>18. CASE Interrupt
  <2>1. Numbered' /\ Untouched' /\ Cleared' /\ Stages'
    BY <1>18 DEF DirInv, Interrupt, Numbered, Untouched, Cleared, Stages, Is, End
  <2>2. TablesLast' /\ Fresh' /\ ReadsOwnFiles'
    BY <1>18 DEF DirInv, Interrupt, TablesLast, Cleared, Stages, Fresh, ReadsOwnFiles, Is, End
  <2>3. Outcomes'
    <3>1. CASE End("interrupted")
      BY <1>18, <3>1, Ending DEF Interrupt, DirInv, Untouched, Cleared, Numbered
    <3> QED
      BY <1>18, <3>1 DEF Interrupt
  <2> QED
    BY <2>1, <2>2, <2>3 DEF DirInv
<1>19. CASE UNCHANGED vars
  BY <1>19 DEF vars, DirInv, Is, Numbered, Untouched, Cleared, Stages, TablesLast, Fresh, OneRunPerDirectory, RefusedKeepsResults, FailureIsRecorded, NativeFailsClean, ReadsOwnFiles, Outcomes, Over
<1> QED
  BY <1>1, <1>2, <1>3, <1>4, <1>5, <1>6, <1>7, <1>8, <1>9, <1>10, <1>11, <1>12, <1>13, <1>14, <1>15, <1>16, <1>17, <1>18, <1>19 DEF Next

(* The invariant holds of every run.                                       *)
LEMMA Invariance == Spec => []DirInv
<1>1. DirInv /\ [Next]_vars => DirInv'
  BY StepDirInv
<1> QED
  BY InitDirInv, <1>1, PTL DEF Spec

(* The state of a run, its directory and its envelope stay well formed.    *)
THEOREM TypeCorrect == Spec => []TypeOK
<1>1. DirInv => TypeOK
  BY DEF DirInv
<1> QED
  BY Invariance, <1>1, PTL

(* No run leaves a file of an earlier run under a name of PowderLine's.    *)
THEOREM DirectoriesAreOfOneRun == Spec => []OneRunPerDirectory
<1>1. DirInv => OneRunPerDirectory
  BY DEF DirInv, Outcomes
<1> QED
  BY Invariance, <1>1, PTL

(* A refused recipe or a missing engine leaves the directory as it was.    *)
THEOREM RefusalsKeepResults == Spec => []RefusedKeepsResults
<1>1. DirInv => RefusedKeepsResults
  BY DEF DirInv, Outcomes
<1> QED
  BY Invariance, <1>1, PTL

(* A failed run leaves failure.json, and failure.json is of a failed run.  *)
THEOREM FailuresAreRecorded == Spec => []FailureIsRecorded
<1>1. DirInv => FailureIsRecorded
  BY DEF DirInv, Outcomes
<1> QED
  BY Invariance, <1>1, PTL

(* TOPAS and easydiffraction leave no table of a run that failed.          *)
THEOREM NativeFailuresAreClean == Spec => []NativeFailsClean
<1>1. DirInv => NativeFailsClean
  BY DEF DirInv, Outcomes
<1> QED
  BY Invariance, <1>1, PTL

(* The results read back are those of the run that reads them.             *)
THEOREM ReadsAreFresh == Spec => []ReadsOwnFiles
<1>1. DirInv => ReadsOwnFiles
  BY DEF DirInv
<1> QED
  BY Invariance, <1>1, PTL
-----------------------------------------------------------------------------
(* A run that returns ok is complete: whatever it owes the directory is    *)
(* there already or still waits in its list of files.                      *)

Waiting(s) == {s[i] : i \in 1 .. Len(s)}

(* The tables every recipe has, and all the files of a run that returns ok. *)
Tables == {"fit_profile", IF recipe.workflow = "spf" THEN "spf_report" ELSE "phase_report"}
Owed   == Tables \cup RoundTrip \cup (IF Is("gsasii") THEN {} ELSE {"refined_parameters"})

Pending ==
    /\ pc = "extract" \/ (pc = "transfer" /\ status # "failed")
         => \A f \in Tables : dir[f] = run \/ f \in Waiting(todo)
    /\ pc = "tables" /\ status # "generated"
         => \A f \in Owed : dir[f] = run \/ f \in Waiting(todo)

LEMMA WaitingTail ==
    ASSUME NEW s \in Seq(Entry), s # <<>>, NEW f \in Waiting(s), f # Head(s)
    PROVE  f \in Waiting(Tail(s))
<1>1. PICK i \in 1 .. Len(s) : s[i] = f
  BY DEF Waiting
<1>2. i # 1
  BY <1>1
<1>3. i - 1 \in 1 .. Len(Tail(s)) /\ Tail(s)[i - 1] = s[i]
  BY <1>2, HeadTailProperties, LenProperties
<1> QED
  BY <1>1, <1>3 DEF Waiting

LEMMA WaitingRest ==
    ASSUME NEW s \in Seq(Entry), NEW i \in 1 .. Len(s), NEW f \in Waiting(s), f # s[i]
    PROVE  f \in Waiting(RemoveAt(s, i))
<1>1. PICK j \in 1 .. Len(s) : s[j] = f
  BY DEF Waiting
<1> DEFINE a == SubSeq(s, 1, i - 1)
           b == SubSeq(s, i + 1, Len(s))
<1>2. Len(s) \in Nat /\ \A k \in 1 .. Len(s) : s[k] \in Entry
  BY LenProperties
<1>3. /\ a \in Seq(Entry) /\ Len(a) = i - 1
      /\ \A k \in 1 .. i - 1 : a[k] = s[k]
  BY <1>2, SubSeqProperties
<1>4. /\ b \in Seq(Entry) /\ Len(b) = Len(s) - i
      /\ \A k \in 1 .. Len(s) - i : b[k] = s[i + k]
  <2>1. /\ b \in Seq(Entry) /\ Len(b) = IF i + 1 <= Len(s) THEN Len(s) - (i + 1) + 1 ELSE 0
        /\ \A k \in 1 .. Len(s) - (i + 1) + 1 : b[k] = s[(i + 1) + k - 1]
    BY <1>2, SubSeqProperties
  <2> QED BY <1>2, <2>1
<1> HIDE DEF a, b
<1>5. /\ Len(a \o b) = Len(s) - 1
      /\ \A k \in 1 .. Len(s) - 1 : (a \o b)[k] = IF k <= i - 1 THEN a[k] ELSE b[k - (i - 1)]
  <2>1. /\ Len(a \o b) = Len(a) + Len(b)
        /\ \A k \in 1 .. Len(a) + Len(b) :
              (a \o b)[k] = IF k <= Len(a) THEN a[k] ELSE b[k - Len(a)]
    BY <1>3, <1>4, ConcatProperties
  <2>2. Len(a) + Len(b) = Len(s) - 1
    BY <1>2, <1>3, <1>4
  <2>3. Len(a) = i - 1
    BY <1>3
  <2> QED BY <2>1, <2>2, <2>3
<1>6. CASE j < i
  BY <1>1, <1>2, <1>3, <1>5, <1>6 DEF Waiting, RemoveAt, a, b
<1>7. CASE j > i
  <2>1. j - 1 \in 1 .. Len(s) - 1 /\ (a \o b)[j - 1] = s[j]
    <3>1. j - 1 \in 1 .. Len(s) - 1 /\ ~ (j - 1 <= i - 1) /\ (j - 1) - (i - 1) = j - i
          /\ j - i \in 1 .. Len(s) - i /\ i + (j - i) = j
      BY <1>2, <1>7
    <3> QED BY <1>4, <1>5, <3>1
  <2>2. f \in Waiting(a \o b)
    BY <1>1, <1>5, <2>1 DEF Waiting
  <2> QED BY <2>2 DEF RemoveAt, a, b
<1> QED BY <1>1, <1>6, <1>7

LEMMA WaitingLists ==
    /\ \A files \in Extraction : Tables \subseteq Waiting(files)
    /\ ~Is("gsasii") => Owed \subseteq Waiting(NativeTables)
    /\ RoundTrip = Waiting(<<"output_recipe", "parameter_dispositions">>)
<1>1. \A x, y : Waiting(<<x, y>>) = {x, y}
  BY DEF Waiting
<1>2. \A x, y, z : {x, y} \subseteq Waiting(<<x, y, z>>)
  BY DEF Waiting
<1>3. \A u, v, x, y, z : Waiting(<<u, v, x, y, z>>) = {u, v, x, y, z}
  BY DEF Waiting
<1>4. \A files \in Extraction : Tables \subseteq Waiting(files)
  BY <1>1, <1>2 DEF Extraction, Tables
<1>5. ~Is("gsasii") => Owed \subseteq Waiting(NativeTables)
  BY <1>3 DEF Owed, Tables, RoundTrip, NativeTables
<1>6. RoundTrip = Waiting(<<"output_recipe", "parameter_dispositions">>)
  BY <1>1 DEF RoundTrip
<1> QED BY <1>4, <1>5, <1>6

(* The server's answer with every table lists every table.                 *)
LEMMA WaitingTransfer ==
    ASSUME NEW files \in Extraction
    PROVE  Tables \subseteq Waiting(<<"project">> \o SubSeq(files, 1, Len(files)))
<1>1. files \in Seq(Entry) /\ <<"project">> \in Seq(Entry)
  BY ListTypes DEF Entry, File, Own, EngineFile
<1>2. Len(files) \in Nat /\ \A k \in 1 .. Len(files) : files[k] \in Entry
  BY <1>1, LenProperties
<1> DEFINE a == SubSeq(files, 1, Len(files))
<1>3. /\ a \in Seq(Entry) /\ Len(a) = Len(files)
      /\ \A k \in 1 .. Len(files) : a[k] = files[k]
  BY <1>2, SubSeqProperties
<1> HIDE DEF a
<1>4. /\ Len(<<"project">> \o a) = 1 + Len(files)
      /\ \A k \in 1 .. 1 + Len(files) :
            (<<"project">> \o a)[k] = IF k <= 1 THEN <<"project">>[k] ELSE a[k - 1]
  BY <1>1, <1>2, <1>3, ConcatProperties
<1>5. ASSUME NEW k \in 1 .. Len(files)
      PROVE  files[k] \in Waiting(<<"project">> \o a)
  <2>1. k + 1 \in 1 .. 1 + Len(files) /\ (<<"project">> \o a)[k + 1] = files[k]
    BY <1>2, <1>3, <1>4
  <2> QED BY <1>4, <2>1 DEF Waiting
<1> QED
  BY <1>5, WaitingLists DEF Waiting, a

(* What is written is no longer waited for, and is the run's.              *)
LEMMA WritesWaiting ==
    ASSUME TypeOK, NEW entry, dir' = Written({entry}), UNCHANGED run, NEW f \in File,
           dir[f] = run \/ f \in Waiting(todo), f # entry => (f \in Waiting(todo) => f \in Waiting(todo'))
    PROVE  dir'[f] = run' \/ f \in Waiting(todo')
BY DEF Written

LEMMA StepPending ==
    ASSUME DirInv, DirInv', Pending, OkIsComplete, [Next]_vars
    PROVE  Pending' /\ OkIsComplete'
<1> USE DEF Pending, OkIsComplete, Over
<1>0. Tables \subseteq File /\ Owed \subseteq File /\ Tables \subseteq Owed /\ TypeOK /\ todo \in Seq(Entry)
  BY FileFacts DEF DirInv, Listed, Tables, Owed, File, Own, Report, RoundTrip
<1>r. (pc # "idle" => run \in Run /\ outcome \in [Run -> Outcome]) /\ run \in Stamp
  BY MaxRunsAssumption DEF DirInv, Numbered, TypeOK, Stamp, Run
<1>e. ASSUME NEW how, End(how), how # "ok", UNCHANGED run, pc # "idle"
      PROVE  Pending' /\ OkIsComplete'
  BY <1>e, <1>r DEF End
<1>s. UNCHANGED recipe => Tables' = Tables /\ Owed' = Owed
  BY DEF Tables, Owed, Is, RoundTrip
<1>1. CASE Begin
  BY <1>1 DEF Begin
<1>2. CASE Check
  BY <1>2, <1>e DEF Check, Goto
<1>3. CASE Clear
  <2>1. CASE Goto("gateway")
    BY <2>1 DEF Goto
  <2>2. CASE End("error") \/ End("interrupted")
    BY <1>3, <2>2, <1>e DEF Clear
  <2> QED BY <1>3, <2>1, <2>2 DEF Clear
<1>4. CASE Gateway
  BY <1>4, <1>e DEF Gateway, Goto
<1>5. CASE Record
  BY <1>5, <1>e DEF Record
<1>6. CASE Dispatch
  <2>1. CASE Goto("refine") \/ Fail
    BY <2>1 DEF Goto, Fail
  <2>2. CASE \E files \in Extraction, n \in 0 .. 3 :
             /\ n <= Len(files)
             /\ pc' = "transfer"
             /\ todo' = <<"project">> \o SubSeq(files, 1, n)
             /\ status' \in {"failed"} \cup (IF n = Len(files) THEN {"ok"} ELSE {})
    <3>1. status' # "failed" => Tables \subseteq Waiting(todo')
      BY <2>2, WaitingTransfer
    <3> QED BY <1>6, <1>s, <2>2, <3>1 DEF Dispatch
  <2> QED BY <1>6, <2>1, <2>2 DEF Dispatch
<1>7. CASE Transfer
  <2> pc = "transfer" /\ Is("gsasii") /\ UNCHANGED <<run, recipe, status>>
    BY <1>7 DEF Transfer, DirInv, Stages
  <2>1. CASE \E i \in 1 .. Len(todo) :
             /\ dir' = Written({todo[i]})
             /\ todo' = RemoveAt(todo, i)
             /\ UNCHANGED <<pc, outcome>>
    <3>1. PICK i \in 1 .. Len(todo) :
             /\ dir' = Written({todo[i]})
             /\ todo' = RemoveAt(todo, i)
             /\ UNCHANGED <<pc, outcome>>
      BY <2>1
    <3>2. \A f \in Waiting(todo) : f # todo[i] => f \in Waiting(todo')
      BY <1>0, <3>1, WaitingRest
    <3>3. status # "failed" => \A f \in Tables : dir'[f] = run' \/ f \in Waiting(todo')
      BY <1>0, <3>1, <3>2, WritesWaiting
    <3> QED BY <1>s, <3>1, <3>3
  <2>2. CASE Fail
    BY <2>2 DEF Fail
  <2>3. CASE /\ todo = <<>>
             /\ UNCHANGED <<dir, outcome>>
             /\ IF status = "failed" THEN pc' = "record" /\ UNCHANGED todo
                ELSE pc' = "tables" /\ todo' = <<"output_recipe", "parameter_dispositions">>
    <3>1. Waiting(todo) = {}
      BY <2>3 DEF Waiting
    <3>2. Owed = Tables \cup RoundTrip
      BY DEF Owed
    <3> QED BY <1>s, <2>3, <3>1, <3>2, WaitingLists
  <2> QED BY <1>7, <2>1, <2>2, <2>3 DEF Transfer
<1>8. CASE Refine
  <2>1. CASE Fail
    BY <2>1 DEF Fail
  <2>2. CASE pc' = "extract" /\ todo' \in Extraction
    BY <1>8, <1>s, <2>2, WaitingLists DEF Refine
  <2> QED BY <1>8, <2>1, <2>2 DEF Refine
<1>9. CASE Extract
  <2> pc = "extract" /\ Is("gsasii") /\ UNCHANGED <<run, recipe, status>>
    BY <1>9 DEF Extract, DirInv, Stages
  <2>0. "refined_parameters" \notin Tables
    BY DEF Tables
  <2>1. CASE /\ todo # <<>> /\ dir' = Written({Head(todo)}) /\ todo' = Tail(todo)
             /\ UNCHANGED <<pc, outcome>>
    <3>1. \A f \in Waiting(todo) : f # Head(todo) => f \in Waiting(todo')
      BY <1>0, <2>1, WaitingTail
    <3>2. \A f \in Tables : dir'[f] = run' \/ f \in Waiting(todo')
      BY <1>0, <2>1, <3>1, WritesWaiting
    <3> QED BY <1>s, <2>1, <3>2
  <2>2. CASE Fail
    BY <2>2 DEF Fail
  <2>3. CASE /\ todo # <<>> /\ Head(todo) = "refined_parameters" /\ todo' = Tail(todo)
             /\ UNCHANGED <<pc, outcome, dir>>
    <3>1. \A f \in Waiting(todo) : f # "refined_parameters" => f \in Waiting(todo')
      BY <1>0, <2>3, WaitingTail
    <3> QED BY <1>s, <2>0, <2>3, <3>1
  <2>4. CASE /\ todo = <<>> /\ pc' = "tables"
             /\ todo' = <<"output_recipe", "parameter_dispositions">>
             /\ UNCHANGED <<dir, outcome>>
    <3>1. Waiting(todo) = {}
      BY <2>4 DEF Waiting
    <3>2. Owed = Tables \cup RoundTrip
      BY DEF Owed
    <3> QED BY <1>s, <2>4, <3>1, <3>2, WaitingLists
  <2> QED BY <1>9, <2>1, <2>2, <2>3, <2>4 DEF Extract
<1>10. CASE WriteInput
  BY <1>10, <1>e DEF WriteInput, Goto
<1>11. CASE Discover
  BY <1>11, <1>e DEF Discover, Goto
<1>12. CASE Forget
  BY <1>12, <1>e DEF Forget, Goto
<1>13. CASE RunTc
  BY <1>13 DEF RunTc, Goto, Fail
<1>14. CASE Background
  BY <1>14, <1>e DEF Background, Goto, Fail
<1>15. CASE Read
  <2> UNCHANGED <<run, recipe>> /\ ~Is("gsasii") /\ pc # "idle"
    BY <1>15 DEF Read, DirInv, Stages, Is
  <2>1. CASE Fail
    BY <2>1 DEF Fail
  <2>2. CASE End("error")
    BY <2>2, <1>e
  <2>3. CASE pc' = "tables" /\ todo' = NativeTables
    BY <1>s, <2>3, WaitingLists
  <2> QED BY <1>15, <2>1, <2>2, <2>3 DEF Read
<1>16. CASE Fit
  <2> UNCHANGED <<run, recipe>> /\ ~Is("gsasii") /\ pc # "idle"
    BY <1>16 DEF Fit, DirInv, Stages, Is
  <2>1. CASE Fail
    BY <2>1 DEF Fail
  <2>2. CASE pc' = "tables" /\ todo' = NativeTables
    BY <1>s, <2>2, WaitingLists
  <2> QED BY <1>16, <2>1, <2>2 DEF Fit
<1>17. CASE WriteTable
  <2> pc = "tables" /\ UNCHANGED <<run, recipe, status>>
    BY <1>17 DEF WriteTable
  <2>1. CASE /\ todo # <<>> /\ dir' = Written({Head(todo)}) /\ todo' = Tail(todo)
             /\ UNCHANGED <<pc, outcome>>
    <3>1. \A f \in Waiting(todo) : f # Head(todo) => f \in Waiting(todo')
      BY <1>0, <2>1, WaitingTail
    <3>2. status # "generated" => \A f \in Owed : dir'[f] = run' \/ f \in Waiting(todo')
      BY <1>0, <2>1, <3>1, WritesWaiting
    <3> QED BY <1>s, <2>1, <3>2
  <2>2. CASE End("error")
    BY <2>2, <1>e
  <2>3. CASE todo = <<>> /\ End(status) /\ UNCHANGED dir
    <3>1. Waiting(todo) = {}
      BY <2>3 DEF Waiting
    <3>2. CASE status = "ok"
      <4>1. \A f \in Owed : dir'[f] = run'
        BY <2>3, <3>1, <3>2
      <4>2. dir'["failure"] = 0
        BY <2>3 DEF DirInv, Cleared
      <4> QED
        BY <1>s, <2>3, <4>1, <4>2 DEF End, Owed, Tables, Is
    <3>3. CASE status # "ok"
      BY <2>3, <3>3, <1>e
    <3> QED BY <3>2, <3>3
  <2> QED BY <1>17, <2>1, <2>2, <2>3 DEF WriteTable
<1>18. CASE Interrupt
  BY <1>18, <1>e DEF Interrupt
<1>19. CASE UNCHANGED vars
  BY <1>19 DEF vars, Tables, Owed, Is
<1> QED
  BY <1>1, <1>2, <1>3, <1>4, <1>5, <1>6, <1>7, <1>8, <1>9, <1>10, <1>11, <1>12, <1>13, <1>14, <1>15, <1>16, <1>17, <1>18, <1>19 DEF Next

(* A run that returned ok has left its tables, its output recipe and no    *)
(* failure.json.                                                           *)
THEOREM OkRunsAreComplete == Spec => []OkIsComplete
<1>1. Init => Pending /\ OkIsComplete
  BY DEF Init, Pending, OkIsComplete, Over
<1>2. DirInv /\ DirInv' /\ Pending /\ OkIsComplete /\ [Next]_vars => Pending' /\ OkIsComplete'
  BY StepPending
<1> QED
  BY Invariance, <1>1, <1>2, PTL DEF Spec
=============================================================================
