------------------------ MODULE ServerLifecycleProofs ------------------------
(***************************************************************************)
(* Proofs about ServerLifecycle, for any number of processes, starts,      *)
(* claims and polls, with PIDs reused at will: a live server's files and   *)
(* the scratch directory of its job stay intact, and the lock protocol     *)
(* implements SingleServer.                                                *)
(***************************************************************************)
EXTENDS ServerLifecycle, TLAPS

Reachable  == {"handle", "serving", "draining"}
PidWritten == Reachable \cup {"listen", "load", "sweep", "publish"}
NoCard     == {"writePid", "listen", "load", "sweep", "publish"}

(* Whoever is in a step that needs the lock holds it.                      *)
LockHeld == \A p \in Pid : pc[p] \in Holding \cup Probing => lock = p

(* The files as their holder left them, from one of its steps to the next. *)
FilesAsLeft ==
    \A p \in Pid :
        /\ pc[p] \in PidWritten => pidFile = p
        /\ pc[p] \in NoCard => endpoint = NoEndpoint
        /\ pc[p] \in Reachable => endpoint = [pid |-> p, token |-> serial[p]]

(* A job runs in a reachable server, and its directory is there.           *)
JobsAsLeft ==
    \A p \in busy : pc[p] \in {"serving", "draining"} /\ serial[p] \in jobDirs

(* Whoever is a server, or will be, is a server incarnation.               *)
ServersNumbered ==
    \A p \in Pid : (pc[p] \in Holding \cup {"claim", "restart", "restartHeld"}
                     \/ p \in restarting) => serial[p] > 0

(* A stop that signals knows a PID, and polls within its budget.           *)
StopsBounded ==
    \A p \in Pid :
        /\ pc[p] \in {"stopTerm", "stopPoll", "stopKill"} => target[p] \in Pid
        /\ pc[p] = "stopTerm" => tries[p] = 0
        /\ pc[p] = "stopPoll" => tries[p] < PollRounds

IInv == TypeOK /\ LockHeld /\ FilesAsLeft /\ JobsAsLeft /\ ServersNumbered
        /\ StopsBounded

-----------------------------------------------------------------------------

(* The counters of claims and polls stay within the larger of the two bounds. *)
LEMMA BudgetBounds ==
  Budget \in Nat /\ PollRounds <= Budget /\ ClaimAttempts <= Budget
  BY BoundsAssumption DEF Budget

USE NoPidAssumption, BoundsAssumption, BudgetBounds
    DEF Label, Holding, Probing, Stopping, Releasing, Reachable, PidWritten,
        NoCard, files, locals

(* Counting within the budget keeps the counters typed. *)
LEMMA TriesUpdate ==
  ASSUME TypeOK, NEW p \in Pid, NEW n \in 0 .. Budget,
         tries' = [tries EXCEPT ![p] = n]
  PROVE  tries' \in [Pid -> 0 .. Budget]
  BY DEF TypeOK

(* A process that ends, at any point, leaves the invariant: the kernel drops
   its lock and what it wrote stays. *)
LEMMA ExitStep ==
  ASSUME IInv, NEW p \in Pid, Exit(p)
  PROVE  IInv'
  BY DEF Exit, Gone, IInv, TypeOK, LockHeld, FilesAsLeft, JobsAsLeft,
      ServersNumbered, StopsBounded, Endpoint, NoEndpoint, Token

(* A probe that takes the free lock: no server runs, so no file is promised. *)
LEMMA ProbeFreeStep ==
  ASSUME IInv, NEW p \in Pid, NEW at \in Label \ Holding, NEW to \in Probing,
         ProbeFree(p, at, to), to = "restartHeld" => at = "restart"
  PROVE  IInv'
  BY DEF ProbeFree, Goto, IInv, TypeOK, LockHeld, FilesAsLeft, JobsAsLeft,
      ServersNumbered, StopsBounded, Endpoint, NoEndpoint, Token

(* A probe that finds the lock held changes nothing but its own place. *)
LEMMA ProbeHeldStep ==
  ASSUME IInv, NEW p \in Pid, NEW at \in Label \ Holding, NEW to \in {"other", "stopRead"},
         ProbeHeld(p, at, to)
  PROVE  IInv'
  BY DEF ProbeHeld, Goto, IInv, TypeOK, LockHeld, FilesAsLeft, JobsAsLeft,
      ServersNumbered, StopsBounded, Endpoint, NoEndpoint, Token

(* A probe gives back the lock, which no server can have taken meanwhile. *)
LEMMA EndProbeStep ==
  ASSUME IInv, NEW p \in Pid, NEW at \in Probing, NEW to \in {"other", "claim", "clear"},
         EndProbe(p, at, to), to = "claim" => at = "restartHeld"
  PROVE  IInv'
  BY DEF EndProbe, Goto, IInv, TypeOK, LockHeld, FilesAsLeft, JobsAsLeft,
      ServersNumbered, StopsBounded, Endpoint, NoEndpoint, Token

(* The end of stop_server, on every one of its paths. *)
LEMMA ReturnStep ==
  ASSUME IInv, NEW p \in Pid, NEW at \in Stopping \cup Probing, Return(p, at)
  PROVE  IInv'
<1>1. CASE Exit(p)
  BY <1>1, ExitStep
<1>2. CASE p \in restarting
  <2>0. tries' \in [Pid -> 0 .. Budget]
    <3>1. 0 \in 0 .. Budget
      BY DEF IInv
    <3> QED
      BY <3>1, <1>2, TriesUpdate DEF IInv, Return
  <2>1. TypeOK'
    BY <2>0, <1>2
    DEF Return, IInv, TypeOK, LockHeld, Endpoint, NoEndpoint, Token
  <2>2. LockHeld'
    BY <1>2 DEF Return, IInv, TypeOK, LockHeld
  <2>3. FilesAsLeft'
    BY <1>2 DEF Return, IInv, TypeOK, LockHeld, FilesAsLeft
  <2>4. JobsAsLeft'
    BY <1>2 DEF Return, IInv, TypeOK, LockHeld, JobsAsLeft
  <2>5. ServersNumbered'
    BY <1>2 DEF Return, IInv, TypeOK, LockHeld, ServersNumbered, Token
  <2>6. StopsBounded'
    BY <1>2 DEF Return, IInv, TypeOK, LockHeld, StopsBounded, Token
  <2> QED
    BY <2>1, <2>2, <2>3, <2>4, <2>5, <2>6 DEF IInv
<1> QED
  BY <1>1, <1>2 DEF Return

(* A signal that kills, whatever process the PID names by then. *)
LEMMA GoneStep ==
  ASSUME IInv, NEW p \in Pid, NEW q \in Pid, NEW to \in {"stopPoll", "stopFinal"},
         pc[p] \in {"stopTerm", "stopKill"}, to = "stopPoll" => pc[p] = "stopTerm",
         Gone(q, [pc EXCEPT ![p] = to]), UNCHANGED <<files, serial, starts, target, tries>>
  PROVE  IInv'
  BY
  DEF Gone, IInv, TypeOK, LockHeld, FilesAsLeft, JobsAsLeft, ServersNumbered,
      StopsBounded, Endpoint, NoEndpoint, Token

(* A new process, perhaps under the PID of one that is gone. *)
LEMMA SpawnStep ==
  ASSUME IInv, NEW p \in Pid, NEW program \in Programs, Spawn(p, program)
  PROVE  IInv'
<1>1. program \in {"start", "stop", "restart", "status", "other"}
  BY ProgramsAssumption
<1>2. Entry[program] \in {"claim", "stopProbe", "restart", "status", "other"}
      /\ (Entry[program] \in {"claim", "restart"} <=> program \in {"start", "restart"})
  BY <1>1 DEF Entry
<1>3. CASE program \in {"start", "restart"}
  BY <1>2, <1>3
  DEF Spawn, IInv, TypeOK, LockHeld, FilesAsLeft, JobsAsLeft, ServersNumbered,
      StopsBounded, Endpoint, NoEndpoint, Token
<1>4. CASE program \notin {"start", "restart"}
  BY <1>2, <1>4
  DEF Spawn, IInv, TypeOK, LockHeld, FilesAsLeft, JobsAsLeft, ServersNumbered,
      StopsBounded, Endpoint, NoEndpoint, Token
<1> QED
  BY <1>3, <1>4

(* The steps of gsas-server start. *)
LEMMA ServerStepInductive ==
  ASSUME IInv, NEW p \in Pid, ServerStep(p)
  PROVE  IInv'
<1>1. CASE ClaimLock(p)
  <2>1. CASE Exit(p)
    BY <2>1, ExitStep
  <2>2. CASE lock = NoPid
    <3>1. TypeOK'
      BY <1>1, <2>2
      DEF ClaimLock, IInv, TypeOK, LockHeld, Endpoint, NoEndpoint, Token
    <3>2. LockHeld'
      BY <1>1, <2>2 DEF ClaimLock, IInv, TypeOK, LockHeld
    <3>3. FilesAsLeft'
      BY <1>1, <2>2 DEF ClaimLock, IInv, TypeOK, LockHeld, FilesAsLeft
    <3>4. JobsAsLeft'
      BY <1>1, <2>2 DEF ClaimLock, IInv, TypeOK, LockHeld, JobsAsLeft
    <3>5. ServersNumbered'
      BY <1>1, <2>2
      DEF ClaimLock, IInv, TypeOK, LockHeld, ServersNumbered, Token
    <3>6. StopsBounded'
      BY <1>1, <2>2 DEF ClaimLock, IInv, TypeOK, LockHeld, StopsBounded, Token
    <3> QED
      BY <3>1, <3>2, <3>3, <3>4, <3>5, <3>6 DEF IInv
  <2>3. CASE lock # NoPid /\ tries[p] + 1 < ClaimAttempts
    <3>0. tries' \in [Pid -> 0 .. Budget]
      <4>1. tries[p] + 1 \in 0 .. Budget
        BY BoundsAssumption, BudgetBounds, <2>3 DEF IInv, TypeOK, StopsBounded
      <4> QED
        BY <4>1, <1>1, <2>3, TriesUpdate
        DEF IInv, TypeOK, ClaimLock, Exit, Gone
    <3>1. TypeOK'
      BY <3>0, <1>1, <2>3
      DEF ClaimLock, Exit, Gone, IInv, TypeOK, LockHeld, Endpoint, NoEndpoint,
          Token
    <3>2. LockHeld'
      BY <1>1, <2>3 DEF ClaimLock, Exit, Gone, IInv, TypeOK, LockHeld
    <3>3. FilesAsLeft'
      BY <1>1, <2>3
      DEF ClaimLock, Exit, Gone, IInv, TypeOK, LockHeld, FilesAsLeft
    <3>4. JobsAsLeft'
      BY <1>1, <2>3
      DEF ClaimLock, Exit, Gone, IInv, TypeOK, LockHeld, JobsAsLeft
    <3>5. ServersNumbered'
      BY <1>1, <2>3
      DEF ClaimLock, Exit, Gone, IInv, TypeOK, LockHeld, ServersNumbered, Token
    <3>6. StopsBounded'
      BY <1>1, <2>3
      DEF ClaimLock, Exit, Gone, IInv, TypeOK, LockHeld, StopsBounded, Token
    <3> QED
      BY <3>1, <3>2, <3>3, <3>4, <3>5, <3>6 DEF IInv
  <2> QED
    BY <1>1, <2>1, <2>2, <2>3 DEF ClaimLock
<1>2. CASE DropEndpoint(p)
  BY <1>2
  DEF DropEndpoint, Goto, IInv, TypeOK, LockHeld, FilesAsLeft, JobsAsLeft,
      ServersNumbered, StopsBounded, Endpoint, NoEndpoint, Token
<1>3. CASE WritePid(p)
  BY <1>3
  DEF WritePid, Goto, IInv, TypeOK, LockHeld, FilesAsLeft, JobsAsLeft,
      ServersNumbered, StopsBounded, Endpoint, NoEndpoint, Token
<1>4. CASE Listen(p)
  BY <1>4
  DEF Listen, Goto, IInv, TypeOK, LockHeld, FilesAsLeft, JobsAsLeft,
      ServersNumbered, StopsBounded, Endpoint, NoEndpoint, Token
<1>5. CASE Load(p)
  BY <1>5
  DEF Load, Goto, IInv, TypeOK, LockHeld, FilesAsLeft, JobsAsLeft,
      ServersNumbered, StopsBounded, Endpoint, NoEndpoint, Token
<1>6. CASE SweepJobDirs(p)
  BY <1>6
  DEF SweepJobDirs, Goto, IInv, TypeOK, LockHeld, FilesAsLeft, JobsAsLeft,
      ServersNumbered, StopsBounded, Endpoint, NoEndpoint, Token
<1>7. CASE Publish(p)
  BY <1>7
  DEF Publish, Goto, IInv, TypeOK, LockHeld, FilesAsLeft, JobsAsLeft,
      ServersNumbered, StopsBounded, Endpoint, NoEndpoint, Token
<1>8. CASE InstallHandlers(p)
  BY <1>8
  DEF InstallHandlers, Goto, IInv, TypeOK, LockHeld, FilesAsLeft, JobsAsLeft,
      ServersNumbered, StopsBounded, Endpoint, NoEndpoint, Token
<1>9. CASE Drain(p)
  BY <1>9
  DEF Drain, Goto, IInv, TypeOK, LockHeld, FilesAsLeft, JobsAsLeft,
      ServersNumbered, StopsBounded, Endpoint, NoEndpoint, Token
<1>10. CASE ReleaseEndpoint(p)
  BY <1>10
  DEF ReleaseEndpoint, Goto, IInv, TypeOK, LockHeld, FilesAsLeft, JobsAsLeft,
      ServersNumbered, StopsBounded, Endpoint, NoEndpoint, Token
<1>11. CASE ReleasePid(p)
  BY <1>11
  DEF ReleasePid, Goto, IInv, TypeOK, LockHeld, FilesAsLeft, JobsAsLeft,
      ServersNumbered, StopsBounded, Endpoint, NoEndpoint, Token
<1>12. CASE ReleaseLock(p)
  BY <1>12, ExitStep DEF ReleaseLock
<1> QED
  BY <1>1, <1>2, <1>3, <1>4, <1>5, <1>6, <1>7, <1>8, <1>9, <1>10, <1>11, <1>12
  DEF ServerStep

(* The steps of status, stop and restart. *)
LEMMA CommandStepInductive ==
  ASSUME IInv, NEW p \in Pid, CommandStep(p)
  PROVE  IInv'
<1>1. CASE Status(p)
  BY <1>1, ProbeFreeStep, ProbeHeldStep, EndProbeStep DEF Status
<1>2. CASE Restart(p)
  <2>1. CASE ProbeFree(p, "restart", "restartHeld")
    BY <2>1, ProbeFreeStep
  <2>2. CASE EndProbe(p, "restartHeld", "claim")
    BY <2>2, EndProbeStep
  <2>3. CASE pc[p] = "restart" /\ ~ProbeFree(p, "restart", "restartHeld")
    <3>1. TypeOK'
      BY <1>2, <2>3
      DEF Restart, Goto, EndProbe, ProbeFree, IInv, TypeOK, LockHeld, Endpoint,
          NoEndpoint, Token
    <3>2. LockHeld'
      BY <1>2, <2>3
      DEF Restart, Goto, EndProbe, ProbeFree, IInv, TypeOK, LockHeld
    <3>3. FilesAsLeft'
      BY <1>2, <2>3
      DEF Restart, Goto, EndProbe, ProbeFree, IInv, TypeOK, LockHeld,
          FilesAsLeft
    <3>4. JobsAsLeft'
      BY <1>2, <2>3
      DEF Restart, Goto, EndProbe, ProbeFree, IInv, TypeOK, LockHeld,
          JobsAsLeft
    <3>5. ServersNumbered'
      BY <1>2, <2>3
      DEF Restart, Goto, EndProbe, ProbeFree, IInv, TypeOK, LockHeld,
          ServersNumbered, Token
    <3>6. StopsBounded'
      BY <1>2, <2>3
      DEF Restart, Goto, EndProbe, ProbeFree, IInv, TypeOK, LockHeld,
          StopsBounded, Token
    <3> QED
      BY <3>1, <3>2, <3>3, <3>4, <3>5, <3>6 DEF IInv
  <2> QED
    BY <1>2, <2>1, <2>2, <2>3 DEF Restart, Goto
<1>3. CASE StopProbe(p)
  BY <1>3, ProbeFreeStep, ProbeHeldStep, ReturnStep DEF StopProbe
<1>4. CASE StopRead(p)
  <2>1. CASE pidFile = NoPid
    BY <1>4, <2>1, ReturnStep DEF StopRead
  <2>2. CASE pidFile # NoPid
    <3>0. tries' \in [Pid -> 0 .. Budget]
      <4>1. 0 \in 0 .. Budget
        BY DEF IInv
      <4> QED
        BY <4>1, <1>4, <2>2, TriesUpdate DEF IInv, StopRead
    <3>00. target' \in [Pid -> Pid \cup {NoPid}]
      BY <1>4, <2>2 DEF StopRead, IInv, TypeOK
    <3>1. TypeOK'
      BY <3>0, <3>00, <1>4, <2>2
      DEF StopRead, Goto, IInv, TypeOK, LockHeld, Endpoint, NoEndpoint, Token
    <3>2. LockHeld'
      BY <1>4, <2>2 DEF StopRead, Goto, IInv, TypeOK, LockHeld
    <3>3. FilesAsLeft'
      BY <1>4, <2>2 DEF StopRead, Goto, IInv, TypeOK, LockHeld, FilesAsLeft
    <3>4. JobsAsLeft'
      BY <1>4, <2>2 DEF StopRead, Goto, IInv, TypeOK, LockHeld, JobsAsLeft
    <3>5. ServersNumbered'
      BY <1>4, <2>2
      DEF StopRead, Goto, IInv, TypeOK, LockHeld, ServersNumbered, Token
    <3>6. StopsBounded'
      BY <1>4, <2>2
      DEF StopRead, Goto, IInv, TypeOK, LockHeld, StopsBounded, Token
    <3> QED
      BY <3>1, <3>2, <3>3, <3>4, <3>5, <3>6 DEF IInv
  <2> QED
    BY <2>1, <2>2
<1>5. CASE SendTerm(p)
  <2>1. target[p] \in Pid /\ pc[p] = "stopTerm"
    BY <1>5 DEF SendTerm, IInv, StopsBounded
  <2>2. CASE target[p] \in handlers
    BY <1>5, <2>1, <2>2
    DEF SendTerm, IInv, TypeOK, LockHeld, FilesAsLeft, JobsAsLeft,
        ServersNumbered, StopsBounded, Endpoint, NoEndpoint, Token
  <2>3. CASE target[p] \notin handlers
    BY <1>5, <2>1, <2>3, GoneStep DEF SendTerm
  <2> QED
    BY <2>2, <2>3
<1>6. CASE StopPoll(p)
  <2>1. CASE ProbeFree(p, "stopPoll", "pollHeld")
    BY <2>1, ProbeFreeStep
  <2>2. CASE EndProbe(p, "pollHeld", "clear")
    BY <2>2, EndProbeStep
  <2>3. CASE lock # NoPid /\ pc[p] = "stopPoll"
    <3>0. tries' \in [Pid -> 0 .. Budget]
      <4>1. tries[p] + 1 \in 0 .. Budget
        BY BoundsAssumption, BudgetBounds, <2>3 DEF IInv, TypeOK, StopsBounded
      <4> QED
        BY <4>1, <1>6, <2>3, TriesUpdate
        DEF IInv, TypeOK, StopsBounded, StopPoll, ProbeFree, EndProbe, Goto
    <3>1. TypeOK'
      BY <3>0, <1>6, <2>3
      DEF StopPoll, ProbeFree, EndProbe, Goto, IInv, TypeOK, LockHeld,
          Endpoint, NoEndpoint, Token
    <3>2. LockHeld'
      BY <1>6, <2>3
      DEF StopPoll, ProbeFree, EndProbe, Goto, IInv, TypeOK, LockHeld
    <3>3. FilesAsLeft'
      BY <1>6, <2>3
      DEF StopPoll, ProbeFree, EndProbe, Goto, IInv, TypeOK, LockHeld,
          FilesAsLeft
    <3>4. JobsAsLeft'
      BY <1>6, <2>3
      DEF StopPoll, ProbeFree, EndProbe, Goto, IInv, TypeOK, LockHeld,
          JobsAsLeft
    <3>5. ServersNumbered'
      BY <1>6, <2>3
      DEF StopPoll, ProbeFree, EndProbe, Goto, IInv, TypeOK, LockHeld,
          ServersNumbered, Token
    <3>6. StopsBounded'
      BY <1>6, <2>3
      DEF StopPoll, ProbeFree, EndProbe, Goto, IInv, TypeOK, LockHeld,
          StopsBounded, Token
    <3> QED
      BY <3>1, <3>2, <3>3, <3>4, <3>5, <3>6 DEF IInv
  <2> QED
    BY <1>6, <2>1, <2>2, <2>3 DEF StopPoll, Goto
<1>7. CASE SendKill(p)
  <2>1. target[p] \in Pid
    BY <1>7 DEF SendKill, IInv, StopsBounded
  <2> QED
    BY <1>7, <2>1, GoneStep DEF SendKill
<1>8. CASE NotFound(p)
  BY <1>8, ReturnStep DEF NotFound
<1>9. CASE StopFinal(p)
  BY <1>9, ProbeFreeStep, EndProbeStep, ReturnStep DEF StopFinal
<1>10. CASE ClearFiles(p)
  <2>1. CASE ProbeFree(p, "clear", "clearEndpoint")
    BY <2>1, ProbeFreeStep
  <2>2. CASE Return(p, "clear") \/ Return(p, "clearRelease")
    BY <2>2, ReturnStep
  <2>3. CASE pc[p] = "clearEndpoint"
    <3>1. /\ lock = p /\ endpoint' = NoEndpoint
          /\ pc' = [pc EXCEPT ![p] = "clearPid"]
          /\ UNCHANGED <<lock, pidFile, jobDirs, busy, locals>>
      BY <1>10, <2>3 DEF ClearFiles, Goto, ProbeFree, Return, IInv, LockHeld
    <3> QED
      BY <2>3, <3>1
      DEF IInv, TypeOK, LockHeld, FilesAsLeft, JobsAsLeft, ServersNumbered,
          StopsBounded, Endpoint, NoEndpoint, Token
  <2>4. CASE pc[p] = "clearPid"
    <3>1. /\ lock = p /\ pidFile' = NoPid
          /\ pc' = [pc EXCEPT ![p] = "clearRelease"]
          /\ UNCHANGED <<lock, endpoint, jobDirs, busy, locals>>
      BY <1>10, <2>4 DEF ClearFiles, Goto, ProbeFree, Return, IInv, LockHeld
    <3> QED
      BY <2>4, <3>1
      DEF IInv, TypeOK, LockHeld, FilesAsLeft, JobsAsLeft, ServersNumbered,
          StopsBounded, Endpoint, NoEndpoint, Token
  <2> QED
    BY <1>10, <2>1, <2>2, <2>3, <2>4 DEF ClearFiles, Goto
<1> QED
  BY <1>1, <1>2, <1>3, <1>4, <1>5, <1>6, <1>7, <1>8, <1>9, <1>10
  DEF CommandStep

(* Every step of the system. *)
LEMMA NextInductive ==
  ASSUME IInv, [Next]_vars
  PROVE  IInv'
<1>1. CASE UNCHANGED vars
  BY <1>1
  DEF vars, IInv, TypeOK, LockHeld, FilesAsLeft, JobsAsLeft, ServersNumbered,
      StopsBounded, Endpoint, NoEndpoint, Token
<1>2. ASSUME NEW p \in Pid, BeginJob(p)
      PROVE  IInv'
  <2>0. serial[p] \in Token
    BY <1>2 DEF IInv, TypeOK
  <2>1. TypeOK'
    BY <2>0, <1>2
    DEF BeginJob, IInv, TypeOK, LockHeld, Endpoint, NoEndpoint, Token
  <2>2. LockHeld'
    BY <1>2 DEF BeginJob, IInv, TypeOK, LockHeld
  <2>3. FilesAsLeft'
    BY <1>2 DEF BeginJob, IInv, TypeOK, LockHeld, FilesAsLeft
  <2>4. JobsAsLeft'
    BY <1>2 DEF BeginJob, IInv, TypeOK, LockHeld, JobsAsLeft
  <2>5. ServersNumbered'
    BY <1>2 DEF BeginJob, IInv, TypeOK, LockHeld, ServersNumbered, Token
  <2>6. StopsBounded'
    BY <1>2 DEF BeginJob, IInv, TypeOK, LockHeld, StopsBounded, Token
  <2> QED
    BY <2>1, <2>2, <2>3, <2>4, <2>5, <2>6 DEF IInv
<1>3. ASSUME NEW p \in Pid, FinishJob(p)
      PROVE  IInv'
  BY <1>3
  DEF FinishJob, IInv, TypeOK, LockHeld, FilesAsLeft, JobsAsLeft,
      ServersNumbered, StopsBounded, Endpoint, NoEndpoint, Token
<1>4. ASSUME NEW p \in Pid, Interrupt(p)
      PROVE  IInv'
  BY <1>4
  DEF Interrupt, Goto, IInv, TypeOK, LockHeld, FilesAsLeft, JobsAsLeft,
      ServersNumbered, StopsBounded, Endpoint, NoEndpoint, Token
<1>5. ASSUME NEW p \in Pid, Crash(p) \/ Finish(p)
      PROVE  IInv'
  BY <1>5, ExitStep DEF Crash, Finish
<1> QED
  BY <1>1, <1>2, <1>3, <1>4, <1>5, SpawnStep, ServerStepInductive,
     CommandStepInductive DEF Next

(* The empty state directory. *)
LEMMA InitInductive == Init => IInv
  BY
  DEF Init, IInv, TypeOK, LockHeld, FilesAsLeft, JobsAsLeft, ServersNumbered,
      StopsBounded, Endpoint, NoEndpoint, Token

(* IInv holds throughout.                                                  *)
LEMMA Invariance == Spec => []IInv
  BY InitInductive, NextInductive, PTL DEF Spec

(* The variables keep their types: in particular the counters of claims and
   polls never pass their budget.                                          *)
THEOREM TypeCorrect == Spec => []TypeOK
<1>1. IInv => TypeOK
  BY DEF IInv
<1> QED
  BY <1>1, Invariance, PTL

(* Nobody takes the lock, the PID file or the endpoint file away from a
   server that clients can reach, whatever commands race with it.          *)
THEOREM LiveFilesStayIntact == Spec => []LiveFilesIntact
<1>1. IInv => LiveFilesIntact
  BY DEF IInv, LockHeld, FilesAsLeft, LiveFilesIntact
<1> QED
  BY <1>1, Invariance, PTL

(* No start sweeps away the scratch directory of a job that is running.    *)
THEOREM JobDirsStayIntact == Spec => []JobDirIntact
<1>1. IInv => JobDirIntact
  BY DEF IInv, JobsAsLeft, JobDirIntact
<1> QED
  BY <1>1, Invariance, PTL

-----------------------------------------------------------------------------
(* The refinement                                                          *)

AbstractVars == <<Owner, HolderPhase, endpoint.token>>

(* The empty directory is nobody's.                                        *)
LEMMA InitRefines == Init => Abstract!Init
  BY DEF Init, Abstract!Init, Owner, HolderPhase, NoEndpoint

(* Each step is one of SingleServer's or shows nothing of itself there.    *)
LEMMA StepRefines ==
  ASSUME IInv, IInv', [Next]_vars
  PROVE  Abstract!Next \/ UNCHANGED AbstractVars
<1> USE DEF IInv, TypeOK, LockHeld, FilesAsLeft, ServersNumbered, Owner,
   HolderPhase, AbstractVars, Endpoint, NoEndpoint, Token, Abstract!Next,
   Abstract!Claim, Abstract!Open, Abstract!Close, Abstract!TakeDown,
   Abstract!Leave
<1>0. CASE UNCHANGED vars
  BY <1>0 DEF vars
<1>28. ASSUME NEW p \in Pid, NEW program \in Programs, Spawn(p, program)
       PROVE  Abstract!Next \/ UNCHANGED AbstractVars
  BY <1>28, ProgramsAssumption DEF Spawn, Entry
<1>1. ASSUME NEW p \in Pid, ClaimLock(p)
      PROVE  Abstract!Next \/ UNCHANGED AbstractVars
  BY <1>1
  DEF ClaimLock, Gone, Exit, Goto, Return, ProbeFree, ProbeHeld, EndProbe
<1>2. ASSUME NEW p \in Pid, DropEndpoint(p)
      PROVE  Abstract!Next \/ UNCHANGED AbstractVars
  BY <1>2
  DEF DropEndpoint, Gone, Exit, Goto, Return, ProbeFree, ProbeHeld, EndProbe
<1>3. ASSUME NEW p \in Pid, WritePid(p)
      PROVE  Abstract!Next \/ UNCHANGED AbstractVars
  BY <1>3
  DEF WritePid, Gone, Exit, Goto, Return, ProbeFree, ProbeHeld, EndProbe
<1>4. ASSUME NEW p \in Pid, Listen(p)
      PROVE  Abstract!Next \/ UNCHANGED AbstractVars
  BY <1>4 DEF Listen, Gone, Exit, Goto, Return, ProbeFree, ProbeHeld, EndProbe
<1>5. ASSUME NEW p \in Pid, Load(p)
      PROVE  Abstract!Next \/ UNCHANGED AbstractVars
  BY <1>5 DEF Load, Gone, Exit, Goto, Return, ProbeFree, ProbeHeld, EndProbe
<1>6. ASSUME NEW p \in Pid, SweepJobDirs(p)
      PROVE  Abstract!Next \/ UNCHANGED AbstractVars
  BY <1>6
  DEF SweepJobDirs, Gone, Exit, Goto, Return, ProbeFree, ProbeHeld, EndProbe
<1>7. ASSUME NEW p \in Pid, Publish(p)
      PROVE  Abstract!Next \/ UNCHANGED AbstractVars
  BY <1>7 DEF Publish, Gone, Exit, Goto, Return, ProbeFree, ProbeHeld, EndProbe
<1>8. ASSUME NEW p \in Pid, InstallHandlers(p)
      PROVE  Abstract!Next \/ UNCHANGED AbstractVars
  BY <1>8
  DEF InstallHandlers, Gone, Exit, Goto, Return, ProbeFree, ProbeHeld, EndProbe
<1>9. ASSUME NEW p \in Pid, Drain(p)
      PROVE  Abstract!Next \/ UNCHANGED AbstractVars
  BY <1>9 DEF Drain, Gone, Exit, Goto, Return, ProbeFree, ProbeHeld, EndProbe
<1>10. ASSUME NEW p \in Pid, ReleaseEndpoint(p)
      PROVE  Abstract!Next \/ UNCHANGED AbstractVars
  BY <1>10
  DEF ReleaseEndpoint, Gone, Exit, Goto, Return, ProbeFree, ProbeHeld, EndProbe
<1>11. ASSUME NEW p \in Pid, ReleasePid(p)
      PROVE  Abstract!Next \/ UNCHANGED AbstractVars
  BY <1>11
  DEF ReleasePid, Gone, Exit, Goto, Return, ProbeFree, ProbeHeld, EndProbe
<1>12. ASSUME NEW p \in Pid, ReleaseLock(p)
      PROVE  Abstract!Next \/ UNCHANGED AbstractVars
  BY <1>12
  DEF ReleaseLock, Gone, Exit, Goto, Return, ProbeFree, ProbeHeld, EndProbe
<1>13. ASSUME NEW p \in Pid, Status(p)
      PROVE  Abstract!Next \/ UNCHANGED AbstractVars
  BY <1>13 DEF Status, Gone, Exit, Goto, Return, ProbeFree, ProbeHeld, EndProbe
<1>14. ASSUME NEW p \in Pid, Restart(p)
      PROVE  Abstract!Next \/ UNCHANGED AbstractVars
  BY <1>14
  DEF Restart, Gone, Exit, Goto, Return, ProbeFree, ProbeHeld, EndProbe
<1>15. ASSUME NEW p \in Pid, StopProbe(p)
      PROVE  Abstract!Next \/ UNCHANGED AbstractVars
  BY <1>15
  DEF StopProbe, Gone, Exit, Goto, Return, ProbeFree, ProbeHeld, EndProbe
<1>16. ASSUME NEW p \in Pid, StopRead(p)
      PROVE  Abstract!Next \/ UNCHANGED AbstractVars
  BY <1>16
  DEF StopRead, Gone, Exit, Goto, Return, ProbeFree, ProbeHeld, EndProbe
<1>17. ASSUME NEW p \in Pid, SendTerm(p)
      PROVE  Abstract!Next \/ UNCHANGED AbstractVars
  BY <1>17
  DEF SendTerm, Gone, Exit, Goto, Return, ProbeFree, ProbeHeld, EndProbe
<1>18. ASSUME NEW p \in Pid, StopPoll(p)
      PROVE  Abstract!Next \/ UNCHANGED AbstractVars
  BY <1>18
  DEF StopPoll, Gone, Exit, Goto, Return, ProbeFree, ProbeHeld, EndProbe
<1>19. ASSUME NEW p \in Pid, SendKill(p)
      PROVE  Abstract!Next \/ UNCHANGED AbstractVars
  BY <1>19
  DEF SendKill, Gone, Exit, Goto, Return, ProbeFree, ProbeHeld, EndProbe
<1>20. ASSUME NEW p \in Pid, NotFound(p)
      PROVE  Abstract!Next \/ UNCHANGED AbstractVars
  BY <1>20
  DEF NotFound, Gone, Exit, Goto, Return, ProbeFree, ProbeHeld, EndProbe
<1>21. ASSUME NEW p \in Pid, StopFinal(p)
      PROVE  Abstract!Next \/ UNCHANGED AbstractVars
  BY <1>21
  DEF StopFinal, Gone, Exit, Goto, Return, ProbeFree, ProbeHeld, EndProbe
<1>22. ASSUME NEW p \in Pid, ClearFiles(p)
      PROVE  Abstract!Next \/ UNCHANGED AbstractVars
  BY <1>22
  DEF ClearFiles, Gone, Exit, Goto, Return, ProbeFree, ProbeHeld, EndProbe
<1>23. ASSUME NEW p \in Pid, BeginJob(p)
      PROVE  Abstract!Next \/ UNCHANGED AbstractVars
  BY <1>23
  DEF BeginJob, Gone, Exit, Goto, Return, ProbeFree, ProbeHeld, EndProbe
<1>24. ASSUME NEW p \in Pid, FinishJob(p)
      PROVE  Abstract!Next \/ UNCHANGED AbstractVars
  BY <1>24
  DEF FinishJob, Gone, Exit, Goto, Return, ProbeFree, ProbeHeld, EndProbe
<1>25. ASSUME NEW p \in Pid, Interrupt(p)
      PROVE  Abstract!Next \/ UNCHANGED AbstractVars
  BY <1>25
  DEF Interrupt, Gone, Exit, Goto, Return, ProbeFree, ProbeHeld, EndProbe
<1>26. ASSUME NEW p \in Pid, Crash(p)
      PROVE  Abstract!Next \/ UNCHANGED AbstractVars
  BY <1>26 DEF Crash, Gone, Exit, Goto, Return, ProbeFree, ProbeHeld, EndProbe
<1>27. ASSUME NEW p \in Pid, Finish(p)
      PROVE  Abstract!Next \/ UNCHANGED AbstractVars
  BY <1>27 DEF Finish, Gone, Exit, Goto, Return, ProbeFree, ProbeHeld, EndProbe
<1> QED
  BY <1>0, <1>28, <1>1, <1>2, <1>3, <1>4, <1>5, <1>6, <1>7, <1>8, <1>9, <1>10,
     <1>11, <1>12, <1>13, <1>14, <1>15, <1>16, <1>17, <1>18, <1>19, <1>20,
     <1>21, <1>22, <1>23, <1>24, <1>25, <1>26, <1>27
  DEF Next, ServerStep, CommandStep

(* The lock protocol implements SingleServer: server.json always goes from
   absent to the running server's own and back, never from one server's to
   another's, and never disappears from under an open server.             *)
THEOREM Implementation == Spec => ImplementsSingleServer
<1>1. IInv /\ IInv' /\ [Next]_vars => [Abstract!Next]_AbstractVars
  BY StepRefines
<1> QED
  BY <1>1, InitRefines, Invariance, PTL
  DEF Spec, ImplementsSingleServer, Abstract!Spec, AbstractVars

-----------------------------------------------------------------------------
(* Whom a stop signals                                                     *)

(* q serves, or is about to: it has written its PID and holds the lock until
   it has released it.  Or it was started as a server and is gone.         *)
IsOrWasServer(q) == serial[q] > 0 /\ pc[q] \in PidWritten \cup Releasing \cup {"none"}

(* The PID file and the stops that have read it know only servers.         *)
KnownServers ==
    /\ pidFile # NoPid => IsOrWasServer(pidFile)
    /\ \A p \in Pid : target[p] # NoPid => IsOrWasServer(target[p])

SignalsOnlyServers ==
    \A p \in Pid : pc[p] \in {"stopTerm", "stopKill"} => IsOrWasServer(target[p])

(* A PID is a server's for good when it is not used again.                 *)
LEMMA ServersRemain ==
  ASSUME IInv, ~ Recycle, [Next]_vars, NEW q \in Pid, IsOrWasServer(q)
  PROVE  IsOrWasServer(q)'
<1> USE DEF IsOrWasServer, IInv, TypeOK, Gone, Exit, Goto, Return, ProbeFree, ProbeHeld, EndProbe, Token
<1>1. ASSUME NEW p \in Pid, NEW program \in Programs, Spawn(p, program)
      PROVE  IsOrWasServer(q)'
  BY <1>1 DEF Spawn, Entry
<1>2. ASSUME NEW p \in Pid, ServerStep(p)
      PROVE  IsOrWasServer(q)'
  <2>1. CASE ClaimLock(p)
    BY <2>1 DEF ClaimLock
  <2>2. CASE DropEndpoint(p) \/ WritePid(p) \/ Listen(p) \/ Load(p) \/ SweepJobDirs(p)
    BY <2>2 DEF DropEndpoint, WritePid, Listen, Load, SweepJobDirs
  <2>3. CASE Publish(p) \/ InstallHandlers(p) \/ Drain(p)
    BY <2>3 DEF Publish, InstallHandlers, Drain
  <2>4. CASE ReleaseEndpoint(p) \/ ReleasePid(p) \/ ReleaseLock(p)
    BY <2>4 DEF ReleaseEndpoint, ReleasePid, ReleaseLock
  <2> QED BY <1>2, <2>1, <2>2, <2>3, <2>4 DEF ServerStep
<1>3. ASSUME NEW p \in Pid, CommandStep(p)
      PROVE  IsOrWasServer(q)'
  <2>1. CASE Status(p) \/ Restart(p)
    BY <2>1 DEF Status, Restart
  <2>2. CASE StopProbe(p) \/ StopRead(p)
    BY <2>2 DEF StopProbe, StopRead
  <2>3. CASE SendTerm(p)
    BY <2>3 DEF SendTerm
  <2>4. CASE StopPoll(p)
    BY <2>4 DEF StopPoll
  <2>5. CASE SendKill(p)
    BY <2>5 DEF SendKill
  <2>6. CASE NotFound(p)
    BY <2>6 DEF NotFound
  <2>7. CASE StopFinal(p)
    BY <2>7 DEF StopFinal
  <2>8. CASE ClearFiles(p)
    BY <2>8 DEF ClearFiles
  <2> QED BY <1>3, <2>1, <2>2, <2>3, <2>4, <2>5, <2>6, <2>7, <2>8 DEF CommandStep
<1>4. ASSUME NEW p \in Pid, BeginJob(p) \/ FinishJob(p) \/ Interrupt(p)
      PROVE  IsOrWasServer(q)'
  BY <1>4 DEF BeginJob, FinishJob, Interrupt
<1>5. ASSUME NEW p \in Pid, Crash(p) \/ Finish(p)
      PROVE  IsOrWasServer(q)'
  BY <1>5 DEF Crash, Finish
<1>6. CASE UNCHANGED vars
  BY <1>6 DEF vars
<1> QED BY <1>1, <1>2, <1>3, <1>4, <1>5, <1>6 DEF Next

(* What a PID file or a stop comes to know: the server that writes its PID, *)
(* and the PID that a stop reads.                                          *)
LEMMA NewlyKnown ==
  ASSUME IInv, [Next]_vars
  PROVE  /\ pidFile' \notin {pidFile, NoPid} => /\ pidFile' \in Pid
                                                /\ serial'[pidFile'] > 0 /\ pc'[pidFile'] = "listen"
         /\ \A p \in Pid : target'[p] \in {target[p], pidFile, NoPid}
<1> USE DEF IInv, TypeOK, ServersNumbered, Gone, Exit, Goto, Return, ProbeFree, ProbeHeld, EndProbe, Token
<1>1. ASSUME NEW p \in Pid, NEW program \in Programs, Spawn(p, program)
      PROVE  pidFile' = pidFile /\ \A r \in Pid : target'[r] \in {target[r], NoPid}
  BY <1>1 DEF Spawn
<1>2. ASSUME NEW p \in Pid, ServerStep(p), ~ WritePid(p)
      PROVE  pidFile' \in {pidFile, NoPid} /\ target' = target
  <2>1. CASE ClaimLock(p)
    BY <2>1 DEF ClaimLock
  <2>2. CASE DropEndpoint(p) \/ Listen(p) \/ Load(p) \/ SweepJobDirs(p)
    BY <2>2 DEF DropEndpoint, Listen, Load, SweepJobDirs
  <2>3. CASE Publish(p) \/ InstallHandlers(p) \/ Drain(p)
    BY <2>3 DEF Publish, InstallHandlers, Drain
  <2>4. CASE ReleaseEndpoint(p) \/ ReleasePid(p) \/ ReleaseLock(p)
    BY <2>4 DEF ReleaseEndpoint, ReleasePid, ReleaseLock
  <2> QED BY <1>2, <2>1, <2>2, <2>3, <2>4 DEF ServerStep
<1>3. ASSUME NEW p \in Pid, WritePid(p)
      PROVE  pidFile' = p /\ serial'[p] > 0 /\ pc'[p] = "listen" /\ target' = target
  BY <1>3 DEF WritePid
<1>4. ASSUME NEW p \in Pid, StopRead(p)
      PROVE  pidFile' = pidFile /\ \A r \in Pid : target'[r] \in {target[r], pidFile}
  BY <1>4 DEF StopRead
<1>5. ASSUME NEW p \in Pid, CommandStep(p), ~ StopRead(p)
      PROVE  pidFile' \in {pidFile, NoPid} /\ target' = target
  <2>1. CASE Status(p) \/ Restart(p) \/ StopProbe(p)
    BY <2>1 DEF Status, Restart, StopProbe
  <2>2. CASE SendTerm(p) \/ SendKill(p) \/ NotFound(p)
    BY <2>2 DEF SendTerm, SendKill, NotFound
  <2>3. CASE StopPoll(p) \/ StopFinal(p)
    BY <2>3 DEF StopPoll, StopFinal
  <2>4. CASE ClearFiles(p)
    BY <2>4 DEF ClearFiles
  <2> QED BY <1>5, <2>1, <2>2, <2>3, <2>4 DEF CommandStep
<1>6. ASSUME NEW p \in Pid, BeginJob(p) \/ FinishJob(p) \/ Interrupt(p) \/ Crash(p) \/ Finish(p)
      PROVE  pidFile' = pidFile /\ target' = target
  BY <1>6 DEF BeginJob, FinishJob, Interrupt, Crash, Finish
<1>7. CASE UNCHANGED vars
  BY <1>7 DEF vars
<1> QED BY <1>1, <1>2, <1>3, <1>4, <1>5, <1>6, <1>7 DEF Next

(* stop_server: where no PID is used twice, SIGTERM and SIGKILL go to a     *)
(* server or to nobody, never to another command or to an unrelated        *)
(* process, whatever PID file a crash or a racing stop has left.           *)
THEOREM StopsSignalOnlyServers == Spec => [](~ Recycle => SignalsOnlyServers)
<1>1. Init => (~ Recycle => KnownServers)
  BY DEF Init, KnownServers
<1>2. IInv /\ (~ Recycle => KnownServers) /\ [Next]_vars => (~ Recycle => KnownServers)'
  <2> SUFFICES ASSUME IInv, ~ Recycle, KnownServers, [Next]_vars
               PROVE  KnownServers'
    BY ProgramsAssumption
  <2>1. ASSUME pidFile' # NoPid
        PROVE  IsOrWasServer(pidFile)'
    <3>1. CASE pidFile' = pidFile
      <4>1. pidFile \in Pid
        BY <2>1, <3>1 DEF IInv, TypeOK
      <4>2. IsOrWasServer(pidFile)
        BY <2>1, <3>1 DEF KnownServers
      <4> QED BY <3>1, <4>1, <4>2, ServersRemain DEF IsOrWasServer
    <3>2. CASE pidFile' # pidFile
      BY <2>1, <3>2, NewlyKnown DEF IsOrWasServer
    <3> QED BY <3>1, <3>2
  <2>2. ASSUME NEW p \in Pid, target'[p] # NoPid
        PROVE  IsOrWasServer(target[p])'
    <3>1. target'[p] \in Pid /\ IsOrWasServer(target'[p])
      BY <2>2, NewlyKnown DEF KnownServers, IInv, TypeOK
    <3>2. \A q \in Pid : IsOrWasServer(q) => serial'[q] > 0 /\ pc'[q] \in PidWritten \cup Releasing \cup {"none"}
      BY ServersRemain DEF IsOrWasServer
    <3> QED BY <3>1, <3>2 DEF IsOrWasServer
  <2> QED BY <2>1, <2>2 DEF KnownServers
<1>3. IInv /\ (~ Recycle => KnownServers) => (~ Recycle => SignalsOnlyServers)
  BY DEF KnownServers, SignalsOnlyServers, IInv, StopsBounded
<1> QED BY <1>1, <1>2, <1>3, Invariance, PTL DEF Spec
-----------------------------------------------------------------------------
(* How far a process is from its end                                       *)

(* Whoever claims the lock has counted fewer tries than it may.            *)
ClaimWithin(p) ==
    /\ pc[p] \in {"restart", "restartHeld"} => tries[p] = 0
    /\ pc[p] = "claim" => tries[p] < ClaimAttempts
ClaimsBounded == \A p \in Pid : ClaimWithin(p)

(* The steps a process has before it at most, after n tries: each claim and
   each poll counted, and `more` for the start that follows in a restart.  *)
Start == 14 + ClaimAttempts
Before(label, n, more) ==
    CASE label = "none"         -> 0
      [] label = "other"        -> 1
      [] label = "unlock"       -> 2
      [] label = "relPid"       -> 3
      [] label = "relEndpoint"  -> 4
      [] label = "draining"     -> 5
      [] label = "serving"      -> 6
      [] label = "handle"       -> 7
      [] label = "publish"      -> 8
      [] label = "sweep"        -> 9
      [] label = "load"         -> 10
      [] label = "listen"       -> 11
      [] label = "writePid"     -> 12
      [] label = "dropEndpoint" -> 13
      [] label = "claim"        -> 13 + ClaimAttempts - n
      [] label = "statusHeld"   -> 2
      [] label = "status"       -> 3
      [] label = "restartHeld"  -> Start
      [] label = "clearRelease" -> 1 + more
      [] label = "clearPid"     -> 2 + more
      [] label = "clearEndpoint" -> 3 + more
      [] label = "clear"        -> 4 + more
      [] label = "pollHeld"     -> 5 + more
      [] label = "finalHeld"    -> 5 + more
      [] label = "stopFinal"    -> 6 + more
      [] label = "stopKill"     -> 7 + more
      [] label = "stopPoll"     -> 7 + PollRounds - n + more
      [] label = "stopTerm"     -> 8 + PollRounds + more
      [] label = "stopRead"     -> 9 + PollRounds + more
      [] label = "stopHeld"     -> 1 + more
      [] label = "stopProbe"    -> 10 + PollRounds + more
      [] label = "restart"      -> 11 + PollRounds + Start
More(p) == IF p \in restarting THEN Start ELSE 0
Left(p) == Before(pc[p], tries[p], More(p))

(* Every step of a start, a stop, a restart or a status, and of a server   *)
(* that comes up or shuts down, brings it nearer to its end.               *)
ComesForward == \A p \in Pid : ServerStep(p) \/ CommandStep(p) => Left(p)' < Left(p)

(* Nobody throws a process back, as long as its PID is its own.            *)
NeverThrownBack ==
    \A p \in Pid : pc[p] # "none" => Left(p)' = Left(p) \/ Left(p)' < Left(p)

LEMMA Places ==
  ASSUME NEW n \in Nat, NEW more \in Nat
  PROVE  /\ Before("none", n, more) = 0 /\ Before("other", n, more) = 1
         /\ Before("unlock", n, more) = 2 /\ Before("relPid", n, more) = 3
         /\ Before("relEndpoint", n, more) = 4 /\ Before("draining", n, more) = 5
         /\ Before("serving", n, more) = 6 /\ Before("handle", n, more) = 7
         /\ Before("publish", n, more) = 8 /\ Before("sweep", n, more) = 9
         /\ Before("load", n, more) = 10 /\ Before("listen", n, more) = 11
         /\ Before("writePid", n, more) = 12 /\ Before("dropEndpoint", n, more) = 13
         /\ Before("claim", n, more) = 13 + ClaimAttempts - n
         /\ Before("statusHeld", n, more) = 2 /\ Before("status", n, more) = 3
         /\ Before("restartHeld", n, more) = 14 + ClaimAttempts
         /\ Before("clearRelease", n, more) = 1 + more
         /\ Before("clearPid", n, more) = 2 + more
         /\ Before("clearEndpoint", n, more) = 3 + more
         /\ Before("clear", n, more) = 4 + more
         /\ Before("pollHeld", n, more) = 5 + more
         /\ Before("finalHeld", n, more) = 5 + more
         /\ Before("stopFinal", n, more) = 6 + more
         /\ Before("stopKill", n, more) = 7 + more
         /\ Before("stopPoll", n, more) = 7 + PollRounds - n + more
         /\ Before("stopTerm", n, more) = 8 + PollRounds + more
         /\ Before("stopRead", n, more) = 9 + PollRounds + more
         /\ Before("stopHeld", n, more) = 1 + more
         /\ Before("stopProbe", n, more) = 10 + PollRounds + more
         /\ Before("restart", n, more) = 25 + PollRounds + ClaimAttempts
BY DEF Before, Start

(* A server's steps come in this order, ...                                *)
LEMMA ServerForth ==
  ASSUME NEW n \in Nat, NEW more \in Nat, NEW m \in Nat, NEW same \in Nat
  PROVE  /\ Before("unlock", m, same) < Before("relPid", n, more)
         /\ Before("relPid", m, same) < Before("relEndpoint", n, more)
         /\ Before("relEndpoint", m, same) < Before("draining", n, more)
         /\ Before("draining", m, same) < Before("serving", n, more)
         /\ Before("serving", m, same) < Before("handle", n, more)
         /\ Before("handle", m, same) < Before("publish", n, more)
         /\ Before("relEndpoint", m, same) < Before("publish", n, more)
         /\ Before("publish", m, same) < Before("sweep", n, more)
         /\ Before("sweep", m, same) < Before("load", n, more)
         /\ Before("relEndpoint", m, same) < Before("load", n, more)
         /\ Before("load", m, same) < Before("listen", n, more)
         /\ Before("relEndpoint", m, same) < Before("listen", n, more)
         /\ Before("listen", m, same) < Before("writePid", n, more)
         /\ Before("writePid", m, same) < Before("dropEndpoint", n, more)
         /\ n < ClaimAttempts => Before("dropEndpoint", m, same) < Before("claim", n, more)
         /\ Before("claim", n + 1, same) < Before("claim", n, more)
<1>1. Before("claim", n + 1, same) = 13 + ClaimAttempts - (n + 1)
  BY Places
<1>2. Before("claim", n, more) = 13 + ClaimAttempts - n
  BY Places
<1>3. n < ClaimAttempts => Before("dropEndpoint", m, same) < Before("claim", n, more)
  <2>1. Before("dropEndpoint", m, same) = 13
    BY Places
  <2> QED BY <1>2, <2>1
<1>4. Before("claim", n + 1, same) < Before("claim", n, more)
  BY <1>1, <1>2
<1>5. /\ Before("unlock", m, same) = 2 /\ Before("relPid", m, same) = 3
      /\ Before("relEndpoint", m, same) = 4 /\ Before("draining", m, same) = 5
      /\ Before("serving", m, same) = 6 /\ Before("handle", m, same) = 7
      /\ Before("publish", m, same) = 8 /\ Before("sweep", m, same) = 9
      /\ Before("load", m, same) = 10 /\ Before("listen", m, same) = 11
      /\ Before("writePid", m, same) = 12
  BY Places
<1>6. /\ Before("relPid", n, more) = 3
      /\ Before("relEndpoint", n, more) = 4 /\ Before("draining", n, more) = 5
      /\ Before("serving", n, more) = 6 /\ Before("handle", n, more) = 7
      /\ Before("publish", n, more) = 8 /\ Before("sweep", n, more) = 9
      /\ Before("load", n, more) = 10 /\ Before("listen", n, more) = 11
      /\ Before("writePid", n, more) = 12 /\ Before("dropEndpoint", n, more) = 13
  BY Places
<1> QED BY <1>3, <1>4, <1>5, <1>6

(* ... and a command's in this one.                                        *)
LEMMA CommandForth ==
  ASSUME NEW n \in Nat, NEW more \in Nat, NEW m \in Nat
  PROVE  /\ Before("statusHeld", m, more) < Before("status", n, more)
         /\ Before("other", m, more) < Before("status", n, more)
         /\ Before("other", m, more) < Before("statusHeld", n, more)
         /\ Before("restartHeld", m, more) < Before("restart", n, more)
         /\ Before("claim", 0, 0) < Before("restartHeld", n, more)
         /\ Before("stopProbe", m, Start) < Before("restart", n, more)
         /\ Before("stopHeld", m, more) < Before("stopProbe", n, more)
         /\ Before("stopRead", m, more) < Before("stopProbe", n, more)
         /\ Before("stopTerm", m, more) < Before("stopRead", n, more)
         /\ Before("stopPoll", 0, more) < Before("stopTerm", n, more)
         /\ n < PollRounds => Before("pollHeld", m, more) < Before("stopPoll", n, more)
         /\ n < PollRounds => Before("stopKill", m, more) < Before("stopPoll", n, more)
         /\ Before("stopPoll", n + 1, more) < Before("stopPoll", n, more)
         /\ Before("clear", m, more) < Before("pollHeld", n, more)
         /\ Before("stopFinal", m, more) < Before("stopKill", n, more)
         /\ Before("finalHeld", m, more) < Before("stopFinal", n, more)
         /\ Before("clear", m, more) < Before("finalHeld", n, more)
         /\ Before("clearEndpoint", m, more) < Before("clear", n, more)
         /\ Before("clearPid", m, more) < Before("clearEndpoint", n, more)
         /\ Before("clearRelease", m, more) < Before("clearPid", n, more)
<1>0. ClaimAttempts \in Nat /\ PollRounds \in Nat
  OBVIOUS
<1>1. /\ Before("statusHeld", m, more) < Before("status", n, more)
      /\ Before("other", m, more) < Before("status", n, more)
      /\ Before("other", m, more) < Before("statusHeld", n, more)
  <2>1. Before("statusHeld", m, more) = 2 /\ Before("other", m, more) = 1
    BY Places
  <2>2. Before("status", n, more) = 3 /\ Before("statusHeld", n, more) = 2
    BY Places
  <2> QED BY <2>1, <2>2
<1>2. Before("restartHeld", m, more) < Before("restart", n, more)
  BY <1>0, Places
<1>3. Before("claim", 0, 0) < Before("restartHeld", n, more)
  <2>1. Before("claim", 0, 0) = 13 + ClaimAttempts - 0
    BY Places
  <2> QED BY <1>0, <2>1, Places
<1>4. Before("stopProbe", m, Start) < Before("restart", n, more)
  <2>1. Before("stopProbe", m, Start) = 10 + PollRounds + (14 + ClaimAttempts)
    BY <1>0, Places DEF Start
  <2> QED BY <1>0, <2>1, Places
<1>5. /\ Before("stopHeld", m, more) < Before("stopProbe", n, more)
      /\ Before("stopRead", m, more) < Before("stopProbe", n, more)
      /\ Before("stopTerm", m, more) < Before("stopRead", n, more)
  <2>1. Before("stopProbe", n, more) = 10 + PollRounds + more
    BY Places
  <2>2. Before("stopRead", n, more) = 9 + PollRounds + more /\ Before("stopRead", m, more) = 9 + PollRounds + more
    BY Places
  <2>3. Before("stopTerm", m, more) = 8 + PollRounds + more /\ Before("stopHeld", m, more) = 1 + more
    BY Places
  <2> QED BY <1>0, <2>1, <2>2, <2>3
<1>6. Before("stopPoll", 0, more) < Before("stopTerm", n, more)
  <2>1. Before("stopPoll", 0, more) = 7 + PollRounds - 0 + more
    BY Places
  <2>2. Before("stopTerm", n, more) = 8 + PollRounds + more
    BY Places
  <2> QED BY <1>0, <2>1, <2>2
<1>7. /\ n < PollRounds => Before("pollHeld", m, more) < Before("stopPoll", n, more)
      /\ n < PollRounds => Before("stopKill", m, more) < Before("stopPoll", n, more)
      /\ Before("stopPoll", n + 1, more) < Before("stopPoll", n, more)
  <2>1. Before("stopPoll", n, more) = 7 + PollRounds - n + more
    BY Places
  <2>2. Before("stopPoll", n + 1, more) = 7 + PollRounds - (n + 1) + more
    BY Places
  <2>3. Before("pollHeld", m, more) = 5 + more /\ Before("stopKill", m, more) = 7 + more
    BY Places
  <2> QED BY <1>0, <2>1, <2>2, <2>3
<1>8. /\ Before("clear", m, more) < Before("pollHeld", n, more)
      /\ Before("stopFinal", m, more) < Before("stopKill", n, more)
      /\ Before("finalHeld", m, more) < Before("stopFinal", n, more)
      /\ Before("clear", m, more) < Before("finalHeld", n, more)
  <2>1. /\ Before("clear", m, more) = 4 + more /\ Before("stopFinal", m, more) = 6 + more
        /\ Before("finalHeld", m, more) = 5 + more
    BY Places
  <2>2. /\ Before("pollHeld", n, more) = 5 + more /\ Before("stopKill", n, more) = 7 + more
        /\ Before("stopFinal", n, more) = 6 + more /\ Before("finalHeld", n, more) = 5 + more
    BY Places
  <2> QED BY <2>1, <2>2
<1>9. /\ Before("clearEndpoint", m, more) < Before("clear", n, more)
      /\ Before("clearPid", m, more) < Before("clearEndpoint", n, more)
      /\ Before("clearRelease", m, more) < Before("clearPid", n, more)
  <2>1. /\ Before("clearEndpoint", m, more) = 3 + more /\ Before("clearPid", m, more) = 2 + more
        /\ Before("clearRelease", m, more) = 1 + more
    BY Places
  <2>2. /\ Before("clear", n, more) = 4 + more /\ Before("clearEndpoint", n, more) = 3 + more
        /\ Before("clearPid", n, more) = 2 + more
    BY Places
  <2> QED BY <2>1, <2>2
<1> QED BY <1>1, <1>2, <1>3, <1>4, <1>5, <1>6, <1>7, <1>8, <1>9

HIDE DEF Label, Holding, Probing, Stopping, Releasing, Reachable, PidWritten, NoCard

LEMMA LeftIs ==
  ASSUME IInv, ClaimsBounded, NEW p \in Pid
  PROVE  /\ tries[p] \in Nat /\ More(p) \in Nat /\ Left(p) \in Nat
         /\ pc[p] # "none" => Left(p) >= 1
         /\ pc[p] \in Stopping \cup (Probing \ {"statusHeld", "restartHeld"}) => Left(p) >= 1 + More(p)
<1> DEFINE n    == tries[p]
           more == More(p)
<1>1. n \in Nat /\ more \in Nat
  BY DEF IInv, TypeOK, More, Start
<1>2. /\ pc[p] \in Label
      /\ pc[p] = "stopPoll" => n < PollRounds
      /\ pc[p] = "claim" => n < ClaimAttempts
  BY DEF IInv, TypeOK, StopsBounded, ClaimsBounded, ClaimWithin
<1>3. Left(p) = Before(pc[p], n, more)
  BY DEF Left
<1> HIDE DEF n, more
<1>4. CASE pc[p] \in {"none", "other", "status", "statusHeld"}
  <2>1. /\ Before("none", n, more) = 0 /\ Before("other", n, more) = 1
        /\ Before("status", n, more) = 3 /\ Before("statusHeld", n, more) = 2
    BY <1>1, Places
  <2>2. Left(p) \in Nat /\ (pc[p] # "none" => Left(p) >= 1)
    BY <1>3, <1>4, <2>1
  <2> QED BY <1>1, <1>4, <2>2 DEF Stopping, Probing, n, more
<1>5. CASE pc[p] \in Holding
  <2>1. /\ Before("unlock", n, more) = 2 /\ Before("relPid", n, more) = 3
        /\ Before("relEndpoint", n, more) = 4 /\ Before("draining", n, more) = 5
        /\ Before("serving", n, more) = 6 /\ Before("handle", n, more) = 7
        /\ Before("publish", n, more) = 8 /\ Before("sweep", n, more) = 9
        /\ Before("load", n, more) = 10 /\ Before("listen", n, more) = 11
        /\ Before("writePid", n, more) = 12 /\ Before("dropEndpoint", n, more) = 13
    BY <1>1, Places
  <2>2. Left(p) \in 2 .. 13
    BY <1>3, <1>5, <2>1 DEF Holding, Releasing
  <2> QED BY <1>1, <1>5, <2>2 DEF Holding, Releasing, Stopping, Probing, n, more
<1>6. CASE pc[p] \in {"claim", "restart", "restartHeld"}
  <2>1. /\ Before("claim", n, more) = 13 + ClaimAttempts - n
        /\ Before("restart", n, more) = 25 + PollRounds + ClaimAttempts
        /\ Before("restartHeld", n, more) = 14 + ClaimAttempts
    BY <1>1, Places
  <2>2. Left(p) \in Nat /\ Left(p) >= 1
    BY <1>1, <1>2, <1>3, <1>6, <2>1
  <2> QED BY <1>1, <1>6, <2>2 DEF Stopping, Probing, n, more
<1>7. CASE pc[p] \in {"stopPoll", "stopTerm", "stopRead", "stopProbe"}
  <2>1. /\ Before("stopPoll", n, more) = 7 + PollRounds - n + more
        /\ Before("stopTerm", n, more) = 8 + PollRounds + more
        /\ Before("stopRead", n, more) = 9 + PollRounds + more
        /\ Before("stopProbe", n, more) = 10 + PollRounds + more
    BY <1>1, Places
  <2> QED BY <1>1, <1>2, <1>3, <1>7, <2>1 DEF n, more
<1>8. CASE pc[p] \in {"clearRelease", "clearPid", "clearEndpoint", "clear", "pollHeld",
                      "finalHeld", "stopFinal", "stopKill", "stopHeld"}
  <2>1. /\ Before("clearRelease", n, more) = 1 + more /\ Before("clearPid", n, more) = 2 + more
        /\ Before("clearEndpoint", n, more) = 3 + more /\ Before("clear", n, more) = 4 + more
        /\ Before("pollHeld", n, more) = 5 + more /\ Before("finalHeld", n, more) = 5 + more
        /\ Before("stopFinal", n, more) = 6 + more /\ Before("stopKill", n, more) = 7 + more
        /\ Before("stopHeld", n, more) = 1 + more
    BY <1>1, Places
  <2> QED BY <1>1, <1>3, <1>8, <2>1 DEF n, more
<1>9. pc[p] \in Holding \cup
        {"none", "other", "status", "statusHeld", "claim", "restart", "restartHeld",
         "stopPoll", "stopTerm", "stopRead", "stopProbe", "clearRelease", "clearPid",
         "clearEndpoint", "clear", "pollHeld", "finalHeld", "stopFinal", "stopKill", "stopHeld"}
  BY <1>2 DEF Label, Probing, Stopping
<1> QED BY <1>1, <1>4, <1>5, <1>6, <1>7, <1>8, <1>9 DEF n, more

(* A step that only moves p.                                               *)
Alone(p) ==
    \A d \in Pid : d # p => /\ pc'[d] = pc[d] /\ tries'[d] = tries[d]
                            /\ d \in restarting' <=> d \in restarting
Kept(d)  == pc[d] # "none" => Left(d)' = Left(d) \/ Left(d)' < Left(d)
Going(p) == /\ Left(p)' < Left(p)
            /\ \A d \in Pid : ClaimWithin(d)' /\ Kept(d)

LEMMA AloneGoes ==
  ASSUME IInv, ClaimsBounded, NEW p \in Pid, Alone(p), ClaimWithin(p)', Left(p)' < Left(p)
  PROVE  Going(p)
<1>1. ASSUME NEW d \in Pid, d # p
      PROVE  Left(d)' = Left(d) /\ ClaimWithin(d)'
  BY <1>1 DEF Alone, Left, More, ClaimsBounded, ClaimWithin
<1> QED BY <1>1 DEF Going, Kept

LEMMA MovesTo ==
  ASSUME IInv, NEW p \in Pid, NEW to, pc' = [pc EXCEPT ![p] = to], UNCHANGED <<tries, restarting>>
  PROVE  /\ pc'[p] = to /\ Alone(p)
         /\ Left(p) = Before(pc[p], tries[p], More(p))
         /\ Left(p)' = Before(to, tries[p], More(p))
BY DEF IInv, TypeOK, Alone, Left, More

LEMMA EndGoes ==
  ASSUME IInv, ClaimsBounded, NEW p \in Pid, pc[p] # "none", Exit(p)
  PROVE  Going(p)
<1>1. pc'[p] = "none" /\ Alone(p) /\ Left(p)' = 0
  BY DEF Exit, Gone, IInv, TypeOK, Alone, Left, Before
<1> QED BY <1>1, LeftIs, AloneGoes DEF ClaimWithin

LEMMA ReturnGoes ==
  ASSUME IInv, ClaimsBounded, NEW p \in Pid,
         NEW at \in Stopping \cup (Probing \ {"statusHeld", "restartHeld"}), Return(p, at)
  PROVE  Going(p)
<1>1. CASE Exit(p)
  BY <1>1, EndGoes DEF Return, Stopping, Probing
<1>2. CASE p \in restarting /\ ~ Exit(p)
  <2>1. pc'[p] = "claim" /\ tries'[p] = 0 /\ p \notin restarting' /\ Alone(p)
    BY <1>2 DEF Return, IInv, TypeOK, Alone
  <2>2. Left(p)' = 13 + ClaimAttempts - 0
    BY <2>1, Places DEF Left, More
  <2>3. Left(p) >= 1 + (14 + ClaimAttempts) /\ Left(p) \in Nat
    BY <1>2, LeftIs DEF Return, More, Start
  <2>4. Left(p)' < Left(p)
    BY <2>2, <2>3
  <2> QED BY <2>1, <2>4, AloneGoes DEF ClaimWithin
<1> QED BY <1>1, <1>2 DEF Return

(* A step to the next place, with the counts as they were.                 *)
LEMMA NextPlace ==
  ASSUME IInv, ClaimsBounded, NEW p \in Pid, NEW at, NEW to, Goto(p, at, to),
         UNCHANGED <<tries, restarting>>,
         Before(to, tries[p], More(p)) < Before(at, tries[p], More(p)),
         to \in {"restart", "restartHeld", "claim"} => at \in {"restart", "restartHeld"}
  PROVE  Going(p)
<1>1. Alone(p) /\ pc'[p] = to /\ Left(p)' < Left(p)
  BY MovesTo DEF Goto
<1>2. ClaimWithin(p)'
  BY <1>1 DEF ClaimsBounded, ClaimWithin, Goto
<1> QED BY <1>1, <1>2, AloneGoes

LEMMA ServerGoes ==
  ASSUME IInv, ClaimsBounded, NEW p \in Pid, ServerStep(p)
  PROVE  Going(p)
<1>1. tries[p] \in Nat /\ More(p) \in Nat
  BY LeftIs
<1>2. CASE ClaimLock(p)
  <2>0. tries[p] < ClaimAttempts /\ pc[p] = "claim"
    BY <1>2 DEF ClaimLock, ClaimsBounded, ClaimWithin
  <2>1. CASE pc' = [pc EXCEPT ![p] = "dropEndpoint"] /\ UNCHANGED locals
    BY <1>1, <2>0, <2>1, NextPlace, ServerForth DEF locals, Goto
  <2>2. CASE tries[p] + 1 < ClaimAttempts /\ tries' = [tries EXCEPT ![p] = @ + 1] /\ UNCHANGED <<pc, restarting>>
    <3>1. pc'[p] = "claim" /\ tries'[p] = tries[p] + 1 /\ Alone(p) /\ More(p)' = More(p)
      BY <2>0, <2>2 DEF IInv, TypeOK, Alone, More
    <3>2. Left(p)' < Left(p)
      BY <1>1, <2>0, <3>1, ServerForth DEF Left
    <3> QED BY <2>2, <3>1, <3>2, AloneGoes DEF ClaimWithin
  <2>3. CASE Exit(p)
    BY <2>0, <2>3, EndGoes
  <2> QED BY <1>2, <2>1, <2>2, <2>3 DEF ClaimLock
<1>3. CASE DropEndpoint(p)
  BY <1>1, <1>3, NextPlace, ServerForth DEF DropEndpoint, locals
<1>4. CASE WritePid(p)
  BY <1>1, <1>4, NextPlace, ServerForth DEF WritePid, locals
<1>5. CASE Listen(p)
  BY <1>1, <1>5, NextPlace, ServerForth DEF Listen, locals
<1>6. CASE Load(p)
  BY <1>1, <1>6, NextPlace, ServerForth DEF Load, locals
<1>7. CASE SweepJobDirs(p)
  BY <1>1, <1>7, NextPlace, ServerForth DEF SweepJobDirs, locals
<1>8. CASE Publish(p)
  BY <1>1, <1>8, NextPlace, ServerForth DEF Publish, locals
<1>9. CASE InstallHandlers(p)
  BY <1>1, <1>9, NextPlace, ServerForth DEF InstallHandlers
<1>10. CASE Drain(p)
  BY <1>1, <1>10, NextPlace, ServerForth DEF Drain, locals
<1>11. CASE ReleaseEndpoint(p)
  BY <1>1, <1>11, NextPlace, ServerForth DEF ReleaseEndpoint, locals
<1>12. CASE ReleasePid(p)
  BY <1>1, <1>12, NextPlace, ServerForth DEF ReleasePid, locals
<1>13. CASE ReleaseLock(p)
  BY <1>13, EndGoes DEF ReleaseLock
<1> QED
  BY <1>2, <1>3, <1>4, <1>5, <1>6, <1>7, <1>8, <1>9, <1>10, <1>11, <1>12, <1>13 DEF ServerStep

(* A signal moves two processes, which may be one: the sender, and the one *)
(* it drives out or ends.                                                  *)
LEMMA SignalGoes ==
  ASSUME IInv, ClaimsBounded, NEW p \in Pid, NEW q \in Pid, NEW to,
         pc[p] # "none", to \in {"stopPoll", "stopFinal"}, tries' = tries,
         Before(to, tries[p], More(p)) < Left(p),
         \/ /\ q \in handlers /\ restarting' = restarting
            /\ pc' = [pc EXCEPT ![p] = to, ![q] = IF @ = "serving" THEN "draining" ELSE @]
         \/ Gone(q, [pc EXCEPT ![p] = to])
  PROVE  Going(p)
<1>0. \A d \in Pid : tries[d] \in Nat /\ More(d) \in Nat /\ Left(d) \in Nat /\ (pc[d] # "none" => Left(d) >= 1)
  BY LeftIs
<1>1. CASE /\ restarting' = restarting
           /\ pc' = [pc EXCEPT ![p] = to, ![q] = IF @ = "serving" THEN "draining" ELSE @]
  <2>1. pc'[p] = to /\ More(p)' = More(p) /\ \A d \in Pid : More(d)' = More(d)
    BY <1>1 DEF IInv, TypeOK, More
  <2>2. Left(p)' < Left(p) /\ ClaimWithin(p)'
    BY <2>1 DEF Left, ClaimWithin
  <2>3. ASSUME NEW d \in Pid, d # p
        PROVE  ClaimWithin(d)' /\ Kept(d)
    <3>1. CASE pc'[d] = pc[d]
      BY <2>1, <3>1 DEF ClaimsBounded, ClaimWithin, Kept, Left
    <3>2. CASE pc[d] = "serving" /\ pc'[d] = "draining"
      <4>1. Left(d)' < Left(d)
        BY <1>0, <2>1, <3>2, ServerForth DEF Left
      <4> QED BY <3>2, <4>1 DEF ClaimWithin, Kept
    <3> QED BY <1>1, <2>3, <3>1, <3>2 DEF IInv, TypeOK
  <2>4. Kept(p)
    BY <2>2 DEF Kept
  <2> QED BY <2>2, <2>3, <2>4 DEF Going
<1>2. CASE Gone(q, [pc EXCEPT ![p] = to])
  <2>1. pc'[q] = "none" /\ Left(q)' = 0
    BY <1>2 DEF Gone, IInv, TypeOK, Left, Before
  <2>2. ClaimWithin(q)' /\ Kept(q)
    BY <1>0, <2>1 DEF ClaimWithin, Kept
  <2>3. ASSUME NEW d \in Pid, d # p, d # q
        PROVE  ClaimWithin(d)' /\ Kept(d)
    <3>1. pc'[d] = pc[d] /\ More(d)' = More(d)
      BY <1>2, <2>3 DEF Gone, IInv, TypeOK, More
    <3> QED BY <3>1 DEF ClaimsBounded, ClaimWithin, Kept, Left
  <2>4. Left(p)' < Left(p) /\ ClaimWithin(p)'
    <3>1. CASE p = q
      BY <1>0, <2>1, <2>2, <3>1
    <3>2. CASE p # q
      <4>1. pc'[p] = to /\ More(p)' = More(p)
        BY <1>2, <3>2 DEF Gone, IInv, TypeOK, More
      <4> QED BY <4>1 DEF Left, ClaimWithin
    <3> QED BY <3>1, <3>2
  <2>5. Kept(p)
    BY <2>4 DEF Kept
  <2> QED BY <2>2, <2>3, <2>4, <2>5 DEF Going
<1> QED BY <1>1, <1>2

LEMMA CommandGoes ==
  ASSUME IInv, ClaimsBounded, NEW p \in Pid, CommandStep(p)
  PROVE  Going(p)
<1>1. tries[p] \in Nat /\ More(p) \in Nat
  BY LeftIs
<1>2. Left(p) = Before(pc[p], tries[p], More(p))
  BY DEF Left
<1> USE DEF locals
<1>3. ASSUME NEW at \in Stopping \cup (Probing \ {"statusHeld", "restartHeld"}), Return(p, at)
      PROVE  Going(p)
  BY <1>3, ReturnGoes
<1>4. ASSUME NEW at, NEW to, ProbeFree(p, at, to) \/ ProbeHeld(p, at, to) \/ EndProbe(p, at, to),
             Before(to, tries[p], More(p)) < Before(at, tries[p], More(p)),
             to \in {"restart", "restartHeld", "claim"} => at \in {"restart", "restartHeld"}
      PROVE  Going(p)
  BY <1>4, NextPlace DEF ProbeFree, ProbeHeld, EndProbe
<1>5. CASE Status(p)
  BY <1>1, <1>4, <1>5, CommandForth DEF Status
<1>6. CASE Restart(p)
  <2>1. CASE ProbeFree(p, "restart", "restartHeld")
    BY <1>1, <1>4, <2>1, CommandForth
  <2>2. CASE EndProbe(p, "restartHeld", "claim")
    <3>1. pc[p] = "restartHeld" /\ tries[p] = 0
      BY <2>2 DEF EndProbe, Goto, ClaimsBounded, ClaimWithin
    <3>2. Before("claim", tries[p], More(p)) = 13 + ClaimAttempts - 0
      BY <1>1, <3>1, Places
    <3>3. Before("restartHeld", tries[p], More(p)) = 14 + ClaimAttempts
      BY <1>1, Places
    <3> QED BY <1>4, <2>2, <3>2, <3>3
  <2>3. CASE Goto(p, "restart", "stopProbe") /\ restarting' = restarting \cup {p} /\ tries' = tries
    <3>1. pc'[p] = "stopProbe" /\ More(p)' = Start /\ Alone(p) /\ tries'[p] = tries[p]
      BY <2>3 DEF Goto, IInv, TypeOK, Alone, More
    <3>2. Left(p)' < Left(p)
      BY <1>1, <1>2, <2>3, <3>1, CommandForth DEF Left, Goto
    <3> QED BY <3>1, <3>2, AloneGoes DEF ClaimWithin
  <2> QED BY <1>6, <2>1, <2>2, <2>3 DEF Restart
<1>7. CASE StopProbe(p)
  BY <1>1, <1>3, <1>4, <1>7, CommandForth DEF StopProbe, Probing
<1>8. CASE StopRead(p)
  <2>1. CASE Return(p, "stopRead")
    BY <1>3, <2>1 DEF Stopping
  <2>2. CASE /\ Goto(p, "stopRead", "stopTerm") /\ tries' = [tries EXCEPT ![p] = 0]
             /\ restarting' = restarting
    <3>1. pc'[p] = "stopTerm" /\ tries'[p] = 0 /\ More(p)' = More(p) /\ Alone(p)
      BY <2>2 DEF Goto, IInv, TypeOK, Alone, More
    <3>2. Left(p)' < Left(p)
      BY <1>1, <1>2, <2>2, <3>1, CommandForth DEF Left, Goto
    <3> QED BY <3>1, <3>2, AloneGoes DEF ClaimWithin
  <2> QED BY <1>8, <2>1, <2>2 DEF StopRead
<1>9. CASE SendTerm(p)
  <2>1. pc[p] = "stopTerm" /\ target[p] \in Pid /\ tries[p] = 0
    BY <1>9 DEF SendTerm, IInv, StopsBounded
  <2>2. Before("stopPoll", tries[p], More(p)) < Left(p)
    BY <1>1, <1>2, <2>1, CommandForth
  <2> QED BY <1>9, <2>1, <2>2, SignalGoes DEF SendTerm
<1>10. CASE StopPoll(p)
  <2>0. pc[p] = "stopPoll" => tries[p] < PollRounds
    BY DEF IInv, StopsBounded
  <2>1. CASE ProbeFree(p, "stopPoll", "pollHeld")
    BY <1>1, <1>4, <2>0, <2>1, CommandForth DEF ProbeFree, Goto
  <2>2. CASE EndProbe(p, "pollHeld", "clear")
    BY <1>1, <1>4, <2>2, CommandForth
  <2>3. ASSUME NEW to \in {"stopPoll", "stopKill"}, Goto(p, "stopPoll", to),
               tries' = [tries EXCEPT ![p] = @ + 1], restarting' = restarting
        PROVE  Going(p)
    <3>1. pc'[p] = to /\ tries'[p] = tries[p] + 1 /\ More(p)' = More(p) /\ Alone(p)
      BY <2>3 DEF Goto, IInv, TypeOK, Alone, More
    <3>2. Before("stopPoll", tries[p] + 1, More(p)) < Before("stopPoll", tries[p], More(p))
      BY <1>1, CommandForth
    <3>3. Before("stopKill", tries[p] + 1, More(p)) < Before("stopPoll", tries[p], More(p))
      BY <1>1, <2>0, <2>3, CommandForth DEF Goto
    <3>4. Left(p)' < Left(p)
      BY <1>2, <2>3, <3>1, <3>2, <3>3 DEF Left, Goto
    <3> QED BY <3>1, <3>4, AloneGoes DEF ClaimWithin
  <2> QED BY <1>10, <2>1, <2>2, <2>3 DEF StopPoll
<1>11. CASE SendKill(p)
  <2>1. pc[p] = "stopKill" /\ target[p] \in Pid
    BY <1>11 DEF SendKill, IInv, StopsBounded
  <2>2. Before("stopFinal", tries[p], More(p)) < Left(p)
    BY <1>1, <1>2, <2>1, CommandForth
  <2> QED BY <1>11, <2>1, <2>2, SignalGoes DEF SendKill
<1>12. CASE NotFound(p)
  BY <1>3, <1>12 DEF NotFound, Stopping
<1>13. CASE StopFinal(p)
  BY <1>1, <1>3, <1>4, <1>13, CommandForth DEF StopFinal, Stopping
<1>14. CASE ClearFiles(p)
  <2>1. CASE ProbeFree(p, "clear", "clearEndpoint")
    BY <1>1, <1>4, <2>1, CommandForth
  <2>2. CASE Return(p, "clear") \/ Return(p, "clearRelease")
    BY <1>3, <2>2 DEF Stopping, Probing
  <2>3. CASE Goto(p, "clearEndpoint", "clearPid") /\ UNCHANGED locals
    BY <1>1, <2>3, NextPlace, CommandForth
  <2>4. CASE Goto(p, "clearPid", "clearRelease") /\ UNCHANGED locals
    BY <1>1, <2>4, NextPlace, CommandForth
  <2> QED BY <1>14, <2>1, <2>2, <2>3, <2>4 DEF ClearFiles
<1> QED
  BY <1>5, <1>6, <1>7, <1>8, <1>9, <1>10, <1>11, <1>12, <1>13, <1>14 DEF CommandStep

(* A process that begins has tries of its own, and throws nobody back.     *)
LEMMA EnvironmentGoes ==
  ASSUME IInv, ClaimsBounded, NEW p \in Pid,
         \/ \E program \in Programs : Spawn(p, program)
         \/ BeginJob(p) \/ FinishJob(p) \/ Interrupt(p) \/ Crash(p) \/ Finish(p)
  PROVE  \A d \in Pid : ClaimWithin(d)' /\ Kept(d)
<1>1. ASSUME NEW program \in Programs, Spawn(p, program)
      PROVE  \A d \in Pid : ClaimWithin(d)' /\ Kept(d)
  <2>1. pc[p] = "none" /\ tries'[p] = 0 /\ Alone(p)
    BY <1>1 DEF Spawn, IInv, TypeOK, Alone
  <2>2. \A d \in Pid : d # p => ClaimWithin(d)' /\ Left(d)' = Left(d)
    BY <2>1 DEF Alone, Left, More, ClaimsBounded, ClaimWithin
  <2> QED BY <2>1, <2>2 DEF Kept, ClaimWithin
<1>2. CASE BeginJob(p) \/ FinishJob(p)
  <2>1. UNCHANGED <<pc, tries, restarting>>
    BY <1>2 DEF BeginJob, FinishJob, locals
  <2> QED BY <2>1 DEF ClaimsBounded, ClaimWithin, Kept, Left, More
<1>3. CASE Interrupt(p)
  BY <1>3, NextPlace, LeftIs, ServerForth DEF Interrupt, locals, Going
<1>4. CASE Crash(p)
  BY <1>4, EndGoes DEF Crash, Going
<1>5. CASE Finish(p)
  BY <1>5, EndGoes DEF Finish, Going
<1> QED BY <1>1, <1>2, <1>3, <1>4, <1>5

(* What makes StopEnds and StartSettles true whatever processes race: the  *)
(* tries of _claim_server_lock and the polls of stop_server are counted,   *)
(* a restart starts one server, and no signal, probe or file sends another *)
(* process back to a step it has done.                                     *)
THEOREM ProcessesComeForward == Spec => [][ComesForward /\ NeverThrownBack]_vars
<1>1. Init => ClaimsBounded
  BY DEF Init, ClaimsBounded, ClaimWithin
<1>2. IInv /\ ClaimsBounded /\ [Next]_vars => ClaimsBounded' /\ [ComesForward /\ NeverThrownBack]_vars
  <2> SUFFICES ASSUME IInv, ClaimsBounded, [Next]_vars
               PROVE  ClaimsBounded' /\ ComesForward /\ NeverThrownBack
    OBVIOUS
  <2>1. ComesForward
    BY ServerGoes, CommandGoes DEF ComesForward, Going
  <2>2. CASE UNCHANGED vars
    <3>1. UNCHANGED <<pc, tries, restarting>>
      BY <2>2 DEF vars, locals
    <3>2. \A p \in Pid : Left(p)' = Left(p)
      BY <3>1 DEF Left, More
    <3>3. ClaimsBounded'
      BY <3>1 DEF ClaimsBounded, ClaimWithin
    <3> QED BY <2>1, <3>2, <3>3 DEF NeverThrownBack
  <2>3. ASSUME NEW p \in Pid, ServerStep(p) \/ CommandStep(p)
        PROVE  ClaimsBounded' /\ NeverThrownBack
    BY <2>3, ServerGoes, CommandGoes DEF Going, Kept, ClaimsBounded, NeverThrownBack
  <2>4. ASSUME NEW p \in Pid,
               \/ \E program \in Programs : Spawn(p, program)
               \/ BeginJob(p) \/ FinishJob(p) \/ Interrupt(p) \/ Crash(p) \/ Finish(p)
        PROVE  ClaimsBounded' /\ NeverThrownBack
    BY <2>4, EnvironmentGoes DEF Kept, ClaimsBounded, NeverThrownBack
  <2> QED BY <2>1, <2>2, <2>3, <2>4 DEF Next
<1> QED BY <1>1, <1>2, Invariance, PTL DEF Spec

=============================================================================
