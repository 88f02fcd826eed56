--------------------------- MODULE ServerLifecycle ---------------------------
(***************************************************************************)
(* The life of the per-user GSAS-II server, gateways/gsasii/server.py: the *)
(* start lock on server.lock, the PID file, the endpoint file, the job     *)
(* scratch directories, and the processes that race over them, the         *)
(* `gsas-server start`, `stop`, `restart` and `status` commands.           *)
(*                                                                         *)
(* A process is identified by its PID.  The operating system reuses the    *)
(* PID of a process that is gone, so one PID names several processes over  *)
(* time; serial[p] tells the server incarnations apart and stands for the  *)
(* secret token a server makes at its start.                               *)
(*                                                                         *)
(* The platform is POSIX: the kernel drops a lock when its holder exits,   *)
(* however it exits, and removing a file in the state directory succeeds.  *)
(***************************************************************************)
EXTENDS Naturals, FiniteSets

CONSTANTS
    Pid,            \* process identifiers
    NoPid,          \* "no process": a free lock, an absent PID file
    ClaimAttempts,  \* tries of _claim_server_lock (20 in the code)
    PollRounds,     \* polls of stop_server before it escalates (50)
    MaxStarts,      \* bound on the server processes ever spawned
    Programs,       \* the commands a run spawns
    Recycle,        \* whether the PID of a finished server is used again
    Fragile         \* the steps at which a process may crash

ASSUME NoPidAssumption == NoPid \notin Pid
ASSUME BoundsAssumption == /\ ClaimAttempts \in Nat \ {0}
                           /\ PollRounds \in Nat \ {0}
                           /\ MaxStarts \in Nat
ASSUME ProgramsAssumption ==
    /\ Programs \subseteq {"start", "stop", "restart", "status", "other"}
    /\ Recycle \in BOOLEAN

VARIABLES
    pc,        \* where each process is
    lock,      \* the process holding the kernel lock on server.lock
    pidFile,   \* contents of server.pid
    endpoint,  \* contents of server.json: the PID and the token in it
    jobDirs,   \* job-* directories, each by the serial of the server that made it
    busy,      \* servers with a job running
    serial,    \* the incarnation a PID currently is
    starts,    \* server processes spawned so far
    handlers,  \* processes that have installed their SIGTERM handler
    target,    \* the PID a stop command read
    tries,     \* claims or polls done by a process
    restarting \* stop commands that go on to start a server

locals == <<serial, starts, handlers, target, tries, restarting>>
files  == <<pidFile, endpoint, jobDirs>>
vars   == <<pc, lock, files, busy, locals>>

NoEndpoint == [pid |-> NoPid, token |-> 0]
Token      == 0 .. MaxStarts
Endpoint   == {NoEndpoint} \cup [pid : Pid, token : Token]

(* A starting server, from the instant it holds the lock to its exit.      *)
Releasing == {"relEndpoint", "relPid", "unlock"}
Holding   == {"dropEndpoint", "writePid", "listen", "load", "sweep",
              "publish", "handle", "serving", "draining"} \cup Releasing
Probing   == {"statusHeld", "restartHeld", "stopHeld", "pollHeld",
              "finalHeld", "clearEndpoint", "clearPid", "clearRelease"}
Stopping  == {"stopProbe", "stopRead", "stopTerm", "stopPoll", "stopKill",
              "stopFinal", "clear"}
Label     == {"none", "other", "status", "restart", "claim"}
             \cup Holding \cup Probing \cup Stopping

(* No process counts further than this.                                    *)
Budget == IF PollRounds > ClaimAttempts THEN PollRounds ELSE ClaimAttempts

TypeOK ==
    /\ pc \in [Pid -> Label]
    /\ lock \in Pid \cup {NoPid}
    /\ pidFile \in Pid \cup {NoPid}
    /\ endpoint \in Endpoint
    /\ jobDirs \subseteq Token
    /\ busy \subseteq Pid
    /\ serial \in [Pid -> Token]
    /\ starts \in Token
    /\ handlers \subseteq Pid
    /\ target \in [Pid -> Pid \cup {NoPid}]
    /\ tries \in [Pid -> 0 .. Budget]
    /\ restarting \subseteq Pid

Init ==
    /\ pc = [p \in Pid |-> "none"]
    /\ lock = NoPid
    /\ pidFile = NoPid
    /\ endpoint = NoEndpoint
    /\ jobDirs = {}
    /\ busy = {}
    /\ serial = [p \in Pid |-> 0]
    /\ starts = 0
    /\ handlers = {}
    /\ target = [p \in Pid |-> NoPid]
    /\ tries = [p \in Pid |-> 0]
    /\ restarting = {}

-----------------------------------------------------------------------------
(* Processes come and go                                                   *)

Entry == [start |-> "claim", stop |-> "stopProbe", restart |-> "restart",
          status |-> "status", other |-> "other"]

(* A command, or an unrelated process of the user, gets PID p.  A PID that
   was a server's is used again only if Recycle.                           *)
Spawn(p, program) ==
    /\ pc[p] = "none"
    /\ Recycle \/ serial[p] = 0
    /\ IF program \in {"start", "restart"}
       THEN /\ starts < MaxStarts
            /\ starts' = starts + 1
            /\ serial' = [serial EXCEPT ![p] = starts + 1]
       ELSE UNCHANGED <<starts, serial>>
    /\ pc' = [pc EXCEPT ![p] = Entry[program]]
    /\ tries' = [tries EXCEPT ![p] = 0]
    /\ target' = [target EXCEPT ![p] = NoPid]
    /\ UNCHANGED <<lock, files, busy, handlers, restarting>>

(* Process p is gone, however it ended: the kernel drops its lock, and the
   files it wrote stay.  `others` is what every other process does.        *)
Gone(p, others) ==
    /\ pc' = [others EXCEPT ![p] = "none"]
    /\ lock' = IF lock = p THEN NoPid ELSE lock
    /\ busy' = busy \ {p}
    /\ handlers' = handlers \ {p}
    /\ restarting' = restarting \ {p}

Exit(p) == Gone(p, pc) /\ UNCHANGED <<files, serial, starts, target, tries>>

(* A crash, an out-of-memory kill, a reboot of the session.                *)
Crash(p) == pc[p] \in Fragile \ {"none"} /\ Exit(p)

(* Steps that move one process and touch nothing but the named variable.   *)
Goto(p, at, to) == pc[p] = at /\ pc' = [pc EXCEPT ![p] = to]

-----------------------------------------------------------------------------
(* start: _start_foreground                                                *)

(* One try of _claim_server_lock, sweeping before the lock is held.        *)
ClaimLockAfterSweep(p) ==
    /\ pc[p] = "claim"
    /\ lock = NoPid => pc' = [pc EXCEPT ![p] = "dropEndpoint"] /\ lock' = p
    /\ lock # NoPid => UNCHANGED <<pc, lock>>
    /\ jobDirs' = {}
    /\ UNCHANGED <<pidFile, endpoint, busy, locals>>

(* One try of _claim_server_lock, with no limit on the tries.              *)
ClaimLockForEver(p) ==
    /\ pc[p] = "claim"
    /\ lock = NoPid
    /\ lock' = p
    /\ pc' = [pc EXCEPT ![p] = "dropEndpoint"]
    /\ UNCHANGED <<files, busy, locals>>

(* One try of _claim_server_lock; out of tries, "Server is already running"
   and exit.                                                               *)
ClaimLock(p) ==
    /\ pc[p] = "claim"
    /\ \/ /\ lock = NoPid
          /\ lock' = p
          /\ pc' = [pc EXCEPT ![p] = "dropEndpoint"]
          /\ UNCHANGED <<files, busy, locals>>
       \/ /\ lock # NoPid
          /\ tries[p] + 1 < ClaimAttempts
          /\ tries' = [tries EXCEPT ![p] = @ + 1]
          /\ UNCHANGED <<pc, lock, files, busy, serial, starts, handlers,
                         target, restarting>>
       \/ /\ lock # NoPid
          /\ tries[p] + 1 >= ClaimAttempts
          /\ Exit(p)

(* The leftover endpoint is not removed, to be overwritten later.          *)
DropEndpointLater(p) ==
    /\ Goto(p, "dropEndpoint", "writePid")
    /\ UNCHANGED <<lock, files, busy, locals>>

(* Files left over by a server that is gone are replaced: the endpoint is
   removed first, then the PID is written.                                 *)
DropEndpoint(p) ==
    /\ Goto(p, "dropEndpoint", "writePid")
    /\ endpoint' = NoEndpoint
    /\ UNCHANGED <<lock, pidFile, jobDirs, busy, locals>>

WritePid(p) ==
    /\ Goto(p, "writePid", "listen")
    /\ pidFile' = p
    /\ UNCHANGED <<lock, endpoint, jobDirs, busy, locals>>

(* The port is bound, or is busy and the process exits; GSAS-II is imported,
   or is not importable and the process exits.  Either exit goes through
   atexit, which releases the state files.                                 *)
Listen(p) ==
    /\ \/ Goto(p, "listen", "load")
       \/ Goto(p, "listen", "relEndpoint")
    /\ UNCHANGED <<lock, files, busy, locals>>

Load(p) ==
    /\ \/ Goto(p, "load", "sweep")
       \/ Goto(p, "load", "relEndpoint")
    /\ UNCHANGED <<lock, files, busy, locals>>

SweepJobDirs(p) ==
    /\ Goto(p, "sweep", "publish")
    /\ jobDirs' = {}
    /\ UNCHANGED <<lock, pidFile, endpoint, busy, locals>>

(* server.json is replaced atomically, or cannot be written and the process
   exits; only then are the signal handlers set.                           *)
Publish(p) ==
    /\ \/ /\ Goto(p, "publish", "handle")
          /\ endpoint' = [pid |-> p, token |-> serial[p]]
       \/ /\ Goto(p, "publish", "relEndpoint")
          /\ UNCHANGED endpoint
    /\ UNCHANGED <<lock, pidFile, jobDirs, busy, locals>>

InstallHandlers(p) ==
    /\ Goto(p, "handle", "serving")
    /\ handlers' = handlers \cup {p}
    /\ UNCHANGED <<lock, files, busy, serial, starts, target, tries, restarting>>

(* One job at a time, in a scratch directory removed at its end.  A request
   that was waiting for its turn still gets it while the server shuts down. *)
BeginJob(p) ==
    /\ pc[p] \in {"serving", "draining"}
    /\ p \notin busy
    /\ busy' = busy \cup {p}
    /\ jobDirs' = jobDirs \cup {serial[p]}
    /\ UNCHANGED <<pc, lock, pidFile, endpoint, locals>>

FinishJob(p) ==
    /\ pc[p] \in {"serving", "draining"}
    /\ p \in busy
    /\ busy' = busy \ {p}
    /\ jobDirs' = jobDirs \ {serial[p]}
    /\ UNCHANGED <<pc, lock, pidFile, endpoint, locals>>

(* uvicorn's graceful shutdown: it waits for the running job, then hands the
   signal to _signal_handler.                                              *)
Drain(p) ==
    /\ p \notin busy
    /\ Goto(p, "draining", "relEndpoint")
    /\ UNCHANGED <<lock, files, busy, locals>>

(* Ctrl-C in the terminal of a foreground server.                          *)
Interrupt(p) ==
    /\ Goto(p, "serving", "draining")
    /\ UNCHANGED <<lock, files, busy, locals>>

(* _release_state_files: both files go while the lock is held.             *)
ReleaseEndpoint(p) ==
    /\ Goto(p, "relEndpoint", "relPid")
    /\ endpoint' = NoEndpoint
    /\ UNCHANGED <<lock, pidFile, jobDirs, busy, locals>>

ReleasePid(p) ==
    /\ Goto(p, "relPid", "unlock")
    /\ pidFile' = NoPid
    /\ UNCHANGED <<lock, endpoint, jobDirs, busy, locals>>

ReleaseLock(p) == pc[p] = "unlock" /\ Exit(p)

ServerStep(p) ==
    \/ ClaimLock(p) \/ DropEndpoint(p) \/ WritePid(p) \/ Listen(p) \/ Load(p)
    \/ SweepJobDirs(p) \/ Publish(p) \/ InstallHandlers(p) \/ Drain(p)
    \/ ReleaseEndpoint(p) \/ ReleasePid(p) \/ ReleaseLock(p)

-----------------------------------------------------------------------------
(* status, stop and restart                                                *)

(* _probe_lock.  Taking the free lock says that no server runs; the probe
   holds it for an instant.  A lock that is held says that one runs, though
   the holder may be another probe.                                        *)
ProbeFree(p, at, to) ==
    /\ lock = NoPid
    /\ Goto(p, at, to)
    /\ lock' = p
    /\ UNCHANGED <<files, busy, locals>>

ProbeHeld(p, at, to) ==
    /\ lock # NoPid
    /\ Goto(p, at, to)
    /\ UNCHANGED <<lock, files, busy, locals>>

EndProbe(p, at, to) ==
    /\ Goto(p, at, to)
    /\ lock' = NoPid
    /\ UNCHANGED <<files, busy, locals>>

(* stop_server is over: `stop` exits, `restart` goes on to start a server. *)
Return(p, at) ==
    /\ pc[p] = at
    /\ \/ p \notin restarting /\ Exit(p)
       \/ /\ p \in restarting
          /\ pc' = [pc EXCEPT ![p] = "claim"]
          /\ tries' = [tries EXCEPT ![p] = 0]
          /\ restarting' = restarting \ {p}
          /\ lock' = IF lock = p THEN NoPid ELSE lock
          /\ UNCHANGED <<files, busy, serial, starts, handlers, target>>

Status(p) ==
    \/ ProbeFree(p, "status", "statusHeld")
    \/ ProbeHeld(p, "status", "other")
    \/ EndProbe(p, "statusHeld", "other")

(* restart stops a running server first; with none it starts at once.      *)
Restart(p) ==
    \/ ProbeFree(p, "restart", "restartHeld")
    \/ EndProbe(p, "restartHeld", "claim")
    \/ /\ lock # NoPid
       /\ Goto(p, "restart", "stopProbe")
       /\ restarting' = restarting \cup {p}
       /\ UNCHANGED <<lock, files, busy, serial, starts, handlers, target, tries>>

(* Is a server running?  "Server is not running" when the lock is free.    *)
StopProbe(p) ==
    \/ ProbeFree(p, "stopProbe", "stopHeld")
    \/ ProbeHeld(p, "stopProbe", "stopRead")
    \/ Return(p, "stopHeld")

(* read_pid; with no PID recorded the server is starting up: return.       *)
StopRead(p) ==
    \/ pidFile = NoPid /\ Return(p, "stopRead")
    \/ /\ pidFile # NoPid
       /\ Goto(p, "stopRead", "stopTerm")
       /\ target' = [target EXCEPT ![p] = pidFile]
       /\ tries' = [tries EXCEPT ![p] = 0]
       /\ UNCHANGED <<lock, files, busy, serial, starts, handlers, restarting>>

(* SIGTERM to process q: a serving server starts to shut down, one already
   shutting down goes on, and a process without a handler dies.            *)
SendTerm(p) ==
    LET q == target[p]
    IN  /\ pc[p] = "stopTerm"
        /\ pc[q] # "none"
        /\ \/ /\ q \in handlers
              /\ pc' = [pc EXCEPT ![p] = "stopPoll",
                                  ![q] = IF @ = "serving" THEN "draining" ELSE @]
              /\ UNCHANGED <<lock, busy, handlers, restarting>>
           \/ /\ q \notin handlers
              /\ Gone(q, [pc EXCEPT ![p] = "stopPoll"])
        /\ UNCHANGED <<files, serial, starts, target, tries>>

(* The poll budget counts one round too many.                              *)
StopPollOneMore(p) ==
    \/ ProbeFree(p, "stopPoll", "pollHeld")
    \/ EndProbe(p, "pollHeld", "clear")
    \/ /\ lock # NoPid
       /\ Goto(p, "stopPoll", IF tries[p] <= PollRounds THEN "stopPoll"
                                                        ELSE "stopKill")
       /\ tries' = [tries EXCEPT ![p] = @ + 1]
       /\ UNCHANGED <<lock, files, busy, serial, starts, handlers, target,
                      restarting>>

(* Poll until the lock is free and never escalate.                         *)
StopPollForEver(p) ==
    \/ ProbeFree(p, "stopPoll", "pollHeld")
    \/ EndProbe(p, "pollHeld", "clear")

(* Poll until the lock is free, then clear the files left over; after
   PollRounds polls, escalate.                                             *)
StopPoll(p) ==
    \/ ProbeFree(p, "stopPoll", "pollHeld")
    \/ EndProbe(p, "pollHeld", "clear")
    \/ /\ lock # NoPid
       /\ Goto(p, "stopPoll", IF tries[p] + 1 < PollRounds THEN "stopPoll"
                                                          ELSE "stopKill")
       /\ tries' = [tries EXCEPT ![p] = @ + 1]
       /\ UNCHANGED <<lock, files, busy, serial, starts, handlers, target,
                      restarting>>

(* The escalation sends SIGTERM again.                                     *)
SendTermAgain(p) ==
    /\ pc[p] = "stopKill"
    /\ pc[target[p]] # "none"
    /\ pc' = [pc EXCEPT ![p] = "stopFinal"]
    /\ UNCHANGED <<lock, files, busy, locals>>

SendKill(p) ==
    LET q == target[p]
    IN  /\ pc[p] = "stopKill"
        /\ pc[q] # "none"
        /\ Gone(q, [pc EXCEPT ![p] = "stopFinal"])
        /\ UNCHANGED <<files, serial, starts, target, tries>>

(* ProcessLookupError from either signal: "Server process not found".      *)
NotFound(p) ==
    /\ pc[p] \in {"stopTerm", "stopKill"}
    /\ pc[target[p]] = "none"
    /\ Return(p, pc[p])

StopFinal(p) ==
    \/ ProbeFree(p, "stopFinal", "finalHeld")
    \/ EndProbe(p, "finalHeld", "clear")
    \/ lock # NoPid /\ Return(p, "stopFinal")

(* _clear_stale_state_files without taking the lock.                       *)
ClearFilesUnlocked(p) ==
    \/ /\ Goto(p, "clear", "clearPid")
       /\ endpoint' = NoEndpoint
       /\ UNCHANGED <<lock, pidFile, jobDirs, busy, locals>>
    \/ /\ Goto(p, "clearPid", "clearRelease")
       /\ pidFile' = NoPid
       /\ UNCHANGED <<lock, endpoint, jobDirs, busy, locals>>
    \/ Return(p, "clearRelease")

(* _clear_stale_state_files: both files go under the lock, which proves that
   no server is running or starting; nothing is removed if it is held.     *)
ClearFiles(p) ==
    \/ ProbeFree(p, "clear", "clearEndpoint")
    \/ lock # NoPid /\ Return(p, "clear")
    \/ /\ Goto(p, "clearEndpoint", "clearPid")
       /\ endpoint' = NoEndpoint
       /\ UNCHANGED <<lock, pidFile, jobDirs, busy, locals>>
    \/ /\ Goto(p, "clearPid", "clearRelease")
       /\ pidFile' = NoPid
       /\ UNCHANGED <<lock, endpoint, jobDirs, busy, locals>>
    \/ Return(p, "clearRelease")

Finish(p) == pc[p] = "other" /\ Exit(p)

CommandStep(p) ==
    \/ Status(p) \/ Restart(p) \/ StopProbe(p) \/ StopRead(p) \/ SendTerm(p)
    \/ StopPoll(p) \/ SendKill(p) \/ NotFound(p) \/ StopFinal(p) \/ ClearFiles(p)

-----------------------------------------------------------------------------
Next ==
    \E p \in Pid :
        \/ \E program \in Programs : Spawn(p, program)
        \/ ServerStep(p)
        \/ CommandStep(p)
        \/ BeginJob(p) \/ FinishJob(p)
        \/ Interrupt(p) \/ Crash(p) \/ Finish(p)

Spec == Init /\ [][Next]_vars

(* The scheduler runs every process of the project; a job may run for ever,
   and the user, the environment and crashes owe nothing.                  *)
Fairness == \A p \in Pid : WF_vars(ServerStep(p) \/ CommandStep(p))

FairSpec == Spec /\ Fairness

-----------------------------------------------------------------------------
(* Properties                                                              *)

(* A server that clients can reach holds the lock, and the PID and endpoint
   files are its own: no other start, stop, restart or clean-up ever takes
   them away from a live server or replaces them (_clear_stale_state_files,
   _release_state_files and _claim_server_lock, whatever they race with).  *)
LiveFilesIntact ==
    \A p \in Pid : pc[p] \in {"handle", "serving", "draining"} =>
        /\ lock = p
        /\ pidFile = p
        /\ endpoint = [pid |-> p, token |-> serial[p]]

(* The scratch directory of a running job is still there: a server that
   starts sweeps only what servers that are gone left behind.              *)
JobDirIntact == \A p \in busy : serial[p] \in jobDirs

(* What clients may rely on, stated without processes, locks or probes.    *)
HolderPhase ==
    IF lock = NoPid \/ pc[lock] \notin Holding THEN "gone"
    ELSE IF pc[lock] \in Releasing THEN "closing"
    ELSE IF pc[lock] \in {"handle", "serving", "draining"} THEN "open"
    ELSE "starting"

Owner == IF HolderPhase = "gone" THEN 0 ELSE serial[lock]

Abstract == INSTANCE SingleServer
    WITH Server <- 1 .. MaxStarts,
         Nobody <- 0,
         owner  <- Owner,
         phase  <- HolderPhase,
         card   <- endpoint.token

(* The lock protocol implements SingleServer: at most one server at a time,
   and a card that only its owner puts up and takes down while it is open. *)
ImplementsSingleServer == Abstract!Spec

(* A stop that waits for a draining server gets rid of it even if its job
   never ends: SIGKILL after the poll budget.                              *)
StopRemovesTarget ==
    \A p, q \in Pid :
        (pc[p] = "stopPoll" /\ target[p] = q /\ pc[q] = "draining")
            ~> pc[q] # "draining"

(* A started process does not hang on the lock: it serves or exits, whatever
   the probes of other commands do meanwhile.                              *)
StartSettles ==
    \A p \in Pid : pc[p] = "claim" ~> pc[p] \in {"serving", "none"}

(* stop and restart are bounded: they come to their end.                   *)
StopEnds ==
    \A p \in Pid : pc[p] \in {"stopProbe", "stopPoll", "clear"}
                     ~> pc[p] \in {"none", "claim"}

(* server.py (read_pid): "PID recorded by the server holding the start
   lock, or None".  While the lock is held, a stop that goes on to send
   signals has read the PID of the process holding it.                     *)
StopReadsHolder ==
    [][\A p \in Pid : (pc[p] = "stopRead" /\ pc'[p] = "stopTerm" /\ lock # NoPid)
                          => target'[p] = lock]_vars
=============================================================================
