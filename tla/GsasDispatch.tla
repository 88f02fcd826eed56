---------------------------- MODULE GsasDispatch ----------------------------
(***************************************************************************)
(* How a GSAS-II run reaches an engine: GSASClient.submit_simulation in    *)
(* gateways/gsasii/client.py, against the server of gateways/gsasii/       *)
(* server.py.  Each client looks for the user's server, may start one,     *)
(* submits its job, waits, writes the files that come back, and falls back *)
(* to a run in its own process where the code lets it.                     *)
(*                                                                         *)
(* Servers come and go as SingleServer promises (ServerLifecycle shows     *)
(* that the lock keeps the promise); server s is an incarnation, its       *)
(* number standing for its port and token.                                 *)
(***************************************************************************)
EXTENDS Naturals, FiniteSets

CONSTANTS
    Client,        \* processes that each run one recipe
    Code,          \* PowderLine checkouts: version and source-tree hash
    CodeOf,        \* the checkout each client runs
    FallsBack,     \* clients in execution_mode 'auto'; the others are 'server'
    Limited,       \* clients with a server_timeout
    File,          \* names of the output files of a run
    ConnectTries,  \* tries of _submit_to_server (3 in the code)
    StartPolls,    \* polls of _start_server_background (30)
    MaxServers,    \* bound on the server processes ever spawned
    Environment    \* what else happens: "start", "stop", "crash", "interrupt", and
                   \* "silent": a server that is up fails to tell its checkout

ASSUME ClientsAssumption ==
    /\ Code # {}
    /\ CodeOf \in [Client -> Code]
    /\ FallsBack \subseteq Client
    /\ Limited \subseteq Client
ASSUME BoundsAssumption ==
    /\ ConnectTries \in Nat \ {0}
    /\ StartPolls \in Nat \ {0}
    /\ MaxServers \in Nat
ASSUME EnvironmentAssumption ==
    Environment \subseteq {"start", "stop", "crash", "interrupt", "silent"}

VARIABLES
    owner, phase, card,  \* the server: see SingleServer
    accepting, \* the open server takes connections: it is not shutting down
    spawned,   \* server processes that have not got the lock yet
    servers,   \* how many server processes there have been
    code,      \* the checkout each server runs
    pc,        \* where each client is
    tries,     \* connection attempts or start-up polls done by a client
    seen,      \* the endpoint the client read last
    child,     \* the server process the client spawned
    job,       \* the client's job on the server
    served,    \* how often a server has accepted the client's job
    dir,       \* files in the client's output directory, by the run they are from
    outcome    \* the envelope: its status, or the reason of the failure

serverVars == <<owner, phase, card, accepting, spawned, servers, code>>
vars == <<serverVars, pc, tries, seen, child, job, served, dir, outcome>>

Nobody == 0
Server == 1 .. MaxServers
World  == INSTANCE SingleServer

(* No client counts further than this.                                     *)
Budget == IF StartPolls > ConnectTries THEN StartPolls ELSE ConnectTries

NoJob   == [on |-> Nobody, state |-> "none", answer |-> "none"]
Answer  == {"ok", "failed", "bad", "error"}
Job     == [on : Server \cup {Nobody},
            state : {"none", "queued", "running", "answered"},
            answer : Answer \cup {"none"}]
Stage   == {"look", "check", "start", "poll", "again", "read", "send", "wait",
            "write", "local", "done"}
Outcome == {"none", "ok", "failed", "timeout", "communication_failed",
            "server_unavailable", "backend_error", "interrupted"}

TypeOK ==
    /\ owner \in Server \cup {Nobody}
    /\ phase \in {"gone", "starting", "open", "closing"}
    /\ card \in Server \cup {Nobody}
    /\ accepting \in BOOLEAN
    /\ spawned \subseteq Server
    /\ servers \in 0 .. MaxServers
    /\ code \in [Server -> Code]
    /\ pc \in [Client -> Stage]
    /\ tries \in [Client -> 0 .. Budget - 1]
    /\ seen \in [Client -> Server \cup {Nobody}]
    /\ child \in [Client -> Server \cup {Nobody}]
    /\ job \in [Client -> Job]
    /\ served \in [Client -> Nat]
    /\ dir \in [Client -> SUBSET ({"server", "local"} \X File)]
    /\ outcome \in [Client -> Outcome]

Init ==
    /\ World!Init
    /\ accepting = FALSE
    /\ spawned = {}
    /\ servers = 0
    /\ code = [s \in Server |-> CHOOSE k \in Code : TRUE]
    /\ pc = [c \in Client |-> "look"]
    /\ tries = [c \in Client |-> 0]
    /\ seen = [c \in Client |-> Nobody]
    /\ child = [c \in Client |-> Nobody]
    /\ job = [c \in Client |-> NoJob]
    /\ served = [c \in Client |-> 0]
    /\ dir = [c \in Client |-> {}]
    /\ outcome = [c \in Client |-> "none"]

-----------------------------------------------------------------------------
(* The server                                                              *)

Pending(c) == job[c].state \in {"queued", "running"}

SpawnServer(k) ==
    /\ servers < MaxServers
    /\ servers' = servers + 1
    /\ spawned' = spawned \cup {servers + 1}
    /\ code' = [code EXCEPT ![servers + 1] = k]

(* `gsas-server start` in some checkout.                                   *)
StartByHand ==
    /\ "start" \in Environment
    /\ \E k \in Code : SpawnServer(k)
    /\ UNCHANGED <<owner, phase, card, accepting, pc, tries, seen, child, job,
                   served, dir, outcome>>

(* The spawned process takes the lock, or finds it taken and exits.        *)
ServerClaims ==
    \E s \in spawned :
        /\ \/ World!Claim(s)
           \/ phase # "gone" /\ UNCHANGED <<owner, phase, card>>
        /\ spawned' = spawned \ {s}
        /\ UNCHANGED <<accepting, servers, code, pc, tries, seen, child, job,
                       served, dir, outcome>>

(* The endpoint a dead server left is removed, then the server's own is
   published.                                                              *)
ServerOpens ==
    /\ \/ phase = "starting" /\ card # Nobody /\ World!TakeDown
          /\ UNCHANGED accepting
       \/ World!Open /\ accepting' = TRUE
    /\ UNCHANGED <<spawned, servers, code, pc, tries, seen, child, job, served,
                   dir, outcome>>

(* uvicorn's graceful shutdown: no new connections, and the jobs it has are
   finished first; then the state files and the lock go.  A server that
   cannot bind its port or import GSAS-II goes the same way.               *)
ServerStops ==
    /\ \/ /\ phase = "starting"
          /\ World!Close
          /\ UNCHANGED accepting
       \/ /\ "stop" \in Environment
          /\ phase = "open" /\ accepting
          /\ accepting' = FALSE
          /\ UNCHANGED <<owner, phase, card>>
       \/ /\ phase = "open" /\ ~accepting
          /\ \A c \in Client : ~Pending(c)
          /\ World!Close
          /\ UNCHANGED accepting
       \/ /\ phase = "closing"
          /\ IF card = Nobody THEN World!Leave ELSE World!TakeDown
          /\ UNCHANGED accepting
    /\ UNCHANGED <<spawned, servers, code, pc, tries, seen, child, job, served,
                   dir, outcome>>

(* A crash, or a SIGKILL: connections and unanswered jobs are lost.        *)
ServerCrashes ==
    /\ "crash" \in Environment
    /\ World!Leave
    /\ accepting' = FALSE
    /\ job' = [c \in Client |-> IF Pending(c) THEN NoJob ELSE job[c]]
    /\ UNCHANGED <<spawned, servers, code, pc, tries, seen, child, served, dir,
                   outcome>>

(* create_app.simulate: the job gets run_lock, which one thread holds at a
   time, in no order in particular.                                        *)
StartJob(c) ==
    /\ job[c].state = "queued"
    /\ \A d \in Client : job[d].state # "running"
    /\ job' = [job EXCEPT ![c].state = "running"]
    /\ UNCHANGED <<serverVars, pc, tries, seen, child, served, dir, outcome>>

(* _run_simulation: the job ends with an envelope and its files (ok or
   failed), with a transfer the client will refuse, or with an HTTP error.  *)
FinishJob(c) ==
    /\ job[c].state = "running"
    /\ \E a \in Answer :
           job' = [job EXCEPT ![c].state = "answered", ![c].answer = a]
    /\ UNCHANGED <<serverVars, pc, tries, seen, child, served, dir, outcome>>

-----------------------------------------------------------------------------
(* The client: _dispatch                                                   *)

Reachable == phase = "open" /\ accepting

Move(c, to) == pc' = [pc EXCEPT ![c] = to]

Conclude(c, result) ==
    /\ Move(c, "done")
    /\ outcome' = [outcome EXCEPT ![c] = result]

(* Only a client that may fall back runs in its own process.               *)
FallBackOr(c, reason) ==
    \/ c \in FallsBack /\ Move(c, "local") /\ UNCHANGED outcome
    \/ c \notin FallsBack /\ Conclude(c, reason)

(* is_server_available: /health answers within 2 s, or does not although the
   server is up.                                                           *)
Look(c) ==
    /\ pc[c] = "look"
    /\ (Reachable /\ Move(c, "check")) \/ Move(c, "start")
    /\ UNCHANGED <<serverVars, tries, seen, child, job, served, dir, outcome>>

(* server_is_stale: another checkout, or the same one, or unknown because
   /health could not be read, which counts as not stale.                   *)
CheckStale(c) ==
    /\ pc[c] = "check"
    /\ \/ /\ Reachable
          /\ code[owner] # CodeOf[c]
          /\ FallBackOr(c, "server_unavailable")
       \/ /\ Reachable /\ code[owner] # CodeOf[c] => "silent" \in Environment
          /\ Move(c, "read")
          /\ UNCHANGED outcome
    /\ UNCHANGED <<serverVars, tries, seen, child, job, served, dir>>

(* _start_server_background: a server that answers by now is used as it is;
   otherwise one is spawned from the client's checkout, or cannot be
   (an unsafe state directory, a bad port).                                *)
AutoStart(c) ==
    /\ pc[c] = "start"
    /\ \/ /\ Reachable
          /\ Move(c, "again")
          /\ UNCHANGED <<spawned, servers, code, child, outcome>>
       \/ /\ SpawnServer(CodeOf[c])
          /\ child' = [child EXCEPT ![c] = servers + 1]
          /\ Move(c, "poll")
          /\ UNCHANGED outcome
       \/ /\ FallBackOr(c, "server_unavailable")
          /\ UNCHANGED <<spawned, servers, code, child>>
    /\ UNCHANGED <<owner, phase, card, accepting, tries, seen, job, served, dir>>

ChildDied(c) == child[c] \notin spawned \cup {owner}

PollStart(c) ==
    /\ pc[c] = "poll"
    /\ \/ /\ ChildDied(c)
          /\ FallBackOr(c, "server_unavailable")
          /\ child' = [child EXCEPT ![c] = Nobody]
          /\ tries' = [tries EXCEPT ![c] = 0]
       \/ /\ ~ChildDied(c)
          /\ Reachable \/ tries[c] + 1 = StartPolls
          /\ Move(c, "again")
          /\ child' = [child EXCEPT ![c] = Nobody]
          /\ tries' = [tries EXCEPT ![c] = 0]
          /\ UNCHANGED outcome
       \/ /\ ~ChildDied(c)
          /\ tries[c] + 1 < StartPolls
          /\ tries' = [tries EXCEPT ![c] = @ + 1]
          /\ UNCHANGED <<pc, child, outcome>>
    /\ UNCHANGED <<serverVars, seen, job, served, dir>>

LookAgain(c) ==
    /\ pc[c] = "again"
    /\ \/ Reachable /\ Move(c, "read") /\ UNCHANGED outcome
       \/ FallBackOr(c, "server_unavailable")
    /\ UNCHANGED <<serverVars, tries, seen, child, job, served, dir>>

-----------------------------------------------------------------------------
(* The client: _submit_to_server and _server_attempt                       *)

(* The last try is not the last.                                           *)
RefusedOnceMore(c) ==
    \/ /\ tries[c] < ConnectTries
       /\ tries' = [tries EXCEPT ![c] = @ + 1]
       /\ Move(c, "read")
       /\ UNCHANGED outcome
    \/ /\ tries[c] = ConnectTries
       /\ FallBackOr(c, "communication_failed")
       /\ tries' = [tries EXCEPT ![c] = 0]

(* httpx.ConnectError: a few tries, the endpoint read anew each time.      *)
Refused(c) ==
    \/ /\ tries[c] + 1 < ConnectTries
       /\ tries' = [tries EXCEPT ![c] = @ + 1]
       /\ Move(c, "read")
       /\ UNCHANGED outcome
    \/ /\ tries[c] + 1 = ConnectTries
       /\ FallBackOr(c, "communication_failed")
       /\ tries' = [tries EXCEPT ![c] = 0]

(* An endpoint whose process is gone is ignored.                           *)
ReadEndpoint(c) ==
    /\ pc[c] = "read"
    /\ \/ /\ card # Nobody /\ card = owner
          /\ seen' = [seen EXCEPT ![c] = card]
          /\ Move(c, "send")
          /\ UNCHANGED <<tries, outcome>>
       \/ /\ card = Nobody \/ card # owner
          /\ Refused(c)
          /\ UNCHANGED seen
    /\ UNCHANGED <<serverVars, child, job, served, dir>>

(* The request reaches the server the endpoint names, which accepts it; a
   successor on the same port refuses the token (401); or nobody listens.  *)
Send(c) ==
    /\ pc[c] = "send"
    /\ \/ /\ Reachable /\ owner = seen[c]
          /\ job' = [job EXCEPT ![c] = [on |-> owner, state |-> "queued",
                                        answer |-> "none"]]
          /\ served' = [served EXCEPT ![c] = @ + 1]
          /\ tries' = [tries EXCEPT ![c] = 0]
          /\ Move(c, "wait")
          /\ UNCHANGED outcome
       \/ /\ Reachable /\ owner # seen[c]
          /\ FallBackOr(c, "communication_failed")
          /\ tries' = [tries EXCEPT ![c] = 0]
          /\ UNCHANGED <<job, served>>
       \/ /\ ~(Reachable /\ owner = seen[c])
          /\ Refused(c)
          /\ UNCHANGED <<job, served>>
    /\ seen' = [seen EXCEPT ![c] = Nobody]
    /\ UNCHANGED <<serverVars, child, dir>>

(* httpx.ConnectTimeout after REQUEST_PHASE_TIMEOUT: a timeout like any
   other to _server_attempt.                                               *)
ConnectTimesOut(c) ==
    /\ pc[c] = "send"
    /\ Reachable
    /\ Conclude(c, "timeout")
    /\ tries' = [tries EXCEPT ![c] = 0]
    /\ seen' = [seen EXCEPT ![c] = Nobody]
    /\ UNCHANGED <<serverVars, child, job, served, dir>>

(* The answer: _materialize checks every name and size before it writes.   *)
Receive(c) ==
    /\ pc[c] = "wait"
    /\ job[c].state = "answered"
    /\ \/ /\ job[c].answer \in {"ok", "failed"}
          /\ Move(c, "write")
          /\ UNCHANGED outcome
       \/ /\ job[c].answer \in {"bad", "error"}
          /\ FallBackOr(c, "communication_failed")
    /\ UNCHANGED <<serverVars, tries, seen, child, job, served, dir>>

(* A broken connection is tried again like a refused one.                  *)
LoseConnectionAndRetry(c) ==
    /\ pc[c] = "wait"
    /\ job[c] = NoJob
    /\ Refused(c)
    /\ UNCHANGED <<serverVars, seen, child, job, served, dir>>

(* The connection breaks: the server is gone, and the job with it.         *)
LoseConnection(c) ==
    /\ pc[c] = "wait"
    /\ job[c] = NoJob
    /\ FallBackOr(c, "communication_failed")
    /\ UNCHANGED <<serverVars, tries, seen, child, job, served, dir>>

(* A timeout falls back like any other failure of the transport.           *)
ReadTimesOutAndFallsBack(c) ==
    /\ pc[c] = "wait"
    /\ c \in Limited
    /\ Pending(c)
    /\ FallBackOr(c, "timeout")
    /\ UNCHANGED <<serverVars, tries, seen, child, job, served, dir>>

(* server_timeout does not reach the read phase of the request.            *)
ReadNeverTimesOut(c) ==
    /\ c \notin Client
    /\ UNCHANGED vars

(* httpx.ReadTimeout: no fall-back, because the job goes on.               *)
ReadTimesOut(c) ==
    /\ pc[c] = "wait"
    /\ c \in Limited
    /\ Pending(c)
    /\ Conclude(c, "timeout")
    /\ UNCHANGED <<serverVars, tries, seen, child, job, served, dir>>

(* A file that cannot be written falls back, leaving those that are.       *)
WriteFileOrFallBack(c) ==
    /\ pc[c] = "write"
    /\ \/ \E f \in File :
             /\ <<"server", f>> \notin dir[c]
             /\ dir' = [dir EXCEPT ![c] = @ \cup {<<"server", f>>}]
             /\ UNCHANGED <<pc, outcome>>
       \/ /\ {"server"} \X File \subseteq dir[c]
          /\ Conclude(c, job[c].answer)
          /\ UNCHANGED dir
       \/ FallBackOr(c, "backend_error") /\ UNCHANGED dir
    /\ UNCHANGED <<serverVars, tries, seen, child, job, served>>

(* _materialize writes file by file; a failure keeps what is written.      *)
WriteFile(c) ==
    /\ pc[c] = "write"
    /\ \/ \E f \in File :
             /\ <<"server", f>> \notin dir[c]
             /\ dir' = [dir EXCEPT ![c] = @ \cup {<<"server", f>>}]
             /\ UNCHANGED <<pc, outcome>>
       \/ /\ {"server"} \X File \subseteq dir[c]
          /\ Conclude(c, job[c].answer)
          /\ UNCHANGED dir
       \/ Conclude(c, "backend_error") /\ UNCHANGED dir
    /\ UNCHANGED <<serverVars, tries, seen, child, job, served>>

(* _submit_via_subprocess: the engine writes files here, and may fail.     *)
RunLocally(c) ==
    /\ pc[c] = "local"
    /\ \/ \E f \in File :
             /\ <<"local", f>> \notin dir[c]
             /\ dir' = [dir EXCEPT ![c] = @ \cup {<<"local", f>>}]
             /\ UNCHANGED <<pc, outcome>>
       \/ /\ {"local"} \X File \subseteq dir[c]
          /\ Conclude(c, "ok")
          /\ UNCHANGED dir
       \/ Conclude(c, "failed") /\ UNCHANGED dir
    /\ UNCHANGED <<serverVars, tries, seen, child, job, served>>

(* Ctrl-C in the client: nobody reads the answer, the job goes on.         *)
Interrupt(c) ==
    /\ "interrupt" \in Environment
    /\ pc[c] # "done"
    /\ Conclude(c, "interrupted")
    /\ tries' = [tries EXCEPT ![c] = 0]
    /\ seen' = [seen EXCEPT ![c] = Nobody]
    /\ child' = [child EXCEPT ![c] = Nobody]
    /\ UNCHANGED <<serverVars, job, served, dir>>

ClientStep(c) ==
    \/ Look(c) \/ CheckStale(c) \/ AutoStart(c) \/ PollStart(c) \/ LookAgain(c)
    \/ ReadEndpoint(c) \/ Send(c) \/ Receive(c) \/ LoseConnection(c)
    \/ WriteFile(c) \/ RunLocally(c)

-----------------------------------------------------------------------------
Next ==
    \/ StartByHand \/ ServerClaims \/ ServerOpens \/ ServerStops \/ ServerCrashes
    \/ \E c \in Client :
          \/ StartJob(c) \/ FinishJob(c)
          \/ ClientStep(c)
          \/ ConnectTimesOut(c) \/ ReadTimesOut(c) \/ Interrupt(c)

Spec == Init /\ [][Next]_vars

(* Clients run and their timers expire; a job on the server may never end. *)
Fairness == \A c \in Client : WF_vars(ClientStep(c)) /\ WF_vars(ReadTimesOut(c))

FairSpec == Spec /\ Fairness

-----------------------------------------------------------------------------
(* Properties                                                              *)

(* A job that runs in the client's process is not also alive on the server:
   every fall-back of _dispatch and _server_attempt comes after the server
   has lost the job, finished it or never had it.                          *)
NoDoubleWork == \A c \in Client : pc[c] = "local" => ~Pending(c)

(* Retries never hand the same job to a server twice, although a server that
   dies after it has accepted the job may be back for the next try.        *)
SubmittedOnce == \A c \in Client : served[c] <= 1

(* An output directory holds files of one run only, and of all of it when
   the run is reported ok: nothing of a refused transfer or of a lost server
   run stays beside the files of the in-process run.                       *)
DirectoryOfOneRun ==
    \A c \in Client :
        /\ \A x, y \in dir[c] : x[1] = y[1]
        /\ outcome[c] = "ok" =>
              \E run \in {"server", "local"} : dir[c] = {run} \X File

(* Every run comes to its end or to the engine, whatever becomes of the
   servers, except a client without a server_timeout whose job the server
   never answers.                                                          *)
ClientSettles ==
    \A c \in Client :
        \/ <>(pc[c] = "done")
        \/ c \notin Limited /\ <>[](pc[c] = "wait" /\ Pending(c))

(* docs/development/architecture.md: a "stale server is skipped in `auto`
   mode and refused in `server` mode".  No server of another checkout ever
   accepts a client's job.                                                 *)
StaleServerRunsNoJob ==
    \A c \in Client : job[c] # NoJob => code[job[c].on] = CodeOf[c]
=============================================================================
