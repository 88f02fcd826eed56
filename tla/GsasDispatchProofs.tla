------------------------- MODULE GsasDispatchProofs -------------------------
(***************************************************************************)
(* What the dispatch of GSAS-II runs promises for any number of clients,   *)
(* servers, checkouts, files, tries and polls, whichever servers start,    *)
(* stop and crash.                                                         *)
(*                                                                         *)
(* No promise is inductive: that a fall-back does not double the work      *)
(* rests on what the client may still have on the server at each place.    *)
(***************************************************************************)
EXTENDS GsasDispatch, Integers, TLAPS

(* Before its request is accepted a client has nothing on any server.      *)
Unsent == {"look", "check", "start", "poll", "again", "read", "send"}
NothingSent(c) ==
    pc[c] \in Unsent => job[c] = NoJob /\ served[c] = 0 /\ dir[c] = {}

(* It waits with an empty directory, writes only files of an answered job, *)
(* and falls back when the server has not got its job.                     *)
Afterwards(c) ==
    /\ pc[c] = "wait" => dir[c] = {}
    /\ pc[c] = "write" => /\ job[c].state = "answered"
                          /\ job[c].answer \in {"ok", "failed"}
                          /\ dir[c] \subseteq {"server"} \X File
    /\ pc[c] = "local" => ~Pending(c) /\ dir[c] \subseteq {"local"} \X File

(* What is there of one run, and an ok run is over and complete.           *)
Whole(c) ==
    /\ served[c] <= 1
    /\ \E run \in {"server", "local"} : dir[c] \subseteq {run} \X File
    /\ outcome[c] = "ok" => /\ pc[c] = "done"
                            /\ \E run \in {"server", "local"} : dir[c] = {run} \X File

Clear(c) == NothingSent(c) /\ Afterwards(c) /\ Whole(c)

DispatchInv == TypeOK /\ \A c \in Client : Clear(c)

(* What the numbers and names of this module are.                          *)
LEMMA BudgetNat == Budget \in Nat \ {0} /\ ConnectTries <= Budget /\ StartPolls <= Budget
BY BoundsAssumption DEF Budget

LEMMA NoJobIsJob == NoJob \in Job /\ NoJob.state = "none"
BY DEF NoJob, Job

LEMMA InitDispatchInv == Init => DispatchInv
<1> SUFFICES ASSUME Init PROVE DispatchInv
  OBVIOUS
<1>1. (CHOOSE k \in Code : TRUE) \in Code
  BY ClientsAssumption
<1>2. TypeOK
  <2>1. tries \in [Client -> 0 .. Budget - 1]
    BY BudgetNat DEF Init
  <2>2. code \in [Server -> Code]
    BY <1>1 DEF Init
  <2>3. job \in [Client -> Job] /\ served \in [Client -> Nat]
    BY NoJobIsJob DEF Init
  <2>4. dir \in [Client -> SUBSET ({"server", "local"} \X File)]
    BY DEF Init
  <2>5. servers \in 0 .. MaxServers
    BY BoundsAssumption DEF Init
  <2> QED
    BY <2>1, <2>2, <2>3, <2>4, <2>5
       DEF Init, World!Init, TypeOK, Nobody, Stage, Outcome
<1>3. ASSUME NEW c \in Client PROVE Clear(c)
  BY DEF Init, Clear, NothingSent, Afterwards, Whole
<1> QED BY <1>2, <1>3 DEF DispatchInv

(* A step of the servers that leaves the clients and their jobs alone.     *)
LEMMA ClientsAlone ==
    ASSUME DispatchInv, TypeOK',
           UNCHANGED <<pc, job, served, dir, outcome>>
    PROVE  DispatchInv'
BY DEF DispatchInv, Clear, NothingSent, Afterwards, Whole, Pending

(* A step of one client that leaves its job, its directory and what the    *)
(* server accepted alone and goes from one place before the request to     *)
(* another, to the run in its own process, or to an end that is not ok.    *)
LEMMA MovesOn ==
    ASSUME DispatchInv, TypeOK', NEW c \in Client, pc[c] \in Unsent,
           UNCHANGED <<job, served, dir>>,
           NEW to \in Stage, NEW how \in Outcome \ {"ok"},
           to \in Unsent \cup {"local", "done"},
           pc' = [pc EXCEPT ![c] = to],
           outcome' = [outcome EXCEPT ![c] = how] \/ UNCHANGED outcome
    PROVE  DispatchInv'
<1> SUFFICES ASSUME NEW d \in Client PROVE Clear(d)'
  BY DEF DispatchInv
<1>1. CASE d = c
  BY <1>1, NoJobIsJob DEF DispatchInv, TypeOK, Clear, NothingSent, Afterwards, Whole, Pending, Unsent
<1>2. CASE d # c
  BY <1>2 DEF DispatchInv, TypeOK, Clear, NothingSent, Afterwards, Whole, Pending
<1> QED BY <1>1, <1>2

(* What a fall-back does.                                                  *)
LEMMA FallsBackTo ==
    ASSUME TypeOK, NEW c \in Client, NEW reason \in Outcome \ {"none", "ok"},
           FallBackOr(c, reason)
    PROVE  \/ pc' = [pc EXCEPT ![c] = "local"] /\ UNCHANGED outcome
           \/ pc' = [pc EXCEPT ![c] = "done"] /\ outcome' = [outcome EXCEPT ![c] = reason]
BY DEF FallBackOr, Conclude, Move

(* An attempt to connect that failed: the next one, or the end of them.    *)
LEMMA RefusedGoesTo ==
    ASSUME TypeOK, NEW c \in Client, Refused(c)
    PROVE  /\ tries' \in [Client -> 0 .. Budget - 1]
           /\ \/ pc' = [pc EXCEPT ![c] = "read"] /\ UNCHANGED outcome
              \/ pc' = [pc EXCEPT ![c] = "local"] /\ UNCHANGED outcome
              \/ pc' = [pc EXCEPT ![c] = "done"]
                 /\ outcome' = [outcome EXCEPT ![c] = "communication_failed"]
<1>1. tries' \in [Client -> 0 .. Budget - 1]
  BY BudgetNat, BoundsAssumption DEF Refused, TypeOK
<1>2. CASE tries[c] + 1 < ConnectTries /\ Move(c, "read") /\ UNCHANGED outcome
  BY <1>1, <1>2 DEF Move
<1>3. CASE FallBackOr(c, "communication_failed")
  BY <1>1, <1>3, FallsBackTo DEF Outcome
<1> QED BY <1>2, <1>3 DEF Refused

(* The steps of the servers: a crash takes the jobs that are not answered. *)
LEMMA StartByHandStep == DispatchInv /\ StartByHand => DispatchInv'
<1> SUFFICES ASSUME DispatchInv, StartByHand PROVE DispatchInv'
  OBVIOUS
<1>1. TypeOK'
  BY BoundsAssumption DEF StartByHand, SpawnServer, DispatchInv, TypeOK, Server
<1> QED BY <1>1, ClientsAlone DEF StartByHand

LEMMA ServerClaimsStep == DispatchInv /\ ServerClaims => DispatchInv'
<1> SUFFICES ASSUME DispatchInv, ServerClaims PROVE DispatchInv'
  OBVIOUS
<1>1. TypeOK'
  BY DEF ServerClaims, World!Claim, DispatchInv, TypeOK
<1> QED BY <1>1, ClientsAlone DEF ServerClaims

LEMMA ServerOpensStep == DispatchInv /\ ServerOpens => DispatchInv'
<1> SUFFICES ASSUME DispatchInv, ServerOpens PROVE DispatchInv'
  OBVIOUS
<1>1. TypeOK'
  BY DEF ServerOpens, World!TakeDown, World!Open, DispatchInv, TypeOK
<1> QED BY <1>1, ClientsAlone DEF ServerOpens

LEMMA ServerStopsStep == DispatchInv /\ ServerStops => DispatchInv'
<1> SUFFICES ASSUME DispatchInv, ServerStops PROVE DispatchInv'
  OBVIOUS
<1>1. TypeOK'
  BY DEF ServerStops, World!Close, World!Leave, World!TakeDown, DispatchInv, TypeOK, Nobody
<1> QED BY <1>1, ClientsAlone DEF ServerStops

LEMMA ServerCrashesStep == DispatchInv /\ ServerCrashes => DispatchInv'
<1> SUFFICES ASSUME DispatchInv, ServerCrashes PROVE DispatchInv'
  OBVIOUS
<1>1. TypeOK'
  BY NoJobIsJob DEF ServerCrashes, World!Leave, DispatchInv, TypeOK, Nobody
<1>2. ASSUME NEW d \in Client PROVE Clear(d)'
  BY NoJobIsJob DEF ServerCrashes, DispatchInv, TypeOK, Clear, NothingSent, Afterwards, Whole, Pending
<1> QED BY <1>1, <1>2 DEF DispatchInv

LEMMA StartJobStep ==
    ASSUME DispatchInv, NEW c \in Client, StartJob(c)
    PROVE  DispatchInv'
<1>1. TypeOK'
  BY DEF StartJob, DispatchInv, TypeOK, Job, serverVars
<1>2. ASSUME NEW d \in Client PROVE Clear(d)'
  <2>1. job' \in [Client -> Job] /\ job'[c].state = "running"
    BY <1>1 DEF TypeOK, StartJob, DispatchInv, Job
  <2> QED
    BY <1>1, <2>1, NoJobIsJob DEF StartJob, DispatchInv, TypeOK, Clear, NothingSent, Afterwards, Whole, Pending
<1> QED BY <1>1, <1>2 DEF DispatchInv

LEMMA FinishJobStep ==
    ASSUME DispatchInv, NEW c \in Client, FinishJob(c)
    PROVE  DispatchInv'
<1>1. TypeOK'
  <2>1. PICK a \in Answer : job' = [job EXCEPT ![c].state = "answered", ![c].answer = a]
    BY DEF FinishJob
  <2>2. [job[c] EXCEPT !.state = "answered", !.answer = a] \in Job
    BY DEF DispatchInv, TypeOK, Job
  <2>3. job' = [job EXCEPT ![c] = [job[c] EXCEPT !.state = "answered", !.answer = a]]
    BY <2>1 DEF DispatchInv, TypeOK, Job
  <2>4. job' \in [Client -> Job]
    BY <2>2, <2>3 DEF DispatchInv, TypeOK
  <2> QED BY <2>4 DEF FinishJob, DispatchInv, TypeOK, serverVars
<1>2. ASSUME NEW d \in Client PROVE Clear(d)'
  <2>1. job' \in [Client -> Job] /\ job'[c].state = "answered"
    BY <1>1 DEF TypeOK, FinishJob, DispatchInv, Job
  <2> QED
    BY <1>1, <2>1, NoJobIsJob DEF FinishJob, DispatchInv, TypeOK, Clear, NothingSent, Afterwards, Whole, Pending
<1> QED BY <1>1, <1>2 DEF DispatchInv

(* The steps of a client before its request.                               *)
LEMMA LookStep ==
    ASSUME DispatchInv, NEW c \in Client, Look(c)
    PROVE  DispatchInv'
<1>1. TypeOK'
  BY DEF Look, Move, DispatchInv, TypeOK, serverVars, Stage
<1>2. \E to \in {"check", "start"} : pc' = [pc EXCEPT ![c] = to]
  BY DEF Look, Move
<1>3. pc[c] \in Unsent /\ UNCHANGED <<job, served, dir, outcome>>
  BY DEF Look, Unsent
<1>4. "check" \in Stage \cap Unsent /\ "start" \in Stage \cap Unsent /\ "none" \in Outcome \ {"ok"}
  BY DEF Stage, Unsent, Outcome
<1> QED BY <1>1, <1>2, <1>3, <1>4, MovesOn

LEMMA CheckStaleStep ==
    ASSUME DispatchInv, NEW c \in Client, CheckStale(c)
    PROVE  DispatchInv'
<1>1. \/ pc' = [pc EXCEPT ![c] = "read"] /\ UNCHANGED outcome
      \/ pc' = [pc EXCEPT ![c] = "local"] /\ UNCHANGED outcome
      \/ pc' = [pc EXCEPT ![c] = "done"]
         /\ outcome' = [outcome EXCEPT ![c] = "server_unavailable"]
  BY FallsBackTo DEF CheckStale, DispatchInv, Move, Outcome
<1>2. TypeOK'
  BY <1>1 DEF CheckStale, DispatchInv, TypeOK, serverVars, Stage, Outcome
<1> QED BY <1>1, <1>2, MovesOn DEF CheckStale, Unsent, Stage, Outcome

LEMMA AutoStartStep ==
    ASSUME DispatchInv, NEW c \in Client, AutoStart(c)
    PROVE  DispatchInv'
<1>1. \/ \E to \in {"again", "poll", "local"} : pc' = [pc EXCEPT ![c] = to] /\ UNCHANGED outcome
      \/ pc' = [pc EXCEPT ![c] = "done"]
         /\ outcome' = [outcome EXCEPT ![c] = "server_unavailable"]
  BY FallsBackTo DEF AutoStart, DispatchInv, Move, Outcome
<1>2. spawned' \subseteq Server /\ servers' \in 0 .. MaxServers
      /\ code' \in [Server -> Code] /\ child' \in [Client -> Server \cup {Nobody}]
  <2>1. CASE UNCHANGED <<spawned, servers, code, child>>
    BY <2>1 DEF DispatchInv, TypeOK
  <2>2. CASE SpawnServer(CodeOf[c]) /\ child' = [child EXCEPT ![c] = servers + 1]
    <3>1. CodeOf[c] \in Code
      BY ClientsAssumption
    <3>2. servers + 1 \in Server /\ servers + 1 \in 0 .. MaxServers
      BY <2>2, BoundsAssumption DEF SpawnServer, DispatchInv, TypeOK, Server
    <3> QED BY <2>2, <3>1, <3>2 DEF SpawnServer, DispatchInv, TypeOK
  <2> QED BY <2>1, <2>2 DEF AutoStart
<1>3. TypeOK'
  BY <1>1, <1>2 DEF AutoStart, DispatchInv, TypeOK, Stage, Outcome
<1> QED BY <1>1, <1>3, MovesOn DEF AutoStart, Unsent, Stage, Outcome

LEMMA PollStartStep ==
    ASSUME DispatchInv, NEW c \in Client, PollStart(c)
    PROVE  DispatchInv'
<1>1. \/ \E to \in {"again", "poll", "local"} : pc' = [pc EXCEPT ![c] = to] /\ UNCHANGED outcome
      \/ pc' = [pc EXCEPT ![c] = "done"]
         /\ outcome' = [outcome EXCEPT ![c] = "server_unavailable"]
  BY FallsBackTo DEF PollStart, DispatchInv, TypeOK, Move, Outcome
<1>2. tries' \in [Client -> 0 .. Budget - 1] /\ child' \in [Client -> Server \cup {Nobody}]
  BY BudgetNat, BoundsAssumption DEF PollStart, DispatchInv, TypeOK
<1>3. TypeOK'
  BY <1>1, <1>2 DEF PollStart, DispatchInv, TypeOK, serverVars, Stage, Outcome
<1> QED BY <1>1, <1>3, MovesOn DEF PollStart, Unsent, Stage, Outcome

LEMMA LookAgainStep ==
    ASSUME DispatchInv, NEW c \in Client, LookAgain(c)
    PROVE  DispatchInv'
<1>1. \/ \E to \in {"read", "local"} : pc' = [pc EXCEPT ![c] = to] /\ UNCHANGED outcome
      \/ pc' = [pc EXCEPT ![c] = "done"]
         /\ outcome' = [outcome EXCEPT ![c] = "server_unavailable"]
  BY FallsBackTo DEF LookAgain, DispatchInv, Move, Outcome
<1>2. TypeOK'
  BY <1>1 DEF LookAgain, DispatchInv, TypeOK, serverVars, Stage, Outcome
<1> QED BY <1>1, <1>2, MovesOn DEF LookAgain, Unsent, Stage, Outcome

LEMMA ReadEndpointStep ==
    ASSUME DispatchInv, NEW c \in Client, ReadEndpoint(c)
    PROVE  DispatchInv'
<1>1. /\ tries' \in [Client -> 0 .. Budget - 1]
      /\ \/ \E to \in {"read", "send", "local"} : pc' = [pc EXCEPT ![c] = to] /\ UNCHANGED outcome
         \/ pc' = [pc EXCEPT ![c] = "done"]
            /\ outcome' = [outcome EXCEPT ![c] = "communication_failed"]
  BY RefusedGoesTo DEF ReadEndpoint, DispatchInv, TypeOK, Move
<1>2. TypeOK'
  BY <1>1 DEF ReadEndpoint, DispatchInv, TypeOK, serverVars, Stage, Outcome
<1> QED BY <1>1, <1>2, MovesOn DEF ReadEndpoint, Unsent, Stage, Outcome

(* The request: accepted, by the server the client read, for the first     *)
(* time; or not, and the client has still sent nothing.                    *)
LEMMA SendStep ==
    ASSUME DispatchInv, NEW c \in Client, Send(c)
    PROVE  DispatchInv'
<1> DEFINE accepted == [on |-> owner, state |-> "queued", answer |-> "none"]
<1>0. pc[c] = "send" /\ job[c] = NoJob /\ served[c] = 0 /\ dir[c] = {}
  BY DEF Send, DispatchInv, Clear, NothingSent, Unsent
<1>1. CASE /\ Reachable /\ owner = seen[c]
           /\ job' = [job EXCEPT ![c] = accepted]
           /\ served' = [served EXCEPT ![c] = @ + 1]
           /\ tries' = [tries EXCEPT ![c] = 0]
           /\ Move(c, "wait") /\ UNCHANGED outcome
  <2>1. accepted \in Job
    BY DEF DispatchInv, TypeOK, Job
  <2>2. TypeOK'
    BY <1>1, <2>1, BudgetNat DEF Send, DispatchInv, TypeOK, serverVars, Stage, Move, Nobody
  <2>3. ASSUME NEW d \in Client PROVE Clear(d)'
    <3>1. CASE d = c
      BY <1>0, <1>1, <3>1 DEF Send, DispatchInv, TypeOK, Clear, NothingSent, Afterwards, Whole, Unsent, Move
    <3>2. CASE d # c
      BY <1>1, <3>2 DEF Send, DispatchInv, TypeOK, Clear, NothingSent, Afterwards, Whole, Pending, Move
    <3> QED BY <3>1, <3>2
  <2> QED BY <2>2, <2>3 DEF DispatchInv
<1>2. CASE UNCHANGED <<job, served>> /\ (Refused(c) \/ (FallBackOr(c, "communication_failed")
                                                        /\ tries' = [tries EXCEPT ![c] = 0]))
  <2>1. /\ tries' \in [Client -> 0 .. Budget - 1]
        /\ \/ \E to \in {"read", "local"} : pc' = [pc EXCEPT ![c] = to] /\ UNCHANGED outcome
           \/ pc' = [pc EXCEPT ![c] = "done"]
              /\ outcome' = [outcome EXCEPT ![c] = "communication_failed"]
    BY <1>2, RefusedGoesTo, FallsBackTo, BudgetNat DEF DispatchInv, TypeOK, Outcome
  <2>2. TypeOK'
    BY <1>2, <2>1 DEF Send, DispatchInv, TypeOK, serverVars, Stage, Outcome, Nobody
  <2> QED BY <1>2, <2>1, <2>2, MovesOn DEF Send, Unsent, Stage, Outcome
<1> QED BY <1>1, <1>2 DEF Send

LEMMA ConnectTimesOutStep ==
    ASSUME DispatchInv, NEW c \in Client, ConnectTimesOut(c)
    PROVE  DispatchInv'
<1>1. TypeOK'
  BY BudgetNat DEF ConnectTimesOut, Conclude, Move, DispatchInv, TypeOK, serverVars, Stage, Outcome, Nobody
<1> QED BY <1>1, MovesOn DEF ConnectTimesOut, Conclude, Move, Unsent, Stage, Outcome

(* The steps of a client after its request leave the other clients alone.  *)
LEMMA OthersAlone ==
    ASSUME DispatchInv, TypeOK', NEW c \in Client, Clear(c)',
           \A d \in Client \ {c} : /\ pc'[d] = pc[d] /\ job'[d] = job[d]
                                   /\ served'[d] = served[d] /\ dir'[d] = dir[d]
                                   /\ outcome'[d] = outcome[d]
    PROVE  DispatchInv'
BY DEF DispatchInv, Clear, NothingSent, Afterwards, Whole, Pending

LEMMA ReceiveStep ==
    ASSUME DispatchInv, NEW c \in Client, Receive(c)
    PROVE  DispatchInv'
<1>1. \/ \E to \in {"write", "local"} : pc' = [pc EXCEPT ![c] = to] /\ UNCHANGED outcome
      \/ pc' = [pc EXCEPT ![c] = "done"]
         /\ outcome' = [outcome EXCEPT ![c] = "communication_failed"]
  BY FallsBackTo DEF Receive, DispatchInv, Move, Outcome
<1>2. TypeOK'
  BY <1>1 DEF Receive, DispatchInv, TypeOK, serverVars, Stage, Outcome
<1>3. pc'[c] = "write" => job[c].answer \in {"ok", "failed"}
  BY FallsBackTo DEF Receive, DispatchInv, TypeOK, Move, Outcome
<1>4. Clear(c)'
  BY <1>1, <1>3 DEF Receive, DispatchInv, TypeOK, Clear, NothingSent, Afterwards, Whole, Pending, Unsent
<1> QED BY <1>1, <1>2, <1>4, OthersAlone DEF Receive, DispatchInv, TypeOK

LEMMA LoseConnectionStep ==
    ASSUME DispatchInv, NEW c \in Client, LoseConnection(c)
    PROVE  DispatchInv'
<1>1. \/ pc' = [pc EXCEPT ![c] = "local"] /\ UNCHANGED outcome
      \/ pc' = [pc EXCEPT ![c] = "done"]
         /\ outcome' = [outcome EXCEPT ![c] = "communication_failed"]
  BY FallsBackTo DEF LoseConnection, DispatchInv, Outcome
<1>2. TypeOK'
  BY <1>1 DEF LoseConnection, DispatchInv, TypeOK, serverVars, Stage, Outcome
<1>3. Clear(c)'
  BY <1>1, NoJobIsJob DEF LoseConnection, DispatchInv, TypeOK, Clear, NothingSent, Afterwards, Whole, Pending, Unsent
<1> QED BY <1>1, <1>2, <1>3, OthersAlone DEF LoseConnection, DispatchInv, TypeOK

LEMMA ReadTimesOutStep ==
    ASSUME DispatchInv, NEW c \in Client, ReadTimesOut(c)
    PROVE  DispatchInv'
<1>1. pc' = [pc EXCEPT ![c] = "done"] /\ outcome' = [outcome EXCEPT ![c] = "timeout"]
  BY DEF ReadTimesOut, Conclude, Move
<1>2. TypeOK'
  BY <1>1 DEF ReadTimesOut, DispatchInv, TypeOK, serverVars, Stage, Outcome
<1>3. Clear(c)'
  BY <1>1 DEF ReadTimesOut, DispatchInv, TypeOK, Clear, NothingSent, Afterwards, Whole, Pending, Unsent
<1> QED BY <1>1, <1>2, <1>3, OthersAlone DEF ReadTimesOut, DispatchInv, TypeOK

LEMMA WriteFileStep ==
    ASSUME DispatchInv, NEW c \in Client, WriteFile(c)
    PROVE  DispatchInv'
<1>0. /\ pc[c] = "write" /\ job[c].answer \in {"ok", "failed"}
      /\ dir[c] \subseteq {"server"} \X File
  BY DEF WriteFile, DispatchInv, Clear, Afterwards
<1>1. ASSUME NEW f \in File, dir' = [dir EXCEPT ![c] = @ \cup {<<"server", f>>}],
             UNCHANGED <<pc, outcome>>
      PROVE  DispatchInv'
  <2>1. dir'[c] \subseteq {"server"} \X File
    BY <1>0, <1>1 DEF DispatchInv, TypeOK
  <2>2. TypeOK'
    BY <1>1, <2>1 DEF WriteFile, DispatchInv, TypeOK, serverVars
  <2>3. Clear(c)'
    BY <1>0, <1>1, <2>1 DEF WriteFile, DispatchInv, TypeOK, Clear, NothingSent, Afterwards, Whole, Unsent
  <2> QED BY <1>1, <2>2, <2>3, OthersAlone DEF WriteFile, DispatchInv, TypeOK
<1>2. ASSUME NEW how \in {"ok", "failed", "backend_error"}, Conclude(c, how), UNCHANGED dir,
             how = "ok" => {"server"} \X File \subseteq dir[c]
      PROVE  DispatchInv'
  <2>1. TypeOK'
    BY <1>2 DEF WriteFile, Conclude, Move, DispatchInv, TypeOK, serverVars, Stage, Outcome
  <2>2. Clear(c)'
    BY <1>0, <1>2 DEF WriteFile, Conclude, Move, DispatchInv, TypeOK, Clear, NothingSent, Afterwards, Whole, Unsent
  <2> QED BY <1>2, <2>1, <2>2, OthersAlone DEF WriteFile, Conclude, Move, DispatchInv, TypeOK
<1> QED BY <1>0, <1>1, <1>2 DEF WriteFile

LEMMA RunLocallyStep ==
    ASSUME DispatchInv, NEW c \in Client, RunLocally(c)
    PROVE  DispatchInv'
<1>0. pc[c] = "local" /\ ~Pending(c) /\ dir[c] \subseteq {"local"} \X File
  BY DEF RunLocally, DispatchInv, Clear, Afterwards
<1>1. ASSUME NEW f \in File, dir' = [dir EXCEPT ![c] = @ \cup {<<"local", f>>}],
             UNCHANGED <<pc, outcome>>
      PROVE  DispatchInv'
  <2>1. dir'[c] \subseteq {"local"} \X File
    BY <1>0, <1>1 DEF DispatchInv, TypeOK
  <2>2. TypeOK'
    BY <1>1, <2>1 DEF RunLocally, DispatchInv, TypeOK, serverVars
  <2>3. Clear(c)'
    BY <1>0, <1>1, <2>1 DEF RunLocally, DispatchInv, TypeOK, Clear, NothingSent, Afterwards, Whole, Unsent, Pending
  <2> QED BY <1>1, <2>2, <2>3, OthersAlone DEF RunLocally, DispatchInv, TypeOK
<1>2. ASSUME NEW how \in {"ok", "failed"}, Conclude(c, how), UNCHANGED dir,
             how = "ok" => {"local"} \X File \subseteq dir[c]
      PROVE  DispatchInv'
  <2>1. TypeOK'
    BY <1>2 DEF RunLocally, Conclude, Move, DispatchInv, TypeOK, serverVars, Stage, Outcome
  <2>2. Clear(c)'
    BY <1>0, <1>2 DEF RunLocally, Conclude, Move, DispatchInv, TypeOK, Clear, NothingSent, Afterwards, Whole, Unsent
  <2> QED BY <1>2, <2>1, <2>2, OthersAlone DEF RunLocally, Conclude, Move, DispatchInv, TypeOK
<1> QED BY <1>1, <1>2 DEF RunLocally

LEMMA InterruptStep ==
    ASSUME DispatchInv, NEW c \in Client, Interrupt(c)
    PROVE  DispatchInv'
<1>1. TypeOK'
  BY BudgetNat DEF Interrupt, Conclude, Move, DispatchInv, TypeOK, serverVars, Stage, Outcome, Nobody
<1>2. Clear(c)'
  BY DEF Interrupt, Conclude, Move, DispatchInv, TypeOK, Clear, NothingSent, Afterwards, Whole, Unsent
<1> QED BY <1>1, <1>2, OthersAlone DEF Interrupt, Conclude, Move, DispatchInv, TypeOK

(* The invariant holds of every behaviour, with fairness or without.       *)
THEOREM DispatchInvariant == Spec => []DispatchInv
<1>1. DispatchInv /\ [Next]_vars => DispatchInv'
  <2> SUFFICES ASSUME DispatchInv, [Next]_vars PROVE DispatchInv'
    OBVIOUS
  <2>1. CASE StartByHand \/ ServerClaims \/ ServerOpens \/ ServerStops \/ ServerCrashes
    BY <2>1, StartByHandStep, ServerClaimsStep, ServerOpensStep, ServerStopsStep, ServerCrashesStep
  <2>2. ASSUME NEW c \in Client, StartJob(c) \/ FinishJob(c)
        PROVE  DispatchInv'
    BY <2>2, StartJobStep, FinishJobStep
  <2>3. ASSUME NEW c \in Client, ClientStep(c)
        PROVE  DispatchInv'
    BY <2>3, LookStep, CheckStaleStep, AutoStartStep, PollStartStep, LookAgainStep,
       ReadEndpointStep, SendStep, ReceiveStep, LoseConnectionStep, WriteFileStep,
       RunLocallyStep DEF ClientStep
  <2>4. ASSUME NEW c \in Client, ConnectTimesOut(c) \/ ReadTimesOut(c) \/ Interrupt(c)
        PROVE  DispatchInv'
    BY <2>4, ConnectTimesOutStep, ReadTimesOutStep, InterruptStep
  <2>5. CASE UNCHANGED vars
    <3>1. TypeOK'
      BY <2>5 DEF vars, serverVars, DispatchInv, TypeOK
    <3> QED BY <2>5, <3>1, ClientsAlone DEF vars
  <2> QED BY <2>1, <2>2, <2>3, <2>4, <2>5 DEF Next
<1> QED BY InitDispatchInv, <1>1, PTL DEF Spec

(* The state of servers, clients and jobs stays well formed: no client     *)
(* tries or polls beyond its budget (_submit_to_server).                   *)
THEOREM DispatchTypeCorrect == Spec => []TypeOK
<1>1. DispatchInv => TypeOK
  BY DEF DispatchInv
<1> QED BY DispatchInvariant, <1>1, PTL

(* A client that runs in its own process has no job alive on a server      *)
(* (_dispatch, _server_attempt).                                           *)
THEOREM FallBacksDoNotDoubleWork == Spec => []NoDoubleWork
<1>1. DispatchInv => NoDoubleWork
  BY DEF DispatchInv, Clear, Afterwards, NoDoubleWork
<1> QED BY DispatchInvariant, <1>1, PTL

(* No job is accepted twice, whatever is tried again (_submit_to_server).  *)
THEOREM JobsAreSubmittedOnce == Spec => []SubmittedOnce
<1>1. DispatchInv => SubmittedOnce
  BY DEF DispatchInv, Clear, Whole, SubmittedOnce
<1> QED BY DispatchInvariant, <1>1, PTL

(* An output directory holds files of one run, all of them when it is ok   *)
(* (_materialize).                                                         *)
THEOREM DirectoriesHoldOneRun == Spec => []DirectoryOfOneRun
<1>1. ASSUME DispatchInv, NEW c \in Client
      PROVE  /\ \A x, y \in dir[c] : x[1] = y[1]
             /\ outcome[c] = "ok" =>
                  \E run \in {"server", "local"} : dir[c] = {run} \X File
  <2>1. PICK run \in {"server", "local"} : dir[c] \subseteq {run} \X File
    BY <1>1 DEF DispatchInv, Clear, Whole
  <2>2. \A x \in dir[c] : x[1] = run
    BY <2>1
  <2> QED BY <1>1, <2>2 DEF DispatchInv, Clear, Whole
<1>2. DispatchInv => DirectoryOfOneRun
  BY <1>1 DEF DirectoryOfOneRun
<1> QED BY DispatchInvariant, <1>2, PTL

-----------------------------------------------------------------------------
(* The servers that clients meet are those the lock protocol promises: each *)
(* step of a dispatch is one of SingleServer or leaves it alone.            *)
WorldVars == <<owner, phase, card>>

LEMMA ServersStep ==
  ASSUME TypeOK, StartByHand \/ ServerClaims \/ ServerOpens \/ ServerStops \/ ServerCrashes
  PROVE  World!Next \/ UNCHANGED WorldVars
<1>1. CASE StartByHand
  BY <1>1 DEF StartByHand, WorldVars
<1>2. CASE ServerClaims
  <2>1. PICK s \in spawned : World!Claim(s) \/ UNCHANGED WorldVars
    BY <1>2 DEF ServerClaims, WorldVars
  <2>2. s \in Server
    BY DEF TypeOK
  <2> QED BY <2>1, <2>2 DEF World!Next
<1>3. CASE ServerOpens
  BY <1>3 DEF ServerOpens, World!Next
<1>4. CASE ServerStops
  BY <1>4 DEF ServerStops, World!Next, WorldVars
<1>5. CASE ServerCrashes
  BY <1>5 DEF ServerCrashes, World!Next
<1> QED BY <1>1, <1>2, <1>3, <1>4, <1>5

(* What ServerLifecycle is proved to implement is what the dispatch is     *)
(* built on (_claim_server_lock, _release_state_files): its servers are    *)
(* SingleServer's, whatever the clients do.                                *)
THEOREM DispatchUsesSingleServer == Spec => World!Spec
<1>1. Init => World!Init
  BY DEF Init
<1>2. DispatchInv /\ [Next]_vars => [World!Next]_WorldVars
  <2> SUFFICES ASSUME DispatchInv, [Next]_vars
               PROVE  World!Next \/ UNCHANGED WorldVars
    OBVIOUS
  <2>1. CASE StartByHand \/ ServerClaims \/ ServerOpens \/ ServerStops \/ ServerCrashes
    BY <2>1, ServersStep DEF DispatchInv
  <2>2. ASSUME NEW c \in Client, StartJob(c) \/ FinishJob(c)
        PROVE  UNCHANGED WorldVars
    BY <2>2 DEF StartJob, FinishJob, serverVars, WorldVars
  <2>3. ASSUME NEW c \in Client, ClientStep(c)
        PROVE  UNCHANGED WorldVars
    <3>1. ASSUME AutoStart(c) PROVE UNCHANGED WorldVars
      BY <3>1 DEF AutoStart, WorldVars
    <3> QED BY <2>3, <3>1 DEF ClientStep, Look, CheckStale, PollStart, LookAgain, ReadEndpoint, Send,
               Receive, LoseConnection, WriteFile, RunLocally, serverVars, WorldVars
  <2>4. ASSUME NEW c \in Client, ConnectTimesOut(c) \/ ReadTimesOut(c) \/ Interrupt(c)
        PROVE  UNCHANGED WorldVars
    BY <2>4 DEF ConnectTimesOut, ReadTimesOut, Interrupt, serverVars, WorldVars
  <2>5. CASE UNCHANGED vars
    BY <2>5 DEF vars, serverVars, WorldVars
  <2> QED BY <2>1, <2>2, <2>3, <2>4, <2>5 DEF Next
<1> QED BY <1>1, <1>2, DispatchInvariant, PTL DEF Spec, World!Spec, WorldVars
-----------------------------------------------------------------------------
(* An unfinished job is on the server that is open: run_lock is held for   *)
(* one of them at a time, a graceful shutdown waits for all of them, and   *)
(* none outlives its server.                                               *)
JobsOnOpenServer ==
    /\ \A c \in Client : Pending(c) => phase = "open" /\ job[c].on = owner
    /\ \A c, d \in Client : job[c].state = "running" /\ job[d].state = "running" => c = d

LEMMA JobsKept ==
  ASSUME JobsOnOpenServer, UNCHANGED <<owner, phase, job>>
  PROVE  JobsOnOpenServer'
BY DEF JobsOnOpenServer, Pending

LEMMA JobsOfServers ==
  ASSUME TypeOK, JobsOnOpenServer, ServerClaims \/ ServerOpens \/ ServerStops \/ ServerCrashes
  PROVE  JobsOnOpenServer'
<1>1. CASE ServerClaims
  BY <1>1 DEF ServerClaims, World!Claim, JobsOnOpenServer, Pending
<1>2. CASE ServerOpens
  BY <1>2 DEF ServerOpens, World!TakeDown, World!Open, JobsOnOpenServer, Pending
<1>3. CASE ServerStops
  BY <1>3 DEF ServerStops, World!Close, World!Leave, World!TakeDown, JobsOnOpenServer, Pending
<1>4. CASE ServerCrashes
  <2>1. job' = [c \in Client |-> IF Pending(c) THEN NoJob ELSE job[c]]
    BY <1>4 DEF ServerCrashes
  <2>2. \A c \in Client : ~ Pending(c)' /\ job'[c].state # "running"
    BY <2>1 DEF Pending, NoJob
  <2> QED BY <2>2 DEF JobsOnOpenServer
<1> QED BY <1>1, <1>2, <1>3, <1>4

(* The job queue (run_lock): a job that waits or runs is on the server that *)
(* is open now.  A stop waits for them, and a crash ends them with itself. *)
THEOREM UnfinishedJobsAreOnTheOpenServer == Spec => []JobsOnOpenServer
<1>1. Init => JobsOnOpenServer
  BY DEF Init, JobsOnOpenServer, Pending, NoJob
<1>2. DispatchInv /\ JobsOnOpenServer /\ [Next]_vars => JobsOnOpenServer'
  <2> SUFFICES ASSUME DispatchInv, JobsOnOpenServer, [Next]_vars
               PROVE  JobsOnOpenServer'
    OBVIOUS
  <2>0. TypeOK
    BY DEF DispatchInv
  <2>1. CASE StartByHand
    BY <2>1, JobsKept DEF StartByHand
  <2>2. CASE ServerClaims \/ ServerOpens \/ ServerStops \/ ServerCrashes
    BY <2>0, <2>2, JobsOfServers
  <2>3. ASSUME NEW c \in Client, StartJob(c)
        PROVE  JobsOnOpenServer'
    BY <2>0, <2>3 DEF StartJob, serverVars, TypeOK, Job, JobsOnOpenServer, Pending
  <2>4. ASSUME NEW c \in Client, FinishJob(c)
        PROVE  JobsOnOpenServer'
    BY <2>0, <2>4 DEF FinishJob, serverVars, TypeOK, Job, Answer, JobsOnOpenServer, Pending
  <2>5. ASSUME NEW c \in Client, Send(c)
        PROVE  JobsOnOpenServer'
    <3>1. owner' = owner /\ phase' = phase
      BY <2>5 DEF Send, serverVars
    <3>2. CASE job' = job
      BY <3>1, <3>2, JobsKept
    <3>3. CASE /\ Reachable
               /\ job' = [job EXCEPT ![c] = [on |-> owner, state |-> "queued", answer |-> "none"]]
      <4>1. \A d \in Client : job'[d] = IF d = c THEN [on |-> owner, state |-> "queued", answer |-> "none"]
                                                 ELSE job[d]
        BY <2>0, <3>3 DEF TypeOK
      <4> QED BY <3>1, <3>3, <4>1 DEF Reachable, JobsOnOpenServer, Pending
    <3> QED BY <2>5, <3>2, <3>3 DEF Send
  <2>6. ASSUME NEW c \in Client, ClientStep(c), ~ Send(c)
        PROVE  JobsOnOpenServer'
    <3>1. UNCHANGED <<owner, phase, job>>
      <4>1. ASSUME AutoStart(c) PROVE UNCHANGED <<owner, phase, job>>
        BY <4>1 DEF AutoStart
      <4> QED BY <2>6, <4>1 DEF ClientStep, Look, CheckStale, PollStart, LookAgain, ReadEndpoint,
                 Receive, LoseConnection, WriteFile, RunLocally, serverVars
    <3> QED BY <3>1, JobsKept
  <2>7. ASSUME NEW c \in Client, ConnectTimesOut(c) \/ ReadTimesOut(c) \/ Interrupt(c)
        PROVE  JobsOnOpenServer'
    <3>1. UNCHANGED <<owner, phase, job>>
      BY <2>7 DEF ConnectTimesOut, ReadTimesOut, Interrupt, serverVars
    <3> QED BY <3>1, JobsKept
  <2>8. CASE UNCHANGED vars
    BY <2>8, JobsKept DEF vars, serverVars
  <2> QED BY <2>1, <2>2, <2>3, <2>4, <2>5, <2>6, <2>7, <2>8 DEF Next
<1> QED BY <1>1, <1>2, DispatchInvariant, PTL DEF Spec
-----------------------------------------------------------------------------
(* How far a client is from its end                                        *)

(* A client that has not yet tried has tries of its own left, and one that *)
(* tries has counted fewer than it may.                                    *)
Within(c) ==
    /\ pc[c] \in {"look", "check", "start", "again"} => tries[c] = 0
    /\ pc[c] = "poll" => tries[c] < StartPolls
    /\ pc[c] \in {"read", "send"} => tries[c] < ConnectTries
TriesWithin == \A c \in Client : Within(c)

(* The stages a client has before it at most, each try and poll counted.   *)
Before(stage, n) ==
    CASE stage = "done"  -> 0
      [] stage = "local" -> 1
      [] stage = "write" -> 2
      [] stage = "wait"  -> 3
      [] stage = "send"  -> 3 + 2 * (ConnectTries - n)
      [] stage = "read"  -> 4 + 2 * (ConnectTries - n)
      [] stage = "check" -> 5 + 2 * ConnectTries
      [] stage = "again" -> 5 + 2 * ConnectTries
      [] stage = "poll"  -> 5 + 2 * ConnectTries + StartPolls - n
      [] stage = "start" -> 6 + 2 * ConnectTries + StartPolls
      [] stage = "look"  -> 7 + 2 * ConnectTries + StartPolls
Left(c) == Before(pc[c], tries[c])

WritesAFile(c) ==
    /\ pc[c] \in {"write", "local"}
    /\ \E f \in File, run \in {"server", "local"} :
          <<run, f>> \notin dir[c] /\ dir' = [dir EXCEPT ![c] = @ \cup {<<run, f>>}]

(* Every step of a client brings it nearer to its end, or writes one more  *)
(* of its files.                                                           *)
ComesForward ==
    \A c \in Client :
        ClientStep(c) \/ ConnectTimesOut(c) \/ ReadTimesOut(c) =>
            Left(c)' < Left(c) \/ (Left(c)' = Left(c) /\ WritesAFile(c))

(* Nobody, the servers and the other clients included, throws a client back.*)
NeverThrownBack == \A c \in Client : Left(c)' = Left(c) \/ Left(c)' < Left(c)

LEMMA Stages ==
  ASSUME NEW n \in Int
  PROVE  /\ Before("done", n) = 0
         /\ Before("local", n) = 1
         /\ Before("write", n) = 2
         /\ Before("wait", n) = 3
         /\ Before("send", n) = 3 + 2 * (ConnectTries - n)
         /\ Before("read", n) = 4 + 2 * (ConnectTries - n)
         /\ Before("check", n) = 5 + 2 * ConnectTries
         /\ Before("again", n) = 5 + 2 * ConnectTries
         /\ Before("poll", n) = 5 + 2 * ConnectTries + StartPolls - n
         /\ Before("start", n) = 6 + 2 * ConnectTries + StartPolls
         /\ Before("look", n) = 7 + 2 * ConnectTries + StartPolls
BY BoundsAssumption DEF Before

(* The tries are counted down, so that what is left is a natural number.   *)
LEMMA LeftIs ==
  ASSUME TypeOK, TriesWithin, NEW c \in Client
  PROVE  /\ Left(c) \in Nat
         /\ pc[c] \in Unsent \cup {"wait"} => Left(c) >= 3
         /\ pc[c] # "done" => Left(c) >= 1
<1> DEFINE n == tries[c]
<1>1. n \in Int /\ n >= 0
  BY BudgetNat DEF TypeOK
<1>2. /\ pc[c] \in Stage
      /\ pc[c] = "poll" => n < StartPolls
      /\ pc[c] \in {"read", "send"} => n < ConnectTries
  BY DEF TypeOK, TriesWithin, Within
<1>3. Left(c) = Before(pc[c], n)
  BY DEF Left
<1>4. ConnectTries \in Nat \ {0} /\ StartPolls \in Nat \ {0}
  BY BoundsAssumption
<1> HIDE DEF n
<1>5. CASE pc[c] = "done"
  BY <1>1, <1>3, <1>5, Stages DEF Unsent
<1>6. CASE pc[c] \in {"local", "write", "wait"}
  BY <1>1, <1>3, <1>6, Stages DEF Unsent
<1>7. CASE pc[c] \in {"send", "read"}
  <2>1. ConnectTries - n >= 1 /\ ConnectTries - n \in Int
    BY <1>1, <1>2, <1>4, <1>7
  <2>2. Left(c) = 3 + 2 * (ConnectTries - n) \/ Left(c) = 4 + 2 * (ConnectTries - n)
    BY <1>1, <1>3, <1>7, Stages
  <2> QED BY <1>7, <2>1, <2>2
<1>8. CASE pc[c] \in {"check", "again", "start", "look"}
  <2>1. \/ Left(c) = 5 + 2 * ConnectTries
        \/ Left(c) = 6 + 2 * ConnectTries + StartPolls
        \/ Left(c) = 7 + 2 * ConnectTries + StartPolls
    BY <1>1, <1>3, <1>8, Stages
  <2> QED BY <1>4, <1>8, <2>1
<1>9. CASE pc[c] = "poll"
  <2>1. Left(c) = 5 + 2 * ConnectTries + StartPolls - n
    BY <1>1, <1>3, <1>9, Stages
  <2> QED BY <1>1, <1>2, <1>4, <1>9, <2>1
<1> QED BY <1>2, <1>5, <1>6, <1>7, <1>8, <1>9 DEF Stage

(* What falls back or gives up is nearer to its end than what still tries. *)
LEMMA GivesUp ==
  ASSUME TypeOK, TriesWithin, NEW c \in Client, NEW reason,
         pc[c] \in Unsent \cup {"wait"},
         FallBackOr(c, reason)
  PROVE  /\ Left(c)' < Left(c)
         /\ \A d \in Client : d # c => pc'[d] = pc[d]
         /\ pc'[c] \in {"local", "done"}
<1>1. pc'[c] \in {"local", "done"} /\ \A d \in Client : d # c => pc'[d] = pc[d]
  BY DEF FallBackOr, Conclude, Move, TypeOK
<1>2. Left(c)' \in {0, 1}
  BY <1>1 DEF Left, Before
<1>3. Left(c) \in Int /\ Left(c) >= 3
  BY LeftIs DEF Unsent
<1> QED BY <1>1, <1>2, <1>3

(* A try that fails is counted before the next one begins.                 *)
LEMMA TriesOnceMore ==
  ASSUME TypeOK, TriesWithin, NEW c \in Client,
         pc[c] \in {"read", "send"}, Refused(c)
  PROVE  /\ Left(c)' < Left(c)
         /\ \A d \in Client : d # c => pc'[d] = pc[d] /\ tries'[d] = tries[d]
         /\ pc'[c] = "read" => tries'[c] < ConnectTries
         /\ pc'[c] \in {"read", "local", "done"}
<1>1. CASE FallBackOr(c, "communication_failed") /\ tries' = [tries EXCEPT ![c] = 0]
  <2>1. \A d \in Client : d # c => tries'[d] = tries[d]
    BY <1>1 DEF TypeOK
  <2> QED BY <1>1, <2>1, GivesUp DEF Unsent
<1>2. CASE /\ tries[c] + 1 < ConnectTries
           /\ tries' = [tries EXCEPT ![c] = @ + 1]
           /\ Move(c, "read")
  <2>1. /\ pc'[c] = "read" /\ tries'[c] = tries[c] + 1
        /\ \A d \in Client : d # c => pc'[d] = pc[d] /\ tries'[d] = tries[d]
    BY <1>2 DEF Move, TypeOK
  <2>2. tries[c] \in Int /\ ConnectTries \in Int
    BY BudgetNat, BoundsAssumption DEF TypeOK
  <2>3. Left(c)' = 4 + 2 * (ConnectTries - (tries[c] + 1))
    BY <2>1, <2>2, Stages DEF Left
  <2>4. Left(c) \in {3 + 2 * (ConnectTries - tries[c]), 4 + 2 * (ConnectTries - tries[c])}
    BY <2>2, Stages DEF Left
  <2>5. Left(c)' < Left(c)
    BY <2>2, <2>3, <2>4
  <2> QED BY <1>2, <2>1, <2>5
<1> QED BY <1>1, <1>2 DEF Refused

(* The stages in the order a client may take them.                         *)
LEMMA Forth ==
  ASSUME NEW n \in Nat, NEW m \in Nat
  PROVE  /\ Before("check", m) < Before("look", n)
         /\ Before("start", m) < Before("look", n)
         /\ Before("again", m) < Before("start", n)
         /\ Before("poll", m) < Before("start", n)
         /\ n < StartPolls => Before("again", m) < Before("poll", n)
         /\ Before("poll", n + 1) < Before("poll", n)
         /\ Before("read", m) < Before("check", n)
         /\ Before("read", m) < Before("again", n)
         /\ Before("send", n) < Before("read", n)
         /\ n < ConnectTries => Before("wait", m) < Before("send", n)
         /\ Before("write", m) < Before("wait", n)
<1>1. ConnectTries \in Nat \ {0} /\ StartPolls \in Nat \ {0}
  BY BoundsAssumption
<1>2. Before("poll", n + 1) = 5 + 2 * ConnectTries + StartPolls - (n + 1)
  BY Stages
<1>3. /\ Before("check", m) < Before("look", n)
      /\ Before("start", m) < Before("look", n)
      /\ Before("again", m) < Before("start", n)
      /\ Before("write", m) < Before("wait", n)
  <2>1. Before("write", m) < Before("wait", n)
    BY Stages
  <2>2. Before("again", m) < Before("start", n)
    BY <1>1, Stages
  <2>3. Before("check", m) < Before("look", n)
    BY <1>1, Stages
  <2>4. Before("start", m) < Before("look", n)
    BY <1>1, Stages
  <2> QED BY <2>1, <2>2, <2>3, <2>4
<1>4. Before("poll", m) < Before("start", n)
  BY <1>1, Stages
<1>5. n < StartPolls => Before("again", m) < Before("poll", n)
  BY <1>1, Stages
<1>6. Before("poll", n + 1) < Before("poll", n)
  BY <1>1, <1>2, Stages
<1>7. Before("read", m) < Before("check", n) /\ Before("read", m) < Before("again", n)
  <2>1. Before("read", m) = 4 + 2 * (ConnectTries - m)
    BY Stages
  <2>2. Before("check", n) = 5 + 2 * ConnectTries /\ Before("again", n) = 5 + 2 * ConnectTries
    BY Stages
  <2> QED BY <1>1, <2>1, <2>2
<1>8. Before("send", n) < Before("read", n)
  BY <1>1, Stages
<1>9. n < ConnectTries => Before("wait", m) < Before("send", n)
  BY <1>1, Stages
<1> QED BY <1>3, <1>4, <1>5, <1>6, <1>7, <1>8, <1>9

Onward(c) == Left(c)' < Left(c) \/ (Left(c)' = Left(c) /\ WritesAFile(c))
Others(c) == \A d \in Client : d # c => pc'[d] = pc[d] /\ tries'[d] = tries[d]

LEMMA ClientGoes ==
  ASSUME TypeOK, TriesWithin, NEW c \in Client,
         ClientStep(c) \/ ConnectTimesOut(c) \/ ReadTimesOut(c)
  PROVE  Onward(c) /\ Others(c) /\ Within(c)'
<1>0. /\ tries[c] \in Nat
      /\ ConnectTries \in Nat \ {0} /\ StartPolls \in Nat \ {0}
      /\ Within(c)
  BY BudgetNat, BoundsAssumption DEF TypeOK, TriesWithin
\* a step to another stage, with the tries as they were
<1>1. ASSUME NEW stage \in Stage, Move(c, stage), tries' = tries
      PROVE  Left(c)' = Before(stage, tries[c]) /\ Others(c) /\ pc'[c] = stage
  BY <1>1 DEF Move, TypeOK, Left, Others
<1>2. Left(c) = Before(pc[c], tries[c])
  BY DEF Left
\* a step that gives up, or leaves the server
<1>3. ASSUME NEW reason, pc[c] \in Unsent \cup {"wait"}, FallBackOr(c, reason), Others(c)
      PROVE  Onward(c) /\ Others(c) /\ Within(c)'
  BY <1>3, GivesUp DEF Onward, Within
<1>4. CASE Look(c)
  <2>1. CASE Move(c, "check")
    BY <1>0, <1>1, <1>2, <1>4, <2>1, Forth DEF Look, Onward, Within, Stage
  <2>2. CASE Move(c, "start")
    BY <1>0, <1>1, <1>2, <1>4, <2>2, Forth DEF Look, Onward, Within, Stage
  <2> QED BY <1>4, <2>1, <2>2 DEF Look
<1>5. CASE CheckStale(c)
  <2>1. CASE FallBackOr(c, "server_unavailable")
    BY <1>3, <1>5, <2>1, GivesUp DEF CheckStale, Unsent, Others
  <2>2. CASE Move(c, "read")
    BY <1>0, <1>1, <1>2, <1>5, <2>2, Forth DEF CheckStale, Onward, Within, Stage
  <2> QED BY <1>5, <2>1, <2>2 DEF CheckStale
<1>6. CASE AutoStart(c)
  <2>1. CASE FallBackOr(c, "server_unavailable")
    BY <1>3, <1>6, <2>1, GivesUp DEF AutoStart, Unsent, Others
  <2>2. CASE Move(c, "again")
    BY <1>0, <1>1, <1>2, <1>6, <2>2, Forth DEF AutoStart, Onward, Within, Stage
  <2>3. CASE Move(c, "poll")
    BY <1>0, <1>1, <1>2, <1>6, <2>3, Forth DEF AutoStart, Onward, Within, Stage
  <2> QED BY <1>6, <2>1, <2>2, <2>3 DEF AutoStart
<1>7. CASE PollStart(c)
  <2>0. pc[c] = "poll" /\ tries[c] < StartPolls
    BY <1>0, <1>7 DEF PollStart, Within
  <2>1. CASE FallBackOr(c, "server_unavailable") /\ tries' = [tries EXCEPT ![c] = 0]
    BY <1>3, <2>0, <2>1, GivesUp DEF Unsent, Others, TypeOK
  <2>2. CASE Move(c, "again") /\ tries' = [tries EXCEPT ![c] = 0]
    <3>1. pc'[c] = "again" /\ tries'[c] = 0 /\ Others(c)
      BY <2>2 DEF Move, TypeOK, Others
    <3> QED BY <1>0, <1>2, <2>0, <3>1, Forth DEF Left, Onward, Within
  <2>3. CASE tries[c] + 1 < StartPolls /\ tries' = [tries EXCEPT ![c] = @ + 1] /\ pc' = pc
    <3>1. pc'[c] = "poll" /\ tries'[c] = tries[c] + 1 /\ Others(c)
      BY <2>0, <2>3 DEF TypeOK, Others
    <3> QED BY <1>0, <1>2, <2>0, <2>3, <3>1, Forth DEF Left, Onward, Within
  <2> QED BY <1>7, <2>1, <2>2, <2>3 DEF PollStart
<1>8. CASE LookAgain(c)
  <2>1. CASE FallBackOr(c, "server_unavailable")
    BY <1>3, <1>8, <2>1, GivesUp DEF LookAgain, Unsent, Others
  <2>2. CASE Move(c, "read")
    BY <1>0, <1>1, <1>2, <1>8, <2>2, Forth DEF LookAgain, Onward, Within, Stage
  <2> QED BY <1>8, <2>1, <2>2 DEF LookAgain
<1>9. ASSUME pc[c] \in {"read", "send"}, Refused(c)
      PROVE  Onward(c) /\ Others(c) /\ Within(c)'
  BY <1>9, TriesOnceMore DEF Onward, Others, Within
<1>10. CASE ReadEndpoint(c)
  <2>1. CASE Refused(c)
    BY <1>9, <1>10, <2>1 DEF ReadEndpoint
  <2>2. CASE Move(c, "send") /\ tries' = tries
    BY <1>0, <1>1, <1>2, <1>10, <2>2, Forth DEF ReadEndpoint, Onward, Within, Stage
  <2> QED BY <1>10, <2>1, <2>2 DEF ReadEndpoint
<1>11. CASE Send(c)
  <2>0. pc[c] = "send" /\ tries[c] < ConnectTries
    BY <1>0, <1>11 DEF Send, Within
  <2>1. CASE Move(c, "wait") /\ tries' = [tries EXCEPT ![c] = 0]
    <3>1. pc'[c] = "wait" /\ Others(c) /\ tries'[c] = 0
      BY <2>1 DEF Move, TypeOK, Others
    <3> QED BY <1>0, <1>2, <2>0, <3>1, Forth DEF Left, Onward, Within
  <2>2. CASE FallBackOr(c, "communication_failed") /\ tries' = [tries EXCEPT ![c] = 0]
    BY <1>3, <2>0, <2>2, GivesUp DEF Unsent, Others, TypeOK
  <2>3. CASE Refused(c)
    BY <1>9, <2>0, <2>3
  <2> QED BY <1>11, <2>1, <2>2, <2>3 DEF Send
<1>12. ASSUME NEW result, Conclude(c, result), pc[c] # "done", Others(c)
       PROVE  Onward(c) /\ Others(c) /\ Within(c)'
  <2>1. pc'[c] = "done" /\ Left(c)' = 0
    BY <1>12 DEF Conclude, Move, TypeOK, Left, Before
  <2> QED BY <1>12, <2>1, LeftIs DEF Onward, Within
<1>13. CASE ConnectTimesOut(c)
  BY <1>12, <1>13 DEF ConnectTimesOut, Conclude, Move, Others, TypeOK
<1>14. CASE ReadTimesOut(c)
  BY <1>12, <1>14 DEF ReadTimesOut, Conclude, Move, Others, TypeOK
<1>15. CASE Receive(c)
  <2>1. CASE Move(c, "write")
    BY <1>0, <1>1, <1>2, <1>15, <2>1, Forth DEF Receive, Onward, Within, Stage
  <2>2. CASE FallBackOr(c, "communication_failed")
    BY <1>3, <1>15, <2>2, GivesUp DEF Receive, Others
  <2> QED BY <1>15, <2>1, <2>2 DEF Receive
<1>16. CASE LoseConnection(c)
  BY <1>3, <1>16, GivesUp DEF LoseConnection, Others
<1>17. ASSUME WritesAFile(c), UNCHANGED <<pc, tries>>
       PROVE  Onward(c) /\ Others(c) /\ Within(c)'
  BY <1>0, <1>17 DEF Onward, Others, Within, Left
<1>18. CASE WriteFile(c)
  BY <1>12, <1>17, <1>18 DEF WriteFile, WritesAFile, Conclude, Move, Others, TypeOK
<1>19. CASE RunLocally(c)
  BY <1>12, <1>17, <1>19 DEF RunLocally, WritesAFile, Conclude, Move, Others, TypeOK
<1> QED
  BY <1>4, <1>5, <1>6, <1>7, <1>8, <1>10, <1>11, <1>13, <1>14, <1>15, <1>16, <1>18, <1>19
  DEF ClientStep

LEMMA OthersGo ==
  ASSUME \/ StartByHand \/ ServerClaims \/ ServerOpens \/ ServerStops \/ ServerCrashes
         \/ \E c \in Client : StartJob(c) \/ FinishJob(c)
         \/ UNCHANGED vars
  PROVE  pc' = pc /\ tries' = tries
BY DEF StartByHand, ServerClaims, ServerOpens, ServerStops, ServerCrashes, StartJob, FinishJob, vars

LEMMA InterruptGoes ==
  ASSUME TypeOK, TriesWithin, NEW c \in Client, Interrupt(c)
  PROVE  Left(c)' < Left(c) /\ Others(c) /\ Within(c)'
<1>1. pc'[c] = "done" /\ Left(c)' = 0 /\ Others(c)
  BY DEF Interrupt, Conclude, Move, TypeOK, Left, Before, Others
<1> QED BY <1>1, LeftIs DEF Interrupt, Within

(* One step of anybody: within the budgets, and nearer to the end or not   *)
(* moved at all.                                                           *)
LEMMA StepGoes ==
  ASSUME TypeOK, TriesWithin, [Next]_vars
  PROVE  TriesWithin' /\ NeverThrownBack
<1>1. \A c \in Client : Left(c) \in Nat
  BY LeftIs
<1>2. ASSUME pc' = pc, tries' = tries
      PROVE  TriesWithin' /\ NeverThrownBack
  BY <1>1, <1>2 DEF TriesWithin, Within, NeverThrownBack, Left
<1>3. ASSUME NEW c \in Client, Others(c), Within(c)',
             Left(c)' = Left(c) \/ Left(c)' < Left(c)
      PROVE  TriesWithin' /\ NeverThrownBack
  <2>1. \A d \in Client : d # c => Left(d)' = Left(d)
    BY <1>3 DEF Others, Left
  <2>2. \A d \in Client : d # c => Within(d)'
    BY <1>3 DEF Others, Within, TriesWithin
  <2>3. NeverThrownBack
    BY <1>1, <1>3, <2>1 DEF NeverThrownBack
  <2> QED BY <1>3, <2>2, <2>3 DEF TriesWithin
<1>4. ASSUME NEW c \in Client, ClientStep(c) \/ ConnectTimesOut(c) \/ ReadTimesOut(c)
      PROVE  TriesWithin' /\ NeverThrownBack
  <2>1. Onward(c) /\ Others(c) /\ Within(c)'
    BY <1>4, ClientGoes
  <2>2. Left(c)' = Left(c) \/ Left(c)' < Left(c)
    BY <2>1 DEF Onward
  <2> QED BY <1>3, <2>1, <2>2
<1>5. ASSUME NEW c \in Client, Interrupt(c)
      PROVE  TriesWithin' /\ NeverThrownBack
  BY <1>3, <1>5, InterruptGoes
<1> QED BY <1>2, <1>4, <1>5, OthersGo DEF Next

(* What makes ClientSettles true whatever becomes of the servers: the      *)
(* tries of _submit_to_server and the polls of _start_server_background    *)
(* are counted, so that every step of a client (a timeout is one) brings   *)
(* it nearer to its end or writes a file that was not there, and nothing   *)
(* that anybody else does takes it back.                                   *)
THEOREM ClientsComeForward == Spec => [][ComesForward /\ NeverThrownBack]_vars
<1>1. Init => TriesWithin
  BY DEF Init, TriesWithin, Within
<1>2. TypeOK /\ TriesWithin /\ [Next]_vars => TriesWithin'
  BY StepGoes
<1>3. TypeOK /\ TriesWithin /\ [Next]_vars => [ComesForward /\ NeverThrownBack]_vars
  <2> SUFFICES ASSUME TypeOK, TriesWithin, [Next]_vars
               PROVE  ComesForward /\ NeverThrownBack
    OBVIOUS
  <2> QED BY StepGoes, ClientGoes DEF ComesForward, Onward
<1> QED BY <1>1, <1>2, <1>3, DispatchTypeCorrect, PTL DEF Spec

=============================================================================
