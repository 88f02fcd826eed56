--------------------------- MODULE SignedRequests ---------------------------
(***************************************************************************)
(* How the client and the GSAS-II server know each other's messages on the *)
(* loopback port: every request carries a fresh nonce, a timestamp and a   *)
(* signature made with the token of the server it read in the endpoint     *)
(* file, every answer a signature over that nonce (gateways/gsasii:        *)
(* client.py _signed_request, server.py SignedRequestMiddleware).          *)
(*                                                                         *)
(* A request may arrive late, several times, side by side with itself,     *)
(* altered, at a server that was restarted, or at another listener.  The   *)
(* token is the number of the server's start.                              *)
(***************************************************************************)
EXTENDS Integers, FiniteSets

CONSTANTS
    Nonce,       \* the requests of all clients, by their nonces
    Handler,     \* the requests the server handles side by side
    Skew,        \* MAX_CLOCK_SKEW
    CacheLimit,  \* used nonces kept without looking at their age
    Drift,       \* bound on how far the clock is set between a stamp and its check
    BodyDelay,   \* bound on the time a body follows its headers by
    MaxTime,     \* bound on the clock
    MaxServers,  \* bound on the starts of a server
    Free,        \* a handler without a request
    NoRequest    \* a nonce not used yet

ASSUME SkewAssumption  == Skew \in Nat
ASSUME DelayAssumption == BodyDelay \in Nat /\ BodyDelay < Skew
ASSUME DriftAssumption == Drift \in Nat /\ Drift < Skew
ASSUME CacheAssumption == CacheLimit \in Nat
ASSUME TimeAssumption  == MaxTime \in Nat /\ MaxServers \in Nat
ASSUME FreeAssumption  ==
    /\ Free \notin [nonce : Nonce, at : Nat, intact : BOOLEAN]
    /\ NoRequest \notin [time : Int, token : Nat, large : BOOLEAN]

VARIABLES
    now,      \* time.time() of the one machine both are on, as the server reads it
    server,   \* the token of the server, of the last one when it is down
    up,       \* whether a server is running
    sent,     \* the request sent with each nonce
    reading,  \* the handlers that wait for a body
    seen,     \* _seen_nonces: the used nonces and when
    done,     \* how often the application was given each request
    answers,  \* the answers on their way
    client    \* what the client of each request made of its answer

vars == <<now, server, up, sent, reading, seen, done, answers, client>>

Request == [time : -Drift .. MaxTime + Drift, token : 1 .. MaxServers, large : BOOLEAN]
Headers == [nonce : Nonce, at : 0 .. MaxTime, intact : BOOLEAN]
Seen    == [nonce : Nonce, at : 0 .. MaxTime]
Status  == {"served", "unauthorized", "too large"}
Answer  == [nonce : Nonce, token : 0 .. MaxServers, status : Status]

TypeOK ==
    /\ now \in 0 .. MaxTime
    /\ server \in 0 .. MaxServers
    /\ up \in BOOLEAN
    /\ sent \in [Nonce -> Request \cup {NoRequest}]
    /\ reading \in [Handler -> Headers \cup {Free}]
    /\ seen \subseteq Seen
    /\ done \in [Nonce -> Nat]
    /\ answers \subseteq Answer
    /\ client \in [Nonce -> {"waiting", "accepted", "rejected", "foreign", "gone"}]

Init ==
    /\ now = 0
    /\ server = 0
    /\ up = FALSE
    /\ sent = [n \in Nonce |-> NoRequest]
    /\ reading = [h \in Handler |-> Free]
    /\ seen = {}
    /\ done = [n \in Nonce |-> 0]
    /\ answers = {}
    /\ client = [n \in Nonce |-> "waiting"]

(* Time passes; a body is not waited for longer than BodyDelay.            *)
Tick ==
    /\ now < MaxTime
    /\ \A h \in Handler : reading[h] # Free => now < reading[h].at + BodyDelay
    /\ now' = now + 1
    /\ UNCHANGED <<server, up, sent, reading, seen, done, answers, client>>

(* A server makes its token when it starts, and has used no nonce.         *)
Start ==
    /\ ~up
    /\ server < MaxServers
    /\ server' = server + 1
    /\ up' = TRUE
    /\ seen' = {}
    /\ UNCHANGED <<now, sent, reading, done, answers, client>>

Stop ==
    /\ up
    /\ up' = FALSE
    /\ reading' = [h \in Handler |-> Free]
    /\ UNCHANGED <<now, server, sent, seen, done, answers, client>>

-----------------------------------------------------------------------------
(* The client                                                              *)

(* It signs with the token of the endpoint file it read, which may be of a
   server that is gone by now, and stamps the request with a clock that may
   since have been set back, or forward.                                   *)
Send(n) ==
    /\ sent[n] = NoRequest
    /\ \E time \in now - Drift .. now + Drift, token \in 1 .. server, large \in BOOLEAN :
          sent' = [sent EXCEPT ![n] = [time |-> time, token |-> token, large |-> large]]
    /\ UNCHANGED <<now, server, up, reading, seen, done, answers, client>>

(* An answer signed with the token, for whatever request.                  *)
SignedByToken(n, a) == a.token = sent[n].token

(* It is signed with the request's token, over its nonce and this answer.  *)
Signed(n, a) == a.nonce = n /\ a.token = sent[n].token

(* The refusals of the middleware are not signed; any other answer without
   the signature is of a listener that is not the user's server.           *)
Receive(n, a) ==
    /\ sent[n] # NoRequest
    /\ client[n] = "waiting"
    /\ client' = [client EXCEPT ![n] =
                     IF a.token = 0 /\ a.status # "served" THEN "rejected"
                     ELSE IF Signed(n, a) THEN "accepted" ELSE "foreign"]
    /\ UNCHANGED <<now, server, up, sent, reading, seen, done, answers>>

(* Whatever listens on the port may answer: with anything unsigned, or with
   an answer made for another request.                                     *)
ReceiveAny(n) ==
    \E a \in answers \cup [nonce : {n}, token : {0}, status : Status] : Receive(n, a)

(* The time limit of the request, or a connection that broke.              *)
GiveUp(n) ==
    /\ sent[n] # NoRequest
    /\ client[n] = "waiting"
    /\ client' = [client EXCEPT ![n] = "gone"]
    /\ UNCHANGED <<now, server, up, sent, reading, seen, done, answers>>

-----------------------------------------------------------------------------
(* The server                                                              *)

Used(n)    == \E s \in seen : s.nonce = n
Fresh(n)   == now - sent[n].time <= Skew /\ sent[n].time - now <= Skew
Reply(n, token, status) ==
    answers' = answers \cup {[nonce |-> n, token |-> token, status |-> status]}

(* The headers of a request, or of one more copy of it, altered or not: a stale
   timestamp or a used nonce is refused, else the body is awaited.         *)
ReadHeaders(h, n, intact) ==
    /\ up
    /\ reading[h] = Free
    /\ sent[n] # NoRequest
    /\ IF Fresh(n) /\ ~Used(n)
       THEN /\ reading' = [reading EXCEPT ![h] = [nonce |-> n, at |-> now, intact |-> intact]]
            /\ UNCHANGED answers
       ELSE Reply(n, 0, "unauthorized") /\ UNCHANGED reading
    /\ UNCHANGED <<now, server, up, sent, seen, done, client>>

Disconnect(h) ==
    /\ reading[h] # Free
    /\ reading' = [reading EXCEPT ![h] = Free]
    /\ UNCHANGED <<now, server, up, sent, seen, done, answers, client>>

(* Nonces are forgotten after the time a request is valid for.             *)
RememberOneWindow(n, at) ==
    {s \in seen : s.at > at - Skew} \cup {[nonce |-> n, at |-> at]}

(* Every used nonce, or once they are many those of the last two windows.  *)
Remember(n, at) ==
    (IF Cardinality(seen) > CacheLimit THEN {s \in seen : s.at > at - 2 * Skew} ELSE seen)
        \cup {[nonce |-> n, at |-> at]}

(* The signature is right, and no other copy came first meanwhile.         *)
Admits(r) == r.intact /\ sent[r.nonce].token = server /\ ~Used(r.nonce)

(* The body: over the limit of its path it is refused before the signature is
   looked at; then the nonce is recorded, with the time of the headers, and the
   application is given the request, with no await in between.             *)
ReadBody(h) ==
    /\ reading[h] # Free
    /\ LET r == reading[h]
       IN  IF sent[r.nonce].large
           THEN Reply(r.nonce, 0, "too large") /\ UNCHANGED <<seen, done>>
           ELSE IF Admits(r)
           THEN /\ seen' = Remember(r.nonce, r.at)
                /\ done' = [done EXCEPT ![r.nonce] = @ + 1]
                /\ Reply(r.nonce, server, "served")
           ELSE Reply(r.nonce, 0, "unauthorized") /\ UNCHANGED <<seen, done>>
    /\ reading' = [reading EXCEPT ![h] = Free]
    /\ UNCHANGED <<now, server, up, sent, client>>

Next ==
    \/ Tick \/ Start \/ Stop
    \/ \E n \in Nonce : Send(n) \/ ReceiveAny(n) \/ GiveUp(n)
    \/ \E h \in Handler, n \in Nonce, intact \in BOOLEAN : ReadHeaders(h, n, intact)
    \/ \E h \in Handler : Disconnect(h) \/ ReadBody(h)

Spec == Init /\ [][Next]_vars

-----------------------------------------------------------------------------
(* Properties                                                              *)

(* A request is given to the application at most once, however often, late or
   side by side its copies arrive, however the cache of used nonces was cut
   down, and across a restart that lost it.                                *)
AtMostOnce == \A n \in Nonce : done[n] <= 1

(* An answer the client accepts is the answer to its own request, which the
   server it knows carried out: not an older answer, not another listener's. *)
AnswerIsOwn == \A n \in Nonce : client[n] = "accepted" => done[n] = 1
=============================================================================
