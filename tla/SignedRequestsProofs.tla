------------------------ MODULE SignedRequestsProofs ------------------------
(***************************************************************************)
(* A signed request is carried out at most once, and the client accepts    *)
(* only its own answer: for any number of requests, handlers and restarts, *)
(* any cache size, and any clock skew longer than the time a body takes    *)
(* and than the clock is set by.                                           *)
(*                                                                         *)
(* The argument is about the age of a request.  A nonce is forgotten only  *)
(* when twice the skew has passed since it was used; by then the headers   *)
(* of a copy are stale, even when the stamp was ahead.  A copy whose       *)
(* headers were read before the first one was carried out has its body     *)
(* soon after, when the nonce is not forgotten yet.                        *)
(***************************************************************************)
EXTENDS SignedRequests, TLAPS

(* A request was made before now, for a server that has started.           *)
SentBefore ==
    \A n \in Nonce : sent[n] # NoRequest =>
        sent[n].time <= now + Drift /\ sent[n].token <= server

(* A body is awaited for a request that was made, and not for long.        *)
ReadingSent ==
    \A h \in Handler : reading[h] # Free =>
        /\ up
        /\ sent[reading[h].nonce] # NoRequest
        /\ sent[reading[h].nonce].time <= reading[h].at + Drift
        /\ reading[h].at <= now
        /\ now <= reading[h].at + BodyDelay

(* A nonce was used after its request was made.                            *)
SeenAfterSent ==
    \A s \in seen : /\ sent[s.nonce] # NoRequest
                    /\ sent[s.nonce].time <= s.at + Drift
                    /\ s.at <= now

(* A request done by the present server is remembered, or long stale.      *)
DoneIsRemembered ==
    \A n \in Nonce : done[n] # 0 =>
        /\ done[n] = 1
        /\ sent[n] # NoRequest
        /\ sent[n].token = server => Used(n) \/ sent[n].time + 2 * Skew <= now + Drift

(* One that is done while a copy of it waits for its body is remembered.   *)
CopyIsRemembered ==
    \A h \in Handler :
        reading[h] # Free /\ done[reading[h].nonce] # 0 /\ sent[reading[h].nonce].token = server =>
            \E s \in seen : s.nonce = reading[h].nonce /\ reading[h].at <= s.at + BodyDelay

(* A signed answer is of a request that was done.                          *)
AnswersAreDone ==
    \A a \in answers : a.token # 0 => done[a.nonce] = 1

IInv ==
    /\ TypeOK
    /\ SentBefore
    /\ ReadingSent
    /\ SeenAfterSent
    /\ DoneIsRemembered
    /\ CopyIsRemembered
    /\ AnswersAreDone
    /\ AnswerIsOwn

(* The middleware's own refusals are unsigned answers.                     *)
LEMMA UnsignedAnswer ==
    ASSUME NEW n \in Nonce, NEW status \in Status
    PROVE  [nonce |-> n, token |-> 0, status |-> status] \in Answer
<1>1. 0 \in 0 .. MaxServers
    BY TimeAssumption
<1> QED BY <1>1 DEF Answer

LEMMA InitIInv == Init => IInv
<1> SUFFICES ASSUME Init PROVE IInv
    OBVIOUS
<1> USE DEF Init
<1>1. TypeOK
    <2>1. up \in BOOLEAN
        OBVIOUS
    <2>2. now \in 0 .. MaxTime /\ server \in 0 .. MaxServers
        BY TimeAssumption
    <2>3. seen \subseteq Seen /\ answers \subseteq Answer /\ done \in [Nonce -> Nat]
        OBVIOUS
    <2>4. sent \in [Nonce -> Request \cup {NoRequest}] /\ reading \in [Handler -> Headers \cup {Free}]
        OBVIOUS
    <2>5. client \in [Nonce -> {"waiting", "accepted", "rejected", "foreign", "gone"}]
        OBVIOUS
    <2> QED BY <2>1, <2>2, <2>3, <2>4, <2>5 DEF TypeOK
<1>2. SentBefore /\ ReadingSent /\ SeenAfterSent /\ DoneIsRemembered /\ CopyIsRemembered
    BY DEF SentBefore, ReadingSent, SeenAfterSent, DoneIsRemembered, CopyIsRemembered
<1>3. AnswersAreDone /\ AnswerIsOwn
    BY DEF AnswersAreDone, AnswerIsOwn
<1> QED BY <1>1, <1>2, <1>3 DEF IInv

(* Time passing, and the server starting or stopping.                      *)
LEMMA TickKeeps == ASSUME IInv, Tick PROVE IInv'
<1> USE DEF IInv, Tick
<1>1. TypeOK'
    BY TimeAssumption DEF TypeOK
<1>2. SentBefore'
    BY TimeAssumption, DriftAssumption DEF SentBefore, TypeOK, Request
<1>3. ReadingSent'
    <2> SUFFICES ASSUME NEW h \in Handler, reading[h] # Free
                 PROVE  reading[h].at <= now + 1 /\ now + 1 <= reading[h].at + BodyDelay
        BY DEF ReadingSent
    <2>1. reading[h] \in Headers
        BY DEF TypeOK
    <2> QED BY <2>1, DelayAssumption, TimeAssumption DEF ReadingSent, Headers, TypeOK
<1>4. SeenAfterSent'
    BY TimeAssumption DEF SeenAfterSent, TypeOK, Seen
<1>5. DoneIsRemembered'
    BY TimeAssumption, SkewAssumption, DriftAssumption DEF DoneIsRemembered, Used, TypeOK, Request
<1>6. CopyIsRemembered' /\ AnswersAreDone' /\ AnswerIsOwn'
    BY DEF CopyIsRemembered, AnswersAreDone, AnswerIsOwn
<1> QED BY <1>1, <1>2, <1>3, <1>4, <1>5, <1>6

LEMMA StartKeeps == ASSUME IInv, Start PROVE IInv'
<1> USE DEF IInv, Start
<1>1. TypeOK'
    BY TimeAssumption DEF TypeOK
<1>2. SentBefore' /\ ReadingSent' /\ SeenAfterSent'
    BY TimeAssumption, DriftAssumption DEF SentBefore, ReadingSent, SeenAfterSent, TypeOK, Request
<1>3. DoneIsRemembered' /\ CopyIsRemembered'
    <2>1. \A h \in Handler : reading[h] = Free
        BY DEF ReadingSent
    <2>2. DoneIsRemembered'
        BY TimeAssumption DEF DoneIsRemembered, SentBefore, TypeOK, Request
    <2> QED BY <2>1, <2>2 DEF CopyIsRemembered
<1>4. AnswersAreDone' /\ AnswerIsOwn'
    BY DEF AnswersAreDone, AnswerIsOwn
<1> QED BY <1>1, <1>2, <1>3, <1>4

LEMMA StopKeeps == ASSUME IInv, Stop PROVE IInv'
<1> USE DEF IInv, Stop
<1>1. TypeOK'
    BY DEF TypeOK
<1>2. SentBefore' /\ ReadingSent' /\ SeenAfterSent'
    BY DEF SentBefore, ReadingSent, SeenAfterSent
<1>3. DoneIsRemembered' /\ CopyIsRemembered' /\ AnswersAreDone' /\ AnswerIsOwn'
    BY DEF DoneIsRemembered, CopyIsRemembered, AnswersAreDone, AnswerIsOwn, Used
<1> QED BY <1>1, <1>2, <1>3

(* What a client does.                                                     *)
LEMMA SendKeeps == ASSUME IInv, NEW n \in Nonce, Send(n) PROVE IInv'
<1> USE DEF IInv, Send
<1> PICK time \in now - Drift .. now + Drift, token \in 1 .. server, large \in BOOLEAN :
        sent' = [sent EXCEPT ![n] = [time |-> time, token |-> token, large |-> large]]
    OBVIOUS
<1> DEFINE r == [time |-> time, token |-> token, large |-> large]
<1>1. r \in Request /\ r # NoRequest
    <2>1. r \in Request
        <3>1. time \in -Drift .. MaxTime + Drift
            BY TimeAssumption, DriftAssumption DEF TypeOK
        <3>2. token \in 1 .. MaxServers
            BY TimeAssumption DEF TypeOK
        <3> QED BY <3>1, <3>2 DEF Request
    <2>2. Request \subseteq [time : Int, token : Nat, large : BOOLEAN]
        BY TimeAssumption, DriftAssumption DEF Request
    <2> QED BY <2>1, <2>2, FreeAssumption
<1>2. \A m \in Nonce : sent'[m] = IF m = n THEN r ELSE sent[m]
    BY DEF TypeOK
<1> HIDE DEF r
<1>3. TypeOK'
    BY <1>1, <1>2 DEF TypeOK, r
<1>4. SentBefore'
    BY <1>2, TimeAssumption, DriftAssumption DEF SentBefore, TypeOK, r
<1>5. ReadingSent'
    <2> SUFFICES ASSUME NEW h \in Handler, reading[h] # Free
                 PROVE  sent'[reading[h].nonce] = sent[reading[h].nonce]
        BY DEF ReadingSent
    <2> QED BY <1>2 DEF ReadingSent, TypeOK, Headers
<1>6. SeenAfterSent'
    BY <1>2 DEF SeenAfterSent, TypeOK, Seen
<1>7. DoneIsRemembered'
    BY <1>2 DEF DoneIsRemembered, Used
<1>9. CopyIsRemembered'
    <2> SUFFICES ASSUME NEW h \in Handler, reading[h] # Free
                 PROVE  sent'[reading[h].nonce] = sent[reading[h].nonce]
        BY DEF CopyIsRemembered
    <2> QED BY <1>2 DEF ReadingSent, TypeOK, Headers
<1>8. AnswersAreDone' /\ AnswerIsOwn'
    BY DEF AnswersAreDone, AnswerIsOwn
<1> QED BY <1>3, <1>4, <1>5, <1>6, <1>7, <1>8, <1>9

LEMMA ReceiveKeeps == ASSUME IInv, NEW n \in Nonce, ReceiveAny(n) PROVE IInv'
<1> USE DEF IInv
<1> PICK a \in answers \cup [nonce : {n}, token : {0}, status : Status] : Receive(n, a)
    BY DEF ReceiveAny
<1>1. TypeOK'
    BY DEF TypeOK, Receive
<1>2. SentBefore' /\ ReadingSent' /\ SeenAfterSent' /\ DoneIsRemembered'
      /\ CopyIsRemembered' /\ AnswersAreDone'
    BY DEF SentBefore, ReadingSent, SeenAfterSent, DoneIsRemembered, CopyIsRemembered,
              AnswersAreDone, Used, Receive
<1>3. Signed(n, a) => done[n] = 1
    <2> SUFFICES ASSUME Signed(n, a) PROVE done[n] = 1
        OBVIOUS
    <2>1. sent[n] \in Request
        BY DEF TypeOK, Receive
    <2>2. a.token # 0 /\ a.nonce = n
        BY <2>1, TimeAssumption DEF Signed, Request
    <2>3. a \in answers
        BY <2>2
    <2> QED BY <2>2, <2>3 DEF AnswersAreDone
<1>4. AnswerIsOwn'
    BY <1>3 DEF AnswerIsOwn, Receive, TypeOK
<1> QED BY <1>1, <1>2, <1>4

LEMMA GiveUpKeeps == ASSUME IInv, NEW n \in Nonce, GiveUp(n) PROVE IInv'
<1> USE DEF IInv, GiveUp
<1>1. TypeOK' /\ AnswerIsOwn'
    BY DEF TypeOK, AnswerIsOwn
<1>2. SentBefore' /\ ReadingSent' /\ SeenAfterSent' /\ DoneIsRemembered'
      /\ CopyIsRemembered' /\ AnswersAreDone'
    BY DEF SentBefore, ReadingSent, SeenAfterSent, DoneIsRemembered, CopyIsRemembered,
              AnswersAreDone, Used
<1> QED BY <1>1, <1>2

(* What the server does with a request.                                    *)
LEMMA ReadHeadersKeeps ==
    ASSUME IInv, NEW h \in Handler, NEW n \in Nonce, NEW intact \in BOOLEAN,
           ReadHeaders(h, n, intact)
    PROVE  IInv'
<1> USE DEF IInv
<1> DEFINE r == [nonce |-> n, at |-> now, intact |-> intact]
<1>1. CASE Fresh(n) /\ ~Used(n)
    <2>1. /\ reading' = [reading EXCEPT ![h] = r]
          /\ UNCHANGED <<now, server, up, sent, seen, done, answers, client>>
        BY <1>1 DEF ReadHeaders
    <2>2. TypeOK'
        BY <2>1 DEF TypeOK, Headers
    <2>3. /\ sent[n] # NoRequest /\ sent[n].time \in Int /\ now \in Nat
          /\ sent[n].time <= now + Drift /\ now - sent[n].time <= Skew
        <3>1. sent[n] # NoRequest /\ sent[n] \in Request
            BY DEF ReadHeaders, TypeOK
        <3> QED BY <3>1, <1>1, TimeAssumption, DriftAssumption DEF SentBefore, Fresh, Request, TypeOK
    <2>5. ReadingSent'
        <3>1. r.nonce = n /\ r.at = now
            OBVIOUS
        <3>2. now <= now + BodyDelay
            BY <2>3, DelayAssumption
        <3>3. ASSUME NEW g \in Handler, reading'[g] # Free
              PROVE  /\ up
                     /\ sent[reading'[g].nonce] # NoRequest
                     /\ sent[reading'[g].nonce].time <= reading'[g].at + Drift
                     /\ reading'[g].at <= now
                     /\ now <= reading'[g].at + BodyDelay
            <4>1. CASE g = h
                <5>1. reading'[g] = r /\ up
                    BY <4>1, <2>1 DEF TypeOK, ReadHeaders
                <5> QED BY <5>1, <2>3, <3>1, <3>2
            <4>2. CASE g # h
                BY <4>2, <3>3, <2>1 DEF ReadingSent, TypeOK
            <4> QED BY <4>1, <4>2
        <3> QED BY <3>3, <2>1 DEF ReadingSent
    <2>6. CopyIsRemembered'
        <3>1. done[n] # 0 => sent[n].token # server
            <4> SUFFICES ASSUME done[n] # 0, sent[n].token = server PROVE FALSE
                OBVIOUS
            <4>1. sent[n].time + 2 * Skew <= now + Drift
                BY <1>1 DEF DoneIsRemembered
            <4> QED BY <4>1, <2>3, SkewAssumption, DriftAssumption
        <3>2. ASSUME NEW g \in Handler, reading'[g] # Free, done[reading'[g].nonce] # 0,
                     sent[reading'[g].nonce].token = server
              PROVE  \E s \in seen : s.nonce = reading'[g].nonce /\ reading'[g].at <= s.at + BodyDelay
            <4>1. g # h
                <5> SUFFICES ASSUME g = h PROVE FALSE
                    OBVIOUS
                <5>1. reading'[g] = r /\ r.nonce = n
                    BY <2>1 DEF TypeOK
                <5> QED BY <5>1, <3>1, <3>2
            <4>2. reading'[g] = reading[g]
                BY <4>1, <2>1 DEF TypeOK
            <4> QED BY <3>2, <4>2 DEF CopyIsRemembered
        <3> QED BY <3>2, <2>1 DEF CopyIsRemembered
    <2>4. SentBefore' /\ SeenAfterSent' /\ DoneIsRemembered' /\ AnswersAreDone' /\ AnswerIsOwn'
        BY <2>1 DEF SentBefore, SeenAfterSent, DoneIsRemembered, AnswersAreDone, AnswerIsOwn, Used
    <2> QED BY <2>2, <2>4, <2>5, <2>6
<1>2. CASE ~(Fresh(n) /\ ~Used(n))
    <2>1. /\ answers' = answers \cup {[nonce |-> n, token |-> 0, status |-> "unauthorized"]}
          /\ UNCHANGED <<now, server, up, sent, reading, seen, done, client>>
        BY <1>2 DEF ReadHeaders, Reply
    <2>2. TypeOK'
        <3>1. [nonce |-> n, token |-> 0, status |-> "unauthorized"] \in Answer
            BY TimeAssumption DEF Answer, Status
        <3> QED BY <2>1, <3>1 DEF TypeOK
    <2>3. SentBefore' /\ ReadingSent' /\ SeenAfterSent' /\ DoneIsRemembered' /\ CopyIsRemembered'
        BY <2>1 DEF SentBefore, ReadingSent, SeenAfterSent, DoneIsRemembered, CopyIsRemembered,
                    Used, ReadHeaders
    <2>4. AnswersAreDone' /\ AnswerIsOwn'
        BY <2>1 DEF AnswersAreDone, AnswerIsOwn
    <2> QED BY <2>2, <2>3, <2>4
<1> QED BY <1>1, <1>2

LEMMA DisconnectKeeps == ASSUME IInv, NEW h \in Handler, Disconnect(h) PROVE IInv'
<1> USE DEF IInv, Disconnect
<1>1. TypeOK' /\ ReadingSent' /\ CopyIsRemembered'
    BY DEF TypeOK, ReadingSent, CopyIsRemembered
<1>2. SentBefore' /\ SeenAfterSent' /\ DoneIsRemembered' /\ AnswersAreDone' /\ AnswerIsOwn'
    BY DEF SentBefore, SeenAfterSent, DoneIsRemembered, AnswersAreDone, AnswerIsOwn, Used
<1> QED BY <1>1, <1>2

(* The heart of the argument: a request that is admitted was not done yet. *)
LEMMA AdmittedIsNew ==
    ASSUME IInv, NEW h \in Handler, reading[h] # Free, Admits(reading[h])
    PROVE  done[reading[h].nonce] = 0
<1> DEFINE n == reading[h].nonce
<1>1. n \in Nonce /\ sent[n].token = server /\ ~Used(n)
    BY DEF IInv, TypeOK, Headers, Admits
<1>2. done[n] # 0 => \E s \in seen : s.nonce = n
    BY <1>1 DEF IInv, CopyIsRemembered
<1> QED BY <1>1, <1>2 DEF Used

LEMMA ReadBodyKeeps == ASSUME IInv, NEW h \in Handler, ReadBody(h) PROVE IInv'
<1> USE DEF IInv
<1> DEFINE r == reading[h]
           n == r.nonce
           new == [nonce |-> n, at |-> r.at]
<1>1. r # Free /\ r \in Headers /\ n \in Nonce /\ r.at \in 0 .. MaxTime
    BY DEF ReadBody, TypeOK, Headers
<1>2. /\ reading' = [reading EXCEPT ![h] = Free]
      /\ UNCHANGED <<now, server, up, sent, client>>
    BY DEF ReadBody
<1>3. SentBefore' /\ ReadingSent'
    BY <1>2 DEF SentBefore, ReadingSent, TypeOK
<1>4. CASE ~sent[n].large /\ Admits(r)
    <2>1. /\ seen' = Remember(n, r.at)
          /\ done' = [done EXCEPT ![n] = @ + 1]
          /\ answers' = answers \cup {[nonce |-> n, token |-> server, status |-> "served"]}
        BY <1>4 DEF ReadBody, Reply
    <2>2. done[n] = 0
        BY <1>1, <1>4, AdmittedIsNew
    <2>3. \A m \in Nonce : done'[m] = IF m = n THEN 1 ELSE done[m]
        BY <2>1, <2>2 DEF TypeOK
    <2>4. seen' \subseteq seen \cup {new} /\ new \in seen'
        BY <2>1 DEF Remember
    <2>5. \A s \in seen : s \in seen' \/ s.at <= r.at - 2 * Skew
        BY <2>1, <1>1, SkewAssumption, TimeAssumption DEF Remember, TypeOK, Seen
    <2>6. TypeOK'
        <3>1. new \in Seen
            BY <1>1 DEF Seen
        <3>2. [nonce |-> n, token |-> server, status |-> "served"] \in Answer
            BY <1>1, TimeAssumption DEF Answer, Status, TypeOK
        <3>3. done' \in [Nonce -> Nat]
            <4>1. done \in [Nonce -> Nat] /\ done[n] + 1 \in Nat
                BY <1>1 DEF TypeOK
            <4> QED BY <2>1, <4>1
        <3> QED BY <1>2, <2>1, <2>4, <3>1, <3>2, <3>3 DEF TypeOK
    <2>7. SeenAfterSent'
        <3>1. new.nonce = n /\ new.at = r.at
            OBVIOUS
        <3>2. sent[n] # NoRequest /\ sent[n].time <= r.at + Drift /\ r.at <= now
            BY <1>1 DEF ReadingSent
        <3> QED BY <1>2, <2>4, <3>1, <3>2 DEF SeenAfterSent
    <2>8. DoneIsRemembered'
        <3> SUFFICES ASSUME NEW m \in Nonce, done'[m] # 0
                     PROVE  /\ done'[m] = 1
                            /\ sent[m] # NoRequest
                            /\ sent[m].token = server =>
                                   Used(m)' \/ sent[m].time + 2 * Skew <= now + Drift
            BY <1>2 DEF DoneIsRemembered
        <3>1. CASE m = n
            <4>1. new.nonce = m /\ new \in seen'
                BY <3>1, <2>4
            <4>2. Used(m)'
                BY <4>1 DEF Used
            <4>3. sent[m] # NoRequest
                BY <1>1, <3>1 DEF ReadingSent
            <4> QED BY <3>1, <4>2, <4>3, <2>3
        <3>2. CASE m # n
            <4>1. done[m] # 0 /\ done'[m] = done[m]
                BY <3>2, <2>3
            <4>2. CASE Used(m)
                <5>1. PICK s \in seen : s.nonce = m
                    BY <4>2 DEF Used
                <5>2. CASE s \in seen'
                    BY <4>1, <5>1, <5>2 DEF Used, DoneIsRemembered
                <5>3. CASE s.at <= r.at - 2 * Skew
                    <6>1. sent[m] # NoRequest /\ sent[m].time <= s.at + Drift
                        BY <5>1 DEF SeenAfterSent
                    <6>2. sent[m].time \in Int /\ s.at \in Nat /\ r.at \in Nat /\ now \in Nat
                        BY <6>1, <1>1, TimeAssumption, DriftAssumption DEF TypeOK, Request, Seen
                    <6>3. r.at <= now
                        BY <1>1 DEF ReadingSent
                    <6>4. sent[m].time + 2 * Skew <= now + Drift
                        BY <5>3, <6>1, <6>2, <6>3, SkewAssumption, DriftAssumption
                    <6> QED BY <4>1, <6>1, <6>4 DEF DoneIsRemembered
                <5> QED BY <5>2, <5>3, <2>5
            <4>3. CASE ~Used(m)
                BY <4>1, <4>3 DEF DoneIsRemembered
            <4> QED BY <4>2, <4>3
        <3> QED BY <3>1, <3>2
    <2>10. CopyIsRemembered'
        <3> SUFFICES ASSUME NEW g \in Handler, reading'[g] # Free, done'[reading'[g].nonce] # 0,
                            sent[reading'[g].nonce].token = server
                     PROVE  \E s \in seen' : /\ s.nonce = reading'[g].nonce
                                             /\ reading'[g].at <= s.at + BodyDelay
            BY <1>2 DEF CopyIsRemembered
        <3> DEFINE q == reading[g]
        <3>1. g # h /\ reading'[g] = q /\ q # Free
            BY <1>2 DEF TypeOK
        <3>2. q \in Headers /\ q.nonce \in Nonce /\ q.at \in Nat /\ now \in Nat /\ r.at \in Nat
            BY <1>1, <3>1, TimeAssumption DEF TypeOK, Headers
        <3>3. q.at <= now /\ now <= q.at + BodyDelay /\ r.at <= now /\ now <= r.at + BodyDelay
            BY <1>1, <3>1 DEF ReadingSent
        <3>4. CASE q.nonce = n
            <4>1. new.nonce = n /\ new.at = r.at /\ new \in seen'
                BY <2>4
            <4>2. q.at <= r.at + BodyDelay
                BY <3>2, <3>3, DelayAssumption
            <4> QED BY <3>1, <3>4, <4>1, <4>2
        <3>5. CASE q.nonce # n
            <4>1. done[q.nonce] # 0
                BY <2>3, <3>1, <3>2, <3>5
            <4>2. PICK s \in seen : s.nonce = q.nonce /\ q.at <= s.at + BodyDelay
                BY <3>1, <4>1 DEF CopyIsRemembered
            <4>3. s.at \in Nat
                BY <4>2, TimeAssumption DEF TypeOK, Seen
            <4>4. ~(s.at <= r.at - 2 * Skew)
                BY <3>2, <3>3, <4>2, <4>3, SkewAssumption, DelayAssumption
            <4> QED BY <2>5, <3>1, <4>2, <4>4
        <3> QED BY <3>4, <3>5
    <2>9. AnswersAreDone' /\ AnswerIsOwn'
        BY <1>1, <1>2, <2>1, <2>3 DEF AnswersAreDone, AnswerIsOwn, TypeOK, Answer
    <2> QED BY <1>3, <2>6, <2>7, <2>8, <2>9, <2>10
<1>5. CASE ~(~sent[n].large /\ Admits(r))
    <2>1. UNCHANGED <<seen, done>>
        BY <1>5 DEF ReadBody
    <2>2. PICK status \in {"unauthorized", "too large"} :
              answers' = answers \cup {[nonce |-> n, token |-> 0, status |-> status]}
        BY <1>5 DEF ReadBody, Reply
    <2> DEFINE a == [nonce |-> n, token |-> 0, status |-> status]
    <2>3. TypeOK'
        <3>1. a \in Answer
            BY <1>1, UnsignedAnswer DEF Status
        <3> QED BY <1>2, <2>1, <2>2, <3>1 DEF TypeOK
    <2>4. SeenAfterSent' /\ DoneIsRemembered' /\ CopyIsRemembered'
        BY <1>2, <2>1 DEF SeenAfterSent, DoneIsRemembered, CopyIsRemembered, Used, TypeOK
    <2>5. AnswersAreDone'
        <3> SUFFICES ASSUME NEW b \in answers', b.token # 0 PROVE done[b.nonce] = 1
            BY <2>1 DEF AnswersAreDone
        <3>1. a.token = 0
            OBVIOUS
        <3>2. b \in answers
            BY <2>2, <3>1
        <3> QED BY <3>2 DEF AnswersAreDone
    <2>6. AnswerIsOwn'
        BY <1>2, <2>1 DEF AnswerIsOwn
    <2> QED BY <1>3, <2>3, <2>4, <2>5, <2>6
<1> QED BY <1>4, <1>5

LEMMA NextKeeps == IInv /\ [Next]_vars => IInv'
<1> SUFFICES ASSUME IInv, [Next]_vars PROVE IInv'
    OBVIOUS
<1>1. CASE Tick       BY <1>1, TickKeeps
<1>2. CASE Start      BY <1>2, StartKeeps
<1>3. CASE Stop       BY <1>3, StopKeeps
<1>4. ASSUME NEW n \in Nonce, Send(n) \/ ReceiveAny(n) \/ GiveUp(n) PROVE IInv'
    BY <1>4, SendKeeps, ReceiveKeeps, GiveUpKeeps
<1>5. ASSUME NEW h \in Handler, NEW n \in Nonce, NEW intact \in BOOLEAN,
             ReadHeaders(h, n, intact)
      PROVE  IInv'
    BY <1>5, ReadHeadersKeeps
<1>6. ASSUME NEW h \in Handler, Disconnect(h) \/ ReadBody(h) PROVE IInv'
    BY <1>6, DisconnectKeeps, ReadBodyKeeps
<1>7. CASE UNCHANGED vars
    BY <1>7 DEF vars, IInv, TypeOK, SentBefore, ReadingSent, SeenAfterSent,
                DoneIsRemembered, CopyIsRemembered, AnswersAreDone, AnswerIsOwn, Used
<1> QED BY <1>1, <1>2, <1>3, <1>4, <1>5, <1>6, <1>7 DEF Next

(* The inductive invariant: a body is awaited for a short time only, and a *)
(* request that was carried out is in the cache for as long as a copy of   *)
(* it may arrive.                                                          *)
THEOREM SignedInvariant == Spec => []IInv
    BY InitIInv, NextKeeps, PTL DEF Spec

(* server.py, the cache of used nonces: however many copies of a request arrive
   side by side or late, and whatever was forgotten or lost in a restart, the
   application is given the request once.                                  *)
THEOREM SignedAtMostOnce == Spec => []AtMostOnce
<1>1. IInv => AtMostOnce
    BY DEF IInv, DoneIsRemembered, AtMostOnce, TypeOK
<1> QED BY <1>1, SignedInvariant, PTL

(* client.py, _signed_request: the answer a client accepts is of the server
   that carried out this request.                                          *)
THEOREM SignedAnswerIsOwn == Spec => []AnswerIsOwn
<1>1. IInv => AnswerIsOwn
    BY DEF IInv
<1> QED BY <1>1, SignedInvariant, PTL
=============================================================================
