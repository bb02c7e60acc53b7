------------------------------ MODULE DigestAuth ------------------------------
(***************************************************************************)
(* Digest authentication (internal/transport/auth.go, challenge.go and     *)
(* internal/config/digest.go) against the responder of internal/mock: the  *)
(* workers of a run share one challenge and one nonce count, or draw a     *)
(* challenge for every request from a server whose nonces are single use.  *)
(*                                                                         *)
(* One worker is one attempt, that is one unit of quota.  A nonce is a     *)
(* number, fresh ones counting up; a header is the nonce it answers, its   *)
(* nc and its session cookie (single use only, named by its nonce).  There *)
(* is one realm and the password is right, so a response matches whenever  *)
(* the nonce does, and the ha1 cache always holds the one value.           *)
(***************************************************************************)
EXTENDS Integers, Sequences, FiniteSets

CONSTANTS
    Workers,        \* the attempts of the run
    NonceLifetimes  \* the server's NonceLifetime; zero means for ever

ASSUME DigestAssumption == IsFiniteSet(Workers) /\ NonceLifetimes \subseteq Nat

VARIABLES
    mode, lifetime,    \* challenge_per_request, and the server's option
    main,              \* where Run is: "prime", "load" or "failed"
    challenge, nc,     \* digestState: the nonce held, 0 for none, and its count
    requests,          \* Authenticator.requests
    pc, answer,        \* each attempt: where it is, and the response to it
    copied,            \* each attempt: the challenge copied under the lock
    sent, retried,     \* each attempt: headers sent, and whether it is the retry
    result,            \* each attempt: how PostTimestamp returned
    nonces, served,    \* server: nonces made, the last one current; served count
    sessions,          \* server: single-use nonces not yet spent
    http, tokens       \* history: HTTP requests made, timestamps issued to each

client == <<challenge, nc, requests>>
server == <<nonces, served, sessions>>
vars == <<mode, lifetime, main, client, pc, answer, copied, sent, retried, result,
          server, http, tokens>>

-----------------------------------------------------------------------------
Shared == mode = "shared"

Goto(w, label) == pc' = [pc EXCEPT ![w] = label]

Done(w, how) == Goto(w, "done") /\ result' = [result EXCEPT ![w] = how]

\* SetChallenge: the nonce and a count from zero, under the lock.
SetChallenge(nonce) == challenge' = nonce /\ nc' = 0

Init ==
    /\ mode \in {"shared", "perRequest"} /\ lifetime \in NonceLifetimes
    /\ main = IF Shared THEN "prime" ELSE "load"
    /\ challenge = 0 /\ nc = 0 /\ requests = 0
    /\ pc = [w \in Workers |-> "authorize"]
    /\ answer = [w \in Workers |-> [status |-> 0, stale |-> FALSE, nonce |-> 0]]
    /\ copied = [w \in Workers |-> 0]
    /\ sent = [w \in Workers |-> << >>] /\ retried = [w \in Workers |-> FALSE]
    /\ result = [w \in Workers |-> "none"]
    /\ nonces = 1 /\ served = 0 /\ sessions = {}
    /\ http = 0 /\ tokens = [w \in Workers |-> 0]

\* Prime: one challenge for all workers, or the run does not start.  The
\* request is counted whether or not it was answered.
Prime ==
    /\ main = "prime"
    /\ http' = http + 1 /\ requests' = requests + 1
    /\ \/ main' = "load" /\ SetChallenge(nonces)
       \/ main' = "failed" /\ UNCHANGED <<challenge, nc>>
    /\ UNCHANGED <<mode, lifetime, pc, answer, copied, sent, retried, result, server, tokens>>

-----------------------------------------------------------------------------
(* The client: PostTimestamp.                                              *)

\* applyDigest: the challenge is copied under the read lock ...
CopyChallenge(w) ==
    /\ main = "load" /\ Shared /\ pc[w] = "authorize"
    /\ copied' = [copied EXCEPT ![w] = challenge]
    /\ Goto(w, "apply")
    /\ UNCHANGED <<mode, lifetime, main, client, answer, sent, retried, result, server,
                   http, tokens>>

\* ... and the count is taken after it, on whatever challenge is held by then.
ApplyDigest(w) ==
    /\ pc[w] = "apply"
    /\ nc' = nc + 1
    /\ sent' = [sent EXCEPT ![w] = Append(@, [nonce |-> copied[w], nc |-> nc + 1, cookie |-> 0])]
    /\ http' = http + 1
    /\ Goto(w, "check")
    /\ UNCHANGED <<mode, lifetime, main, challenge, requests, answer, copied, retried,
                   result, server, tokens>>

\* Variant: only an answered draw is counted.
DrawUncounted(w) ==
    /\ main = "load" /\ ~Shared /\ pc[w] = "authorize"
    /\ http' = http + 1
    /\ \/ /\ nonces' = nonces + 1 /\ sessions' = sessions \cup {nonces + 1}
          /\ requests' = requests + 1
          /\ copied' = [copied EXCEPT ![w] = nonces + 1]
          /\ Goto(w, "once") /\ UNCHANGED result
       \/ Done(w, "failed") /\ UNCHANGED <<nonces, sessions, requests, copied>>
    /\ UNCHANGED <<mode, lifetime, main, challenge, nc, answer, sent, retried, served, tokens>>

\* draw: the server opens a session with a nonce of its own, or the exchange
\* fails and the attempt with it; either way the request is counted.
Draw(w) ==
    /\ main = "load" /\ ~Shared /\ pc[w] = "authorize"
    /\ http' = http + 1 /\ requests' = requests + 1
    /\ \/ /\ nonces' = nonces + 1 /\ sessions' = sessions \cup {nonces + 1}
          /\ copied' = [copied EXCEPT ![w] = nonces + 1]
          /\ Goto(w, "once") /\ UNCHANGED result
       \/ Done(w, "failed") /\ UNCHANGED <<nonces, sessions, copied>>
    /\ UNCHANGED <<mode, lifetime, main, challenge, nc, answer, sent, retried, served, tokens>>

\* Variant: the session cookie comes from a jar, which holds the latest one.
AuthorizeFromJar(w) ==
    /\ pc[w] = "once"
    /\ sent' = [sent EXCEPT ![w] = Append(@, [nonce |-> copied[w], nc |-> 1, cookie |-> nonces])]
    /\ http' = http + 1
    /\ Goto(w, "consume")
    /\ UNCHANGED <<mode, lifetime, main, client, answer, copied, retried, result, server, tokens>>

\* AuthorizeOnce: the challenge just drawn, its cookie and a count of one.
AuthorizeOnce(w) ==
    /\ pc[w] = "once"
    /\ sent' = [sent EXCEPT ![w] =
                   Append(@, [nonce |-> copied[w], nc |-> 1, cookie |-> copied[w]])]
    /\ http' = http + 1
    /\ Goto(w, "consume")
    /\ UNCHANGED <<mode, lifetime, main, client, answer, copied, retried, result, server, tokens>>

\* RetryStale, on the first answer: the new challenge is stored, whatever the
\* others have stored meanwhile, and the request built and sent once more.
RetryStale(w) ==
    /\ pc[w] = "answered" /\ answer[w].status = 401 /\ answer[w].stale /\ Shared
    /\ ~retried[w]
    /\ SetChallenge(answer[w].nonce) /\ requests' = requests + 1
    /\ retried' = [retried EXCEPT ![w] = TRUE]
    /\ Goto(w, "authorize")
    /\ UNCHANGED <<mode, lifetime, main, answer, copied, sent, result, server, http, tokens>>

\* RetryStale, when the challenge is one this client cannot answer.
StaleUnanswerable(w) ==
    /\ pc[w] = "answered" /\ answer[w].status = 401 /\ answer[w].stale /\ Shared
    /\ ~retried[w]
    /\ Done(w, "failed")
    /\ UNCHANGED <<mode, lifetime, main, client, answer, copied, sent, retried, server, http, tokens>>

\* Any other response is returned as it is, a second stale one included.
Receive(w) ==
    /\ pc[w] = "answered"
    /\ \/ answer[w].status = 200 /\ Done(w, "ok")
       \/ /\ answer[w].status = 401
          /\ ~answer[w].stale \/ ~Shared \/ retried[w]
          /\ Done(w, "rejected")
    /\ UNCHANGED <<mode, lifetime, main, client, answer, copied, sent, retried, server, http, tokens>>

\* Variant: a send that failed is tried again.
LoseRetrying(w) ==
    /\ pc[w] \in {"check", "consume", "answered"}
    /\ Goto(w, "authorize")
    /\ UNCHANGED <<mode, lifetime, main, client, answer, copied, sent, retried, result, server, http, tokens>>

\* client.Do fails: the request never arrived, or its answer was lost.
Lose(w) ==
    /\ pc[w] \in {"check", "consume", "answered"}
    /\ Done(w, "failed")
    /\ UNCHANGED <<mode, lifetime, main, client, answer, copied, sent, retried, server, http, tokens>>

-----------------------------------------------------------------------------
(* The responder: one goroutine per request.                               *)

Header(w) == sent[w][Len(sent[w])]

Reply(w, status, stale, nonce) ==
    /\ answer' = [answer EXCEPT ![w] = [status |-> status, stale |-> stale, nonce |-> nonce]]
    /\ Goto(w, "answered")

\* The request is authorised and a timestamp is made for it.
Issue(w) == Reply(w, 200, FALSE, 0) /\ tokens' = [tokens EXCEPT ![w] = @ + 1]

\* authorised: the nonce must be the current one; without a lifetime that is all.
CheckNonce(w) ==
    /\ pc[w] = "check"
    /\ IF Header(w).nonce # nonces
       THEN Goto(w, "challenge") /\ UNCHANGED <<answer, tokens>>
       ELSE IF lifetime = 0 THEN Issue(w)
       ELSE Goto(w, "count") /\ UNCHANGED <<answer, tokens>>
    /\ UNCHANGED <<mode, lifetime, main, client, copied, sent, retried, result, server, http>>

\* challenge: the nonce current by now, as a stale one.
Challenge(w) ==
    /\ pc[w] = "challenge"
    /\ Reply(w, 401, TRUE, nonces)
    /\ UNCHANGED <<mode, lifetime, main, client, copied, sent, retried, result, server, http, tokens>>

\* served.Add: the request that reaches the lifetime expires the nonce.
CountServed(w) ==
    /\ pc[w] = "count"
    /\ served' = served + 1
    /\ IF served + 1 >= lifetime THEN Goto(w, "rotate") /\ UNCHANGED <<answer, tokens>> ELSE Issue(w)
    /\ UNCHANGED <<mode, lifetime, main, client, copied, sent, retried, result, nonces,
                   sessions, http>>

\* rotate: a fresh nonce, served from zero.
Rotate(w) ==
    /\ pc[w] = "rotate"
    /\ nonces' = nonces + 1 /\ served' = 0
    /\ Issue(w)
    /\ UNCHANGED <<mode, lifetime, main, client, copied, sent, retried, result, sessions, http>>

\* authorisedSingleUse: the session's own nonce, at a count of one, and once;
\* anything else opens another session.
Consume(w) ==
    /\ pc[w] = "consume"
    /\ IF Header(w).nc = 1 /\ Header(w).nonce = Header(w).cookie /\ Header(w).cookie \in sessions
       THEN /\ sessions' = sessions \ {Header(w).cookie}
            /\ Issue(w) /\ UNCHANGED nonces
       ELSE /\ nonces' = nonces + 1 /\ sessions' = sessions \cup {nonces + 1}
            /\ Reply(w, 401, FALSE, nonces + 1) /\ UNCHANGED tokens
    /\ UNCHANGED <<mode, lifetime, main, client, copied, sent, retried, result, served, http>>

-----------------------------------------------------------------------------
Client(w) ==
    \/ CopyChallenge(w) \/ ApplyDigest(w) \/ Draw(w) \/ AuthorizeOnce(w)
    \/ RetryStale(w) \/ StaleUnanswerable(w) \/ Receive(w) \/ Lose(w)

Server(w) == CheckNonce(w) \/ Challenge(w) \/ CountServed(w) \/ Rotate(w) \/ Consume(w)

\* The run never started, or every attempt is over.
Over == main = "failed" \/ \A w \in Workers : pc[w] = "done"

Next == Prime \/ (\E w \in Workers : Client(w) \/ Server(w)) \/ (Over /\ UNCHANGED vars)

Spec == Init /\ [][Next]_vars

-----------------------------------------------------------------------------
TypeOK ==
    /\ mode \in {"shared", "perRequest"} /\ lifetime \in NonceLifetimes
    /\ main \in {"prime", "load", "failed"}
    /\ challenge \in 0 .. nonces /\ nc \in Nat /\ requests \in Nat /\ http \in Nat
    /\ pc \in [Workers -> {"authorize", "apply", "once", "check", "consume", "challenge",
                           "count", "rotate", "answered", "done"}]
    /\ answer \in [Workers -> [status : {0, 200, 401}, stale : BOOLEAN, nonce : 0 .. nonces]]
    /\ copied \in [Workers -> 0 .. nonces]
    /\ \A w \in Workers : Len(sent[w]) <= 2
    /\ retried \in [Workers -> BOOLEAN]
    /\ result \in [Workers -> {"none", "ok", "rejected", "failed"}]
    /\ nonces \in Nat /\ served \in Nat /\ sessions \subseteq 1 .. nonces
    /\ tokens \in [Workers -> Nat]

\* A unit of quota buys at most one timestamp, retries and lost answers
\* included, and one that is reported as refused bought none.
OneTokenPerUnit ==
    \A w \in Workers :
        /\ tokens[w] <= 1
        /\ result[w] = "ok" => tokens[w] = 1
        /\ result[w] = "rejected" => tokens[w] = 0

\* "The difference between the run's HTTP traffic and its quota usage": the
\* requests made are those counted as authentication and one for each attempt
\* that was sent, but for the retries about to go out.
TrafficReconciles ==
    http + Cardinality({w \in Workers : retried[w] /\ Len(sent[w]) = 1})
        = requests + Cardinality({w \in Workers : sent[w] # << >>})

\* "Concurrent workers never overwrite each other's nonce": with a challenge
\* per request a single-use server refuses nobody, however the draws and the
\* requests of the workers interleave.
PerRequestNeverRefused ==
    mode = "perRequest" => \A w \in Workers : result[w] # "rejected"

\* digest.go: the count must be unique per nonce.
NonceCountUnique ==
    \A v, w \in Workers : \A j \in DOMAIN sent[v], k \in DOMAIN sent[w] :
        Shared /\ sent[v][j] = sent[w][k] => v = w /\ j = k
=============================================================================
