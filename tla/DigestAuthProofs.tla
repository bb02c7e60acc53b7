-------------------------- MODULE DigestAuthProofs --------------------------
(***************************************************************************)
(* Digest authentication for any number of concurrent attempts and every   *)
(* nonce lifetime: a unit buys one timestamp at most, the HTTP traffic     *)
(* reconciles with the quota, and a challenge per request is never refused *)
(* by a single-use server.                                                 *)
(***************************************************************************)
EXTENDS DigestAuth, FiniteSetTheorems, SequenceTheorems, TLAPS

Headers == [nonce : Nat, nc : Nat, cookie : Nat]

\* Where an attempt stands between its sends.
Before == {"authorize", "apply", "once"}
After == {"check", "consume", "challenge", "count", "rotate", "answered"}

\* An attempt is sent once, and once more if it retried.
SendsCounted(w) ==
    /\ pc[w] \in Before => Len(sent[w]) = IF retried[w] THEN 1 ELSE 0
    /\ pc[w] \in After => Len(sent[w]) = IF retried[w] THEN 2 ELSE 1
    /\ Len(sent[w]) <= 2

\* A timestamp was made for it only if it was answered with one.
TokenFollows(w) ==
    /\ pc[w] \notin {"answered", "done"} => tokens[w] = 0
    /\ pc[w] = "answered" => answer[w].status = IF tokens[w] = 1 THEN 200 ELSE 401
    /\ pc[w] # "done" => result[w] = "none"
    /\ tokens[w] \in 0 .. 1
    /\ result[w] = "ok" => tokens[w] = 1
    /\ result[w] = "rejected" => tokens[w] = 0

\* The two ways to authorise do not mix, and a challenge drawn for one attempt
\* is in nobody else's hands until it is spent.
OwnChallenge(w) ==
    /\ Shared => pc[w] \notin {"once", "consume"}
    /\ ~Shared => /\ pc[w] \in {"authorize", "once", "consume", "answered", "done"}
                  /\ ~retried[w]
                  /\ pc[w] = "answered" => answer[w].status = 200
                  /\ result[w] # "rejected"
    /\ pc[w] \in {"once", "consume"} =>
          /\ copied[w] \in sessions
          /\ \A v \in Workers : v # w /\ pc[v] \in {"once", "consume"} => copied[v] # copied[w]
    /\ pc[w] = "consume" => Header(w) = [nonce |-> copied[w], nc |-> 1, cookie |-> copied[w]]

Attempts ==
    /\ sent \in [Workers -> Seq(Headers)]
    /\ \A w \in Workers : SendsCounted(w) /\ TokenFollows(w) /\ OwnChallenge(w)

\* The inductive strengthening.
DigestInv == TypeOK /\ Attempts /\ TrafficReconciles
-----------------------------------------------------------------------------
USE DEF client, server, Goto, Done, SetChallenge, Issue, Reply

\* A step of an attempt, on either side, is that attempt's alone.
LEMMA DigestFrame ==
    ASSUME DigestInv, NEW w \in Workers, Client(w) \/ Server(w)
    PROVE  /\ UNCHANGED <<mode, lifetime, main>>
           /\ \A v \in Workers : v # w =>
                 /\ pc'[v] = pc[v] /\ answer'[v] = answer[v] /\ copied'[v] = copied[v]
                 /\ sent'[v] = sent[v] /\ retried'[v] = retried[v] /\ result'[v] = result[v]
                 /\ tokens'[v] = tokens[v]
           /\ nonces' \in {nonces, nonces + 1}
<1> USE DEF DigestInv, TypeOK, Attempts
<1>1. CASE Client(w)
  <2>1. CASE CopyChallenge(w)
    BY <2>1 DEF CopyChallenge
  <2>2. CASE ApplyDigest(w)
    BY <2>2 DEF ApplyDigest
  <2>3. CASE Draw(w)
    BY <2>3 DEF Draw
  <2>4. CASE AuthorizeOnce(w)
    BY <2>4 DEF AuthorizeOnce
  <2>5. CASE RetryStale(w)
    BY <2>5 DEF RetryStale
  <2>6. CASE StaleUnanswerable(w)
    BY <2>6 DEF StaleUnanswerable
  <2>7. CASE Receive(w)
    BY <2>7 DEF Receive
  <2>8. CASE Lose(w)
    BY <2>8 DEF Lose
  <2>9. QED
    BY <1>1, <2>1, <2>2, <2>3, <2>4, <2>5, <2>6, <2>7, <2>8 DEF Client
<1>2. CASE Server(w)
  <2>1. CASE CheckNonce(w)
    BY <2>1 DEF CheckNonce
  <2>2. CASE Challenge(w)
    BY <2>2 DEF Challenge
  <2>3. CASE CountServed(w)
    BY <2>3 DEF CountServed
  <2>4. CASE Rotate(w)
    BY <2>4 DEF Rotate
  <2>5. CASE Consume(w)
    BY <2>5 DEF Consume
  <2>6. QED
    BY <1>2, <2>1, <2>2, <2>3, <2>4, <2>5 DEF Server
<1>3. QED
  BY <1>1, <1>2

\* An attempt's sends follow its place, whatever it does next.
LEMMA SendsStep ==
    ASSUME DigestInv, NEW w \in Workers, Client(w) \/ Server(w)
    PROVE  SendsCounted(w)' /\ sent' \in [Workers -> Seq(Headers)]
<1>0. /\ sent \in [Workers -> Seq(Headers)] /\ SendsCounted(w)
      /\ pc \in [Workers -> Before \cup After \cup {"done"}]
      /\ retried \in [Workers -> BOOLEAN] /\ copied[w] \in Nat /\ nc \in Nat
  <2>1. nonces \in Nat /\ copied[w] \in 0 .. nonces
    BY DEF DigestInv, TypeOK
  <2>2. QED
    BY <2>1 DEF DigestInv, TypeOK, Attempts, Before, After
<1>1. CASE ApplyDigest(w) \/ AuthorizeOnce(w)
  <2>1. PICK h \in Headers : sent' = [sent EXCEPT ![w] = Append(sent[w], h)]
    <3>1. CASE ApplyDigest(w)
      <4>1. [nonce |-> copied[w], nc |-> nc + 1, cookie |-> 0] \in Headers
        BY <1>0 DEF Headers
      <4>2. QED
        BY <3>1, <4>1 DEF ApplyDigest
    <3>2. CASE AuthorizeOnce(w)
      <4>1. [nonce |-> copied[w], nc |-> 1, cookie |-> copied[w]] \in Headers
        BY <1>0 DEF Headers
      <4>2. QED
        BY <3>2, <4>1 DEF AuthorizeOnce
    <3>3. QED
      BY <1>1, <3>1, <3>2
  <2>2. /\ Append(sent[w], h) \in Seq(Headers)
        /\ Len(Append(sent[w], h)) = Len(sent[w]) + 1
    BY <1>0, <2>1, AppendProperties
  <2>3. /\ sent' \in [Workers -> Seq(Headers)] /\ Len(sent'[w]) = Len(sent[w]) + 1
    BY <1>0, <2>1, <2>2
  <2>4. pc[w] \in Before /\ pc'[w] \in {"check", "consume"} /\ retried' = retried
    BY <1>0, <1>1 DEF ApplyDigest, AuthorizeOnce, Before
  <2>5. Len(sent[w]) = IF retried[w] THEN 1 ELSE 0
    BY <1>0, <2>4 DEF SendsCounted
  <2>6. Len(sent'[w]) = (IF retried'[w] THEN 2 ELSE 1) /\ Len(sent'[w]) <= 2
    BY <2>3, <2>4, <2>5
  <2>7. QED
    BY <2>3, <2>4, <2>6 DEF SendsCounted, Before
<1>2. CASE RetryStale(w)
  <2>1. /\ sent' = sent /\ pc[w] = "answered" /\ pc'[w] = "authorize"
        /\ ~retried[w] /\ retried'[w] = TRUE
    BY <1>0, <1>2 DEF RetryStale
  <2>2. Len(sent[w]) = 1
    BY <1>0, <2>1 DEF SendsCounted, After
  <2>3. Len(sent'[w]) = IF retried'[w] THEN 1 ELSE 0
    BY <2>1, <2>2
  <2>4. QED
    BY <1>0, <2>1, <2>2, <2>3 DEF SendsCounted, Before, After
<1>3. CASE ~(ApplyDigest(w) \/ AuthorizeOnce(w) \/ RetryStale(w))
  <2>1. sent' = sent /\ retried' = retried
    BY <1>3 DEF Client, Server, CopyChallenge, Draw, StaleUnanswerable, Receive, Lose, CheckNonce,
         Challenge, CountServed, Rotate, Consume
  <2>2. \/ pc[w] \in Before /\ pc'[w] \in Before
        \/ pc[w] \in After /\ pc'[w] \in After
        \/ pc'[w] = "done"
    BY <1>0, <1>3 DEF Before, After, Client, Server, CopyChallenge, Draw, StaleUnanswerable, Receive,
         Lose, CheckNonce, Challenge, CountServed, Rotate, Consume
  <2>3. QED
    BY <1>0, <2>1, <2>2 DEF SendsCounted, Before, After
<1>4. QED
  BY <1>1, <1>2, <1>3

\* A timestamp is made for an attempt as it is answered, and only then.
LEMMA TokenStep ==
    ASSUME DigestInv, NEW w \in Workers, Client(w) \/ Server(w)
    PROVE  TokenFollows(w)' /\ tokens' \in [Workers -> Nat]
<1>0. /\ TokenFollows(w) /\ tokens \in [Workers -> Nat]
      /\ pc \in [Workers -> Before \cup After \cup {"done"}]
      /\ answer \in [Workers -> [status : {0, 200, 401}, stale : BOOLEAN, nonce : 0 .. nonces]]
      /\ result \in [Workers -> {"none", "ok", "rejected", "failed"}]
  BY DEF DigestInv, TypeOK, Attempts, Before, After
<1>1. CASE UNCHANGED <<tokens, answer>> /\ pc[w] # "done" /\ pc'[w] # "answered"
  <2>1. \/ pc'[w] \notin {"answered", "done"} /\ result' = result
           /\ (pc[w] = "answered" => answer[w].status = 401)
        \/ pc'[w] = "done" /\ result'[w] = "failed"
        \/ pc'[w] = "done" /\ pc[w] = "answered" /\ answer[w].status = 200 /\ result'[w] = "ok"
        \/ pc'[w] = "done" /\ pc[w] = "answered" /\ answer[w].status = 401 /\ result'[w] = "rejected"
    BY <1>0, <1>1 DEF Client, Server, CopyChallenge, ApplyDigest, Draw, AuthorizeOnce, RetryStale,
         StaleUnanswerable, Receive, Lose, CheckNonce, Challenge, CountServed, Rotate, Consume
  <2>2. QED
    BY <1>0, <1>1, <2>1 DEF TokenFollows
<1>2. CASE /\ pc[w] \notin {"answered", "done"} /\ pc'[w] = "answered" /\ result' = result
           /\ \/ tokens' = tokens /\ answer'[w].status = 401
              \/ tokens' = [tokens EXCEPT ![w] = tokens[w] + 1] /\ answer'[w].status = 200
  <2>1. tokens[w] = 0 /\ result[w] = "none"
    BY <1>0, <1>2 DEF TokenFollows
  <2>2. QED
    BY <1>0, <1>2, <2>1 DEF TokenFollows
<1>3. CASE Client(w)
  <2>1. UNCHANGED <<tokens, answer>> /\ pc[w] # "done" /\ pc'[w] # "answered"
    BY <1>0, <1>3 DEF Client, CopyChallenge, ApplyDigest, Draw, AuthorizeOnce, RetryStale,
         StaleUnanswerable, Receive, Lose
  <2>2. QED
    BY <1>1, <2>1
<1>4. CASE Server(w)
  <2>1. \/ UNCHANGED <<tokens, answer>> /\ pc[w] # "done" /\ pc'[w] # "answered"
        \/ /\ pc[w] \notin {"answered", "done"} /\ pc'[w] = "answered" /\ result' = result
           /\ \/ tokens' = tokens /\ answer'[w].status = 401
              \/ tokens' = [tokens EXCEPT ![w] = tokens[w] + 1] /\ answer'[w].status = 200
    BY <1>0, <1>4 DEF Server, CheckNonce, Challenge, CountServed, Rotate, Consume
  <2>2. QED
    BY <1>1, <1>2, <2>1
<1>5. QED
  BY <1>3, <1>4

\* A challenge drawn is fresh, held by one attempt, and good until it is spent.
LEMMA OwnStep ==
    ASSUME DigestInv, NEW w \in Workers, Client(w) \/ Server(w)
    PROVE  \A v \in Workers : OwnChallenge(v)'
<1>0. /\ \A v \in Workers : OwnChallenge(v)
      /\ \A v \in Workers : v # w =>
                 /\ pc'[v] = pc[v] /\ answer'[v] = answer[v] /\ copied'[v] = copied[v]
                 /\ sent'[v] = sent[v] /\ retried'[v] = retried[v] /\ result'[v] = result[v]
      /\ Shared' = Shared
  BY DigestFrame DEF DigestInv, Attempts, Shared
<1>T. /\ pc \in [Workers -> Before \cup After \cup {"done"}]
      /\ answer \in [Workers -> [status : {0, 200, 401}, stale : BOOLEAN, nonce : 0 .. nonces]]
      /\ result \in [Workers -> {"none", "ok", "rejected", "failed"}]
      /\ copied \in [Workers -> 0 .. nonces] /\ nonces \in Nat /\ sessions \subseteq 1 .. nonces
      /\ retried \in [Workers -> BOOLEAN] /\ sent \in [Workers -> Seq(Headers)]
  BY DEF DigestInv, TypeOK, Attempts, Before, After
<1>1. CASE Draw(w) /\ pc'[w] = "once"
  <2>1. /\ nonces + 1 \notin sessions /\ \A v \in Workers : copied[v] # nonces + 1
    BY <1>T
  <2>2. /\ sessions' = sessions \cup {nonces + 1} /\ copied'[w] = nonces + 1
        /\ ~Shared /\ retried' = retried /\ pc[w] = "authorize" /\ result' = result
    BY <1>T, <1>1 DEF Draw
  <2>3. OwnChallenge(w)'
    BY <1>0, <1>1, <2>1, <2>2 DEF OwnChallenge
  <2>4. ASSUME NEW v \in Workers, v # w PROVE OwnChallenge(v)'
    <3>1. pc[v] = "consume" => Header(v)' = Header(v)
      BY <1>0, <2>4 DEF Header
    <3>2. QED
      BY <1>0, <1>1, <2>1, <2>2, <2>4, <3>1 DEF OwnChallenge
  <2>5. QED
    BY <2>3, <2>4
<1>2. CASE AuthorizeOnce(w)
  <2>1. /\ UNCHANGED <<copied, sessions, retried, result>> /\ pc[w] = "once" /\ pc'[w] = "consume"
        /\ sent'[w] = Append(sent[w], [nonce |-> copied[w], nc |-> 1, cookie |-> copied[w]])
    BY <1>T, <1>2 DEF AuthorizeOnce
  <2>2. Header(w)' = [nonce |-> copied[w], nc |-> 1, cookie |-> copied[w]]
    <3> DEFINE h == [nonce |-> copied[w], nc |-> 1, cookie |-> copied[w]]
    <3>1. h \in Headers /\ sent[w] \in Seq(Headers)
      BY <1>T DEF Headers
    <3> HIDE DEF h
    <3>2. /\ Len(Append(sent[w], h)) = Len(sent[w]) + 1
          /\ Append(sent[w], h)[Len(sent[w]) + 1] = h
      BY <3>1, AppendProperties
    <3>3. QED
      BY <2>1, <3>2 DEF Header, h
  <2>3. OwnChallenge(w)'
    BY <1>0, <2>1, <2>2 DEF OwnChallenge
  <2>4. ASSUME NEW v \in Workers, v # w PROVE OwnChallenge(v)'
    <3>1. pc[v] = "consume" => Header(v)' = Header(v)
      BY <1>0, <2>4 DEF Header
    <3>2. QED
      BY <1>0, <2>1, <2>4, <3>1 DEF OwnChallenge
  <2>5. QED
    BY <2>3, <2>4
<1>3. CASE Consume(w)
  <2>1. /\ pc[w] = "consume" /\ ~Shared /\ copied[w] \in sessions
        /\ Header(w) = [nonce |-> copied[w], nc |-> 1, cookie |-> copied[w]]
    BY <1>0, <1>3 DEF OwnChallenge, Consume
  <2>2. /\ sessions' = sessions \ {copied[w]} /\ pc'[w] = "answered" /\ answer'[w].status = 200
        /\ UNCHANGED <<copied, retried, result>>
    BY <1>T, <1>3, <2>1 DEF Consume
  <2>3. OwnChallenge(w)'
    BY <1>0, <2>1, <2>2 DEF OwnChallenge
  <2>4. ASSUME NEW v \in Workers, v # w PROVE OwnChallenge(v)'
    <3>1. pc[v] = "consume" => Header(v)' = Header(v)
      BY <1>0, <2>4 DEF Header
    <3>2. QED
      BY <1>0, <2>1, <2>2, <2>4, <3>1 DEF OwnChallenge
  <2>5. QED
    BY <2>3, <2>4
<1>4. CASE ~(AuthorizeOnce(w) \/ Consume(w)) /\ ~(Draw(w) /\ pc'[w] = "once")
  <2>1. UNCHANGED sessions /\ pc'[w] \notin {"once", "consume"}
    BY <1>T, <1>4 DEF Client, Server, CopyChallenge, ApplyDigest, Draw, RetryStale,
         StaleUnanswerable, Receive, Lose, CheckNonce, Challenge, CountServed, Rotate
  <2>2. ~Shared => /\ pc'[w] \in {"authorize", "once", "consume", "answered", "done"}
                   /\ ~retried'[w]
                   /\ pc'[w] = "answered" => answer'[w].status = 200
                   /\ result'[w] # "rejected"
    <3> SUFFICES ASSUME ~Shared PROVE /\ pc'[w] = "done" /\ ~retried'[w]
                                      /\ result'[w] # "rejected"
      OBVIOUS
    <3>1. /\ pc[w] \in {"authorize", "once", "consume", "answered", "done"} /\ ~retried[w]
          /\ pc[w] = "answered" => answer[w].status = 200
      BY <1>0 DEF OwnChallenge
    <3>2. Draw(w) \/ Receive(w) \/ Lose(w)
      BY <1>4, <3>1 DEF Client, Server, CopyChallenge, ApplyDigest, RetryStale, StaleUnanswerable,
           CheckNonce, Challenge, CountServed, Rotate
    <3>3. retried' = retried
      BY <3>2 DEF Draw, Receive, Lose
    <3>4. CASE Draw(w)
      BY <1>T, <1>4, <3>1, <3>3, <3>4 DEF Draw
    <3>5. CASE Receive(w)
      BY <1>T, <3>1, <3>3, <3>5 DEF Receive
    <3>6. CASE Lose(w)
      BY <1>T, <3>1, <3>3, <3>6 DEF Lose
    <3>7. QED
      BY <3>2, <3>4, <3>5, <3>6
  <2>3. OwnChallenge(w)'
    BY <1>0, <2>1, <2>2 DEF OwnChallenge
  <2>4. ASSUME NEW v \in Workers, v # w PROVE OwnChallenge(v)'
    <3>1. pc[v] = "consume" => Header(v)' = Header(v)
      BY <1>0, <2>4 DEF Header
    <3>2. QED
      BY <1>0, <2>1, <2>4, <3>1 DEF OwnChallenge
  <2>5. QED
    BY <2>3, <2>4
<1>5. QED
  BY <1>1, <1>2, <1>3, <1>4

\* The attempts that have been sent, and the retries about to go out.
Sent == {w \in Workers : sent[w] # << >>}
Due == {w \in Workers : retried[w] /\ Len(sent[w]) = 1}

\* Every HTTP request is counted by one side of the account or the other.
LEMMA TrafficStep ==
    ASSUME DigestInv, NEW w \in Workers, Client(w) \/ Server(w)
    PROVE  TrafficReconciles' /\ http' \in Nat /\ requests' \in Nat
<1>0. /\ http \in Nat /\ requests \in Nat
      /\ sent \in [Workers -> Seq(Headers)] /\ retried \in [Workers -> BOOLEAN]
      /\ pc \in [Workers -> Before \cup After \cup {"done"}] /\ SendsCounted(w)
      /\ http + Cardinality(Due) = requests + Cardinality(Sent)
  BY DEF DigestInv, TypeOK, Attempts, Before, After, TrafficReconciles, Sent, Due
<1>F. /\ IsFiniteSet(Sent) /\ IsFiniteSet(Due)
      /\ Cardinality(Sent) \in Nat /\ Cardinality(Due) \in Nat
  <2>1. Sent \in SUBSET Workers /\ Due \in SUBSET Workers
    BY DEF Sent, Due
  <2>2. IsFiniteSet(Sent) /\ IsFiniteSet(Due)
    BY <2>1, DigestAssumption, FS_Subset
  <2>3. QED
    BY <2>2, FS_CardinalityType
<1>Q. ASSUME http' + Cardinality(Due') = requests' + Cardinality(Sent')
      PROVE  TrafficReconciles'
  BY <1>Q DEF TrafficReconciles, Sent, Due
<1>1. CASE ApplyDigest(w) \/ AuthorizeOnce(w)
  <2>1. /\ sent' \in [Workers -> Seq(Headers)] /\ SendsCounted(w)'
        /\ \A v \in Workers : v # w => sent'[v] = sent[v] /\ retried'[v] = retried[v]
    BY SendsStep, DigestFrame
  <2>2. /\ http' = http + 1 /\ requests' = requests /\ retried' = retried
        /\ pc[w] \in Before /\ pc'[w] \in After
    BY <1>0, <1>1 DEF ApplyDigest, AuthorizeOnce, Before, After
  <2>3. CASE retried[w]
    <3>1. Len(sent[w]) = 1 /\ Len(sent'[w]) = 2
      BY <1>0, <2>1, <2>2, <2>3 DEF SendsCounted
    <3>2. sent[w] # << >> /\ sent'[w] # << >>
      BY <3>1
    <3>3. Sent' = Sent
      BY <2>1, <3>2 DEF Sent
    <3>4. Due' = Due \ {w} /\ w \in Due
      <4>1. Len(sent'[w]) # 1
        BY <3>1
      <4>2. \A v \in Workers : v \in Due' <=> v \in Due /\ v # w
        BY <2>1, <4>1 DEF Due
      <4>3. w \in Due
        BY <2>3, <3>1 DEF Due
      <4>4. QED
        BY <4>2, <4>3 DEF Due
    <3>5. Cardinality(Due') = Cardinality(Due) - 1
      BY <1>F, <3>4, FS_RemoveElement
    <3>6. http' + Cardinality(Due') = requests' + Cardinality(Sent')
      BY <1>0, <1>F, <2>2, <3>3, <3>5
    <3>7. QED
      BY <1>0, <1>Q, <2>2, <3>6
  <2>4. CASE ~retried[w]
    <3>1. Len(sent[w]) = 0 /\ Len(sent'[w]) = 1
      BY <1>0, <2>1, <2>2, <2>4 DEF SendsCounted
    <3>2. sent[w] = << >> /\ sent'[w] # << >>
      <4>1. sent[w] \in Seq(Headers)
        BY <1>0
      <4>2. QED
        BY <3>1, <4>1, EmptySeq
    <3>3. Due' = Due
      BY <2>1, <2>2, <2>4 DEF Due
    <3>4. Sent' = Sent \cup {w} /\ w \notin Sent
      BY <2>1, <3>2 DEF Sent
    <3>5. Cardinality(Sent') = Cardinality(Sent) + 1 /\ Cardinality(Due') = Cardinality(Due)
      BY <1>F, <3>3, <3>4, FS_AddElement
    <3>6. http' + Cardinality(Due') = requests' + Cardinality(Sent')
      <4>1. http' = http + 1 /\ requests' = requests
        BY <2>2
      <4>2. /\ http \in Nat /\ requests \in Nat /\ Cardinality(Sent) \in Nat /\ Cardinality(Due) \in Nat
            /\ http + Cardinality(Due) = requests + Cardinality(Sent)
        BY <1>0, <1>F
      <4>3. QED
        BY <3>5, <4>1, <4>2
    <3>7. QED
      BY <1>0, <1>Q, <2>2, <3>6
  <2>5. QED
    BY <2>3, <2>4
<1>2. CASE RetryStale(w)
  <2>1. /\ sent' = sent /\ http' = http /\ requests' = requests + 1
        /\ retried' = [retried EXCEPT ![w] = TRUE] /\ ~retried[w] /\ pc[w] \in After
    BY <1>2 DEF RetryStale, After
  <2>2. Len(sent[w]) = 1
    BY <1>0, <2>1 DEF SendsCounted
  <2>3. Sent' = Sent /\ Due' = Due \cup {w} /\ w \notin Due
    BY <1>0, <2>1, <2>2 DEF Sent, Due
  <2>4. Cardinality(Due') = Cardinality(Due) + 1
    BY <1>F, <2>3, FS_AddElement
  <2>5. QED
    BY <1>0, <1>F, <1>Q, <2>1, <2>3, <2>4
<1>3. CASE ~(ApplyDigest(w) \/ AuthorizeOnce(w) \/ RetryStale(w))
  <2>1. /\ UNCHANGED <<sent, retried>>
        /\ \/ UNCHANGED <<http, requests>>
           \/ http' = http + 1 /\ requests' = requests + 1
    BY <1>3 DEF Client, Server, CopyChallenge, Draw, StaleUnanswerable, Receive, Lose, CheckNonce,
         Challenge, CountServed, Rotate, Consume
  <2>2. Sent' = Sent /\ Due' = Due
    BY <2>1 DEF Sent, Due
  <2>3. QED
    BY <1>0, <1>F, <1>Q, <2>1, <2>2
<1>4. QED
  BY <1>1, <1>2, <1>3

\* The sides of the protocol keep their types as the nonces grow.
LEMMA DigestTypes ==
    ASSUME DigestInv, NEW w \in Workers, Client(w) \/ Server(w)
    PROVE  TypeOK'
<1> DEFINE Labels == {"authorize", "apply", "once", "check", "consume", "challenge",
                      "count", "rotate", "answered", "done"}
           Answers(n) == [status : {0, 200, 401}, stale : BOOLEAN, nonce : 0 .. n]
<1>0. TypeOK
  BY DEF DigestInv
<1>1. /\ mode' \in {"shared", "perRequest"} /\ lifetime' \in NonceLifetimes
      /\ main' \in {"prime", "load", "failed"} /\ nonces' \in Nat
      /\ 0 .. nonces \subseteq 0 .. nonces' /\ 1 .. nonces \subseteq 1 .. nonces'
  BY <1>0, DigestFrame DEF TypeOK
<1>2. http' \in Nat /\ requests' \in Nat /\ tokens' \in [Workers -> Nat]
  BY TrafficStep, TokenStep
<1>3. \A v \in Workers : Len(sent'[v]) <= 2
  BY SendsStep, DigestFrame DEF DigestInv, Attempts, SendsCounted
<1>4. pc' \in [Workers -> Labels] /\ retried' \in [Workers -> BOOLEAN]
  <2>1. pc \in [Workers -> Labels] /\ retried \in [Workers -> BOOLEAN]
    BY <1>0 DEF TypeOK
  <2>2. retried' = retried \/ retried' = [retried EXCEPT ![w] = TRUE]
    BY DEF Client, Server, CopyChallenge, ApplyDigest, Draw, AuthorizeOnce, RetryStale,
       StaleUnanswerable, Receive, Lose, CheckNonce, Challenge, CountServed, Rotate, Consume
  <2>3. \E l \in Labels : pc' = [pc EXCEPT ![w] = l]
    BY DEF Client, Server, CopyChallenge, ApplyDigest, Draw, AuthorizeOnce, RetryStale,
       StaleUnanswerable, Receive, Lose, CheckNonce, Challenge, CountServed, Rotate, Consume
  <2> HIDE DEF Labels
  <2>4. QED
    BY <2>1, <2>2, <2>3
<1>5. result' \in [Workers -> {"none", "ok", "rejected", "failed"}]
  <2>1. \/ result' = result
        \/ \E how \in {"ok", "rejected", "failed"} : result' = [result EXCEPT ![w] = how]
    BY DEF Client, Server, CopyChallenge, ApplyDigest, Draw, AuthorizeOnce, RetryStale,
       StaleUnanswerable, Receive, Lose, CheckNonce, Challenge, CountServed, Rotate, Consume
  <2>2. result \in [Workers -> {"none", "ok", "rejected", "failed"}]
    BY <1>0 DEF TypeOK
  <2>3. QED
    BY <2>1, <2>2
<1>6. nc' \in Nat /\ served' \in Nat
  <2>1. nc' \in {0, nc, nc + 1} /\ served' \in {0, served, served + 1}
    BY DEF Client, Server, CopyChallenge, ApplyDigest, Draw, AuthorizeOnce, RetryStale,
       StaleUnanswerable, Receive, Lose, CheckNonce, Challenge, CountServed, Rotate, Consume
  <2>2. nc \in Nat /\ served \in Nat
    BY <1>0 DEF TypeOK
  <2>3. QED
    BY <2>1, <2>2
<1>7. challenge' \in 0 .. nonces'
  <2>1. challenge' = challenge \/ challenge' = answer[w].nonce
    BY DEF Client, Server, CopyChallenge, ApplyDigest, Draw, AuthorizeOnce, RetryStale,
       StaleUnanswerable, Receive, Lose, CheckNonce, Challenge, CountServed, Rotate, Consume
  <2>2. challenge \in 0 .. nonces /\ answer[w].nonce \in 0 .. nonces
    BY <1>0 DEF TypeOK
  <2>3. QED
    BY <1>1, <2>1, <2>2
<1>8. copied' \in [Workers -> 0 .. nonces']
  <2>1. copied \in [Workers -> 0 .. nonces'] /\ challenge \in 0 .. nonces'
    <3>1. copied \in [Workers -> 0 .. nonces] /\ challenge \in 0 .. nonces
      BY <1>0 DEF TypeOK
    <3>2. 0 .. nonces \subseteq 0 .. nonces'
      BY <1>1
    <3>3. QED
      BY <3>1, <3>2, Zenon
  <2>2. \/ copied' = copied
        \/ copied' = [copied EXCEPT ![w] = challenge]
        \/ copied' = [copied EXCEPT ![w] = nonces + 1] /\ nonces' = nonces + 1
    BY DEF Client, Server, CopyChallenge, ApplyDigest, Draw, AuthorizeOnce, RetryStale,
       StaleUnanswerable, Receive, Lose, CheckNonce, Challenge, CountServed, Rotate, Consume
  <2>3. QED
    BY <1>1, <2>1, <2>2
<1>9. answer' \in [Workers -> Answers(nonces')]
  <2>1. answer \in [Workers -> Answers(nonces')]
    <3>1. answer \in [Workers -> Answers(nonces)]
      BY <1>0 DEF TypeOK
    <3>2. Answers(nonces) \subseteq Answers(nonces')
      BY <1>1
    <3> HIDE DEF Answers
    <3>3. QED
      BY <3>1, <3>2
  <2>2. \/ answer' = answer
        \/ answer' = [answer EXCEPT ![w] = [status |-> 200, stale |-> FALSE, nonce |-> 0]]
        \/ answer' = [answer EXCEPT ![w] = [status |-> 401, stale |-> TRUE, nonce |-> nonces]]
        \/ answer' = [answer EXCEPT ![w] = [status |-> 401, stale |-> FALSE, nonce |-> nonces']]
    BY DEF Client, Server, CopyChallenge, ApplyDigest, Draw, AuthorizeOnce, RetryStale,
       StaleUnanswerable, Receive, Lose, CheckNonce, Challenge, CountServed, Rotate, Consume
  <2>3. nonces \in 0 .. nonces' /\ 0 \in 0 .. nonces' /\ nonces' \in 0 .. nonces'
    <3>1. nonces \in Nat
      BY <1>0 DEF TypeOK
    <3>2. nonces' \in {nonces, nonces + 1}
      BY DigestFrame
    <3>3. QED
      BY <3>1, <3>2
  <2>4. /\ [status |-> 200, stale |-> FALSE, nonce |-> 0] \in Answers(nonces')
        /\ [status |-> 401, stale |-> TRUE, nonce |-> nonces] \in Answers(nonces')
        /\ [status |-> 401, stale |-> FALSE, nonce |-> nonces'] \in Answers(nonces')
    BY <2>3
  <2> HIDE DEF Answers
  <2>5. \E a \in Answers(nonces') : answer' = answer \/ answer' = [answer EXCEPT ![w] = a]
    BY <2>2, <2>4
  <2>6. QED
    BY <2>1, <2>5
<1>10. sessions' \subseteq 1 .. nonces'
  <2>1. sessions \subseteq 1 .. nonces'
    BY <1>0, <1>1 DEF TypeOK
  <2>2. \/ sessions' \subseteq sessions
        \/ sessions' = sessions \cup {nonces + 1} /\ nonces' = nonces + 1
    BY DEF Client, Server, CopyChallenge, ApplyDigest, Draw, AuthorizeOnce, RetryStale,
       StaleUnanswerable, Receive, Lose, CheckNonce, Challenge, CountServed, Rotate, Consume
  <2>3. nonces \in Nat
    BY <1>0 DEF TypeOK
  <2>4. nonces' = nonces + 1 => nonces + 1 \in 1 .. nonces'
    BY <2>3
  <2>5. QED
    BY <2>1, <2>2, <2>4
<1>11. QED
  BY <1>1, <1>2, <1>3, <1>4, <1>5, <1>6, <1>7, <1>8, <1>9, <1>10 DEF TypeOK

\* The challenge fetched before the load is traffic the account already holds.
LEMMA PrimeStep ==
    ASSUME DigestInv, Prime
    PROVE  DigestInv'
<1>0. /\ UNCHANGED <<mode, lifetime, pc, answer, copied, sent, retried, result, server, tokens>>
      /\ http' = http + 1 /\ requests' = requests + 1
  BY DEF Prime
<1>1. TypeOK'
  BY <1>0 DEF DigestInv, TypeOK, Prime
<1>2. Attempts'
  BY <1>0 DEF DigestInv, Attempts, SendsCounted, TokenFollows, OwnChallenge, Header, Shared
<1>3. TrafficReconciles'
  <2>1. Sent' = Sent /\ Due' = Due
    BY <1>0 DEF Sent, Due
  <2>2. /\ IsFiniteSet(Sent) /\ IsFiniteSet(Due)
        /\ http + Cardinality(Due) = requests + Cardinality(Sent)
    BY DigestAssumption, FS_Subset DEF Sent, Due, DigestInv, TrafficReconciles
  <2>3. Cardinality(Sent) \in Nat /\ Cardinality(Due) \in Nat /\ http \in Nat /\ requests \in Nat
    BY <2>2, FS_CardinalityType DEF DigestInv, TypeOK
  <2>4. http' + Cardinality(Due') = requests' + Cardinality(Sent')
    BY <1>0, <2>1, <2>2, <2>3
  <2>5. QED
    BY <2>4 DEF TrafficReconciles, Sent, Due
<1>4. QED
  BY <1>1, <1>2, <1>3 DEF DigestInv

\* A step of one attempt keeps what is known of them all.
LEMMA AttemptStep ==
    ASSUME DigestInv, NEW w \in Workers, Client(w) \/ Server(w)
    PROVE  DigestInv'
<1>1. \A v \in Workers : OwnChallenge(v)'
  BY OwnStep
<1>2. SendsCounted(w)' /\ TokenFollows(w)' /\ sent' \in [Workers -> Seq(Headers)]
  BY SendsStep, TokenStep
<1>3. ASSUME NEW v \in Workers, v # w PROVE SendsCounted(v)' /\ TokenFollows(v)'
  <2>1. /\ pc'[v] = pc[v] /\ answer'[v] = answer[v] /\ sent'[v] = sent[v]
        /\ retried'[v] = retried[v] /\ result'[v] = result[v] /\ tokens'[v] = tokens[v]
    BY <1>3, DigestFrame
  <2>2. SendsCounted(v) /\ TokenFollows(v)
    BY DEF DigestInv, Attempts
  <2>3. QED
    BY <2>1, <2>2 DEF SendsCounted, TokenFollows
<1>4. Attempts'
  BY <1>1, <1>2, <1>3 DEF Attempts
<1>5. QED
  BY <1>4, DigestTypes, TrafficStep DEF DigestInv

\* Nothing is sent and nothing counted when the run begins.
LEMMA DigestInit == Init => DigestInv
<1> SUFFICES ASSUME Init PROVE DigestInv
  OBVIOUS
<1> USE DEF Init
<1>1. TypeOK
  BY DEF TypeOK, Shared
<1>2. Attempts
  <2>1. << >> \in Seq(Headers) /\ Len(<< >>) = 0
    OBVIOUS
  <2>2. sent \in [Workers -> Seq(Headers)]
    BY <2>1
  <2>3. \A w \in Workers : SendsCounted(w) /\ TokenFollows(w) /\ OwnChallenge(w)
    BY DEF SendsCounted, TokenFollows, OwnChallenge, Before, After
  <2>4. QED
    BY <2>2, <2>3 DEF Attempts
<1>3. TrafficReconciles
  <2>1. Sent = {} /\ Due = {}
    BY DEF Sent, Due
  <2>2. http + Cardinality(Due) = requests + Cardinality(Sent)
    BY <2>1, FS_EmptySet
  <2>3. QED
    BY <2>2 DEF TrafficReconciles, Sent, Due
<1>4. QED
  BY <1>1, <1>2, <1>3 DEF DigestInv

-----------------------------------------------------------------------------
\* The strengthening holds in every reachable state.
THEOREM DigestInvariant == Spec => []DigestInv
<1>1. DigestInv /\ [Next]_vars => DigestInv'
  <2> SUFFICES ASSUME DigestInv, [Next]_vars PROVE DigestInv'
    OBVIOUS
  <2>1. CASE Prime
    BY <2>1, PrimeStep
  <2>2. CASE \E w \in Workers : Client(w) \/ Server(w)
    BY <2>2, AttemptStep
  <2>3. CASE UNCHANGED vars
    BY <2>3 DEF vars, DigestInv, TypeOK, Attempts, SendsCounted, TokenFollows, OwnChallenge, Header,
         Shared, TrafficReconciles
  <2>4. QED
    BY <2>1, <2>2, <2>3 DEF Next
<1>2. QED
  BY DigestInit, <1>1, PTL DEF Spec

\* Both sides of the protocol keep their types.
THEOREM DigestTypeOK == Spec => []TypeOK
<1>1. DigestInv => TypeOK
  BY DEF DigestInv
<1>2. QED
  BY <1>1, DigestInvariant, PTL

\* However the workers' stale retries, lost answers and nonce rotations
\* interleave, PostTimestamp buys at most one timestamp for its unit, has one
\* whenever it reports success, and none when it reports a refusal.
THEOREM DigestOneToken == Spec => []OneTokenPerUnit
<1>1. DigestInv => OneTokenPerUnit
  BY DEF DigestInv, Attempts, TokenFollows, OneTokenPerUnit
<1>2. QED
  BY <1>1, DigestInvariant, PTL

\* Authenticator.Requests is the whole difference between the HTTP requests
\* made and the attempts sent, in every state of a run and not only at its end.
THEOREM DigestTraffic == Spec => []TrafficReconciles
<1>1. DigestInv => TrafficReconciles
  BY DEF DigestInv
<1>2. QED
  BY <1>1, DigestInvariant, PTL

\* With a challenge drawn for each request, no number of concurrent workers
\* makes a single-use server refuse one of them.
THEOREM DigestPerRequest == Spec => []PerRequestNeverRefused
<1>1. DigestInv => PerRequestNeverRefused
  BY DEF DigestInv, Attempts, OwnChallenge, PerRequestNeverRefused, Shared
<1>2. QED
  BY <1>1, DigestInvariant, PTL
=============================================================================
