------------------------------- MODULE Attempt --------------------------------
(***************************************************************************)
(* One attempt (Runner.perform, attempt and send in internal/load/         *)
(* runner.go, PostTimestamp and draw in internal/transport): build, send,  *)
(* read, verify, file.  The Runner module takes an attempt as one answer;  *)
(* here it is opened up to show which class it is filed under.             *)
(*                                                                         *)
(* An exchange is dialled, written and awaited.  WroteRequest, called by   *)
(* net/http's writer when a request is written or its write has failed,    *)
(* sets one flag for the whole attempt; the same trace is on the request   *)
(* that draws a challenge and on the retry of a stale one.                 *)
(***************************************************************************)
EXTENDS Verifier

CONSTANTS
    Verifiers,  \* settings [maxClockSkew, requireESS] of the verifier
    Responses   \* answers to a timestamp request

ASSUME AttemptAssumption ==
    /\ \A v \in Verifiers : v.maxClockSkew \in Nat \ {0} /\ v.requireESS \in BOOLEAN
    /\ Responses \subseteq ResponseFacts

VARIABLES
    mode, verifier,  \* how requests are authorised, and the Verifier
    pc,              \* "build", "draw", "post", "body", "verify", "file", "filed"
    conn,            \* the exchange in flight: "dial", "write" or "wait"
    wroteRequest,    \* the flag the trace sets
    retried,         \* the stale challenge was answered
    resp,            \* the response, once there is one
    a,               \* the attempt: class, sub, warnings, skew and HTTP status
    fed,             \* the breaker was told of it
    reqCancelled,    \* the run cancelled its requests
    posted,          \* history: the last timestamp request was written
    everPosted,      \* history: some timestamp request was written
    err              \* history: the transport error the attempt ended on

vars == <<mode, verifier, pc, conn, wroteRequest, retried, resp, a, fed, reqCancelled,
          posted, everPosted, err>>

NoResponse == [http |-> 0]

Init ==
    /\ mode \in {"plain", "shared", "perRequest"} /\ verifier \in Verifiers
    /\ pc = "build" /\ conn = "dial" /\ wroteRequest = FALSE /\ retried = FALSE
    /\ resp = NoResponse
    /\ a = [class |-> "none", sub |-> << >>, warnings |-> {}, skew |-> 0, http |-> 0]
    /\ fed = FALSE /\ reqCancelled = FALSE /\ posted = FALSE /\ everPosted = FALSE /\ err = {}

\* The attempt ends with this class before it is verified.
EndWith(class, status) ==
    /\ a' = [a EXCEPT !.class = class, !.http = status]
    /\ pc' = "file"
    /\ UNCHANGED <<mode, verifier, conn, retried, resp, fed, reqCancelled, posted, everPosted>>

\* A request is about to be dialled.
Open(label) == pc' = label /\ conn' = "dial" /\ posted' = FALSE

-----------------------------------------------------------------------------
\* Builder.Build fails, or the first exchange begins: the draw of a challenge
\* in per-request mode, else the timestamp request.
Build ==
    /\ pc = "build"
    /\ \/ EndWith("unknown_error", 0) /\ UNCHANGED <<wroteRequest, err>>
       \/ /\ Open(IF mode = "perRequest" THEN "draw" ELSE "post")
          /\ UNCHANGED <<mode, verifier, wroteRequest, retried, resp, a, fed, reqCancelled,
                         everPosted, err>>

Dial ==
    /\ pc \in {"draw", "post"} /\ conn = "dial"
    /\ conn' = "write"
    /\ UNCHANGED <<mode, verifier, pc, wroteRequest, retried, resp, a, fed, reqCancelled,
                   posted, everPosted, err>>

\* Variant: the trace is installed only where connections are counted.
WriteUntraced ==
    /\ pc \in {"draw", "post"} /\ conn = "write"
    /\ conn' = "wait"
    /\ posted' = (pc = "post") /\ everPosted' = (everPosted \/ pc = "post")
    /\ UNCHANGED <<mode, verifier, pc, wroteRequest, retried, resp, a, fed, reqCancelled, err>>

\* The request is written, and the trace says so.
Write ==
    /\ pc \in {"draw", "post"} /\ conn = "write"
    /\ conn' = "wait" /\ wroteRequest' = TRUE
    /\ posted' = (pc = "post") /\ everPosted' = (everPosted \/ pc = "post")
    /\ UNCHANGED <<mode, verifier, pc, retried, resp, a, fed, reqCancelled, err>>

\* What client.Do may return, by how far the exchange got; always a url.Error.
TransportErrors ==
    CASE conn = "dial"  -> {{"url", "op", "dns"}, {"url", "op", "dns", "timeout"}, {"url", "tls"},
                            {"url", "op"}, {"url", "op", "timeout"}}
      [] conn = "write" -> {{"url", "op"}}
      [] conn = "wait"  -> {{"url"}, {"url", "op"}}

\* The exchange fails with error e.  A write that fails has called WroteRequest
\* too; one that is abandoned may not have, yet.
FailWith(e) ==
    /\ pc \in {"draw", "post"}
    /\ \E w \in {wroteRequest} \cup (IF conn = "write" THEN {TRUE} ELSE {}) :
          wroteRequest' = w /\ EndWith(Classify(e, w), 0)
    /\ err' = e

Fail == \E e \in TransportErrors : FailWith(e)

\* What reading the body may return.
FailBodyWith(e) ==
    /\ pc = "body"
    /\ EndWith(Classify(e, TRUE), resp.http)
    /\ err' = e /\ UNCHANGED wroteRequest

FailBody == FailBodyWith({"unexpectedEOF"}) \/ FailBodyWith({"op"})

\* Variant: the attempt runs without a deadline of its own.
NoDeadline == FALSE /\ UNCHANGED vars

\* request.timeout elapses.
Deadline == FailWith({"url", "timeout"}) \/ FailBodyWith({"timeout"})

\* The run cancelled its requests.
Cancelled == reqCancelled /\ (FailWith({"url", "cancelled"}) \/ FailBodyWith({"cancelled"}))

\* The challenge is drawn and answered, or it cannot be answered (an AuthError),
\* or the response was no challenge.
DrawAnswered ==
    /\ pc = "draw" /\ conn = "wait"
    /\ \/ /\ Open("post")
          /\ UNCHANGED <<mode, verifier, wroteRequest, retried, resp, a, fed, reqCancelled,
                         everPosted, err>>
       \/ EndWith("http_4xx", 0) /\ UNCHANGED <<wroteRequest, err>>
       \/ EndWith(Classify({"other"}, wroteRequest), 0) /\ UNCHANGED <<wroteRequest, err>>

\* A stale challenge is answered once, in shared mode, or it cannot be.
StaleAnswered ==
    /\ pc = "post" /\ conn = "wait" /\ mode = "shared" /\ ~retried
    /\ \/ /\ Open("post") /\ retried' = TRUE
          /\ UNCHANGED <<mode, verifier, wroteRequest, resp, a, fed, reqCancelled, everPosted, err>>
       \/ EndWith("http_4xx", 0) /\ UNCHANGED <<wroteRequest, err>>

\* Any other response is taken as it is.
Answered ==
    /\ pc = "post" /\ conn = "wait"
    /\ resp' \in Responses
    /\ pc' = "body"
    /\ UNCHANGED <<mode, verifier, conn, wroteRequest, retried, a, fed, reqCancelled, posted,
                   everPosted, err>>

\* ReadAll under MaxResponseBytes: what is cut off does not decode.
ReadBody ==
    /\ pc = "body"
    /\ resp' = IF resp.oversized THEN [resp EXCEPT !.pki = "unreadable"] ELSE resp
    /\ pc' = "verify"
    /\ UNCHANGED <<mode, verifier, conn, wroteRequest, retried, a, fed, reqCancelled, posted,
                   everPosted, err>>

VerifyResponse ==
    /\ pc = "verify"
    /\ \E p7err \in VerifyWithOpts(resp) :
          LET v == Verify(verifier, resp, p7err)
          IN a' = [class |-> v.class, sub |-> v.sub, warnings |-> v.warnings, skew |-> v.skew,
                   http |-> resp.http]
    /\ pc' = "file"
    /\ UNCHANGED <<mode, verifier, conn, wroteRequest, retried, resp, fed, reqCancelled, posted,
                   everPosted, err>>

SelfInflicted == a.class # "ok" /\ ~CountsAgainstProvider(a.class)

\* perform files the attempt; the breaker is told unless we caused the failure.
File ==
    /\ pc = "file"
    /\ fed' = ~SelfInflicted
    /\ pc' = "filed"
    /\ UNCHANGED <<mode, verifier, conn, wroteRequest, retried, resp, a, reqCancelled, posted,
                   everPosted, err>>

\* The drain of the run gives up on its requests.
CancelRequests ==
    /\ ~reqCancelled /\ pc \notin {"file", "filed"}
    /\ reqCancelled' = TRUE
    /\ UNCHANGED <<mode, verifier, pc, conn, wroteRequest, retried, resp, a, fed, posted,
                   everPosted, err>>

\* What the process does by itself, its deadline included.
Process == Build \/ Deadline \/ VerifyResponse \/ File

Next ==
    \/ Build \/ Dial \/ Write \/ Fail \/ FailBody \/ Deadline \/ Cancelled
    \/ DrawAnswered \/ StaleAnswered \/ Answered \/ ReadBody \/ VerifyResponse \/ File
    \/ CancelRequests
    \/ (pc = "filed" /\ UNCHANGED vars)

\* Nothing is asked of the network or the server.
Fairness == WF_vars(Process)

Spec == Init /\ [][Next]_vars /\ Fairness

-----------------------------------------------------------------------------
Classes == {"ok", "dns_error", "connect_error", "tls_error", "request_timeout",
            "response_timeout", "http_4xx", "http_5xx", "invalid_content_type",
            "tsp_rejection", "invalid_nonce", "invalid_imprint", "invalid_signature",
            "untrusted_certificate", "malformed_response", "clock_skew_exceeded",
            "cancelled", "unknown_error"}

\* The type invariant: an attempt that is filed has one of the classes, and one
\* that was never answered has no HTTP status.
TypeOK ==
    /\ pc \in {"build", "draw", "post", "body", "verify", "file", "filed"}
    /\ conn \in {"dial", "write", "wait"}
    /\ a.class \in IF pc \in {"file", "filed"} THEN Classes ELSE {"none"}
    /\ a.http \in {0, resp.http}
    /\ a.sub \in SubCategories /\ a.warnings \subseteq Leniencies /\ a.skew \in Nat
    /\ \A b \in {wroteRequest, retried, fed, reqCancelled, posted, everPosted} : b \in BOOLEAN

\* A response reached Verify and the attempt is over.
Verified == pc = "filed" /\ resp # NoResponse /\ err = {}

\* The ESS attribute that decides, by presence: V2, or V1 where there is no V2.
Deciding(r) == IF r.v2 # <<"absent">> THEN r.v2 ELSE r.v1

\* README step 7, "the ESS attribute - when present - binds the actual signer":
\* it names the signer, nothing before that being undecodable.  One that cannot
\* be read binds nobody.  Where there is none, the verifier's setting decides.
Bound(r) ==
    LET attr == Deciding(r)
    IN IF attr = <<"absent">> THEN ~verifier.requireESS
       ELSE \E k \in DOMAIN attr : attr[k] = "signer"
                                   /\ "undecodable" \notin {attr[j] : j \in 1 .. k}

\* README, "Verification chain": its nine steps in their order, the presence
\* of the certificate (in its step 7) as one of its own.
ReadmeSteps(r) ==
    <<r.http >= 200 /\ r.http < 300,
      r.ctype \notin {"none", "unparsable", "other"},
      r.pki = "granted" \/ r.pki = "grantedWithMods",
      r.token /\ r.parse = "ok" /\ r.time.tag = "GeneralizedTime" /\ r.time.zone # "none",
      r.nonce = "echoed",
      r.imprint = "echoed",
      r.certs,
      r.signers = 1 /\ r.sig /\ Bound(r),
      r.chain /\ r.eku = [known |-> <<"timeStamping">>, unknown |-> 0, critical |-> TRUE],
      r.gen \in -verifier.maxClockSkew .. r.took + verifier.maxClockSkew>>

\* The steps a class may stand for.
StepsOf(class) ==
    CASE class \in {"http_4xx", "http_5xx", "unknown_error"} -> {1}
      [] class = "invalid_content_type"  -> {2}
      [] class = "tsp_rejection"         -> {3}
      [] class = "malformed_response"    -> {3, 4}
      [] class = "invalid_nonce"         -> {5}
      [] class = "invalid_imprint"       -> {6}
      [] class = "invalid_signature"     -> {4, 8}
      [] class = "untrusted_certificate" -> {4, 7, 9}
      [] class = "clock_skew_exceeded"   -> {10}
      [] OTHER                           -> {}

\* README, "Applied in order; the first failure classifies the attempt", as far
\* as it holds.  A response whose deciding ESS attribute can be read succeeds
\* exactly if it passes every step, whatever was drawn, retried and cut off, and
\* otherwise has the class of the first step it fails.  The signature and the
\* chain are checked by one library call: where both fail, the class is that of
\* either.  What the README says beyond this is NoCheckSkipped and
\* SignatureClassifiesFirst, which the code breaks.
FirstFailureClassifies ==
    Verified /\ Deciding(resp) # <<"unreadable">> =>
        /\ a.class = "ok" <=> \A k \in 1 .. 10 : ReadmeSteps(resp)[k]
        /\ a.class # "ok" =>
              \E k \in StepsOf(a.class) :
                  /\ ~ReadmeSteps(resp)[k]
                  /\ \A j \in 1 .. k - 1 :
                        \/ ReadmeSteps(resp)[j]
                        \/ k = 9 /\ j = 8 /\ ~resp.chain /\ ~resp.sig
                           /\ resp.signers = 1 /\ Bound(resp)

\* README.md:316 and verify.go:84, "There is no mode in which a check is skipped
\* and the transaction still counts" as a success; README.md:315, "If a check
\* cannot be performed, the attempt fails".
NoCheckSkipped ==
    Verified /\ a.class = "ok" => \A k \in 1 .. 10 : ReadmeSteps(resp)[k]

\* README.md:300, of its step 7 against its step 8: a response that fails the
\* signature and nothing before it is classified by the signature.
SignatureClassifiesFirst ==
    Verified /\ (\A k \in 1 .. 7 : ReadmeSteps(resp)[k]) /\ ~resp.sig
        => a.class = "invalid_signature"

\* The genTime is DER but perhaps for zeros at the end of its fraction.
OnlyZeros(t) == t.sep # "," /\ t.digits # "overlong" /\ t.zone # "+0000"

\* A response with nothing worse than its clock has a warning for grantedWithMods,
\* for a missing ESS attribute and for zeros at the end of genTime, whichever of
\* these it has and however it failed or passed the clock, and keeps its skew; it
\* has none that does not apply, so a token the strict parser takes is never
\* called non-conformant.  Other deviations of genTime are accepted without a
\* warning: LeniencyReported states what verify.go says of them.
DeviationsReported ==
    Verified /\ (\A k \in 1 .. 9 : ReadmeSteps(resp)[k]) =>
        /\ ("grantedWithMods" \in a.warnings) = (resp.pki # "granted")
        /\ ("noESS" \in a.warnings) = (Deciding(resp) = <<"absent">>)
        /\ "nonMinimalGenTime" \in a.warnings => ~StrictDER(resp.time)
        /\ OnlyZeros(resp.time) /\ ~StrictDER(resp.time) => "nonMinimalGenTime" \in a.warnings
        /\ (a.skew = 0) = (resp.gen \in 0 .. resp.took)

\* verify.go:117, of genTime: "every response it forgives carries a warning saying
\* so, so nothing is accepted more leniently than the strict parser without being
\* reported".
LeniencyReported ==
    Verified /\ a.class = "ok" /\ ~StrictDER(resp.time) => "nonMinimalGenTime" \in a.warnings

\* The breaker judges the provider: it is told of every attempt but those the
\* run itself cancelled, however late in the attempt the cancellation came.
BlameIsOurs == pc = "filed" => (fed <=> "cancelled" \notin err) /\ (fed \/ reqCancelled)

\* request_timeout, "the connection could not be established": never of an
\* attempt whose timestamp request went out, in a first try or a retry.
RequestTimeoutMeansUnsent ==
    pc = "filed" /\ a.class = "request_timeout" => ~everPosted

\* Every attempt ends, by its deadline if by nothing else.
AttemptEnds == <>(pc = "filed")

\* The runbook on response_timeout: "the TSA accepted the request but did not
\* answer in time".
ResponseTimeoutMeansSent ==
    pc = "filed" /\ a.class = "response_timeout" => posted
=============================================================================
