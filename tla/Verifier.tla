------------------------------- MODULE Verifier -------------------------------
(***************************************************************************)
(* What a response is worth: the acceptance chain of internal/tsp          *)
(* (verify.go, statusinfo.go, gentime.go, ess.go) and the error classes of *)
(* internal/errclass, as operators on the facts the code inspects.         *)
(*                                                                         *)
(* A response is a record of those facts: its HTTP status `http`, `ctype`, *)
(* the PKIStatus `pki` ("unreadable" if ParseStatusInfo fails) and the     *)
(* names of its failInfo bits, whether a `token` is there and how it       *)
(* `parse`s, the encoding `time` of genTime, genTime and the time the      *)
(* answer `took` as ticks since the send, how `nonce` and `imprint` echo   *)
(* the request, whether it carries `certs` and how many `signers` resolve, *)
(* the two ESS attributes `v2` and `v1`, whether signature (`sig`) and     *)
(* `chain` are good, and the signer's extended key usages `eku`.           *)
(***************************************************************************)
EXTENDS Integers, Sequences

\* An ESS attribute: absent, unreadable, or its ESSCertIDs.
ESSAttributes == {<<"absent">>, <<"unreadable">>} \cup Seq({"signer", "other", "undecodable"})

PKIStatuses == {"granted", "grantedWithMods", "rejection", "waiting", "revocationWarning",
                "revocationNotification", "unknown", "unreadable"}

\* How genTime is encoded: its tag, what introduces the fraction, how the
\* fraction's digits end or that there are more than nine, and its zone.
GenTimes == [tag : {"GeneralizedTime", "UTCTime"}, sep : {"none", ".", ","},
             digits : {"minimal", "trailingZero", "overlong"},
             zone : {"Z", "+0530", "+0000", "none"}]

ResponseFacts ==
    [http : Nat, ctype : {"reply", "replyWithParameters", "none", "unparsable", "other"},
     oversized : BOOLEAN, pki : PKIStatuses, failInfo : Seq(STRING), token : BOOLEAN, parse : STRING,
     time : GenTimes, gen : Int, took : Nat, nonce : STRING, imprint : STRING, certs : BOOLEAN, signers : Nat,
     v2 : ESSAttributes, v1 : ESSAttributes, sig : BOOLEAN, chain : BOOLEAN,
     eku : [known : Seq(STRING), unknown : Nat, critical : BOOLEAN]]

-----------------------------------------------------------------------------
(* internal/errclass.  An error is the set of what errors.As and errors.Is *)
(* find in its chain.                                                      *)

IsTimeout(class) == class \in {"request_timeout", "response_timeout"}

CountsAgainstProvider(class) ==
    class \notin {"cancelled", "quota_guard", "client_saturation", "schedule_lag"}

\* Variant: any context error is taken for our own cancellation.
ClassifyByContext(err, requestWritten) ==
    IF {"cancelled", "timeout"} \cap err # {} THEN "cancelled"
    ELSE IF "dns" \in err THEN "dns_error"
    ELSE IF "tls" \in err THEN "tls_error"
    ELSE IF {"op", "url"} \cap err # {} THEN "connect_error"
    ELSE "unknown_error"

\* Classify looks for one after the other; a timeout is told apart by whether
\* the request had been written.
Classify(err, requestWritten) ==
    IF "cancelled" \in err THEN "cancelled"
    ELSE IF "dns" \in err THEN "dns_error"
    ELSE IF "tls" \in err THEN "tls_error"
    ELSE IF "timeout" \in err
         THEN IF requestWritten THEN "response_timeout" ELSE "request_timeout"
    ELSE IF {"op", "url"} \cap err # {} THEN "connect_error"
    ELSE "unknown_error"

FromHTTPStatus(code) ==
    IF code \in 200 .. 299 THEN "ok"
    ELSE IF code \in 400 .. 499 THEN "http_4xx"
    ELSE IF code >= 500 THEN "http_5xx"
    ELSE "unknown_error"

-----------------------------------------------------------------------------
(* The parts of the acceptance chain.                                      *)

\* The media type, parameters and case aside.
CheckContentType(r) == r.ctype \in {"reply", "replyWithParameters"}

\* ParseStatusInfo: the PKIStatusInfo can be read, whatever the token is like.
ParseStatusInfo(r) == r.pki # "unreadable"

\* NewVerifier always allows grantedWithMods.
StatusAccepted(pki) == pki \in {"granted", "grantedWithMods"}

\* The names of the failInfo bits, or else the status itself.
SubCategories == Seq(STRING) \cup {<<s>> : s \in PKIStatuses} \cup {<<n>> : n \in Nat}
SubCategory(r) == IF r.failInfo # << >> THEN r.failInfo ELSE <<r.pki>>

\* parseGeneralizedTime reads the time with time.Parse, which takes a fraction
\* after a dot or a comma, of any length, and any zone.
TimeParses(t) == t.tag = "GeneralizedTime" /\ t.zone # "none"

\* fractionalPart finds the fraction by its dot, and a final zero is reported.
NonMinimal(t) == t.sep = "." /\ t.digits = "trailingZero"

\* encoding/asn1 takes only what it would itself have written.
StrictDER(t) ==
    /\ t.tag = "GeneralizedTime" /\ t.zone \in {"Z", "+0530"}
    /\ t.sep = "none" \/ (t.sep = "." /\ t.digits = "minimal")

\* parseResponseTolerantly, with every embedded certificate.
TokenParses(r) == r.parse = "ok" /\ TimeParses(r.time)

\* classifyParseError goes by the text, a mention of a signature or an RSA key
\* first, then that of a certificate.
ClassifyParseError(r) ==
    CASE r.parse = "badSignatureValue" -> "invalid_signature"
      [] r.parse = "badCertificate"    -> "untrusted_certificate"
      [] OTHER                         -> "malformed_response"

\* signedAttr: an attribute whose value cannot be read counts as absent.
Readable(attr) == attr \notin {<<"absent">>, <<"unreadable">>}

\* matchESS walks the ESSCertIDs: the first that matches binds the signer, and
\* one that cannot be decoded ends the walk.  An attribute that is no SEQUENCE
\* is one undecodable entry.
MatchESS(attr) ==
    \E k \in DOMAIN attr : attr[k] = "signer" /\ \A j \in 1 .. k - 1 : attr[j] = "other"

\* CheckESSBinding: the V2 attribute decides, V1 only where V2 is absent.
CheckESSBinding(r) ==
    IF Readable(r.v2) THEN [present |-> TRUE, matched |-> MatchESS(r.v2)]
    ELSE IF Readable(r.v1) THEN [present |-> TRUE, matched |-> MatchESS(r.v1)]
    ELSE [present |-> FALSE, matched |-> FALSE]

\* pkcs7's VerifyWithOpts checks chain and signature and reports one failure;
\* which comes first is the library's affair.
VerifyWithOpts(r) ==
    IF r.sig /\ r.chain THEN {"none"}
    ELSE (IF r.sig THEN {} ELSE {"signature"}) \cup (IF r.chain THEN {} ELSE {"chain"})

\* Variant: go by the prefix "x509:", which a broken signature has too.
ClassifyVerifyErrorByPrefix(err) == "untrusted_certificate"

\* The library's wrap text marks a chain or validity failure; anything else is
\* a bad signature.
ClassifyVerifyError(err) ==
    IF err = "chain" THEN "untrusted_certificate" ELSE "invalid_signature"

\* timeStamping, nothing else known or unknown, in a critical extension.
CheckTimeStampingEKU(eku) ==
    eku.known = <<"timeStamping">> /\ eku.unknown = 0 /\ eku.critical

\* How far genTime lies outside the time from send to receipt.
Skew(r) ==
    IF r.gen < 0 THEN -r.gen ELSE IF r.gen > r.took THEN r.gen - r.took ELSE 0

-----------------------------------------------------------------------------
Leniencies == {"grantedWithMods", "nonMinimalGenTime", "noESS"}

\* The warnings gathered on the way to the last check.
Warnings(r) ==
    (IF r.pki = "grantedWithMods" THEN {"grantedWithMods"} ELSE {})
    \cup (IF NonMinimal(r.time) THEN {"nonMinimalGenTime"} ELSE {})
    \cup (IF CheckESSBinding(r).present THEN {} ELSE {"noESS"})

\* The checks in the order Verify makes them, each with the class of its
\* failure.  v is the Verifier, p7err what VerifyWithOpts said.
Checks(v, r, p7err) ==
    LET ess == CheckESSBinding(r)
    IN <<[ok |-> FromHTTPStatus(r.http) = "ok",      class |-> FromHTTPStatus(r.http)],
         [ok |-> CheckContentType(r),                class |-> "invalid_content_type"],
         [ok |-> ParseStatusInfo(r),                 class |-> "malformed_response"],
         [ok |-> StatusAccepted(r.pki),              class |-> "tsp_rejection"],
         [ok |-> r.token,                            class |-> "malformed_response"],
         [ok |-> TokenParses(r),                     class |-> ClassifyParseError(r)],
         [ok |-> r.nonce = "echoed",                 class |-> "invalid_nonce"],
         [ok |-> r.imprint = "echoed",               class |-> "invalid_imprint"],
         [ok |-> r.certs,                            class |-> "untrusted_certificate"],
         [ok |-> r.signers = 1,                      class |-> "invalid_signature"],
         [ok |-> ess.matched \/ (~ess.present /\ ~v.requireESS),
                                                     class |-> "invalid_signature"],
         [ok |-> p7err = "none",                     class |-> ClassifyVerifyError(p7err)],
         [ok |-> CheckTimeStampingEKU(r.eku),        class |-> "untrusted_certificate"],
         [ok |-> Skew(r) <= v.maxClockSkew,          class |-> "clock_skew_exceeded"]>>

\* A rejection carries its reasons, an HTTP failure its status.
Sub(r, class) ==
    IF class = "tsp_rejection" THEN SubCategory(r)
    ELSE IF FromHTTPStatus(r.http) # "ok" THEN <<r.http>> ELSE << >>

\* Variant: a result is returned on success only.
VerifyDroppingSkew(v, r, p7err) ==
    LET checks == Checks(v, r, p7err)
        failed == {k \in DOMAIN checks : ~checks[k].ok}
        first == CHOOSE k \in failed : \A j \in failed : k <= j
        class == IF failed = {} THEN "ok" ELSE checks[first].class
    IN [class |-> class,
        sub |-> Sub(r, class),
        warnings |-> IF failed = {} THEN Warnings(r) ELSE {},
        skew |-> IF failed = {} THEN Skew(r) ELSE 0]

\* Verify: the first check that fails classifies the response.  The last one
\* returns the result with its error, and so the warnings and the skew.
Verify(v, r, p7err) ==
    LET checks == Checks(v, r, p7err)
        failed == {k \in DOMAIN checks : ~checks[k].ok}
        first == CHOOSE k \in failed : \A j \in failed : k <= j
        class == IF failed = {} THEN "ok" ELSE checks[first].class
        returned == failed \subseteq {Len(checks)}
    IN [class |-> class,
        sub |-> Sub(r, class),
        warnings |-> IF returned THEN Warnings(r) ELSE {},
        skew |-> IF returned THEN Skew(r) ELSE 0]
=============================================================================
