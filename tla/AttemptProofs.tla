---------------------------- MODULE AttemptProofs ----------------------------
(***************************************************************************)
(* The verdict on an attempt, for every response there can be and every    *)
(* order of draws, retries, deadlines and cancellations: as far as the     *)
(* README's chain holds the first failing step classifies it, three kinds  *)
(* of deviation are reported, and the blame is put where it belongs.       *)
(***************************************************************************)
EXTENDS Attempt, WellFoundedInduction, TLAPS

\* A set of naturals has a least element.
LEMMA Least ==
    ASSUME NEW T \in SUBSET Nat, T # {}
    PROVE  \E x \in T : \A y \in T : x <= y
<1>1. IsWellFoundedOn(OpToRel(<, Nat), Nat)
  BY NatLessThanWellFounded
<1>2. PICK x \in T : \A y \in T : ~(<<y, x>> \in OpToRel(<, Nat))
  BY <1>1, WFMin
<1>3. \A y \in T : ~(y < x)
  BY <1>2 DEF OpToRel
<1>4. QED
  BY <1>3

-----------------------------------------------------------------------------
(* Verify, whatever the response.                                          *)

\* matchESS, which stops at the first entry that decides, finds the signer
\* exactly if some entry names it and nothing before is undecodable.
LEMMA WalkFindsSigner ==
    ASSUME NEW attr \in ESSAttributes, Readable(attr)
    PROVE  MatchESS(attr) <=> \E k \in DOMAIN attr : /\ attr[k] = "signer"
                                                     /\ "undecodable" \notin {attr[j] : j \in 1 .. k}
<1>1. attr \in Seq({"signer", "other", "undecodable"})
  BY DEF ESSAttributes, Readable
<1>2. /\ DOMAIN attr = 1 .. Len(attr) /\ Len(attr) \in Nat
      /\ \A j \in 1 .. Len(attr) : attr[j] \in {"signer", "other", "undecodable"}
  BY <1>1
<1>3. ASSUME MatchESS(attr)
      PROVE  \E k \in DOMAIN attr : attr[k] = "signer" /\ "undecodable" \notin {attr[j] : j \in 1 .. k}
  <2>1. PICK k \in DOMAIN attr : attr[k] = "signer" /\ \A j \in 1 .. k - 1 : attr[j] = "other"
    BY <1>3 DEF MatchESS
  <2>2. \A j \in 1 .. k : j = k \/ j \in 1 .. k - 1
    BY <1>2
  <2>3. \A j \in 1 .. k : attr[j] # "undecodable"
    BY <2>1, <2>2
  <2>4. QED
    BY <2>1, <2>3
<1>4. ASSUME NEW k \in DOMAIN attr, attr[k] = "signer", "undecodable" \notin {attr[j] : j \in 1 .. k}
      PROVE  MatchESS(attr)
  <2> DEFINE T == {i \in 1 .. k : attr[i] = "signer"}
  <2>1. T \in SUBSET Nat /\ k \in T
    BY <1>2, <1>4
  <2>2. PICK x \in T : \A y \in T : x <= y
    BY <2>1, Least
  <2>3. ASSUME NEW j \in 1 .. x - 1 PROVE attr[j] = "other"
    <3>1. j \in 1 .. k /\ j \in 1 .. Len(attr) /\ j < x
      BY <1>2
    <3>2. attr[j] # "undecodable"
      BY <1>4, <3>1
    <3>3. attr[j] # "signer"
      BY <2>2, <3>1
    <3>4. QED
      BY <1>2, <3>1, <3>2, <3>3
  <2>4. x \in DOMAIN attr /\ attr[x] = "signer"
    BY <1>2
  <2>5. QED
    BY <2>3, <2>4 DEF MatchESS
<1>5. QED
  BY <1>3, <1>4

\* Verify makes fourteen checks.
LEMMA CheckCount ==
    ASSUME NEW v, NEW r, NEW e
    PROVE  DOMAIN Checks(v, r, e) = 1 .. 14 /\ Len(Checks(v, r, e)) = 14
  BY DEF Checks

\* Verify returns the class of the first check that fails, and the warnings
\* and the skew with everything but an earlier failure.
LEMMA VerifyReturns ==
    ASSUME NEW v, NEW r, NEW e, NEW C, C = Checks(v, r, e), NEW V, V = Verify(v, r, e)
    PROVE  /\ (\A k \in 1 .. 14 : C[k].ok) => V.class = "ok"
           /\ (\E k \in 1 .. 14 : ~C[k].ok) =>
                 \E k \in 1 .. 14 : ~C[k].ok /\ V.class = C[k].class /\ \A j \in 1 .. k - 1 : C[j].ok
           /\ (\A k \in 1 .. 13 : C[k].ok) => V.warnings = Warnings(r) /\ V.skew = Skew(r)
           /\ V.sub \in {<< >>, SubCategory(r), <<r.http>>} /\ V.warnings \in {{}, Warnings(r)}
           /\ V.skew \in {0, Skew(r)}
<1> DEFINE failed == {k \in DOMAIN C : ~C[k].ok}
           first == CHOOSE k \in failed : \A j \in failed : k <= j
           class == IF failed = {} THEN "ok" ELSE C[first].class
           returned == failed \subseteq {Len(C)}
<1>1. V = [class |-> class,
           sub |-> Sub(r, class),
           warnings |-> IF returned THEN Warnings(r) ELSE {},
           skew |-> IF returned THEN Skew(r) ELSE 0]
  BY DEF Verify
<1>2. DOMAIN C = 1 .. 14 /\ Len(C) = 14
  BY CheckCount
<1>3. failed # {} => first \in failed /\ \A j \in failed : first <= j
  <2> SUFFICES ASSUME failed # {} PROVE first \in failed /\ \A j \in failed : first <= j
    OBVIOUS
  <2>1. failed \in SUBSET Nat
    BY <1>2
  <2> HIDE DEF failed
  <2>2. \E k \in failed : \A j \in failed : k <= j
    BY <2>1, Least
  <2>3. QED
    BY <2>2, Zenon
<1>4. /\ V.class = class /\ V.sub \in {<< >>, SubCategory(r), <<r.http>>}
      /\ V.warnings = (IF returned THEN Warnings(r) ELSE {})
      /\ V.skew = (IF returned THEN Skew(r) ELSE 0)
  <2> HIDE DEF class, returned
  <2>1. Sub(r, class) \in {<< >>, SubCategory(r), <<r.http>>}
    BY DEF Sub
  <2>2. QED
    BY <1>1, <2>1
<1>5. \A k \in 1 .. 14 : k \in failed <=> ~C[k].ok
  BY <1>2
<1>6. failed \subseteq 1 .. 14
  BY <1>2
<1>7. (\A k \in 1 .. 14 : C[k].ok) => V.class = "ok"
  BY <1>4, <1>5, <1>6
<1>8. (\A k \in 1 .. 13 : C[k].ok) => returned
  <2>1. \A k \in 1 .. 14 : k \in 1 .. 13 \/ k = 14
    OBVIOUS
  <2>2. QED
    BY <1>2, <1>5, <1>6, <2>1
<1>9. ASSUME \E k \in 1 .. 14 : ~C[k].ok
      PROVE  \E k \in 1 .. 14 : ~C[k].ok /\ V.class = C[k].class /\ \A j \in 1 .. k - 1 : C[j].ok
  <2>1. failed # {} /\ V.class = C[first].class
    BY <1>4, <1>5, <1>9
  <2> HIDE DEF failed, first
  <2>2. first \in 1 .. 14 /\ ~C[first].ok /\ \A j \in failed : first <= j
    BY <1>3, <1>5, <1>6, <2>1
  <2>3. \A j \in 1 .. first - 1 : j \in 1 .. 14 /\ ~(first <= j)
    BY <2>2
  <2>4. \A j \in 1 .. first - 1 : C[j].ok
    BY <1>5, <2>2, <2>3
  <2>5. QED
    BY <2>1, <2>2, <2>4
<1> HIDE DEF returned
<1>10. QED
  BY <1>4, <1>7, <1>8, <1>9

\* The checks of the code and the steps of the README, side by side.  The binding
\* is the same for an ESS attribute that can be read; the code takes one that
\* cannot be for absent.
LEMMA StepsAreChecks ==
    ASSUME verifier \in Verifiers, NEW r \in ResponseFacts, NEW e \in VerifyWithOpts(r),
           NEW C, C = Checks(verifier, r, e), NEW R, R = ReadmeSteps(r)
    PROVE  /\ R[1] <=> C[1].ok
           /\ R[2] <=> C[2].ok
           /\ R[3] <=> C[3].ok /\ C[4].ok
           /\ R[4] <=> C[5].ok /\ C[6].ok
           /\ R[5] <=> C[7].ok
           /\ R[6] <=> C[8].ok
           /\ R[7] <=> C[9].ok
           /\ R[8] => C[10].ok /\ C[11].ok /\ r.sig /\ Deciding(r) # <<"unreadable">>
           /\ Deciding(r) # <<"unreadable">> => (R[8] <=> C[10].ok /\ C[11].ok /\ r.sig)
           /\ Deciding(r) # <<"unreadable">> => (C[11].ok <=> Bound(r))
           /\ R[9] <=> C[13].ok /\ r.chain
           /\ R[10] <=> C[14].ok
           /\ C[10].ok <=> r.signers = 1
           /\ C[12].ok <=> r.sig /\ r.chain
           /\ C[12].class = "untrusted_certificate" => ~r.chain \/ C[12].ok
           /\ C[12].class = "invalid_signature" => ~r.sig \/ C[12].ok
           /\ C[12].class \in {"untrusted_certificate", "invalid_signature"}
           /\ C[1].class = FromHTTPStatus(r.http) /\ (C[1].ok <=> C[1].class = "ok")
           /\ C[2].class = "invalid_content_type" /\ C[3].class = "malformed_response"
           /\ C[4].class = "tsp_rejection" /\ C[5].class = "malformed_response"
           /\ C[6].class = ClassifyParseError(r) /\ C[7].class = "invalid_nonce"
           /\ C[8].class = "invalid_imprint" /\ C[9].class = "untrusted_certificate"
           /\ C[10].class = "invalid_signature" /\ C[11].class = "invalid_signature"
           /\ C[13].class = "untrusted_certificate" /\ C[14].class = "clock_skew_exceeded"
<1>T. /\ r.http \in Nat /\ r.gen \in Int /\ r.took \in Nat /\ verifier.maxClockSkew \in Nat
      /\ r.ctype \in {"reply", "replyWithParameters", "none", "unparsable", "other"}
      /\ r.v2 \in ESSAttributes /\ r.v1 \in ESSAttributes
      /\ r.sig \in BOOLEAN /\ r.chain \in BOOLEAN /\ r.token \in BOOLEAN /\ r.certs \in BOOLEAN
      /\ r.eku.critical \in BOOLEAN /\ verifier.requireESS \in BOOLEAN
  BY AttemptAssumption DEF ResponseFacts
<1>R. /\ R[1] = (r.http >= 200 /\ r.http < 300)
      /\ R[2] = (r.ctype \notin {"none", "unparsable", "other"})
      /\ R[3] = (r.pki = "granted" \/ r.pki = "grantedWithMods")
      /\ R[4] = (r.token /\ r.parse = "ok" /\ r.time.tag = "GeneralizedTime" /\ r.time.zone # "none")
      /\ R[5] = (r.nonce = "echoed")
      /\ R[6] = (r.imprint = "echoed")
      /\ R[7] = r.certs
      /\ R[8] = (r.signers = 1 /\ r.sig /\ Bound(r))
      /\ R[9] = (r.chain /\ r.eku = [known |-> <<"timeStamping">>, unknown |-> 0, critical |-> TRUE])
      /\ R[10] = (r.gen \in -verifier.maxClockSkew .. r.took + verifier.maxClockSkew)
  <2> DEFINE r1 == r.http >= 200 /\ r.http < 300
             r2 == r.ctype \notin {"none", "unparsable", "other"}
             r3 == r.pki = "granted" \/ r.pki = "grantedWithMods"
             r4 == r.token /\ r.parse = "ok" /\ r.time.tag = "GeneralizedTime" /\ r.time.zone # "none"
             r5 == r.nonce = "echoed"
             r6 == r.imprint = "echoed"
             r7 == r.certs
             r8 == r.signers = 1 /\ r.sig /\ Bound(r)
             r9 == r.chain /\ r.eku = [known |-> <<"timeStamping">>, unknown |-> 0, critical |-> TRUE]
             r10 == r.gen \in -verifier.maxClockSkew .. r.took + verifier.maxClockSkew
  <2>1. R = <<r1, r2, r3, r4, r5, r6, r7, r8, r9, r10>>
    BY DEF ReadmeSteps
  <2> HIDE DEF r1, r2, r3, r4, r5, r6, r7, r8, r9, r10
  <2>2. /\ R[1] = r1 /\ R[2] = r2 /\ R[3] = r3 /\ R[4] = r4 /\ R[5] = r5 /\ R[6] = r6 /\ R[7] = r7
        /\ R[8] = r8 /\ R[9] = r9 /\ R[10] = r10
    BY <2>1
  <2>3. QED
    BY <2>2, Zenon DEF r1, r2, r3, r4, r5, r6, r7, r8, r9, r10
<1>C. /\ C[1].ok = (FromHTTPStatus(r.http) = "ok") /\ C[1].class = FromHTTPStatus(r.http)
      /\ C[2].ok = CheckContentType(r) /\ C[2].class = "invalid_content_type"
      /\ C[3].ok = ParseStatusInfo(r) /\ C[3].class = "malformed_response"
      /\ C[4].ok = StatusAccepted(r.pki) /\ C[4].class = "tsp_rejection"
      /\ C[5].ok = r.token /\ C[5].class = "malformed_response"
      /\ C[6].ok = TokenParses(r) /\ C[6].class = ClassifyParseError(r)
      /\ C[7].ok = (r.nonce = "echoed") /\ C[7].class = "invalid_nonce"
      /\ C[8].ok = (r.imprint = "echoed") /\ C[8].class = "invalid_imprint"
      /\ C[9].ok = r.certs /\ C[9].class = "untrusted_certificate"
      /\ C[10].ok = (r.signers = 1) /\ C[10].class = "invalid_signature"
      /\ C[11].ok = (CheckESSBinding(r).matched \/ (~CheckESSBinding(r).present /\ ~verifier.requireESS))
      /\ C[11].class = "invalid_signature"
      /\ C[12].ok = (e = "none") /\ C[12].class = ClassifyVerifyError(e)
      /\ C[13].ok = CheckTimeStampingEKU(r.eku) /\ C[13].class = "untrusted_certificate"
      /\ C[14].ok = (Skew(r) <= verifier.maxClockSkew) /\ C[14].class = "clock_skew_exceeded"
  <2> DEFINE c1 == [ok |-> FromHTTPStatus(r.http) = "ok", class |-> FromHTTPStatus(r.http)]
             c2 == [ok |-> CheckContentType(r), class |-> "invalid_content_type"]
             c3 == [ok |-> ParseStatusInfo(r), class |-> "malformed_response"]
             c4 == [ok |-> StatusAccepted(r.pki), class |-> "tsp_rejection"]
             c5 == [ok |-> r.token, class |-> "malformed_response"]
             c6 == [ok |-> TokenParses(r), class |-> ClassifyParseError(r)]
             c7 == [ok |-> r.nonce = "echoed", class |-> "invalid_nonce"]
             c8 == [ok |-> r.imprint = "echoed", class |-> "invalid_imprint"]
             c9 == [ok |-> r.certs, class |-> "untrusted_certificate"]
             c10 == [ok |-> r.signers = 1, class |-> "invalid_signature"]
             c11 == [ok |-> CheckESSBinding(r).matched
                            \/ (~CheckESSBinding(r).present /\ ~verifier.requireESS),
                     class |-> "invalid_signature"]
             c12 == [ok |-> e = "none", class |-> ClassifyVerifyError(e)]
             c13 == [ok |-> CheckTimeStampingEKU(r.eku), class |-> "untrusted_certificate"]
             c14 == [ok |-> Skew(r) <= verifier.maxClockSkew, class |-> "clock_skew_exceeded"]
  <2>1. C = <<c1, c2, c3, c4, c5, c6, c7, c8, c9, c10, c11, c12, c13, c14>>
    BY DEF Checks
  <2> HIDE DEF c1, c2, c3, c4, c5, c6, c7, c8, c9, c10, c11, c12, c13, c14
  <2>2. /\ C[1] = c1 /\ C[2] = c2 /\ C[3] = c3 /\ C[4] = c4 /\ C[5] = c5 /\ C[6] = c6 /\ C[7] = c7
        /\ C[8] = c8 /\ C[9] = c9 /\ C[10] = c10 /\ C[11] = c11 /\ C[12] = c12 /\ C[13] = c13
        /\ C[14] = c14
    BY <2>1
  <2>3. /\ c1.ok = (FromHTTPStatus(r.http) = "ok") /\ c1.class = FromHTTPStatus(r.http)
        /\ c2.ok = CheckContentType(r) /\ c2.class = "invalid_content_type"
        /\ c3.ok = ParseStatusInfo(r) /\ c3.class = "malformed_response"
        /\ c4.ok = StatusAccepted(r.pki) /\ c4.class = "tsp_rejection"
        /\ c5.ok = r.token /\ c5.class = "malformed_response"
        /\ c6.ok = TokenParses(r) /\ c6.class = ClassifyParseError(r)
        /\ c7.ok = (r.nonce = "echoed") /\ c7.class = "invalid_nonce"
    BY DEF c1, c2, c3, c4, c5, c6, c7
  <2>4. /\ c8.ok = (r.imprint = "echoed") /\ c8.class = "invalid_imprint"
        /\ c9.ok = r.certs /\ c9.class = "untrusted_certificate"
        /\ c10.ok = (r.signers = 1) /\ c10.class = "invalid_signature"
        /\ c11.ok = (CheckESSBinding(r).matched \/ (~CheckESSBinding(r).present /\ ~verifier.requireESS))
        /\ c11.class = "invalid_signature"
        /\ c12.ok = (e = "none") /\ c12.class = ClassifyVerifyError(e)
        /\ c13.ok = CheckTimeStampingEKU(r.eku) /\ c13.class = "untrusted_certificate"
        /\ c14.ok = (Skew(r) <= verifier.maxClockSkew) /\ c14.class = "clock_skew_exceeded"
    BY DEF c8, c9, c10, c11, c12, c13, c14
  <2>5. QED
    BY <2>2, <2>3, <2>4, ZenonT(60)
<1>1. R[1] <=> C[1].ok
  <2>1. FromHTTPStatus(r.http) = "ok" <=> r.http \in 200 .. 299
    BY DEF FromHTTPStatus
  <2>2. r.http \in 200 .. 299 <=> r.http >= 200 /\ r.http < 300
    BY <1>T
  <2>3. QED
    BY <1>R, <1>C, <2>1, <2>2
<1>2. R[2] <=> C[2].ok
  BY <1>T, <1>R, <1>C DEF CheckContentType
<1>3. R[3] <=> C[3].ok /\ C[4].ok
  <2>1. /\ R[3] = (r.pki = "granted" \/ r.pki = "grantedWithMods")
        /\ C[3].ok = ParseStatusInfo(r) /\ C[4].ok = StatusAccepted(r.pki)
    BY <1>R, <1>C
  <2>2. (r.pki = "granted" \/ r.pki = "grantedWithMods") <=> ParseStatusInfo(r) /\ StatusAccepted(r.pki)
    BY DEF ParseStatusInfo, StatusAccepted
  <2>3. QED
    BY <2>1, <2>2
<1>4. R[4] <=> C[5].ok /\ C[6].ok
  BY <1>R, <1>C DEF TokenParses, TimeParses
<1>5. (R[5] <=> C[7].ok) /\ (R[6] <=> C[8].ok) /\ (R[7] <=> C[9].ok)
  BY <1>R, <1>C
<1>6. ASSUME Deciding(r) # <<"unreadable">>
      PROVE  C[11].ok <=> Bound(r)
  <2>0. /\ Readable(r.v2) => Deciding(r) = r.v2
        /\ ~Readable(r.v2) => Deciding(r) = r.v1
        /\ Readable(Deciding(r)) \/ Deciding(r) = <<"absent">>
    BY <1>6 DEF Deciding, Readable
  <2>1. CASE Readable(r.v2)
    <3>1. CheckESSBinding(r).present = TRUE /\ CheckESSBinding(r).matched = MatchESS(r.v2)
      BY <2>1 DEF CheckESSBinding
    <3>2. Bound(r) <=> MatchESS(r.v2)
      BY <1>T, <2>0, <2>1, WalkFindsSigner DEF Bound, Readable
    <3>3. QED
      BY <1>C, <3>1, <3>2
  <2>2. CASE ~Readable(r.v2) /\ Readable(r.v1)
    <3>1. CheckESSBinding(r).present = TRUE /\ CheckESSBinding(r).matched = MatchESS(r.v1)
      BY <2>2 DEF CheckESSBinding
    <3>2. Bound(r) <=> MatchESS(r.v1)
      BY <1>T, <2>0, <2>2, WalkFindsSigner DEF Bound, Readable
    <3>3. QED
      BY <1>C, <3>1, <3>2
  <2>3. CASE ~Readable(r.v2) /\ ~Readable(r.v1)
    <3>1. CheckESSBinding(r).present = FALSE /\ CheckESSBinding(r).matched = FALSE
      BY <2>3 DEF CheckESSBinding
    <3>2. Bound(r) <=> ~verifier.requireESS
      BY <2>0, <2>3 DEF Bound
    <3>3. QED
      BY <1>C, <3>1, <3>2
  <2>4. QED
    BY <2>1, <2>2, <2>3
<1>7. C[10].ok <=> r.signers = 1
  BY <1>C
<1>8. /\ R[8] => C[10].ok /\ C[11].ok /\ r.sig /\ Deciding(r) # <<"unreadable">>
      /\ Deciding(r) # <<"unreadable">> => (R[8] <=> C[10].ok /\ C[11].ok /\ r.sig)
  <2>1. Deciding(r) = <<"unreadable">> => ~Bound(r)
    BY DEF Bound
  <2>2. R[8] <=> r.signers = 1 /\ r.sig /\ Bound(r)
    BY <1>R
  <2>3. QED
    BY <1>6, <1>7, <2>1, <2>2
<1>9. R[9] <=> C[13].ok /\ r.chain
  <2>1. r.eku \in [known : Seq(STRING), unknown : Nat, critical : BOOLEAN]
    BY DEF ResponseFacts
  <2>2. CheckTimeStampingEKU(r.eku) <=> r.eku = [known |-> <<"timeStamping">>, unknown |-> 0, critical |-> TRUE]
    <3>1. r.eku = [known |-> r.eku.known, unknown |-> r.eku.unknown, critical |-> r.eku.critical]
      BY <2>1
    <3>2. ASSUME CheckTimeStampingEKU(r.eku)
          PROVE  r.eku = [known |-> <<"timeStamping">>, unknown |-> 0, critical |-> TRUE]
      <4>1. r.eku.known = <<"timeStamping">> /\ r.eku.unknown = 0 /\ r.eku.critical = TRUE
        BY <1>T, <3>2 DEF CheckTimeStampingEKU
      <4>2. QED
        BY <3>1, <4>1, Zenon
    <3>3. ASSUME r.eku = [known |-> <<"timeStamping">>, unknown |-> 0, critical |-> TRUE]
          PROVE  CheckTimeStampingEKU(r.eku)
      <4>1. r.eku.known = <<"timeStamping">> /\ r.eku.unknown = 0 /\ r.eku.critical = TRUE
        BY <3>3
      <4>2. QED
        BY <4>1 DEF CheckTimeStampingEKU
    <3>4. QED
      BY <3>2, <3>3
  <2>3. QED
    BY <1>R, <1>C, <2>2
<1>10. R[10] <=> C[14].ok
  <2>1. Skew(r) <= verifier.maxClockSkew <=> r.gen \in -verifier.maxClockSkew .. r.took + verifier.maxClockSkew
    BY <1>T DEF Skew
  <2>2. QED
    BY <1>R, <1>C, <2>1
<1>11. /\ C[12].ok <=> r.sig /\ r.chain
       /\ C[12].class = "untrusted_certificate" => ~r.chain \/ C[12].ok
       /\ C[12].class = "invalid_signature" => ~r.sig \/ C[12].ok
       /\ C[12].class \in {"untrusted_certificate", "invalid_signature"}
  <2>0. C[12].ok = (e = "none") /\ C[12].class = ClassifyVerifyError(e)
    BY <1>C
  <2>1. CASE e = "none"
    BY <2>0, <2>1 DEF VerifyWithOpts, ClassifyVerifyError
  <2>2. CASE e = "signature"
    BY <2>0, <2>2 DEF VerifyWithOpts, ClassifyVerifyError
  <2>3. CASE e = "chain"
    BY <2>0, <2>3 DEF VerifyWithOpts, ClassifyVerifyError
  <2>4. e \in {"none", "signature", "chain"}
    BY DEF VerifyWithOpts
  <2>5. QED
    BY <2>1, <2>2, <2>3, <2>4
<1>12. /\ C[1].class = FromHTTPStatus(r.http) /\ (C[1].ok <=> C[1].class = "ok")
       /\ C[2].class = "invalid_content_type" /\ C[3].class = "malformed_response"
       /\ C[4].class = "tsp_rejection" /\ C[5].class = "malformed_response"
       /\ C[6].class = ClassifyParseError(r) /\ C[7].class = "invalid_nonce"
       /\ C[8].class = "invalid_imprint" /\ C[9].class = "untrusted_certificate"
       /\ C[10].class = "invalid_signature" /\ C[11].class = "invalid_signature"
       /\ C[13].class = "untrusted_certificate" /\ C[14].class = "clock_skew_exceeded"
  BY <1>C
<1>13. QED
  BY <1>12, <1>1, <1>2, <1>3, <1>4, <1>5, <1>6, <1>7, <1>8, <1>9, <1>10, <1>11

\* What the first failure makes of a response, for Verify's class.
FirstFailure(r, class) ==
    /\ class = "ok" <=> \A k \in 1 .. 10 : ReadmeSteps(r)[k]
    /\ class # "ok" =>
          \E k \in StepsOf(class) :
              /\ ~ReadmeSteps(r)[k]
              /\ \A j \in 1 .. k - 1 :
                    \/ ReadmeSteps(r)[j]
                    \/ k = 9 /\ j = 8 /\ ~r.chain /\ ~r.sig /\ r.signers = 1 /\ Bound(r)

\* Verify always finds a class, and none of our own making.
LEMMA VerdictClass ==
    ASSUME verifier \in Verifiers, NEW r \in ResponseFacts, NEW e \in VerifyWithOpts(r)
    PROVE  Verify(verifier, r, e).class \in Classes \ {"cancelled", "request_timeout"}
<1> DEFINE C == Checks(verifier, r, e)
           class == Verify(verifier, r, e).class
           Found == Classes \ {"cancelled", "request_timeout"}
<1>1. /\ C[1].class = FromHTTPStatus(r.http)
      /\ C[2].class = "invalid_content_type" /\ C[3].class = "malformed_response"
      /\ C[4].class = "tsp_rejection" /\ C[5].class = "malformed_response"
      /\ C[6].class = ClassifyParseError(r) /\ C[7].class = "invalid_nonce"
      /\ C[8].class = "invalid_imprint" /\ C[9].class = "untrusted_certificate"
      /\ C[10].class = "invalid_signature" /\ C[11].class = "invalid_signature"
      /\ C[12].class \in {"untrusted_certificate", "invalid_signature"}
      /\ C[13].class = "untrusted_certificate" /\ C[14].class = "clock_skew_exceeded"
  BY StepsAreChecks
<1>2. /\ (\A k \in 1 .. 14 : C[k].ok) => class = "ok"
      /\ (\E k \in 1 .. 14 : ~C[k].ok) =>
            \E k \in 1 .. 14 : ~C[k].ok /\ class = C[k].class /\ \A j \in 1 .. k - 1 : C[j].ok
  BY VerifyReturns
<1>3. FromHTTPStatus(r.http) \in Found /\ ClassifyParseError(r) \in Found /\ "ok" \in Found
  BY DEF FromHTTPStatus, ClassifyParseError, Classes
<1>4. {"invalid_content_type", "malformed_response", "tsp_rejection", "invalid_nonce", "invalid_imprint",
       "untrusted_certificate", "invalid_signature", "clock_skew_exceeded"} \subseteq Found
  BY DEF Classes
<1> HIDE DEF C, class, Found
<1>5. /\ C[1].class \in Found /\ C[2].class \in Found /\ C[3].class \in Found /\ C[4].class \in Found
      /\ C[5].class \in Found /\ C[6].class \in Found /\ C[7].class \in Found /\ C[8].class \in Found
      /\ C[9].class \in Found /\ C[10].class \in Found /\ C[11].class \in Found
      /\ C[12].class \in Found /\ C[13].class \in Found /\ C[14].class \in Found
  BY <1>1, <1>3, <1>4
<1>6. \A k \in 1 .. 14 : C[k].class \in Found
  BY <1>5
<1>7. class \in Found
  BY <1>2, <1>3, <1>6
<1>8. QED
  BY <1>7 DEF class, Found

\* Verify's class is that of the first step the response fails, if its ESS
\* attribute can be read.
LEMMA VerdictIsFirst ==
    ASSUME verifier \in Verifiers, NEW r \in ResponseFacts, NEW e \in VerifyWithOpts(r),
           Deciding(r) # <<"unreadable">>
    PROVE  FirstFailure(r, Verify(verifier, r, e).class)
<1> DEFINE C == Checks(verifier, r, e)
           R == ReadmeSteps(r)
           class == Verify(verifier, r, e).class
           step(k) == /\ ~R[k]
                      /\ \A j \in 1 .. k - 1 :
                            R[j] \/ (k = 9 /\ j = 8 /\ ~r.chain /\ ~r.sig /\ r.signers = 1 /\ Bound(r))
<1>0. (R[8] <=> C[10].ok /\ C[11].ok /\ r.sig) /\ (C[11].ok <=> Bound(r))
  <2>1. /\ Deciding(r) # <<"unreadable">> => (R[8] <=> C[10].ok /\ C[11].ok /\ r.sig)
        /\ Deciding(r) # <<"unreadable">> => (C[11].ok <=> Bound(r))
    BY StepsAreChecks
  <2> HIDE DEF C, R
  <2>2. QED
    BY <2>1
<1>1. /\ R[1] <=> C[1].ok
      /\ R[2] <=> C[2].ok
      /\ R[3] <=> C[3].ok /\ C[4].ok
      /\ R[4] <=> C[5].ok /\ C[6].ok
      /\ R[5] <=> C[7].ok
      /\ R[6] <=> C[8].ok
      /\ R[7] <=> C[9].ok
      /\ R[9] <=> C[13].ok /\ r.chain
      /\ R[10] <=> C[14].ok
      /\ C[10].ok <=> r.signers = 1
      /\ C[12].ok <=> r.sig /\ r.chain
      /\ C[12].class = "untrusted_certificate" => ~r.chain \/ C[12].ok
      /\ C[12].class = "invalid_signature" => ~r.sig \/ C[12].ok
      /\ C[12].class \in {"untrusted_certificate", "invalid_signature"}
      /\ C[1].class = FromHTTPStatus(r.http) /\ (C[1].ok <=> C[1].class = "ok")
      /\ C[2].class = "invalid_content_type" /\ C[3].class = "malformed_response"
      /\ C[4].class = "tsp_rejection" /\ C[5].class = "malformed_response"
      /\ C[6].class = ClassifyParseError(r) /\ C[7].class = "invalid_nonce"
      /\ C[8].class = "invalid_imprint" /\ C[9].class = "untrusted_certificate"
      /\ C[10].class = "invalid_signature" /\ C[11].class = "invalid_signature"
      /\ C[13].class = "untrusted_certificate" /\ C[14].class = "clock_skew_exceeded"
  BY StepsAreChecks
<1>2. /\ (\A k \in 1 .. 14 : C[k].ok) => class = "ok"
      /\ (\E k \in 1 .. 14 : ~C[k].ok) =>
            \E k \in 1 .. 14 : ~C[k].ok /\ class = C[k].class /\ \A j \in 1 .. k - 1 : C[j].ok
  BY VerifyReturns
<1> HIDE DEF C, R, class
<1>3. (\A k \in 1 .. 14 : C[k].ok) <=> \A k \in 1 .. 10 : R[k]
  <2>1. (\A k \in 1 .. 14 : C[k].ok) <=>
            /\ C[1].ok /\ C[2].ok /\ C[3].ok /\ C[4].ok /\ C[5].ok /\ C[6].ok /\ C[7].ok
            /\ C[8].ok /\ C[9].ok /\ C[10].ok /\ C[11].ok /\ C[12].ok /\ C[13].ok /\ C[14].ok
    OBVIOUS
  <2>2. (\A k \in 1 .. 10 : R[k]) <=>
            /\ R[1] /\ R[2] /\ R[3] /\ R[4] /\ R[5] /\ R[6] /\ R[7] /\ R[8] /\ R[9] /\ R[10]
    OBVIOUS
  <2>3. QED
    BY <1>0, <1>1, <2>1, <2>2, Zenon
<1>4. CASE \A k \in 1 .. 14 : C[k].ok
  <2>1. class = "ok" /\ \A k \in 1 .. 10 : R[k]
    BY <1>2, <1>3, <1>4
  <2>2. QED
    BY <2>1 DEF FirstFailure, Classes, class, R
<1>5. CASE \E k \in 1 .. 14 : ~C[k].ok
  <2>1. PICK k \in 1 .. 14 : ~C[k].ok /\ class = C[k].class /\ \A j \in 1 .. k - 1 : C[j].ok
    BY <1>2, <1>5
  <2> DEFINE Good == class \in Classes \ {"cancelled", "request_timeout", "ok"}
                     /\ \E i \in StepsOf(class) : step(i)
  <2> SUFFICES Good
    <3>1. ASSUME Good PROVE ~(\A i \in 1 .. 10 : R[i]) /\ class # "ok"
      BY <1>3, <1>5, <3>1
    <3>2. QED
      BY <3>1, Zenon DEF FirstFailure, class, R
  <2>2. CASE k = 1
    <3>1. class \in {"http_4xx", "http_5xx", "unknown_error"}
      BY <1>0, <1>1, <2>1, <2>2 DEF FromHTTPStatus
    <3>3. ~R[1]
      BY <1>0, <1>1, <2>1, <2>2
    <3>4. 1 \in StepsOf(class) /\ step(1)
      BY <3>1, <3>3 DEF StepsOf
    <3>5. QED
      BY <3>1, <3>4 DEF Classes
  <2>3. CASE k = 2
    <3>1. class = "invalid_content_type"
      BY <1>0, <1>1, <2>1, <2>3
    <3>2. C[1].ok
      BY <2>1, <2>3
    <3>3. R[1] /\ ~R[2]
      BY <1>0, <1>1, <2>1, <2>3, <3>2
    <3>4. 2 \in StepsOf(class) /\ step(2)
      BY <3>1, <3>3 DEF StepsOf
    <3>5. QED
      BY <3>1, <3>4 DEF Classes
  <2>4. CASE k = 3
    <3>1. class = "malformed_response"
      BY <1>0, <1>1, <2>1, <2>4
    <3>2. C[1].ok /\ C[2].ok
      BY <2>1, <2>4
    <3>3. R[1] /\ R[2] /\ ~R[3]
      BY <1>0, <1>1, <2>1, <2>4, <3>2
    <3>4. 3 \in StepsOf(class) /\ step(3)
      BY <3>1, <3>3 DEF StepsOf
    <3>5. QED
      BY <3>1, <3>4 DEF Classes
  <2>5. CASE k = 4
    <3>1. class = "tsp_rejection"
      BY <1>0, <1>1, <2>1, <2>5
    <3>2. C[1].ok /\ C[2].ok /\ C[3].ok
      BY <2>1, <2>5
    <3>3. R[1] /\ R[2] /\ ~R[3]
      BY <1>0, <1>1, <2>1, <2>5, <3>2
    <3>4. 3 \in StepsOf(class) /\ step(3)
      BY <3>1, <3>3 DEF StepsOf
    <3>5. QED
      BY <3>1, <3>4 DEF Classes
  <2>6. CASE k = 5
    <3>1. class = "malformed_response"
      BY <1>0, <1>1, <2>1, <2>6
    <3>2. C[1].ok /\ C[2].ok /\ C[3].ok /\ C[4].ok
      BY <2>1, <2>6
    <3>3. R[1] /\ R[2] /\ R[3] /\ ~R[4]
      BY <1>0, <1>1, <2>1, <2>6, <3>2
    <3>4. 4 \in StepsOf(class) /\ step(4)
      BY <3>1, <3>3 DEF StepsOf
    <3>5. QED
      BY <3>1, <3>4 DEF Classes
  <2>7. CASE k = 6
    <3>1. class \in {"invalid_signature", "untrusted_certificate", "malformed_response"}
      BY <1>0, <1>1, <2>1, <2>7 DEF ClassifyParseError
    <3>2. C[1].ok /\ C[2].ok /\ C[3].ok /\ C[4].ok /\ C[5].ok
      BY <2>1, <2>7
    <3>3. R[1] /\ R[2] /\ R[3] /\ ~R[4]
      BY <1>0, <1>1, <2>1, <2>7, <3>2
    <3>4. 4 \in StepsOf(class) /\ step(4)
      BY <3>1, <3>3 DEF StepsOf
    <3>5. QED
      BY <3>1, <3>4 DEF Classes
  <2>8. CASE k = 7
    <3>1. class = "invalid_nonce"
      BY <1>0, <1>1, <2>1, <2>8
    <3>2. C[1].ok /\ C[2].ok /\ C[3].ok /\ C[4].ok /\ C[5].ok /\ C[6].ok
      BY <2>1, <2>8
    <3>3. R[1] /\ R[2] /\ R[3] /\ R[4] /\ ~R[5]
      BY <1>0, <1>1, <2>1, <2>8, <3>2
    <3>4. 5 \in StepsOf(class) /\ step(5)
      BY <3>1, <3>3 DEF StepsOf
    <3>5. QED
      BY <3>1, <3>4 DEF Classes
  <2>9. CASE k = 8
    <3>1. class = "invalid_imprint"
      BY <1>0, <1>1, <2>1, <2>9
    <3>2. C[1].ok /\ C[2].ok /\ C[3].ok /\ C[4].ok /\ C[5].ok /\ C[6].ok /\ C[7].ok
      BY <2>1, <2>9
    <3>3. R[1] /\ R[2] /\ R[3] /\ R[4] /\ R[5] /\ ~R[6]
      BY <1>0, <1>1, <2>1, <2>9, <3>2
    <3>4. 6 \in StepsOf(class) /\ step(6)
      BY <3>1, <3>3 DEF StepsOf
    <3>5. QED
      BY <3>1, <3>4 DEF Classes
  <2>10. CASE k = 9
    <3>1. class = "untrusted_certificate"
      BY <1>0, <1>1, <2>1, <2>10
    <3>2. /\ C[1].ok /\ C[2].ok /\ C[3].ok /\ C[4].ok /\ C[5].ok /\ C[6].ok /\ C[7].ok
          /\ C[8].ok
      BY <2>1, <2>10
    <3>3. R[1] /\ R[2] /\ R[3] /\ R[4] /\ R[5] /\ R[6] /\ ~R[7]
      BY <1>0, <1>1, <2>1, <2>10, <3>2
    <3>4. 7 \in StepsOf(class) /\ step(7)
      BY <3>1, <3>3 DEF StepsOf
    <3>5. QED
      BY <3>1, <3>4 DEF Classes
  <2>11. CASE k = 10
    <3>1. class = "invalid_signature"
      BY <1>0, <1>1, <2>1, <2>11
    <3>2. /\ C[1].ok /\ C[2].ok /\ C[3].ok /\ C[4].ok /\ C[5].ok /\ C[6].ok /\ C[7].ok
          /\ C[8].ok /\ C[9].ok
      BY <2>1, <2>11
    <3>3. R[1] /\ R[2] /\ R[3] /\ R[4] /\ R[5] /\ R[6] /\ R[7] /\ ~R[8]
      BY <1>0, <1>1, <2>1, <2>11, <3>2
    <3>4. 8 \in StepsOf(class) /\ step(8)
      BY <3>1, <3>3 DEF StepsOf
    <3>5. QED
      BY <3>1, <3>4 DEF Classes
  <2>12. CASE k = 11
    <3>1. class = "invalid_signature"
      BY <1>0, <1>1, <2>1, <2>12
    <3>2. /\ C[1].ok /\ C[2].ok /\ C[3].ok /\ C[4].ok /\ C[5].ok /\ C[6].ok /\ C[7].ok
          /\ C[8].ok /\ C[9].ok /\ C[10].ok
      BY <2>1, <2>12
    <3>3. R[1] /\ R[2] /\ R[3] /\ R[4] /\ R[5] /\ R[6] /\ R[7] /\ ~R[8]
      BY <1>0, <1>1, <2>1, <2>12, <3>2
    <3>4. 8 \in StepsOf(class) /\ step(8)
      BY <3>1, <3>3 DEF StepsOf
    <3>5. QED
      BY <3>1, <3>4 DEF Classes
  <2>13. CASE k = 12
    <3>1. /\ C[1].ok /\ C[2].ok /\ C[3].ok /\ C[4].ok /\ C[5].ok /\ C[6].ok /\ C[7].ok
          /\ C[8].ok /\ C[9].ok /\ C[10].ok /\ C[11].ok
      BY <2>1, <2>13
    <3>2. R[1] /\ R[2] /\ R[3] /\ R[4] /\ R[5] /\ R[6] /\ R[7] /\ r.signers = 1 /\ Bound(r)
      BY <1>0, <1>1, <3>1
    <3>3. CASE class = "invalid_signature"
      <4>1. ~R[8]
        BY <1>0, <1>1, <2>1, <2>13, <3>3
      <4>2. 8 \in StepsOf(class) /\ step(8)
        BY <3>2, <3>3, <4>1 DEF StepsOf
      <4>3. QED
        BY <3>3, <4>2 DEF Classes
    <3>4. CASE class = "untrusted_certificate"
      <4>1. ~R[9] /\ ~r.chain /\ (R[8] \/ ~r.sig)
        BY <1>0, <1>1, <2>1, <2>13, <3>1, <3>4
      <4>2. 9 \in StepsOf(class) /\ step(9)
        BY <3>2, <3>4, <4>1 DEF StepsOf
      <4>3. QED
        BY <3>4, <4>2 DEF Classes
    <3>5. QED
      BY <1>0, <1>1, <2>1, <2>13, <3>3, <3>4
  <2>14. CASE k = 13
    <3>1. class = "untrusted_certificate"
      BY <1>0, <1>1, <2>1, <2>14
    <3>2. /\ C[1].ok /\ C[2].ok /\ C[3].ok /\ C[4].ok /\ C[5].ok /\ C[6].ok /\ C[7].ok
          /\ C[8].ok /\ C[9].ok /\ C[10].ok /\ C[11].ok /\ C[12].ok
      BY <2>1, <2>14
    <3>3. R[1] /\ R[2] /\ R[3] /\ R[4] /\ R[5] /\ R[6] /\ R[7] /\ R[8] /\ ~R[9]
      BY <1>0, <1>1, <2>1, <2>14, <3>2
    <3>4. 9 \in StepsOf(class) /\ step(9)
      BY <3>1, <3>3 DEF StepsOf
    <3>5. QED
      BY <3>1, <3>4 DEF Classes
  <2>15. CASE k = 14
    <3>1. class = "clock_skew_exceeded"
      BY <1>0, <1>1, <2>1, <2>15
    <3>2. /\ C[1].ok /\ C[2].ok /\ C[3].ok /\ C[4].ok /\ C[5].ok /\ C[6].ok /\ C[7].ok
          /\ C[8].ok /\ C[9].ok /\ C[10].ok /\ C[11].ok /\ C[12].ok /\ C[13].ok
      BY <2>1, <2>15
    <3>3. R[1] /\ R[2] /\ R[3] /\ R[4] /\ R[5] /\ R[6] /\ R[7] /\ R[8] /\ R[9] /\ ~R[10]
      BY <1>0, <1>1, <2>1, <2>15, <3>2
    <3>4. 10 \in StepsOf(class) /\ step(10)
      BY <3>1, <3>3 DEF StepsOf
    <3>5. QED
      BY <3>1, <3>4 DEF Classes
  <2>16. QED
    BY <2>2, <2>3, <2>4, <2>5, <2>6, <2>7, <2>8, <2>9, <2>10, <2>11, <2>12, <2>13, <2>14, <2>15
<1>6. QED
  BY <1>4, <1>5

\* What is reported of a response with nothing worse than its clock.
Deviations(r, warnings, skew) ==
    (\A k \in 1 .. 9 : ReadmeSteps(r)[k]) =>
        /\ ("grantedWithMods" \in warnings) = (r.pki # "granted")
        /\ ("noESS" \in warnings) = (Deciding(r) = <<"absent">>)
        /\ "nonMinimalGenTime" \in warnings => ~StrictDER(r.time)
        /\ OnlyZeros(r.time) /\ ~StrictDER(r.time) => "nonMinimalGenTime" \in warnings
        /\ (skew = 0) = (r.gen \in 0 .. r.took)

\* Verify reports these three deviations and no other.
LEMMA VerdictReports ==
    ASSUME verifier \in Verifiers, NEW r \in ResponseFacts, NEW e \in VerifyWithOpts(r)
    PROVE  Deviations(r, Verify(verifier, r, e).warnings, Verify(verifier, r, e).skew)
<1> DEFINE C == Checks(verifier, r, e)
           R == ReadmeSteps(r)
           V == Verify(verifier, r, e)
<1> SUFFICES ASSUME \A k \in 1 .. 9 : R[k]
             PROVE  /\ ("grantedWithMods" \in V.warnings) = (r.pki # "granted")
                    /\ ("noESS" \in V.warnings) = (Deciding(r) = <<"absent">>)
                    /\ "nonMinimalGenTime" \in V.warnings => ~StrictDER(r.time)
                    /\ OnlyZeros(r.time) /\ ~StrictDER(r.time) => "nonMinimalGenTime" \in V.warnings
                    /\ (V.skew = 0) = (r.gen \in 0 .. r.took)
  BY Zenon DEF Deviations
<1>1. R[1] /\ R[2] /\ R[3] /\ R[4] /\ R[5] /\ R[6] /\ R[7] /\ R[8] /\ R[9]
  OBVIOUS
<1>2. /\ R[1] <=> C[1].ok
      /\ R[2] <=> C[2].ok
      /\ R[3] <=> C[3].ok /\ C[4].ok
      /\ R[4] <=> C[5].ok /\ C[6].ok
      /\ R[5] <=> C[7].ok
      /\ R[6] <=> C[8].ok
      /\ R[7] <=> C[9].ok
      /\ R[8] => C[10].ok /\ C[11].ok /\ r.sig /\ Deciding(r) # <<"unreadable">>
      /\ R[9] <=> C[13].ok /\ r.chain
      /\ C[12].ok <=> r.sig /\ r.chain
  BY StepsAreChecks
<1>3. (\A k \in 1 .. 13 : C[k].ok) => V.warnings = Warnings(r) /\ V.skew = Skew(r)
  BY VerifyReturns
<1>4. V.warnings = Warnings(r) /\ V.skew = Skew(r)
  <2> HIDE DEF C, R, V
  <2>1. /\ C[1].ok /\ C[2].ok /\ C[3].ok /\ C[4].ok /\ C[5].ok /\ C[6].ok /\ C[7].ok
        /\ C[8].ok /\ C[9].ok /\ C[10].ok /\ C[11].ok /\ C[12].ok /\ C[13].ok
    BY <1>1, <1>2, Zenon
  <2>2. \A k \in 1 .. 13 : C[k].ok
    BY <2>1
  <2>3. QED
    BY <1>3, <2>2
<1>5. r.pki \in {"granted", "grantedWithMods"}
  <2>1. R[3] = (r.pki = "granted" \/ r.pki = "grantedWithMods")
    BY DEF ReadmeSteps
  <2>2. QED
    BY <1>1, <2>1
<1>6. CheckESSBinding(r).present <=> Deciding(r) # <<"absent">>
  <2>1. Deciding(r) # <<"unreadable">>
    BY <1>1, <1>2
  <2>2. CheckESSBinding(r).present <=> Readable(r.v2) \/ Readable(r.v1)
    BY DEF CheckESSBinding
  <2>3. QED
    BY <2>1, <2>2 DEF Deciding, Readable
<1>7. /\ NonMinimal(r.time) => ~StrictDER(r.time)
      /\ OnlyZeros(r.time) /\ ~StrictDER(r.time) => NonMinimal(r.time)
  <2>1. R[4] = (r.token /\ r.parse = "ok" /\ r.time.tag = "GeneralizedTime" /\ r.time.zone # "none")
    BY DEF ReadmeSteps
  <2>2. /\ r.time.sep \in {"none", ".", ","} /\ r.time.zone \in {"Z", "+0530", "+0000", "none"}
        /\ r.time.digits \in {"minimal", "trailingZero", "overlong"}
    BY DEF ResponseFacts, GenTimes
  <2>3. QED
    BY <1>1, <2>1, <2>2 DEF NonMinimal, StrictDER, OnlyZeros
<1>8. r.gen \in Int /\ r.took \in Nat
  BY DEF ResponseFacts
<1>9. Skew(r) = 0 <=> r.gen \in 0 .. r.took
  BY <1>8 DEF Skew
<1>10. /\ "grantedWithMods" \in Warnings(r) <=> r.pki # "granted"
       /\ "noESS" \in Warnings(r) <=> Deciding(r) = <<"absent">>
       /\ "nonMinimalGenTime" \in Warnings(r) <=> NonMinimal(r.time)
  BY <1>5, <1>6 DEF Warnings
<1> HIDE DEF V
<1>11. QED
  BY <1>4, <1>7, <1>9, <1>10

\* Classify always finds a class, blames us for nothing but a cancellation,
\* and calls a timeout unsent only when nothing was written.
LEMMA Classified ==
    ASSUME NEW e, NEW w \in BOOLEAN
    PROVE  /\ Classify(e, w) \in Classes \ {"ok"}
           /\ Classify(e, w) = "cancelled" <=> "cancelled" \in e
           /\ Classify(e, w) = "request_timeout" => ~w
  BY DEF Classify, Classes

-----------------------------------------------------------------------------
(* The attempt.                                                            *)

Verdicts == [class : Classes \cup {"none"}, sub : SubCategories, warnings : SUBSET Leniencies, skew : Nat, http : Nat]

\* The response is there from its arrival on, and an error only at the end.
Progress ==
    /\ pc \in {"build", "draw", "post"} => resp = NoResponse
    /\ pc \in {"body", "verify"} => resp \in ResponseFacts
    /\ pc \notin {"file", "filed"} => err = {} /\ a.http = 0

\* A response that was verified has the verdict it deserves.
Judged ==
    pc \in {"file", "filed"} =>
        \/ resp = NoResponse \/ err # {}
        \/ /\ resp \in ResponseFacts
           /\ Deciding(resp) # <<"unreadable">> => FirstFailure(resp, a.class)
           /\ Deviations(resp, a.warnings, a.skew)

\* A class of our own making is a cancellation, and that of the run.
Blamed ==
    /\ pc \in {"file", "filed"} => /\ a.class = "cancelled" <=> "cancelled" \in err
                                   /\ a.class = "cancelled" => reqCancelled
    /\ pc = "filed" => fed = ~SelfInflicted

\* The flag is up once a timestamp request is out, and stays up.
FlagCovers ==
    /\ everPosted => wroteRequest
    /\ pc \in {"file", "filed"} /\ a.class = "request_timeout" => ~everPosted

\* The inductive strengthening.
AttemptInv ==
    /\ verifier \in Verifiers /\ a \in Verdicts
    /\ TypeOK /\ Progress /\ Judged /\ Blamed /\ FlagCovers

\* An attempt that ends before it is verified.
LEMMA Ended ==
    ASSUME AttemptInv, pc \notin {"file", "filed"},
           NEW class \in Classes, NEW status \in {0, resp.http}, EndWith(class, status),
           wroteRequest' \in BOOLEAN, wroteRequest => wroteRequest',
           class = "request_timeout" => ~wroteRequest',
           class = "cancelled" <=> "cancelled" \in err',
           class = "cancelled" => reqCancelled,
           err' # {} \/ resp = NoResponse
    PROVE  AttemptInv'
<1>0. /\ UNCHANGED <<mode, verifier, conn, retried, resp, fed, reqCancelled, posted, everPosted>>
      /\ pc' = "file" /\ a' = [a EXCEPT !.class = class, !.http = status]
  BY DEF EndWith
<1>1. status \in Nat
  BY DEF AttemptInv, Progress, TypeOK, NoResponse, ResponseFacts
<1>2. a \in Verdicts
  BY DEF AttemptInv
<1>3. a' \in Verdicts /\ a'.class = class /\ a'.http = status
  BY <1>0, <1>1, <1>2 DEF Verdicts
<1>4. TypeOK'
  BY <1>0, <1>3 DEF AttemptInv, TypeOK, Verdicts
<1>5. Progress' /\ Judged'
  BY <1>0 DEF Progress, Judged
<1>6. Blamed'
  BY <1>0, <1>3 DEF Blamed
<1>7. FlagCovers'
  BY <1>0, <1>3 DEF AttemptInv, TypeOK, FlagCovers
<1>8. QED
  BY <1>0, <1>3, <1>4, <1>5, <1>6, <1>7 DEF AttemptInv

\* An exchange that fails, or the reading of its answer.
LEMMA FailedStep ==
    ASSUME AttemptInv, NEW e, e # {}, "cancelled" \in e => reqCancelled,
           FailWith(e) \/ FailBodyWith(e)
    PROVE  AttemptInv'
<1>0. wroteRequest \in BOOLEAN
  BY DEF AttemptInv, TypeOK
<1>1. CASE FailWith(e)
  <2>1. PICK w \in {wroteRequest} \cup (IF conn = "write" THEN {TRUE} ELSE {}) :
           wroteRequest' = w /\ EndWith(Classify(e, w), 0)
    BY <1>1 DEF FailWith
  <2>2. w \in BOOLEAN /\ (wroteRequest => w)
    BY <1>0
  <2>3. pc \notin {"file", "filed"} /\ err' = e
    BY <1>1 DEF FailWith
  <2>4. /\ Classify(e, w) \in Classes /\ (Classify(e, w) = "cancelled" <=> "cancelled" \in e)
        /\ Classify(e, w) = "request_timeout" => ~w
    BY <2>2, Classified
  <2>5. QED
    BY <2>1, <2>2, <2>3, <2>4, Ended
<1>2. CASE FailBodyWith(e)
  <2>1. /\ pc \notin {"file", "filed"} /\ err' = e /\ wroteRequest' = wroteRequest
        /\ EndWith(Classify(e, TRUE), resp.http)
    BY <1>2 DEF FailBodyWith
  <2>2. /\ Classify(e, TRUE) \in Classes /\ (Classify(e, TRUE) = "cancelled" <=> "cancelled" \in e)
        /\ Classify(e, TRUE) # "request_timeout"
    BY Classified
  <2>3. QED
    BY <1>0, <2>1, <2>2, Ended
<1>3. QED
  BY <1>1, <1>2

\* A failure of the network is nobody's cancellation.
LEMMA TransportFailure ==
    ASSUME AttemptInv, Fail \/ FailBody \/ Deadline \/ Cancelled
    PROVE  AttemptInv'
<1>1. CASE Fail
  <2>1. PICK e \in TransportErrors : FailWith(e)
    BY <1>1 DEF Fail
  <2>2. e # {} /\ "cancelled" \notin e
    <3>1. conn \in {"dial", "write", "wait"}
      BY DEF AttemptInv, TypeOK
    <3>2. QED
      BY <2>1, <3>1 DEF TransportErrors
  <2>3. QED
    BY <2>1, <2>2, FailedStep
<1>2. CASE FailBody
  <2>1. PICK e \in {{"unexpectedEOF"}, {"op"}} : FailBodyWith(e)
    BY <1>2 DEF FailBody
  <2>2. e # {} /\ "cancelled" \notin e
    BY <2>1
  <2>3. QED
    BY <2>1, <2>2, FailedStep
<1>3. CASE Deadline
  <2>1. PICK e \in {{"url", "timeout"}, {"timeout"}} : FailWith(e) \/ FailBodyWith(e)
    BY <1>3 DEF Deadline
  <2>2. e # {} /\ "cancelled" \notin e
    BY <2>1
  <2>3. QED
    BY <2>1, <2>2, FailedStep
<1>4. CASE Cancelled
  <2>1. PICK e \in {{"url", "cancelled"}, {"cancelled"}} : FailWith(e) \/ FailBodyWith(e)
    BY <1>4 DEF Cancelled
  <2>2. e # {} /\ reqCancelled
    BY <1>4, <2>1 DEF Cancelled
  <2>3. QED
    BY <2>1, <2>2, FailedStep
<1>5. QED
  BY <1>1, <1>2, <1>3, <1>4

\* An attempt that ends on an answer of its own, no transport error.
LEMMA EndedByAnswer ==
    ASSUME AttemptInv, pc \in {"build", "draw", "post"},
           EndWith("unknown_error", 0) \/ EndWith("http_4xx", 0), UNCHANGED <<wroteRequest, err>>
    PROVE  AttemptInv'
<1>1. resp = NoResponse /\ err = {} /\ wroteRequest \in BOOLEAN /\ pc \notin {"file", "filed"}
  BY DEF AttemptInv, Progress, TypeOK
<1>2. PICK class \in {"unknown_error", "http_4xx"} : EndWith(class, 0)
  OBVIOUS
<1>3. class \in Classes /\ class # "request_timeout" /\ class # "cancelled"
  BY DEF Classes
<1>4. QED
  BY <1>1, <1>2, <1>3, Ended

\* A body cut off is a response all the same.
LEMMA CutOff ==
    ASSUME NEW r \in ResponseFacts
    PROVE  [r EXCEPT !.pki = "unreadable"] \in ResponseFacts
<1> DEFINE Types == {"reply", "replyWithParameters", "none", "unparsable", "other"}
           Usages == [known : Seq(STRING), unknown : Nat, critical : BOOLEAN]
           Names == Seq(STRING)
           Strings == STRING
           Bools == BOOLEAN
           Nats == Nat
           Ints == Int
           unreadable == "unreadable"
           Facts == [http : Nats, ctype : Types, oversized : Bools, pki : PKIStatuses, failInfo : Names,
                     token : Bools, parse : Strings, time : GenTimes, gen : Ints, took : Nats,
                     nonce : Strings, imprint : Strings, certs : Bools, signers : Nats,
                     v2 : ESSAttributes, v1 : ESSAttributes, sig : Bools, chain : Bools,
                     eku : Usages]
<1>1. ResponseFacts = Facts
  BY Zenon DEF ResponseFacts
<1>2. unreadable \in PKIStatuses
  BY DEF PKIStatuses
<1> HIDE DEF Types, Usages, Names, Strings, Bools, Nats, Ints, unreadable
<1>3. r \in Facts => [r EXCEPT !.pki = unreadable] \in Facts
  BY <1>2
<1>4. QED
  BY <1>1, <1>3, Zenon DEF unreadable

\* A request on its way: dialled, written, answered with a challenge or read.
LEMMA OnItsWay ==
    ASSUME AttemptInv, Build \/ Dial \/ Write \/ DrawAnswered \/ StaleAnswered \/ Answered \/ ReadBody
                       \/ CancelRequests
    PROVE  AttemptInv'
<1>1. CASE EndWith("unknown_error", 0) \/ EndWith("http_4xx", 0)
  <2>1. UNCHANGED <<wroteRequest, err>> /\ pc \in {"build", "draw", "post"}
    BY <1>1 DEF EndWith, Build, Dial, Write, DrawAnswered, StaleAnswered, Answered, ReadBody,
         CancelRequests, Open
  <2>2. QED
    BY <1>1, <2>1, EndedByAnswer
<1>2. CASE ~(EndWith("unknown_error", 0) \/ EndWith("http_4xx", 0))
  <2>0. Classify({"other"}, wroteRequest) = "unknown_error"
    BY DEF Classify
  <2>1. /\ UNCHANGED <<verifier, a, fed, err>> /\ pc \notin {"file", "filed"}
        /\ pc' \in {"draw", "post", "body", "verify", pc}
        /\ conn' \in {"dial", "write", "wait"}
        /\ retried' \in BOOLEAN /\ posted' \in BOOLEAN /\ reqCancelled' \in BOOLEAN
    BY <1>2, <2>0 DEF AttemptInv, TypeOK, Build, Dial, Write, DrawAnswered, StaleAnswered, Answered,
         ReadBody, CancelRequests, Open
  <2>2. /\ wroteRequest' \in BOOLEAN /\ everPosted' \in BOOLEAN /\ (everPosted' => wroteRequest')
    <3>1. wroteRequest \in BOOLEAN /\ everPosted \in BOOLEAN /\ (everPosted => wroteRequest)
      BY DEF AttemptInv, TypeOK, FlagCovers
    <3>2. CASE Write
      <4>1. wroteRequest' = TRUE /\ everPosted' \in BOOLEAN
        BY <3>1, <3>2 DEF Write
      <4>2. QED
        BY <4>1
    <3>3. CASE ~Write
      <4>1. UNCHANGED <<wroteRequest, everPosted>>
        BY <1>2, <2>0, <3>3 DEF Build, Dial, DrawAnswered, StaleAnswered, Answered, ReadBody,
             CancelRequests, Open
      <4>2. QED
        BY <3>1, <4>1
    <3>4. QED
      BY <3>2, <3>3
  <2>3. \/ pc' \in {"build", "draw", "post"} /\ resp' = NoResponse
        \/ pc' \in {"body", "verify"} /\ resp' \in ResponseFacts
    <3>1. CASE Answered
      BY <3>1, AttemptAssumption DEF Answered
    <3>2. CASE ReadBody
      <4>1. resp \in ResponseFacts /\ pc' = "verify"
        BY <3>2 DEF ReadBody, AttemptInv, Progress
      <4>2. [resp EXCEPT !.pki = "unreadable"] \in ResponseFacts
        BY <4>1, CutOff
      <4>3. QED
        BY <3>2, <4>1, <4>2 DEF ReadBody
    <3>3. CASE ~(Answered \/ ReadBody)
      <4>1. resp' = resp
        BY <1>2, <3>3 DEF Build, Dial, Write, DrawAnswered, StaleAnswered, CancelRequests, EndWith
      <4>2. \/ pc' = pc
            \/ pc \in {"build", "draw", "post"} /\ pc' \in {"draw", "post"}
        BY <1>2, <2>0, <3>3 DEF Build, Dial, Write, DrawAnswered, StaleAnswered, CancelRequests, Open
      <4>3. QED
        BY <2>1, <4>1, <4>2 DEF AttemptInv, Progress, TypeOK
    <3>4. QED
      BY <3>1, <3>2, <3>3
  <2>4. pc' \notin {"file", "filed"}
    BY <2>3
  <2>5. TypeOK'
    <3>1. a.class = "none" /\ a \in Verdicts /\ a.http = 0
      BY <2>1 DEF AttemptInv, TypeOK, Progress
    <3>2. a.sub \in SubCategories /\ a.warnings \subseteq Leniencies /\ a.skew \in Nat
      BY <3>1 DEF Verdicts
    <3>3. fed \in BOOLEAN
      BY DEF AttemptInv, TypeOK
    <3>4. pc' \in {"build", "draw", "post", "body", "verify"}
      BY <2>3
    <3>5. QED
      BY <2>1, <2>2, <3>1, <3>2, <3>3, <3>4 DEF TypeOK
  <2>6. QED
    <3>1. a.http = 0 /\ err = {} /\ a \in Verdicts /\ verifier \in Verifiers
      BY <2>1 DEF AttemptInv, Progress
    <3>2. Progress'
      BY <2>1, <2>3, <3>1 DEF Progress
    <3>3. Judged' /\ Blamed' /\ FlagCovers'
      BY <2>2, <2>4 DEF Judged, Blamed, FlagCovers
    <3>4. QED
      BY <2>1, <2>5, <3>1, <3>2, <3>3 DEF AttemptInv
<1>3. QED
  BY <1>1, <1>2

\* The verifier's settings are those of the run, so a verdict stands.
LEMMA VerdictStands ==
    ASSUME verifier' = verifier, resp' = resp
    PROVE  /\ FirstFailure(resp, a.class)' <=> FirstFailure(resp, a'.class)
           /\ Deviations(resp, a.warnings, a.skew)' <=> Deviations(resp, a'.warnings, a'.skew)
<1>1. Bound(resp)' = Bound(resp)
  BY DEF Bound, Deciding
<1>2. ReadmeSteps(resp)' = ReadmeSteps(resp)
  BY <1>1 DEF ReadmeSteps
<1>3. QED
  BY <1>1, <1>2 DEF FirstFailure, Deviations, Deciding

\* The response is verified.
LEMMA VerifyStep ==
    ASSUME AttemptInv, VerifyResponse
    PROVE  AttemptInv'
<1>0. /\ verifier \in Verifiers /\ resp \in ResponseFacts /\ err = {} /\ pc = "verify" /\ pc' = "file"
      /\ UNCHANGED <<mode, verifier, conn, wroteRequest, retried, resp, fed, reqCancelled, posted,
                     everPosted, err>>
  BY DEF AttemptInv, Progress, VerifyResponse
<1>1. PICK p7err \in VerifyWithOpts(resp) :
         a' = [class |-> Verify(verifier, resp, p7err).class, sub |-> Verify(verifier, resp, p7err).sub,
               warnings |-> Verify(verifier, resp, p7err).warnings,
               skew |-> Verify(verifier, resp, p7err).skew, http |-> resp.http]
  BY DEF VerifyResponse
<1> DEFINE v == Verify(verifier, resp, p7err)
<1>2. /\ Deciding(resp) # <<"unreadable">> => FirstFailure(resp, v.class)
      /\ v.class \in Classes \ {"cancelled", "request_timeout"}
  BY <1>0, VerdictIsFirst, VerdictClass
<1>3. Deviations(resp, v.warnings, v.skew)
  BY <1>0, VerdictReports
<1>4. /\ v.sub \in {<< >>, SubCategory(resp), <<resp.http>>} /\ v.warnings \in {{}, Warnings(resp)}
      /\ v.skew \in {0, Skew(resp)}
  BY VerifyReturns
<1>5. resp.http \in Nat /\ resp.gen \in Int /\ resp.took \in Nat /\ resp.pki \in PKIStatuses
      /\ resp.failInfo \in Seq(STRING)
  BY <1>0 DEF ResponseFacts
<1>6. {<< >>, SubCategory(resp), <<resp.http>>} \subseteq SubCategories
  <2>1. << >> \in Seq(STRING)
    OBVIOUS
  <2>2. <<resp.pki>> \in {<<s>> : s \in PKIStatuses}
    BY <1>5
  <2>3. <<resp.http>> \in {<<n>> : n \in Nat}
    BY <1>5
  <2>4. QED
    BY <1>5, <2>1, <2>2, <2>3 DEF SubCategory, SubCategories
<1>7. Warnings(resp) \subseteq Leniencies /\ Skew(resp) \in Nat
  <2>1. Warnings(resp) \subseteq Leniencies
    BY DEF Warnings, Leniencies
  <2>2. Skew(resp) \in Nat
    BY <1>5 DEF Skew
  <2>3. QED
    BY <2>1, <2>2
<1> HIDE DEF v
<1>8. /\ a' = [class |-> v.class, sub |-> v.sub, warnings |-> v.warnings, skew |-> v.skew,
               http |-> resp.http]
      /\ a'.class = v.class /\ a'.sub = v.sub /\ a'.warnings = v.warnings /\ a'.skew = v.skew
      /\ a'.http = resp.http
  BY <1>1 DEF v
<1>9. v.sub \in SubCategories /\ v.warnings \subseteq Leniencies /\ v.skew \in Nat
  BY <1>4, <1>6, <1>7
<1>10. a' \in Verdicts
  BY <1>2, <1>5, <1>8, <1>9 DEF Verdicts
<1>11. TypeOK'
  BY <1>0, <1>2, <1>8, <1>9 DEF AttemptInv, TypeOK
<1>12. Judged'
  BY <1>0, <1>2, <1>3, <1>8, VerdictStands DEF Judged
<1>13. Progress' /\ Blamed' /\ FlagCovers'
  BY <1>0, <1>2, <1>8 DEF AttemptInv, Progress, Blamed, FlagCovers
<1>14. QED
  BY <1>0, <1>10, <1>11, <1>12, <1>13 DEF AttemptInv

\* The attempt is filed, or the run is over.
LEMMA FileStep ==
    ASSUME AttemptInv, File \/ UNCHANGED vars
    PROVE  AttemptInv'
<1>1. CASE File
  <2>1. /\ pc = "file" /\ pc' = "filed" /\ fed' = ~SelfInflicted
        /\ UNCHANGED <<mode, verifier, conn, wroteRequest, retried, resp, a, reqCancelled, posted,
                       everPosted, err>>
    BY <1>1 DEF File
  <2>2. fed' \in BOOLEAN /\ SelfInflicted' = SelfInflicted
    BY <2>1 DEF SelfInflicted
  <2>3. TypeOK' /\ Progress'
    BY <2>1, <2>2 DEF AttemptInv, TypeOK, Progress
  <2>4. Judged'
    BY <2>1, VerdictStands DEF AttemptInv, Judged
  <2>5. Blamed' /\ FlagCovers'
    BY <2>1, <2>2 DEF AttemptInv, Blamed, FlagCovers
  <2>6. QED
    BY <2>1, <2>3, <2>4, <2>5 DEF AttemptInv
<1>2. CASE UNCHANGED vars
  <2>1. UNCHANGED <<pc, conn, wroteRequest, retried, resp, a, fed, reqCancelled, posted, everPosted,
                    err, verifier>>
    BY <1>2 DEF vars
  <2>2. Judged'
    BY <2>1, VerdictStands DEF AttemptInv, Judged
  <2>3. TypeOK' /\ Progress' /\ Blamed' /\ FlagCovers'
    BY <2>1 DEF AttemptInv, TypeOK, Progress, Blamed, FlagCovers, SelfInflicted
  <2>4. QED
    BY <2>1, <2>2, <2>3 DEF AttemptInv
<1>3. QED
  BY <1>1, <1>2

-----------------------------------------------------------------------------
\* The strengthened invariant holds throughout an attempt.
THEOREM AttemptInvariant == Spec => []AttemptInv
<1>1. Init => AttemptInv
  <2> SUFFICES ASSUME Init PROVE AttemptInv
    OBVIOUS
  <2>1. /\ a = [class |-> "none", sub |-> << >>, warnings |-> {}, skew |-> 0, http |-> 0]
        /\ pc = "build" /\ resp = NoResponse /\ err = {} /\ verifier \in Verifiers
    BY DEF Init
  <2>2. a.class = "none" /\ a.sub = << >> /\ a.warnings = {} /\ a.skew = 0 /\ a.http = 0
    BY <2>1
  <2>3. << >> \in SubCategories
    BY DEF SubCategories
  <2>4. a \in Verdicts
    BY <2>1, <2>3 DEF Verdicts
  <2>5. TypeOK
    <3>1. conn \in {"dial", "write", "wait"} /\ a.warnings \subseteq Leniencies /\ a.skew \in Nat
      BY <2>2 DEF Init
    <3>2. \A b \in {wroteRequest, retried, fed, reqCancelled, posted, everPosted} : b \in BOOLEAN
      BY DEF Init
    <3>3. QED
      BY <2>1, <2>2, <2>3, <3>1, <3>2 DEF TypeOK
  <2>6. Progress /\ Judged /\ Blamed /\ FlagCovers
    BY <2>1, <2>2 DEF Init, Progress, Judged, Blamed, FlagCovers
  <2>7. QED
    BY <2>1, <2>4, <2>5, <2>6 DEF AttemptInv
<1>2. AttemptInv /\ [Next]_vars => AttemptInv'
  BY TransportFailure, OnItsWay, VerifyStep, FileStep DEF Next
<1>3. QED
  BY <1>1, <1>2, PTL DEF Spec

\* Every attempt is of its type: filed under one of the classes, with a status
\* only if it was answered.
THEOREM AttemptTypeOK == Spec => []TypeOK
<1>1. AttemptInv => TypeOK
  BY DEF AttemptInv
<1>2. QED
  BY <1>1, AttemptInvariant, PTL

\* Every response whose deciding ESS attribute, if it has one, can be read: it
\* succeeds exactly if it passes every step of the README's chain, and otherwise
\* has the class of the first step it fails, or of the chain where signature and
\* chain both fail.
THEOREM AttemptFirstFailure == Spec => []FirstFailureClassifies
<1>1. AttemptInv => FirstFailureClassifies
  BY DEF AttemptInv, Judged, FirstFailure, FirstFailureClassifies, Verified
<1>2. QED
  BY <1>1, AttemptInvariant, PTL

\* Every response that fails nothing before its clock: grantedWithMods and a missing
\* ESS attribute are reported if and only if they are there, so are zeros at the
\* end of a genTime that is DER but for them, a genTime in DER is never called
\* non-minimal, and the skew is zero exactly when genTime lies between send and
\* receipt.  A genTime that deviates from DER in another way is not covered.
THEOREM AttemptDeviations == Spec => []DeviationsReported
<1>1. AttemptInv => DeviationsReported
  BY DEF AttemptInv, Judged, Deviations, DeviationsReported, Verified
<1>2. QED
  BY <1>1, AttemptInvariant, PTL

\* The breaker is told of every attempt but those the run itself cancelled.
THEOREM AttemptBlame == Spec => []BlameIsOurs
<1>1. AttemptInv => BlameIsOurs
  BY DEF AttemptInv, Blamed, BlameIsOurs, SelfInflicted, CountsAgainstProvider, TypeOK, Classes
<1>2. QED
  BY <1>1, AttemptInvariant, PTL

\* request_timeout is never the class of an attempt whose timestamp request
\* went out.
THEOREM AttemptUnsent == Spec => []RequestTimeoutMeansUnsent
<1>1. AttemptInv => RequestTimeoutMeansUnsent
  BY DEF AttemptInv, FlagCovers, RequestTimeoutMeansUnsent
<1>2. QED
  BY <1>1, AttemptInvariant, PTL
=============================================================================
