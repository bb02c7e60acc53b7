------------------------------ MODULE MCAttempt -------------------------------
(* A perfect response and every one that deviates from it in at most two of  *)
(* its facts: enough for any two checks to compete for the class.  The skew  *)
(* limit of two ticks lies inside the range of genTime on both sides.        *)
EXTENDS Attempt

MCVerifiers == {[maxClockSkew |-> 2, requireESS |-> b] : b \in BOOLEAN}

Stamp(tag, sep, digits, zone) == [tag |-> tag, sep |-> sep, digits |-> digits, zone |-> zone]
Eku(known, unknown, critical) == [known |-> known, unknown |-> unknown, critical |-> critical]

Perfect ==
    [http |-> 200, ctype |-> "reply", oversized |-> FALSE, pki |-> "granted", failInfo |-> << >>,
     token |-> TRUE, parse |-> "ok", time |-> Stamp("GeneralizedTime", "none", "minimal", "Z"),
     gen |-> 0, took |-> 1, nonce |-> "echoed", imprint |-> "echoed", certs |-> TRUE,
     signers |-> 1, v2 |-> <<"signer">>, v1 |-> <<"absent">>, sig |-> TRUE, chain |-> TRUE,
     eku |-> Eku(<<"timeStamping">>, 0, TRUE)]

Alternatives ==
    [http |-> {302, 404, 500}, ctype |-> {"replyWithParameters", "none", "other"},
     oversized |-> {TRUE}, pki |-> {"grantedWithMods", "rejection", "waiting", "unreadable"},
     failInfo |-> {<<"systemFailure", "bit9">>}, token |-> {FALSE},
     parse |-> {"undecodable", "badCertificate", "badSignatureValue"},
     time |-> {Stamp("UTCTime", "none", "minimal", "Z"),
               Stamp("GeneralizedTime", ".", "minimal", "Z"),
               Stamp("GeneralizedTime", ".", "trailingZero", "Z"),
               Stamp("GeneralizedTime", ".", "overlong", "Z"),
               Stamp("GeneralizedTime", ",", "minimal", "Z"),
               Stamp("GeneralizedTime", "none", "minimal", "+0530"),
               Stamp("GeneralizedTime", "none", "minimal", "+0000"),
               Stamp("GeneralizedTime", "none", "minimal", "none")},
     gen |-> {-3, -2, 3, 4}, took |-> {2}, nonce |-> {"absent", "other"},
     imprint |-> {"otherAlgorithm", "otherValue"}, certs |-> {FALSE}, signers |-> {0, 2},
     v2 |-> {<<"absent">>, <<"unreadable">>, << >>, <<"other">>, <<"other", "signer">>,
             <<"undecodable", "signer">>},
     v1 |-> {<<"signer">>, <<"other">>}, sig |-> {FALSE}, chain |-> {FALSE},
     eku |-> {Eku(<< >>, 0, FALSE), Eku(<<"timeStamping">>, 1, TRUE),
              Eku(<<"timeStamping", "codeSigning">>, 0, TRUE), Eku(<<"timeStamping">>, 0, FALSE)}]

One == UNION {{[Perfect EXCEPT ![f] = x] : x \in Alternatives[f]} : f \in DOMAIN Perfect}

MCResponses ==
    {Perfect} \cup One
    \cup UNION {{[r EXCEPT ![f] = x] : r \in One, x \in Alternatives[f]} : f \in DOMAIN Perfect}
=============================================================================
