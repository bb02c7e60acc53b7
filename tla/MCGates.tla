-------------------------------- MODULE MCGates -------------------------------
(* Every setting of the configuration takes each of its values, alone; those *)
(* that interact (endpoint and plaintext, authentication and certificate     *)
(* files, hard cap and max_requests) together.  Profiles are below, at and   *)
(* above the limits, and past what an int64, here -16 .. 15, can count.      *)
EXTENDS Gates

Endpoint(scheme, host) == [parses |-> TRUE, scheme |-> scheme, host |-> host, user |-> FALSE]

\* Default() with the settings that have no default.
Good ==
    [name |-> "p", endpoint |-> Endpoint("https", "remote"), allowPlaintext |-> FALSE,
     environment |-> "test", auth |-> "none", challengePerRequest |-> FALSE,
     credentials |-> "set", headers |-> {}, tlsFiles |-> {"tsaCA"},
     insecureSkipVerify |-> FALSE, minVersion |-> "1.2", hash |-> "sha256",
     payloadSize |-> 64, timeout |-> 10, maxClockSkew |-> 60, certReq |-> "absent",
     policyOID |-> "", maxConcurrency |-> 500, stagePause |-> 10, gracePeriod |-> 30,
     lagThreshold |-> 1, hardCap |-> DefaultHardCap, maxRequests |-> 0, retries |-> 0,
     abortOnErrorPercent |-> 25, abortWindow |-> 200, directory |-> "results"]

Settings ==
    { [Good EXCEPT !.name = ""], [Good EXCEPT !.endpoint.parses = FALSE],
      [Good EXCEPT !.endpoint.user = TRUE], [Good EXCEPT !.endpoint.host = ""],
      [Good EXCEPT !.endpoint.scheme = "ftp"], [Good EXCEPT !.insecureSkipVerify = TRUE],
      [Good EXCEPT !.minVersion = ""], [Good EXCEPT !.minVersion = "1.1"],
      [Good EXCEPT !.hash = "sha1"], [Good EXCEPT !.hash = ""],
      [Good EXCEPT !.retries = 1], [Good EXCEPT !.certReq = "false"],
      [Good EXCEPT !.directory = ""], [Good EXCEPT !.directory = " "] }
    \cup { [Good EXCEPT !.environment = v] : v \in {"live", "", "prod"} }
    \cup { [Good EXCEPT !.payloadSize = v] : v \in {15, 16, 1048576, 1048577} }
    \cup { [Good EXCEPT !.timeout = v] : v \in {0, 1} }
    \cup { [Good EXCEPT !.maxClockSkew = v] : v \in {0, 1} }
    \cup { [Good EXCEPT !.policyOID = v] :
            v \in {"valid", "text", "arc overflows int", "arcs not encodable"} }
    \cup { [Good EXCEPT !.maxConcurrency = v] : v \in {0, 1, 20000, 20001} }
    \cup { [Good EXCEPT !.stagePause = v] : v \in {-1, 0} }
    \cup { [Good EXCEPT !.gracePeriod = v] : v \in {0, 1} }
    \cup { [Good EXCEPT !.lagThreshold = v] : v \in {0, 1} }
    \cup { [Good EXCEPT !.abortOnErrorPercent = v] : v \in {-1, 0, 100, 101} }
    \cup { [Good EXCEPT !.abortWindow = v] : v \in {9, 10} }

Endpoints ==
    { [Good EXCEPT !.endpoint = Endpoint(scheme, host), !.allowPlaintext = plain] :
        scheme \in {"http", "https"}, host \in {"remote", "loopback"}, plain \in BOOLEAN }

Auths ==
    { [Good EXCEPT !.auth = type, !.credentials = v, !.challengePerRequest = each] :
        type \in {"basic", "digest", "bearer"}, v \in {"set", "unset"}, each \in BOOLEAN }
    \cup { [Good EXCEPT !.auth = "header", !.headers = h] :
            h \in {{}, {"env:set"}, {"env:unset"}, {"literal"}, {"env:set", "${reference}"}} }
    \cup { [Good EXCEPT !.auth = type, !.tlsFiles = named] :
            type \in {"none", "mtls", "", "ntlm"},
            named \in {{}, {"ca"}, {"ca", "tsaCA"}, {"cert"}, {"cert", "key"}} }

Caps ==
    { [Good EXCEPT !.hardCap = h, !.maxRequests = m] :
        h \in {-1, 0, 1, 4, 6, 7}, m \in {-1, 0, 1, 3, 5} }

Doc(c) == [references |-> "set", decodes |-> TRUE, config |-> c]

Sequential(name, count) ==
    [name |-> name, mode |-> "sequential", count |-> count, tps |-> 0, duration |-> 0]
Rate(name, tps, duration) ==
    [name |-> name, mode |-> "rate", count |-> 0, tps |-> tps, duration |-> duration]
Plan(stages, reserve) ==
    [decodes |-> TRUE, name |-> "plan", stages |-> stages, reserve |-> reserve]

\* The last three ask for more than an int64 holds: in the sum of the stages,
\* with the reserve, and in the conversion of one rate.
FitPlans == { Plan(<<Sequential("a", 1), Rate("b", 2, 1)>>, 1), Plan(<<Sequential("a", 3)>>, 0),
              Plan(<<Sequential("a", 3)>>, 2), Plan(<<Rate("a", 1, 1)>>, 0),
              Plan(<<Rate("a", 1, 3), Sequential("b", 4)>>, 0),
              Plan(<<Sequential("a", 15), Sequential("b", 15)>>, 0),
              Plan(<<Sequential("a", 2)>>, 15),
              Plan(<<Rate("a", 8, 8), Sequential("b", 15)>>, 0) }
OddPlans == { Plan(<< >>, 0), Plan(<<Sequential("a", 0)>>, 0), Plan(<<Sequential("", 1)>>, 0),
              Plan(<<Sequential("a", 1), Sequential("a", 1)>>, 0),
              Plan(<<[Rate("a", 2, 1) EXCEPT !.count = 1]>>, 0), Plan(<<Rate("a", 0, 1)>>, 0),
              Plan(<<[Sequential("a", 1) EXCEPT !.tps = 1]>>, 0),
              Plan(<<[Sequential("a", 1) EXCEPT !.mode = "burst"]>>, 0),
              Plan(<<Sequential("a", 1)>>, -1),
              [Plan(<<Sequential("a", 1)>>, 0) EXCEPT !.decodes = FALSE],
              [Plan(<<Sequential("a", 1)>>, 0) EXCEPT !.name = ""] }

APlan == Plan(<<Sequential("a", 1), Rate("b", 2, 1)>>, 1)
Pem == [name \in FileNames |-> "pem"]
Input(d, plan, held) == [doc |-> d, profile |-> plan, files |-> held]

MCInputs ==
    { Input(Doc(c), APlan, Pem) : c \in Settings \cup Endpoints \cup Auths }
    \cup { Input(Doc(c), plan, Pem) : c \in Caps, plan \in FitPlans }
    \cup { Input(Doc(Good), plan, Pem) : plan \in OddPlans }
    \cup { Input(Doc([Good EXCEPT !.tlsFiles = {"ca", "tsaCA", "cert", "key"}]), APlan,
                 [Pem EXCEPT ![name] = held]) :
             name \in FileNames, held \in {"pem", "text", "missing"} }
    \cup { Input([Doc(Good) EXCEPT !.references = "unset"], APlan, Pem),
           Input([Doc(Good) EXCEPT !.decodes = FALSE], APlan, Pem) }

RunArgs == [cmd |-> "run", config |-> TRUE, profile |-> TRUE, maxRequests |-> 4,
            authorized |-> TRUE, ackLive |-> TRUE]

MCCommands ==
    [cmd : {"validate"}, config : BOOLEAN, profile : BOOLEAN]
    \cup [cmd : {"doctor"}, config : BOOLEAN, sendOne : BOOLEAN]
    \cup { [RunArgs EXCEPT !.maxRequests = n] : n \in {0, 2, 4, 6} }
    \cup { [RunArgs EXCEPT !.config = FALSE], [RunArgs EXCEPT !.profile = FALSE],
           [RunArgs EXCEPT !.authorized = FALSE], [RunArgs EXCEPT !.ackLive = FALSE] }
=============================================================================
