-------------------------------- MODULE Gates ---------------------------------
(***************************************************************************)
(* The gates before any traffic: config.Parse, Validate, Warnings and      *)
(* Budget, load.Profile's checks, and the commands validate, doctor and    *)
(* run up to the call of Runner.Run, as an operator meets them: a session  *)
(* of commands on one configuration and one profile, whose certificate     *)
(* files may be replaced at any moment, also under a running command.      *)
(*                                                                         *)
(* A setting is abstracted to what the checks tell apart; the arithmetic   *)
(* on planned requests keeps its width.  What the runner does is in Runner *)
(* and RunCommand: here it spends some part of its quota and ends.         *)
(***************************************************************************)
EXTENDS Integers, Sequences, FiniteSets

CONSTANTS
    Inputs,         \* records [doc, profile, files] an operator may have on disk
    Commands,       \* the command lines issued
    MaxCommands,    \* bound on the commands of a session
    MaxEdits,       \* bound on the files replaced
    DefaultHardCap, MaxConfigurableHardCap,
    Int64Max,       \* largest int64, scaled down
    TpsUnit         \* rates are multiples of 1/TpsUnit per second

FileNames == {"ca", "tsaCA", "cert", "key"}
Held == {"pem", "text", "missing"}

\* Config as decoded, and the document it comes from.
Configs ==
    [name : STRING, allowPlaintext : BOOLEAN, environment : STRING,
     endpoint : [parses : BOOLEAN, scheme : STRING, host : STRING, user : BOOLEAN],
     auth : STRING, challengePerRequest : BOOLEAN, credentials : {"set", "unset"},
     headers : SUBSET STRING, tlsFiles : SUBSET FileNames, insecureSkipVerify : BOOLEAN,
     minVersion : STRING, hash : STRING, payloadSize : Int, timeout : Int, maxClockSkew : Int,
     certReq : {"absent", "true", "false"}, policyOID : STRING, maxConcurrency : Int,
     stagePause : Int, gracePeriod : Int, lagThreshold : Int, hardCap : Int, maxRequests : Int,
     retries : Int, abortOnErrorPercent : Int, abortWindow : Int, directory : STRING]

Documents == [references : {"set", "unset"}, decodes : BOOLEAN, config : Configs]

Stages == [name : STRING, mode : STRING, count : Int, tps : Int, duration : Int]
Profiles == [decodes : BOOLEAN, name : STRING, stages : Seq(Stages), reserve : Int]

\* The command lines of validate, doctor and run.
CommandLines ==
    [cmd : {"validate"}, config : BOOLEAN, profile : BOOLEAN]
    \cup [cmd : {"doctor"}, config : BOOLEAN, sendOne : BOOLEAN]
    \cup [cmd : {"run"}, config : BOOLEAN, profile : BOOLEAN, maxRequests : Int,
          authorized : BOOLEAN, ackLive : BOOLEAN]

ASSUME GatesAssumption ==
    /\ Commands \subseteq CommandLines
    /\ Inputs \subseteq [doc : Documents, profile : Profiles, files : [FileNames -> Held]]
    /\ MaxCommands \in Nat /\ MaxEdits \in Nat /\ TpsUnit \in Nat \ {0}
    /\ DefaultHardCap \in 1 .. MaxConfigurableHardCap
    /\ MaxConfigurableHardCap \in 1 .. Int64Max /\ Int64Max \in Nat

VARIABLES
    doc, profile,    \* the configuration and the profile on disk
    files,           \* what each certificate file holds
    conversion,      \* what the build makes of a float too large for int64
    p,               \* the process
    refused, ready,  \* history: validate refused, doctor --send-one passed,
                     \* on the files as they are now
    stale,           \* history: a file was replaced under this process
    launched, edits

vars == <<doc, profile, files, conversion, p, refused, ready, stale, launched, edits>>

NoConfig == [hardCap |-> 0]

\* A process: its arguments and where it is; its Config, once parsed; the
\* warnings printed and the limitations reported; the roots its verifier was
\* given; whether it created a run directory and attempted a connection; the
\* timestamp requests sent and the tokens received; its exit status, and
\* where it ended.
Process(args) ==
    [args |-> args, pc |-> "flags", cfg |-> NoConfig, warned |-> {}, limited |-> {},
     trust |-> "none", dir |-> FALSE, touched |-> FALSE, sent |-> 0, tokens |-> 0,
     exit |-> -1, stoppedAt |-> "none"]

NoCommand == [cmd |-> "none"]

-----------------------------------------------------------------------------
(* Profiles.                                                               *)

\* What int64 additions make of a sum.
Wrap(n) == ((n + Int64Max + 1) % (2 * (Int64Max + 1))) - (Int64Max + 1)

\* Rates are converted from a float; too large a product is whatever the build makes of it.
Planned(s) ==
    IF s.mode = "sequential" THEN s.count
    ELSE LET n == (s.tps * s.duration) \div TpsUnit
         IN  IF n <= Int64Max THEN n ELSE conversion

\* What the stages ask for, however large: the requests each of them plans,
\* which in a profile that loads is at least one.
Demand(pr) == Cardinality(UNION {{i} \X (1 .. Planned(pr.stages[i])) : i \in DOMAIN pr.stages})

TotalPlanned(pr) == Wrap(Demand(pr))

StageValid(s) ==
    /\ s.name # ""
    /\ \/ s.mode = "sequential" /\ s.count >= 1 /\ s.tps = 0 /\ s.duration = 0
       \/ s.mode = "rate" /\ s.tps > 0 /\ s.duration > 0 /\ s.count = 0 /\ Planned(s) >= 1

\* LoadProfile: the file decodes and Profile.Validate accepts it.
ProfileLoads(pr) ==
    /\ pr.decodes /\ pr.name # ""
    /\ pr.stages # << >>
    /\ \A i, j \in DOMAIN pr.stages : i # j => pr.stages[i].name # pr.stages[j].name
    /\ \A i \in DOMAIN pr.stages : StageValid(pr.stages[i])
    /\ pr.reserve >= 0

\* Variant: the reserve is documentation only.
CheckAgainstQuotaNoReserve(pr, maxRequests, hardCap) ==
    TotalPlanned(pr) <= maxRequests /\ TotalPlanned(pr) <= hardCap

CheckAgainstQuota(pr, maxRequests, hardCap) ==
    /\ TotalPlanned(pr) <= maxRequests /\ TotalPlanned(pr) <= hardCap
    /\ pr.reserve > 0 => Wrap(TotalPlanned(pr) + pr.reserve) <= hardCap

-----------------------------------------------------------------------------
(* Configuration.                                                          *)

IsLoopbackHost(host) == host = "loopback"

EndpointValid(c) ==
    /\ c.endpoint.parses /\ c.endpoint.scheme \in {"http", "https"}
    /\ c.endpoint.host # "" /\ ~c.endpoint.user
    /\ c.endpoint.scheme = "http" => IsLoopbackHost(c.endpoint.host) \/ c.allowPlaintext

\* requireEnv accepts the names only if all are set and not empty.
AuthValid(c) ==
    \/ c.auth = "none"
    \/ c.auth = "basic" /\ c.credentials = "set" /\ ~c.challengePerRequest
    \/ c.auth \in {"digest", "bearer"} /\ c.credentials = "set"
    \/ c.auth = "header" /\ c.headers # {} /\ c.headers \subseteq {"env:set", "${reference}"}
    \/ c.auth = "mtls" /\ {"cert", "key"} \subseteq c.tlsFiles

\* os.Stat only: what a file holds is not looked at.
TLSValid(c, f) ==
    /\ \A name \in c.tlsFiles : f[name] # "missing"
    /\ "cert" \in c.tlsFiles <=> "key" \in c.tlsFiles
    /\ c.minVersion \in {"", "1.2", "1.3"}

HashByName(name) == name \in {"", "sha256", "sha384", "sha512"}

MaxPayloadSize == 1048576

RequestValid(c) ==
    /\ HashByName(c.hash) /\ c.payloadSize \in 16 .. MaxPayloadSize
    /\ c.timeout > 0 /\ c.maxClockSkew > 0 /\ c.certReq # "false"
    /\ c.policyOID \in {"", "valid", "arc overflows int", "arcs not encodable"}

LoadValid(c) ==
    /\ c.maxConcurrency \in 1 .. 20000 /\ c.stagePause >= 0
    /\ c.gracePeriod > 0 /\ c.lagThreshold > 0

LimitsValid(c) ==
    /\ c.hardCap \in 1 .. MaxConfigurableHardCap /\ c.maxRequests \in 0 .. c.hardCap
    /\ c.retries = 0 /\ c.abortOnErrorPercent \in 0 .. 100 /\ c.abortWindow >= 10

Validate(c, f) ==
    /\ c.name # "" /\ EndpointValid(c) /\ c.environment \in {"live", "test"}
    /\ AuthValid(c) /\ TLSValid(c, f) /\ RequestValid(c) /\ LoadValid(c) /\ LimitsValid(c)
    /\ c.directory # " "

ApplyDefaults(c) ==
    [c EXCEPT !.certReq = IF @ = "absent" THEN "true" ELSE @,
              !.hardCap = IF @ = 0 THEN DefaultHardCap ELSE @,
              !.minVersion = IF @ = "" THEN "1.2" ELSE @,
              !.directory = IF @ = "" THEN "results" ELSE @]

\* Parse: interpolation, decoding, defaults, validation.
Parses(d, f) == d.references = "set" /\ d.decodes /\ Validate(ApplyDefaults(d.config), f)

\* Variant: plaintext is warned about for a live target only.
WarningsLiveOnly(c) ==
    { w \in {"skip_verify", "allow_plaintext", "live", "tsa_ca_file"} :
        \/ w = "skip_verify" /\ c.insecureSkipVerify
        \/ w = "allow_plaintext" /\ c.allowPlaintext /\ c.environment = "live"
        \/ w = "live" /\ c.environment = "live"
        \/ w = "tsa_ca_file" /\ "tsaCA" \notin c.tlsFiles }

Warnings(c) ==
    { w \in {"skip_verify", "allow_plaintext", "live", "tsa_ca_file"} :
        \/ w = "skip_verify" /\ c.insecureSkipVerify
        \/ w = "allow_plaintext" /\ c.allowPlaintext /\ ~IsLoopbackHost(c.endpoint.host)
        \/ w = "live" /\ c.environment = "live"
        \/ w = "tsa_ca_file" /\ "tsaCA" \notin c.tlsFiles }

\* limitations: the warnings that carry one.
Limitations(c) == Warnings(c) \ {"live"}

\* What a run may spend; -1 stands for the error.
Budget(c, requested) ==
    IF requested <= 0 THEN (IF c.maxRequests > 0 THEN c.maxRequests ELSE c.hardCap)
    ELSE IF requested > c.hardCap \/ (c.maxRequests > 0 /\ requested > c.maxRequests) THEN -1
    ELSE requested

ResolveCredentials(c) ==
    /\ c.auth \in {"basic", "digest", "bearer"} => c.credentials = "set"
    /\ c.auth = "header" => c.headers \subseteq {"env:set"}

TSARoots(c) ==
    IF "tsaCA" \in c.tlsFiles THEN "tsaCA" ELSE IF "ca" \in c.tlsFiles THEN "ca" ELSE "system"

\* LoadCertPool finds a usable certificate; the system pool is taken to load.
RootsLoad(c, f) == TSARoots(c) # "system" => f[TSARoots(c)] = "pem"

\* NewVerifier and NewBuilder; parseOID refuses an arc that overflows int.
Verifiable(c, f) ==
    /\ RootsLoad(c, f) /\ c.maxClockSkew > 0
    /\ HashByName(c.hash) /\ c.payloadSize >= 16 /\ c.certReq = "true"
    /\ c.policyOID # "arc overflows int"

\* Build encodes the request: an arc out of range fails only here.
Builds(c) == c.policyOID # "arcs not encodable"

TLSConfig(c, f) ==
    /\ "ca" \in c.tlsFiles => f["ca"] = "pem"
    /\ "cert" \in c.tlsFiles => f["cert"] = "pem" /\ f["key"] = "pem"

-----------------------------------------------------------------------------
(* The commands.                                                           *)

Init ==
    /\ \E i \in Inputs : doc = i.doc /\ profile = i.profile /\ files = i.files
    /\ conversion \in {Int64Max, -Int64Max - 1}
    /\ p = [Process(NoCommand) EXCEPT !.pc = "exited"]
    /\ refused = FALSE /\ ready = FALSE /\ stale = FALSE /\ launched = 0 /\ edits = 0

\* The process goes on as q, at a label.
Goto(q, label) ==
    /\ p' = [q EXCEPT !.pc = label]
    /\ UNCHANGED <<doc, profile, files, conversion, refused, ready, stale, launched, edits>>

\* main: the process ends as q with this status.
Exit(q, code) ==
    /\ p' = [q EXCEPT !.pc = "exited", !.exit = code, !.stoppedAt = p.pc]
    /\ refused' = IF p.args.cmd = "validate" /\ p.args.config /\ p.args.profile /\ ~stale
                  THEN code # 0 ELSE refused
    /\ ready' = IF p.args.cmd = "doctor" /\ p.args.config /\ p.args.sendOne /\ ~stale
                THEN code = 0 ELSE ready
    /\ UNCHANGED <<doc, profile, files, conversion, stale, launched, edits>>

At(cmd, label) == p.args.cmd = cmd /\ p.pc = label

\* The gate at this label: on to the next, or the end with this status.
Gate(accepted, q, next, code) ==
    IF accepted THEN Goto(q, next) ELSE Exit(p, code)

Launch ==
    /\ p.pc = "exited" /\ launched < MaxCommands
    /\ \E args \in Commands : p' = Process(args)
    /\ launched' = launched + 1 /\ stale' = FALSE
    /\ UNCHANGED <<doc, profile, files, conversion, refused, ready, edits>>

\* The operator, or something else, replaces a certificate file.
EditFile ==
    /\ edits < MaxEdits
    /\ \E name \in doc.config.tlsFiles, held \in Held :
          files[name] # held /\ files' = [files EXCEPT ![name] = held]
    /\ edits' = edits + 1 /\ stale' = TRUE /\ refused' = FALSE /\ ready' = FALSE
    /\ UNCHANGED <<doc, profile, conversion, p, launched>>

\* The flags of validate and doctor.
ParseFlags ==
    /\ p.pc = "flags" /\ p.args.cmd \in {"validate", "doctor"}
    /\ Gate(p.args.config, p, "load", 2)

ParseRunFlags ==
    /\ At("run", "flags")
    /\ Gate(p.args.config /\ p.args.profile /\ p.args.maxRequests > 0 /\ p.args.authorized,
            p, "load", 2)

\* LoadFile, for every command.
LoadFile ==
    /\ p.pc = "load"
    /\ Gate(Parses(doc, files), [p EXCEPT !.cfg = ApplyDefaults(doc.config)],
            CASE p.args.cmd = "validate" -> "credentials"
              [] p.args.cmd = "doctor" -> "warn"
              [] p.args.cmd = "run" -> "inputs", 1)

ValidateCredentials ==
    /\ At("validate", "credentials")
    /\ Gate(ResolveCredentials(p.cfg), p, "profile", 1)

ValidateProfile ==
    /\ At("validate", "profile")
    /\ IF p.args.profile => /\ ProfileLoads(profile)
                            /\ CheckAgainstQuota(profile, Budget(p.cfg, 0), p.cfg.hardCap)
       THEN Exit([p EXCEPT !.warned = Warnings(p.cfg)], 0)
       ELSE Exit(p, 1)

DoctorWarn == At("doctor", "warn") /\ Goto([p EXCEPT !.warned = Warnings(p.cfg)], "dns")

\* The lookup, and the connection that is closed at once, may fail.
DoctorReach ==
    /\ p.args.cmd = "doctor" /\ p.pc \in {"dns", "tcp"}
    /\ \E ok \in BOOLEAN :
          IF ~ok THEN Exit([p EXCEPT !.touched = TRUE], 1)
          ELSE Goto([p EXCEPT !.touched = TRUE],
                    IF p.pc = "dns" THEN "tcp"
                    ELSE IF p.cfg.endpoint.scheme = "https" THEN "tls" ELSE "reached")

DoctorTLS ==
    /\ At("doctor", "tls")
    /\ \E ok \in BOOLEAN : Gate(ok /\ TLSConfig(p.cfg, files), p, "reached", 1)

\* Without --send-one this is all.
DoctorReached ==
    /\ At("doctor", "reached")
    /\ IF p.args.sendOne THEN Goto(p, "trust") ELSE Exit(p, 0)

DoctorTrust ==
    /\ At("doctor", "trust")
    /\ Gate(Verifiable(p.cfg, files), [p EXCEPT !.trust = TSARoots(p.cfg)], "client", 1)

\* Variant: doctor takes the credentials Validate has checked.
DoctorClientUnresolved ==
    /\ At("doctor", "client")
    /\ Gate(TLSConfig(p.cfg, files) /\ Builds(p.cfg), p, "prime", 1)

DoctorClient ==
    /\ At("doctor", "client")
    /\ Gate(TLSConfig(p.cfg, files) /\ ResolveCredentials(p.cfg) /\ Builds(p.cfg), p, "prime", 1)

SharedDigest(c) == c.auth = "digest" /\ ~c.challengePerRequest

\* Prime draws a challenge for the shared scheme only.
DoctorPrime ==
    /\ At("doctor", "prime")
    /\ \E ok \in BOOLEAN : Gate(ok \/ ~SharedDigest(p.cfg), p, "post", 1)

\* PostTimestamp, the answer and its verification: at most one request is
\* answered with a token, a stale challenge with a second request.
DoctorPost ==
    /\ At("doctor", "post")
    /\ \E sent \in 0 .. (IF SharedDigest(p.cfg) THEN 2 ELSE 1) : \E tokens \in 0 .. 1 :
          /\ tokens <= sent
          /\ \E code \in IF tokens = 1 THEN {0, 1} ELSE {1} :
                Exit([p EXCEPT !.sent = sent, !.tokens = tokens], code)

\* Variant: the acknowledgement of a live target is taken from the configuration.
LoadInputsUnacknowledged ==
    /\ At("run", "inputs")
    /\ LET budget == Budget(p.cfg, p.args.maxRequests) IN
       IF budget = -1 THEN Exit(p, 2)
       ELSE IF ~ProfileLoads(profile) THEN Exit(p, 1)
       ELSE Gate(CheckAgainstQuota(profile, budget, p.cfg.hardCap), p, "trust", 2)

\* The gates that need the configuration and the profile, in order.
LoadInputs ==
    /\ At("run", "inputs")
    /\ LET budget == Budget(p.cfg, p.args.maxRequests) IN
       IF (p.cfg.environment = "live" /\ ~p.args.ackLive) \/ budget = -1 THEN Exit(p, 2)
       ELSE IF ~ProfileLoads(profile) THEN Exit(p, 1)
       ELSE Gate(CheckAgainstQuota(profile, budget, p.cfg.hardCap), p, "trust", 2)

RunTrust ==
    /\ At("run", "trust")
    /\ Gate(Verifiable(p.cfg, files), [p EXCEPT !.trust = TSARoots(p.cfg)], "client", 1)

RunClient ==
    /\ At("run", "client")
    /\ Gate(TLSConfig(p.cfg, files) /\ ResolveCredentials(p.cfg), p, "output", 1)

\* NewWriter and the artifact store; a failure may leave a directory behind.
RunOutput ==
    /\ At("run", "output")
    /\ \/ Goto([p EXCEPT !.dir = TRUE], "banner")
       \/ \E dir \in BOOLEAN : Exit([p EXCEPT !.dir = dir], 1)

RunBanner == At("run", "banner") /\ Goto([p EXCEPT !.warned = Warnings(p.cfg)], "running")

\* NewQuota's clamp.
Quota == IF p.args.maxRequests < p.cfg.hardCap THEN p.args.maxRequests ELSE p.cfg.hardCap

\* Runner.Run issues up to its quota, none of it sent if no request can be
\* built; then the report, and the status RunCommand explains.  Every request
\* is taken to be answered with a token.
RunLoad ==
    /\ At("run", "running")
    /\ \E sent \in 0 .. Quota, code \in {0, 1, 3, 4, 130} :
          /\ sent <= Demand(profile) /\ (~Builds(p.cfg) => sent = 0)
          /\ Exit([p EXCEPT !.touched = TRUE, !.sent = sent, !.tokens = sent,
                           !.limited = Limitations(p.cfg)], code)

\* The operator has no more commands to give.
Rest == p.pc = "exited" /\ launched = MaxCommands /\ UNCHANGED vars

Next ==
    \/ Launch \/ EditFile \/ ParseFlags \/ ParseRunFlags \/ LoadFile
    \/ ValidateCredentials \/ ValidateProfile
    \/ DoctorWarn \/ DoctorReach \/ DoctorTLS \/ DoctorReached \/ DoctorTrust
    \/ DoctorClient \/ DoctorPrime \/ DoctorPost
    \/ LoadInputs \/ RunTrust \/ RunClient \/ RunOutput \/ RunBanner \/ RunLoad
    \/ Rest

Spec == Init /\ [][Next]_vars

-----------------------------------------------------------------------------
(* Properties.                                                             *)

Started == p.args.cmd = "run" /\ (p.pc \in {"output", "banner", "running"}
                                  \/ p.stoppedAt \in {"output", "running"})

\* Types; and a Config a command works from has a hard cap within the sanity
\* limit and a max_requests within the hard cap, whatever the document said.
TypeOK ==
    /\ p.pc \in {"flags", "load", "credentials", "profile", "warn", "dns", "tcp", "tls",
                 "reached", "trust", "client", "prime", "post", "inputs", "output",
                 "banner", "running", "exited"}
    /\ p.exit \in {-1, 0, 1, 2, 3, 4, 130} /\ p.sent \in Nat /\ p.tokens \in 0 .. p.sent
    /\ p.trust \in FileNames \cup {"none", "system"} /\ p.limited \subseteq p.warned
    /\ files \in [FileNames -> Held]
    /\ launched \in 0 .. MaxCommands /\ edits \in 0 .. MaxEdits
    /\ p.cfg # NoConfig => /\ p.cfg.hardCap \in 1 .. MaxConfigurableHardCap
                           /\ p.cfg.maxRequests \in 0 .. p.cfg.hardCap
                           /\ p.cfg.certReq = "true" /\ p.cfg.directory # ""

\* run.go:50: the gates "carry the whole safety condition of the command".  A
\* run that sends anything was authorised, and acknowledged when live; doctor
\* sends only when asked to; validate never reaches the network; and no
\* command obtains more tokens than it announced.  run.go:108: "resolved before
\* any request is sent": a run stopped while it starts leaves no directory and
\* no request behind, even when a file is replaced under it, and a directory or
\* a request means that roots and credentials were loaded.
SpendAuthorised ==
    /\ p.args.cmd \in {"none", "validate"} => ~p.touched /\ p.sent = 0
    /\ p.args.cmd = "doctor" =>
          p.tokens <= 1 /\ (p.sent > 0 => p.args.sendOne)
    /\ p.args.cmd = "run" =>
          /\ p.sent > 0 =>
                /\ p.args.authorized /\ (p.cfg.environment = "live" => p.args.ackLive)
                /\ p.tokens <= p.args.maxRequests /\ p.tokens <= p.cfg.hardCap
          /\ p.stoppedAt \in {"flags", "load", "inputs", "trust", "client"} =>
                ~p.dir /\ ~p.touched /\ p.sent = 0
          /\ p.exit = 2 => p.stoppedAt \in {"flags", "inputs"}
          /\ p.dir \/ p.touched => p.trust # "none" /\ ResolveCredentials(p.cfg)

\* Nothing the profile asks for wraps around int64.
Exact == Demand(profile) + profile.reserve <= Int64Max

\* run.go:255: "a profile that cannot fit its budget must never send anything
\* at all".  Once a run starts, every stage plans a request, the quota is
\* enough for all of them, limits.max_requests is kept and the reserve is left
\* under the hard cap, provided the sums fit int64.
StartedFits ==
    Started /\ Exact =>
        /\ Demand(profile) <= Quota
        /\ p.cfg.maxRequests > 0 => Demand(profile) <= p.cfg.maxRequests
        /\ Demand(profile) + profile.reserve <= p.cfg.hardCap
        /\ \A i \in DOMAIN profile.stages : Planned(profile.stages[i]) >= 1

\* The commands agree, no file having been replaced between them.
\* config.go:315: "run and validate both call it": a run never starts on a
\* configuration and a profile that validate has refused.  doctor.go:175: the
\* check that "proves the trust configuration is right": after a doctor
\* --send-one that passed, no run is stopped by its configuration, roots, client
\* or credentials, and its requests can be built.
CommandsAgree ==
    /\ ~(Started /\ refused)
    /\ p.args.cmd = "run" /\ ready =>
          /\ p.exit = 1 => p.stoppedAt \in {"inputs", "output", "running"}
          /\ p.cfg # NoConfig => Builds(p.cfg)

\* validate.go:43: the report cannot "stay silent about something" the
\* operator should know.  Traffic that left this machine in plaintext, went to
\* an unauthenticated peer or was judged against the system roots was warned
\* of beforehand and, by run, is a limitation in the report.
NothingUndisclosed ==
    LET facts == { w \in {"skip_verify", "allow_plaintext", "tsa_ca_file"} :
                    \/ w = "skip_verify" /\ p.cfg.insecureSkipVerify
                    \/ w = "allow_plaintext" /\ p.cfg.endpoint.scheme = "http"
                                             /\ p.cfg.endpoint.host # "loopback"
                    \/ w = "tsa_ca_file" /\ p.trust = "system" }
    IN  p.touched => /\ facts \subseteq p.warned
                     /\ p.args.cmd = "run" => facts \subseteq p.limited
=============================================================================
