----------------------------- MODULE GatesProofs -----------------------------
(***************************************************************************)
(* The gates before any traffic, for every configuration, profile and      *)
(* session of commands, with files replaced at any moment: what a command  *)
(* has passed where it stands, and what its predecessors' verdicts mean.   *)
(***************************************************************************)
EXTENDS Gates, FiniteSetTheorems, TLAPS

\* The Config every command works from, and what the gates ask of it, of the
\* files and of the profile.
Cfg == ApplyDefaults(doc.config)
Sound == EndpointValid(Cfg) /\ RequestValid(Cfg) /\ LimitsValid(Cfg) /\ Cfg.directory # " "
Loads == Parses(doc, files)
Trusted == Verifiable(Cfg, files)
Connects == TLSConfig(Cfg, files)
Resolves == ResolveCredentials(Cfg)
Sends == Builds(Cfg)
Fits == ProfileLoads(profile) /\ CheckAgainstQuota(profile, Budget(Cfg, 0), Cfg.hardCap)
Admitted ==
    /\ Cfg.environment = "live" => p.args.ackLive
    /\ Budget(Cfg, p.args.maxRequests) # -1 /\ ProfileLoads(profile)
    /\ CheckAgainstQuota(profile, Budget(Cfg, p.args.maxRequests), Cfg.hardCap)

\* Where the process is, or was when it ended.
Where == IF p.pc = "exited" THEN p.stoppedAt ELSE p.pc

Unloaded == {"none", "flags", "load"}
ValidateLabels == {"flags", "load", "credentials", "profile"}
Reaching == {"dns", "tcp", "tls", "reached", "trust", "client", "prime", "post"}
DoctorLabels == {"flags", "load", "warn"} \cup Reaching
RunLabels == {"flags", "load", "inputs", "trust", "client", "output", "banner", "running"}

Fields == {"args", "pc", "cfg", "warned", "limited", "trust", "dir", "touched", "sent", "tokens",
           "exit", "stoppedAt"}

\* What is fixed for the session, and the shape of the process.
Session ==
    /\ doc \in Documents /\ profile \in Profiles /\ files \in [FileNames -> Held]
    /\ conversion \in {Int64Max, -Int64Max - 1}
    /\ refused \in BOOLEAN /\ ready \in BOOLEAN /\ stale \in BOOLEAN
    /\ launched \in 0 .. MaxCommands /\ edits \in 0 .. MaxEdits

Shaped(q) ==
    /\ q = [f \in Fields |-> q[f]]
    /\ q.args \in CommandLines \cup {NoCommand}
    /\ q.dir \in BOOLEAN /\ q.touched \in BOOLEAN /\ q.sent \in Nat /\ q.tokens \in 0 .. q.sent

Shape ==
    /\ Shaped(p)
    /\ p.exit \in {-1, 0, 1, 2, 3, 4, 130}
    /\ p.pc # "exited" => p.exit = -1 /\ p.stoppedAt = "none"
    /\ p.pc # "none" /\ p.stoppedAt # "exited"
    /\ p.args = NoCommand => p.pc = "exited" /\ p.stoppedAt = "none"

\* A process past LoadFile has a sound Config, and found what is on disk.
Loaded ==
    /\ Where \in Unloaded => p.cfg = NoConfig
    /\ Where \notin Unloaded => p.cfg = Cfg /\ Sound /\ (~stale => Loads)
    /\ p.trust # "none" => Where \notin Unloaded /\ p.trust = TSARoots(Cfg)

ValidateOrder ==
    p.args.cmd \in {"none", "validate"} =>
        /\ Where \in ValidateLabels \cup {"none"}
        /\ ~p.touched /\ p.sent = 0 /\ ~p.dir /\ p.limited = {}
        /\ Where = "profile" => Resolves

DoctorOrder ==
    p.args.cmd = "doctor" =>
        /\ Where \in DoctorLabels /\ p.limited = {} /\ ~p.dir
        /\ Where \in Reaching => p.warned = Warnings(Cfg)
        /\ p.touched => Where \in Reaching
        /\ Where \in {"trust", "client", "prime", "post"} => p.args.sendOne
        /\ p.sent > 0 => Where = "post"
        /\ p.tokens <= 1
        /\ Where \in {"client", "prime", "post"} /\ ~stale => Trusted
        /\ Where \in {"prime", "post"} /\ ~stale => Connects /\ Resolves /\ Sends

RunOrder ==
    p.args.cmd = "run" =>
        /\ Where \in RunLabels
        /\ Where # "flags" => p.args.config /\ p.args.profile /\ p.args.maxRequests > 0
                              /\ p.args.authorized
        /\ Where \in {"trust", "client", "output", "banner", "running"} => Admitted
        /\ Where \in {"client", "output", "banner", "running"} => p.trust # "none"
        /\ Where \in {"output", "banner", "running"} => Resolves
        /\ p.dir => Where \in {"output", "banner", "running"}
        /\ Where = "running" => p.warned = Warnings(Cfg)
        /\ IF p.touched THEN p.limited = Limitations(Cfg) /\ Where = "running"
                        ELSE p.limited = {} /\ p.sent = 0
        /\ p.sent > 0 => p.sent <= p.args.maxRequests /\ p.sent <= p.cfg.hardCap
        /\ p.pc = "exited" => Where # "banner"
        /\ p.exit = 2 => Where \in {"flags", "inputs"}
        /\ p.exit = 1 /\ ready => Where \in {"inputs", "output", "running"}

\* The verdicts of earlier commands are about what is on disk now.
Verdicts ==
    /\ stale => ~refused /\ ~ready
    /\ refused => ~(Loads /\ Resolves /\ Fits)
    /\ ready => Loads /\ Trusted /\ Connects /\ Resolves /\ Sends

\* The inductive strengthening.
GatesInv ==
    /\ Session /\ Shape /\ Loaded /\ ValidateOrder /\ DoctorOrder /\ RunOrder /\ Verdicts

-----------------------------------------------------------------------------
(* What a step leaves as it is.                                            *)

\* Which command line it is.
LEMMA ArgsTyped ==
    ASSUME NEW args \in CommandLines \cup {NoCommand}
    PROVE  /\ args.cmd \in {"none", "validate", "doctor", "run"}
           /\ args.cmd = "none" <=> args = NoCommand
           /\ args.cmd = "run" => args.maxRequests \in Int
  BY DEF CommandLines, NoCommand

\* The profile plans what it planned.
LEMMA ProfileStays ==
    ASSUME UNCHANGED <<profile, conversion>>
    PROVE  /\ ProfileLoads(profile)' = ProfileLoads(profile)
           /\ Demand(profile)' = Demand(profile)
           /\ TotalPlanned(profile)' = TotalPlanned(profile)
<1>1. ASSUME NEW CONSTANT s PROVE Planned(s)' = Planned(s)
  BY DEF Planned
<1>2. \A s : Planned(s)' = Planned(s)
  BY <1>1
<1>3. ASSUME NEW CONSTANT s PROVE StageValid(s)' = StageValid(s)
  BY <1>1 DEF StageValid
<1>4. QED
  BY <1>2, <1>3 DEF ProfileLoads, Demand, TotalPlanned

\* Nothing on disk changes but by an edit, which leaves the Config alone.
LEMMA Disk ==
    ASSUME UNCHANGED <<doc, profile, conversion>>
    PROVE  /\ Cfg' = Cfg /\ Sound' = Sound /\ Resolves' = Resolves /\ Sends' = Sends /\ Fits' = Fits
           /\ TSARoots(Cfg)' = TSARoots(Cfg) /\ Warnings(Cfg)' = Warnings(Cfg)
           /\ Limitations(Cfg)' = Limitations(Cfg)
           /\ files' = files => Loads' = Loads /\ Trusted' = Trusted /\ Connects' = Connects
           /\ p'.args = p.args => Admitted' = Admitted
<1>1. Cfg' = Cfg
  BY DEF Cfg
<1>2. Sound' = Sound /\ Resolves' = Resolves /\ Sends' = Sends
  BY <1>1 DEF Sound, Resolves, Sends
<1>3. Fits' = Fits
  BY <1>1, ProfileStays DEF Fits, CheckAgainstQuota
<1>4. /\ TSARoots(Cfg)' = TSARoots(Cfg) /\ Warnings(Cfg)' = Warnings(Cfg)
      /\ Limitations(Cfg)' = Limitations(Cfg)
  BY <1>1
<1>5. files' = files => Loads' = Loads /\ Trusted' = Trusted /\ Connects' = Connects
  BY <1>1 DEF Loads, Trusted, Connects
<1>6. p'.args = p.args => Admitted' = Admitted
  BY <1>1, ProfileStays DEF Admitted, CheckAgainstQuota
<1>7. QED
  BY <1>1, <1>2, <1>3, <1>4, <1>5, <1>6

\* A process that goes on: what it is now, and that the verdicts stand.
LEMMA Going ==
    ASSUME GatesInv, p.pc # "exited", NEW q, Shaped(q), NEW label, label \notin {"exited", "none"},
           q.args = p.args, q.exit = p.exit, q.stoppedAt = p.stoppedAt, Goto(q, label)
    PROVE  /\ Session' /\ Shape' /\ Verdicts'
           /\ Where = p.pc /\ Where' = label /\ p'.pc = label
           /\ p'.args = q.args /\ p'.cfg = q.cfg /\ p'.warned = q.warned /\ p'.limited = q.limited
           /\ p'.trust = q.trust /\ p'.dir = q.dir /\ p'.touched = q.touched /\ p'.sent = q.sent
           /\ p'.tokens = q.tokens /\ p'.exit = -1 /\ ready' = ready /\ stale' = stale
           /\ UNCHANGED <<doc, profile, files, conversion>>
<1>1. /\ p' = [q EXCEPT !.pc = label]
      /\ UNCHANGED <<doc, profile, files, conversion, refused, ready, stale, launched, edits>>
  BY DEF Goto
<1>2. q = [f \in Fields |-> q[f]]
  BY DEF Shaped
<1>3. /\ p'.args = q.args /\ p'.cfg = q.cfg /\ p'.warned = q.warned /\ p'.limited = q.limited
      /\ p'.trust = q.trust /\ p'.dir = q.dir /\ p'.touched = q.touched /\ p'.sent = q.sent
      /\ p'.tokens = q.tokens /\ p'.exit = q.exit /\ p'.stoppedAt = q.stoppedAt /\ p'.pc = label
  BY <1>1, <1>2 DEF Fields
<1>4. p' = [f \in Fields |-> p'[f]]
  BY <1>1, <1>2 DEF Fields
<1>5. p.exit = -1 /\ p.stoppedAt = "none" /\ Where = p.pc /\ p.args # NoCommand
  BY DEF GatesInv, Shape, Where
<1>6. Where' = label
  BY <1>3 DEF Where
<1>7. Shaped(p)'
  BY <1>3, <1>4 DEF Shaped
<1>8. Shape'
  BY <1>3, <1>5, <1>7 DEF Shape
<1>9. Session'
  BY <1>1 DEF GatesInv, Session
<1>10. Verdicts'
  BY <1>1, Disk DEF GatesInv, Verdicts
<1>11. QED
  BY <1>1, <1>3, <1>5, <1>6, <1>8, <1>9, <1>10

\* A process that ends: the same, and what its verdict means.
LEMMA Ending ==
    ASSUME GatesInv, p.pc # "exited", NEW q, Shaped(q),
           q.args = p.args, NEW code \in {0, 1, 2, 3, 4, 130}, Exit(q, code),
           p.args.cmd = "validate" /\ p.args.config /\ p.args.profile /\ ~stale /\ code # 0
              => ~(Loads /\ Resolves /\ Fits),
           p.args.cmd = "doctor" /\ p.args.config /\ p.args.sendOne /\ ~stale /\ code = 0
              => Loads /\ Trusted /\ Connects /\ Resolves /\ Sends
    PROVE  /\ Session' /\ Shape' /\ Verdicts'
           /\ Where = p.pc /\ Where' = p.pc /\ p'.pc = "exited" /\ p'.stoppedAt = p.pc
           /\ p'.args = q.args /\ p'.cfg = q.cfg /\ p'.warned = q.warned /\ p'.limited = q.limited
           /\ p'.trust = q.trust /\ p'.dir = q.dir /\ p'.touched = q.touched /\ p'.sent = q.sent
           /\ p'.tokens = q.tokens /\ p'.exit = code /\ stale' = stale
           /\ p.args.cmd = "run" => ready' = ready
           /\ UNCHANGED <<doc, profile, files, conversion>>
<1>1. /\ p' = [q EXCEPT !.pc = "exited", !.exit = code, !.stoppedAt = p.pc]
      /\ UNCHANGED <<doc, profile, files, conversion, stale, launched, edits>>
  BY DEF Exit
<1>2. q = [f \in Fields |-> q[f]]
  BY DEF Shaped
<1>3. /\ p'.args = q.args /\ p'.cfg = q.cfg /\ p'.warned = q.warned /\ p'.limited = q.limited
      /\ p'.trust = q.trust /\ p'.dir = q.dir /\ p'.touched = q.touched /\ p'.sent = q.sent
      /\ p'.tokens = q.tokens /\ p'.exit = code /\ p'.stoppedAt = p.pc /\ p'.pc = "exited"
  BY <1>1, <1>2 DEF Fields
<1>4. p' = [f \in Fields |-> p'[f]]
  BY <1>1, <1>2 DEF Fields
<1>5. p.exit = -1 /\ p.stoppedAt = "none" /\ Where = p.pc /\ p.args # NoCommand /\ p.pc # "none"
  BY DEF GatesInv, Shape, Where
<1>6. Where' = p.pc
  BY <1>3 DEF Where
<1>7. Shaped(p)'
  BY <1>3, <1>4 DEF Shaped
<1>8. Shape'
  BY <1>3, <1>5, <1>7 DEF Shape
<1>9. /\ refused' = IF p.args.cmd = "validate" /\ p.args.config /\ p.args.profile /\ ~stale
                    THEN code # 0 ELSE refused
      /\ ready' = IF p.args.cmd = "doctor" /\ p.args.config /\ p.args.sendOne /\ ~stale
                  THEN code = 0 ELSE ready
  BY DEF Exit
<1>10. refused' \in BOOLEAN /\ ready' \in BOOLEAN
  BY <1>9 DEF GatesInv, Session
<1>11. Session'
  BY <1>1, <1>10 DEF GatesInv, Session
<1>12. /\ Loads' = Loads /\ Trusted' = Trusted /\ Connects' = Connects /\ Resolves' = Resolves
       /\ Sends' = Sends /\ Fits' = Fits
  BY <1>1, Disk
<1>13. Verdicts'
  <2>1. Verdicts
    BY DEF GatesInv
  <2>2. stale' => ~refused' /\ ~ready'
    BY <1>1, <1>9, <2>1 DEF Verdicts
  <2>3. refused' => ~(Loads /\ Resolves /\ Fits)
    BY <1>9, <2>1 DEF Verdicts
  <2>4. ready' => Loads /\ Trusted /\ Connects /\ Resolves /\ Sends
    BY <1>9, <2>1 DEF Verdicts
  <2>5. QED
    BY <1>12, <2>2, <2>3, <2>4, Zenon DEF Verdicts
<1>14. p.args.cmd = "run" => ready' = ready
  BY <1>9
<1>15. QED
  BY <1>1, <1>3, <1>5, <1>6, <1>8, <1>11, <1>13, <1>14

-----------------------------------------------------------------------------
(* The commands, gate by gate.                                             *)

\* The flags.
LEMMA FlagsStep ==
    ASSUME GatesInv, ParseFlags \/ ParseRunFlags
    PROVE  GatesInv'
<1>1. /\ p.pc = "flags" /\ p.args.cmd \in {"validate", "doctor", "run"} /\ Where = "flags" /\ Shaped(p)
      /\ \/ Goto(p, "load") /\ (p.args.cmd = "run" => p.args.config /\ p.args.profile
                                     /\ p.args.maxRequests > 0 /\ p.args.authorized)
         \/ Exit(p, 2) /\ (p.args.cmd = "validate" => ~p.args.config)
  BY DEF GatesInv, Shape, ParseFlags, ParseRunFlags, Gate, At, Where
<1>2. p.cfg = NoConfig /\ p.trust = "none"
  BY <1>1 DEF GatesInv, Loaded, Unloaded
<1>3. /\ Session' /\ Shape' /\ Verdicts' /\ Where' \in {"flags", "load"}
      /\ p'.args = p.args /\ p'.cfg = p.cfg /\ p'.warned = p.warned /\ p'.limited = p.limited
      /\ p'.trust = p.trust /\ p'.dir = p.dir /\ p'.touched = p.touched /\ p'.sent = p.sent
      /\ p'.tokens = p.tokens /\ p'.exit \in {-1, 2}
      /\ Where' = "load" /\ p.args.cmd = "run" => p.args.config /\ p.args.profile
                                     /\ p.args.maxRequests > 0 /\ p.args.authorized
      /\ p'.exit = 2 => Where' = "flags"
  <2>1. CASE /\ Goto(p, "load")
             /\ p.args.cmd = "run" => p.args.config /\ p.args.profile
                                         /\ p.args.maxRequests > 0 /\ p.args.authorized
    BY <1>1, <2>1, Going
  <2>2. CASE Exit(p, 2) /\ (p.args.cmd = "validate" => ~p.args.config)
    BY <1>1, <2>2, Ending
  <2>3. QED
    BY <1>1, <2>1, <2>2
<1>4. Loaded'
  BY <1>2, <1>3 DEF Loaded, Unloaded
<1>5. ValidateOrder' /\ DoctorOrder'
  BY <1>1, <1>3 DEF GatesInv, ValidateOrder, DoctorOrder, ValidateLabels, DoctorLabels, Reaching
<1>6. RunOrder'
  BY <1>1, <1>3 DEF GatesInv, RunOrder, RunLabels
<1>7. QED
  BY <1>3, <1>4, <1>5, <1>6 DEF GatesInv

\* LoadFile.
LEMMA LoadStep ==
    ASSUME GatesInv, LoadFile
    PROVE  GatesInv'
<1> DEFINE q == [p EXCEPT !.cfg = Cfg]
           next == CASE p.args.cmd = "validate" -> "credentials"
                     [] p.args.cmd = "doctor" -> "warn"
                     [] p.args.cmd = "run" -> "inputs"
<1>1. /\ p.pc = "load" /\ Where = "load" /\ Shaped(p)
      /\ IF Loads THEN Goto(q, next) ELSE Exit(p, 1)
  BY DEF GatesInv, Shape, LoadFile, Gate, Where, Loads, Cfg
<1>2. p.args.cmd \in {"validate", "doctor", "run"}
  BY <1>1, ArgsTyped DEF GatesInv, Shape, Shaped
<1>3. p.cfg = NoConfig /\ p.trust = "none"
  BY <1>1 DEF GatesInv, Loaded, Unloaded
<1>4. /\ Shaped(q) /\ q.cfg = Cfg /\ q.args = p.args /\ q.warned = p.warned /\ q.limited = p.limited
      /\ q.trust = p.trust /\ q.dir = p.dir /\ q.touched = p.touched /\ q.sent = p.sent
      /\ q.tokens = p.tokens /\ q.exit = p.exit /\ q.stoppedAt = p.stoppedAt
  BY <1>1 DEF Shaped, Fields
<1> HIDE DEF q
<1>5. CASE Loads
  <2>1. Goto(q, next) /\ next \in {"credentials", "warn", "inputs"}
    BY <1>1, <1>2, <1>5
  <2>2. /\ p.args.cmd = "validate" => next = "credentials"
        /\ p.args.cmd = "doctor" => next = "warn"
        /\ p.args.cmd = "run" => next = "inputs"
    OBVIOUS
  <2> HIDE DEF next
  <2>3. /\ Session' /\ Shape' /\ Verdicts' /\ Where' = next /\ p'.pc = next
        /\ p'.args = p.args /\ p'.cfg = Cfg /\ p'.warned = p.warned /\ p'.limited = p.limited
        /\ p'.trust = "none" /\ p'.dir = p.dir /\ p'.touched = p.touched /\ p'.sent = p.sent
        /\ p'.tokens = p.tokens /\ p'.exit = -1 /\ UNCHANGED <<doc, profile, files, conversion>>
    BY <1>1, <1>3, <1>4, <2>1, Going
  <2>4. Sound /\ Sound' = Sound /\ Loads' = Loads /\ Cfg' = Cfg
    <3>1. Sound
      BY <1>5 DEF Loads, Sound, Parses, Validate, Cfg
    <3>2. QED
      BY <2>3, <3>1, Disk
  <2>5. Loaded'
    BY <1>5, <2>1, <2>3, <2>4 DEF Loaded, Unloaded
  <2>6. ValidateOrder' /\ DoctorOrder'
    BY <1>1, <1>2, <2>2, <2>3 DEF GatesInv, ValidateOrder, DoctorOrder, ValidateLabels, DoctorLabels, Reaching
  <2>7. RunOrder'
    BY <1>1, <2>2, <2>3 DEF GatesInv, RunOrder, RunLabels
  <2>8. QED
    BY <2>3, <2>5, <2>6, <2>7 DEF GatesInv
<1>6. CASE ~Loads
  <2>1. /\ Session' /\ Shape' /\ Verdicts' /\ Where' = "load" /\ p'.pc = "exited"
        /\ p'.args = p.args /\ p'.cfg = p.cfg /\ p'.warned = p.warned /\ p'.limited = p.limited
        /\ p'.trust = "none" /\ p'.dir = p.dir /\ p'.touched = p.touched /\ p'.sent = p.sent
        /\ p'.tokens = p.tokens /\ p'.exit = 1 /\ (p.args.cmd = "run" => ready' = ready)
    BY <1>1, <1>3, <1>6, Ending
  <2>2. ~ready
    BY <1>6 DEF GatesInv, Verdicts
  <2>3. Loaded'
    BY <1>3, <2>1 DEF Loaded, Unloaded
  <2>4. ValidateOrder' /\ DoctorOrder'
    BY <1>1, <1>2, <2>1 DEF GatesInv, ValidateOrder, DoctorOrder, ValidateLabels, DoctorLabels, Reaching
  <2>5. RunOrder'
    BY <1>1, <2>1, <2>2 DEF GatesInv, RunOrder, RunLabels
  <2>6. QED
    BY <2>1, <2>3, <2>4, <2>5 DEF GatesInv
<1>7. QED
  BY <1>5, <1>6

\* A process past LoadFile stays on its Config.
LEMMA StillLoaded ==
    ASSUME GatesInv, Where \notin Unloaded, Where' \notin Unloaded, p'.cfg = p.cfg,
           p'.trust \in {p.trust, TSARoots(Cfg)},
           UNCHANGED <<doc, profile, files, conversion, stale>>
    PROVE  Loaded'
<1>1. /\ Cfg' = Cfg /\ Sound' = Sound /\ Loads' = Loads /\ TSARoots(Cfg)' = TSARoots(Cfg)
  BY Disk
<1>2. QED
  BY <1>1 DEF GatesInv, Loaded

\* validate.
LEMMA ValidateStep ==
    ASSUME GatesInv, ValidateCredentials \/ ValidateProfile
    PROVE  GatesInv'
<1>1. p.args.cmd = "validate" /\ p.pc \in {"credentials", "profile"} /\ Where = p.pc /\ Shaped(p)
  BY DEF GatesInv, Shape, ValidateCredentials, ValidateProfile, At, Where
<1>2. p.cfg = Cfg /\ (p.pc = "profile" => Resolves)
  BY <1>1 DEF GatesInv, Loaded, ValidateOrder, Unloaded
<1> DEFINE q == [p EXCEPT !.warned = Warnings(p.cfg)]
<1>3. /\ Shaped(q) /\ q.cfg = p.cfg /\ q.args = p.args /\ q.limited = p.limited /\ q.trust = p.trust
      /\ q.dir = p.dir /\ q.touched = p.touched /\ q.sent = p.sent
  BY <1>1 DEF Shaped, Fields
<1>4. \/ p.pc = "credentials" /\ Resolves /\ Goto(p, "profile")
      \/ p.pc = "credentials" /\ ~Resolves /\ Exit(p, 1)
      \/ p.pc = "profile" /\ Exit(q, 0)
      \/ p.pc = "profile" /\ ~(p.args.profile => Fits) /\ Exit(p, 1)
  BY <1>2 DEF ValidateCredentials, ValidateProfile, At, Gate, Resolves, Fits
<1> HIDE DEF q
<1>5. /\ Session' /\ Shape' /\ Verdicts' /\ Where' \in {"credentials", "profile"}
      /\ Where' = "profile" => Resolves
      /\ p'.args = p.args /\ p'.cfg = p.cfg /\ p'.limited = p.limited /\ p'.trust = p.trust
      /\ p'.dir = p.dir /\ p'.touched = p.touched /\ p'.sent = p.sent
      /\ UNCHANGED <<doc, profile, files, conversion, stale>>
  <2>1. CASE p.pc = "credentials" /\ Resolves /\ Goto(p, "profile")
    BY <1>1, <2>1, Going
  <2>2. CASE p.pc = "credentials" /\ ~Resolves /\ Exit(p, 1)
    BY <1>1, <2>2, Ending
  <2>3. CASE p.pc = "profile" /\ Exit(q, 0)
    BY <1>1, <1>2, <1>3, <2>3, Ending
  <2>4. CASE p.pc = "profile" /\ ~(p.args.profile => Fits) /\ Exit(p, 1)
    BY <1>1, <1>2, <2>4, Ending
  <2>5. QED
    BY <1>4, <2>1, <2>2, <2>3, <2>4
<1>6. Loaded'
  BY <1>1, <1>5, StillLoaded DEF Unloaded
<1>7. Resolves' = Resolves
  BY <1>5, Disk
<1>8. ValidateOrder' /\ DoctorOrder' /\ RunOrder'
  BY <1>1, <1>5, <1>7 DEF GatesInv, ValidateOrder, DoctorOrder, RunOrder, ValidateLabels
<1>9. QED
  BY <1>5, <1>6, <1>8 DEF GatesInv

\* doctor goes on to a label it has earned.
LEMMA DoctorGoes ==
    ASSUME GatesInv, p.args.cmd = "doctor", p.pc \in DoctorLabels \ {"flags", "load"},
           NEW q, Shaped(q), q.args = p.args, q.exit = p.exit, q.stoppedAt = p.stoppedAt,
           q.cfg = p.cfg, q.limited = p.limited, q.dir = p.dir, q.sent = p.sent,
           q.tokens = p.tokens, q.trust \in {p.trust, TSARoots(Cfg)}, q.warned = Warnings(Cfg),
           NEW label \in Reaching, Goto(q, label), p.pc # "post",
           label \in {"trust", "client", "prime", "post"} => p.args.sendOne,
           label \in {"client", "prime", "post"} /\ ~stale => Trusted,
           label \in {"prime", "post"} /\ ~stale => Connects /\ Resolves /\ Sends
    PROVE  GatesInv'
<1>1. p.pc # "exited" /\ label \notin {"exited", "none"}
  BY DEF DoctorLabels, Reaching
<1>2. /\ Session' /\ Shape' /\ Verdicts' /\ Where = p.pc /\ Where' = label /\ p'.args = p.args
      /\ p'.cfg = p.cfg /\ p'.warned = Warnings(Cfg) /\ p'.limited = p.limited /\ p'.trust = q.trust
      /\ p'.dir = p.dir /\ p'.sent = p.sent /\ p'.tokens = p.tokens
      /\ UNCHANGED <<doc, profile, files, conversion, stale>>
  BY <1>1, Going
<1>3. /\ Warnings(Cfg)' = Warnings(Cfg) /\ Trusted' = Trusted /\ Connects' = Connects
      /\ Resolves' = Resolves /\ Sends' = Sends
  BY <1>2, Disk
<1>4. Loaded'
  BY <1>2, StillLoaded DEF Unloaded, DoctorLabels, Reaching
<1>5. DoctorOrder'
  BY <1>2, <1>3 DEF GatesInv, DoctorOrder, DoctorLabels
<1>6. ValidateOrder' /\ RunOrder'
  BY <1>2 DEF ValidateOrder, RunOrder
<1>7. QED
  BY <1>2, <1>4, <1>5, <1>6 DEF GatesInv

\* doctor ends, with success after a request only where it has sent one.
LEMMA DoctorStops ==
    ASSUME GatesInv, p.args.cmd = "doctor", p.pc \in DoctorLabels \ {"flags", "load"},
           NEW q, Shaped(q), q.args = p.args, q.cfg = p.cfg, q.limited = p.limited, q.dir = p.dir,
           q.warned = p.warned, q.trust = p.trust, q.touched => p.touched \/ p.pc \in Reaching,
           q.sent = p.sent \/ p.pc = "post", q.tokens <= 1,
           NEW code \in {0, 1}, Exit(q, code), code = 0 /\ p.args.sendOne => p.pc = "post"
    PROVE  GatesInv'
<1>1. p.pc # "exited" /\ p.pc \notin Unloaded /\ Where = p.pc
  BY DEF DoctorLabels, Reaching, Unloaded, Where
<1>2. code = 0 /\ p.args.sendOne /\ ~stale => Loads /\ Trusted /\ Connects /\ Resolves /\ Sends
  BY <1>1 DEF GatesInv, Loaded, DoctorOrder
<1>3. /\ Session' /\ Shape' /\ Verdicts' /\ Where' = p.pc /\ p'.args = p.args
      /\ p'.cfg = p.cfg /\ p'.warned = p.warned /\ p'.limited = p.limited /\ p'.trust = p.trust
      /\ p'.dir = p.dir /\ p'.sent = q.sent /\ p'.tokens = q.tokens /\ p'.touched = q.touched
      /\ UNCHANGED <<doc, profile, files, conversion, stale>>
  BY <1>1, <1>2, Ending
<1>4. /\ Warnings(Cfg)' = Warnings(Cfg) /\ Trusted' = Trusted /\ Connects' = Connects
      /\ Resolves' = Resolves /\ Sends' = Sends
  BY <1>3, Disk
<1>5. Loaded'
  BY <1>1, <1>3, StillLoaded
<1>6. DoctorOrder'
  BY <1>1, <1>3, <1>4 DEF GatesInv, DoctorOrder
<1>7. ValidateOrder' /\ RunOrder'
  BY <1>3 DEF ValidateOrder, RunOrder
<1>8. QED
  BY <1>3, <1>5, <1>6, <1>7 DEF GatesInv

\* A process with one of its fields set is otherwise the same.
LEMMA Revised ==
    ASSUME Shaped(p), NEW q, NEW x,
           \/ q = [p EXCEPT !.warned = x] \/ q = [p EXCEPT !.trust = x]
           \/ x \in BOOLEAN /\ q = [p EXCEPT !.dir = x]
           \/ x \in BOOLEAN /\ q = [p EXCEPT !.touched = x]
    PROVE  /\ Shaped(q) /\ q.args = p.args /\ q.exit = p.exit /\ q.stoppedAt = p.stoppedAt
           /\ q.cfg = p.cfg /\ q.limited = p.limited /\ q.sent = p.sent /\ q.tokens = p.tokens
           /\ q = [p EXCEPT !.warned = x] => /\ q.warned = x /\ q.trust = p.trust /\ q.dir = p.dir
                                             /\ q.touched = p.touched
           /\ q = [p EXCEPT !.trust = x] => /\ q.trust = x /\ q.warned = p.warned /\ q.dir = p.dir
                                            /\ q.touched = p.touched
           /\ q = [p EXCEPT !.dir = x] => /\ q.dir = x /\ q.warned = p.warned /\ q.trust = p.trust
                                          /\ q.touched = p.touched
           /\ q = [p EXCEPT !.touched = x] => /\ q.touched = x /\ q.warned = p.warned
                                              /\ q.trust = p.trust /\ q.dir = p.dir
<1>1. CASE q = [p EXCEPT !.warned = x]
  BY <1>1 DEF Shaped, Fields
<1>2. CASE q = [p EXCEPT !.trust = x]
  BY <1>2 DEF Shaped, Fields
<1>3. CASE x \in BOOLEAN /\ q = [p EXCEPT !.dir = x]
  BY <1>3 DEF Shaped, Fields
<1>4. CASE x \in BOOLEAN /\ q = [p EXCEPT !.touched = x]
  BY <1>4 DEF Shaped, Fields
<1>5. QED
  BY <1>1, <1>2, <1>3, <1>4

\* doctor, up to the point where it is asked to send.
LEMMA DoctorReaches ==
    ASSUME GatesInv, DoctorWarn \/ DoctorReach \/ DoctorTLS \/ DoctorReached
    PROVE  GatesInv'
<1>1. /\ p.args.cmd = "doctor" /\ p.pc \in {"warn", "dns", "tcp", "tls", "reached"} /\ Where = p.pc
      /\ Shaped(p)
  BY DEF GatesInv, Shape, DoctorWarn, DoctorReach, DoctorTLS, DoctorReached, At, Where
<1>2. /\ p.cfg = Cfg /\ p.sent = 0 /\ p.tokens <= 1 /\ (p.pc # "warn" => p.warned = Warnings(Cfg))
      /\ p.pc \in DoctorLabels \ {"flags", "load"}
      /\ p.pc # "warn" => p.pc \in Reaching
      /\ p.sent \in Nat
  BY <1>1 DEF GatesInv, Loaded, DoctorOrder, DoctorLabels, Reaching, Unloaded, Shaped
<1>3. {"dns", "tcp", "tls", "reached", "trust"} \subseteq Reaching
  BY DEF Reaching
<1>4. CASE DoctorWarn
  <2> DEFINE q == [p EXCEPT !.warned = Warnings(Cfg)]
  <2>1. Goto(q, "dns") /\ p.pc = "warn"
    BY <1>2, <1>4 DEF DoctorWarn, At
  <2>2. /\ Shaped(q) /\ q.args = p.args /\ q.exit = p.exit /\ q.stoppedAt = p.stoppedAt
        /\ q.cfg = p.cfg /\ q.limited = p.limited /\ q.sent = p.sent /\ q.tokens = p.tokens
        /\ q.warned = Warnings(Cfg) /\ q.trust = p.trust /\ q.dir = p.dir
    BY <1>1, Revised
  <2> HIDE DEF q
  <2>3. QED
    BY <1>1, <1>2, <1>3, <2>1, <2>2, DoctorGoes
<1>5. CASE DoctorReach
  <2> DEFINE q == [p EXCEPT !.touched = TRUE]
  <2>1. /\ p.pc \in {"dns", "tcp"}
        /\ Exit(q, 1) \/ \E label \in {"tcp", "tls", "reached"} : Goto(q, label)
    BY <1>5 DEF DoctorReach
  <2>2. /\ Shaped(q) /\ q.args = p.args /\ q.exit = p.exit /\ q.stoppedAt = p.stoppedAt
        /\ q.cfg = p.cfg /\ q.limited = p.limited /\ q.sent = p.sent /\ q.tokens = p.tokens
        /\ q.warned = p.warned /\ q.trust = p.trust /\ q.dir = p.dir
    BY <1>1, Revised
  <2> HIDE DEF q
  <2>3. CASE Exit(q, 1)
    BY <1>1, <1>2, <2>1, <2>2, <2>3, DoctorStops
  <2>4. ASSUME NEW label \in {"tcp", "tls", "reached"}, Goto(q, label) PROVE GatesInv'
    BY <1>1, <1>2, <1>3, <2>1, <2>2, <2>4, DoctorGoes
  <2>5. QED
    BY <2>1, <2>3, <2>4
<1>6. CASE DoctorTLS \/ DoctorReached
  <2>1. /\ p.pc \in {"tls", "reached"}
        /\ \/ Goto(p, "reached") \/ Exit(p, 1)
           \/ p.args.sendOne /\ Goto(p, "trust")
           \/ ~p.args.sendOne /\ Exit(p, 0)
    BY <1>6 DEF DoctorTLS, DoctorReached, At, Gate
  <2>2. CASE Goto(p, "reached") \/ (p.args.sendOne /\ Goto(p, "trust"))
    BY <1>1, <1>2, <1>3, <2>1, <2>2, DoctorGoes
  <2>3. CASE Exit(p, 1) \/ (~p.args.sendOne /\ Exit(p, 0))
    BY <1>1, <1>2, <2>1, <2>3, DoctorStops
  <2>4. QED
    BY <2>1, <2>2, <2>3
<1>7. QED
  BY <1>4, <1>5, <1>6

\* doctor --send-one.
LEMMA DoctorSends ==
    ASSUME GatesInv, DoctorTrust \/ DoctorClient \/ DoctorPrime \/ DoctorPost
    PROVE  GatesInv'
<1>1. /\ p.args.cmd = "doctor" /\ p.pc \in {"trust", "client", "prime", "post"} /\ Where = p.pc
      /\ Shaped(p)
  BY DEF GatesInv, Shape, DoctorTrust, DoctorClient, DoctorPrime, DoctorPost, At, Where
<1>2. /\ p.cfg = Cfg /\ p.tokens <= 1 /\ p.warned = Warnings(Cfg) /\ p.args.sendOne
      /\ p.pc \in DoctorLabels \ {"flags", "load"} /\ p.pc \in Reaching
      /\ p.pc # "trust" /\ ~stale => Trusted
      /\ p.pc \in {"prime", "post"} /\ ~stale => Connects /\ Resolves /\ Sends
  BY <1>1 DEF GatesInv, Loaded, DoctorOrder, DoctorLabels, Reaching, Unloaded
<1>3. {"client", "prime", "post"} \subseteq Reaching
  BY DEF Reaching
<1>4. ASSUME Exit(p, 1) PROVE GatesInv'
  BY <1>1, <1>2, <1>4, DoctorStops
<1>5. CASE DoctorTrust
  <2> DEFINE q == [p EXCEPT !.trust = TSARoots(Cfg)]
  <2>1. p.pc = "trust" /\ IF Trusted THEN Goto(q, "client") ELSE Exit(p, 1)
    BY <1>2, <1>5 DEF DoctorTrust, At, Gate, Trusted
  <2>2. /\ Shaped(q) /\ q.args = p.args /\ q.exit = p.exit /\ q.stoppedAt = p.stoppedAt
        /\ q.cfg = p.cfg /\ q.limited = p.limited /\ q.sent = p.sent /\ q.tokens = p.tokens
        /\ q.warned = p.warned /\ q.trust = TSARoots(Cfg) /\ q.dir = p.dir
    BY <1>1, Revised
  <2> HIDE DEF q
  <2>3. QED
    BY <1>1, <1>2, <1>3, <1>4, <2>1, <2>2, DoctorGoes
<1>6. CASE DoctorClient
  <2>1. p.pc = "client" /\ IF Connects /\ Resolves /\ Sends THEN Goto(p, "prime") ELSE Exit(p, 1)
    BY <1>2, <1>6 DEF DoctorClient, At, Gate, Connects, Resolves, Sends
  <2>2. QED
    BY <1>1, <1>2, <1>3, <1>4, <2>1, DoctorGoes
<1>7. CASE DoctorPrime
  <2>1. p.pc = "prime" /\ (Goto(p, "post") \/ Exit(p, 1))
    BY <1>7 DEF DoctorPrime, At, Gate
  <2>2. QED
    BY <1>1, <1>2, <1>3, <1>4, <2>1, DoctorGoes
<1>8. CASE DoctorPost
  <2>1. p.pc = "post"
    BY <1>8 DEF DoctorPost, At
  <2>2. PICK sent \in 0 .. (IF SharedDigest(p.cfg) THEN 2 ELSE 1), tokens \in 0 .. 1 :
           /\ tokens <= sent
           /\ \E code \in IF tokens = 1 THEN {0, 1} ELSE {1} :
                 Exit([p EXCEPT !.sent = sent, !.tokens = tokens], code)
    BY <1>8, Zenon DEF DoctorPost
  <2>3. sent \in Nat
    OBVIOUS
  <2> DEFINE q == [p EXCEPT !.sent = sent, !.tokens = tokens]
  <2>4. /\ q = [f \in Fields |-> q[f]] /\ q.args = p.args /\ q.cfg = p.cfg /\ q.limited = p.limited
        /\ q.dir = p.dir /\ q.warned = p.warned /\ q.trust = p.trust /\ q.touched = p.touched
        /\ q.sent = sent /\ q.tokens = tokens
    BY <1>1 DEF Shaped, Fields
  <2> HIDE DEF q
  <2>5. Shaped(q) /\ q.tokens <= 1
    BY <1>1, <2>2, <2>3, <2>4 DEF Shaped
  <2>6. PICK code \in {0, 1} : Exit(q, code)
    BY <2>2 DEF q
  <2>7. QED
    BY <1>1, <1>2, <2>1, <2>4, <2>5, <2>6, DoctorStops
<1>9. QED
  BY <1>5, <1>6, <1>7, <1>8

\* run goes on to a label it has earned.
LEMMA RunGoes ==
    ASSUME GatesInv, p.args.cmd = "run",
           p.pc \in {"inputs", "trust", "client", "output", "banner"},
           NEW q, Shaped(q), q.args = p.args, q.exit = p.exit, q.stoppedAt = p.stoppedAt,
           q.cfg = p.cfg, q.limited = p.limited, q.sent = p.sent, q.tokens = p.tokens,
           q.touched = p.touched, q.trust \in {p.trust, TSARoots(Cfg)},
           NEW label \in {"trust", "client", "output", "banner", "running"}, Goto(q, label),
           Admitted, label # "trust" => q.trust # "none",
           label \in {"output", "banner", "running"} => Resolves,
           q.dir => label \in {"output", "banner", "running"},
           label = "running" => q.warned = Warnings(Cfg)
    PROVE  GatesInv'
<1>1. /\ Session' /\ Shape' /\ Verdicts' /\ Where = p.pc /\ Where' = label /\ p'.pc = label
      /\ p'.args = p.args /\ p'.cfg = p.cfg /\ p'.warned = q.warned /\ p'.limited = p.limited
      /\ p'.trust = q.trust /\ p'.dir = q.dir /\ p'.touched = p.touched /\ p'.sent = p.sent
      /\ p'.tokens = p.tokens /\ p'.exit = -1
      /\ UNCHANGED <<doc, profile, files, conversion, stale>>
  BY Going
<1>2. /\ Warnings(Cfg)' = Warnings(Cfg) /\ Resolves' = Resolves /\ Admitted' = Admitted
  BY <1>1, Disk
<1>3. ~p.touched /\ p.limited = {} /\ p.sent = 0 /\ p.args.config /\ p.args.profile
      /\ p.args.maxRequests > 0 /\ p.args.authorized
  BY <1>1 DEF GatesInv, RunOrder
<1>4. Loaded'
  BY <1>1, StillLoaded DEF Unloaded
<1>5. RunOrder'
  BY <1>1, <1>2, <1>3 DEF RunOrder, RunLabels
<1>6. ValidateOrder' /\ DoctorOrder'
  BY <1>1 DEF ValidateOrder, DoctorOrder
<1>7. QED
  BY <1>1, <1>4, <1>5, <1>6 DEF GatesInv

\* run ends: with a request behind it only if it was running, and with a
\* refusal of its configuration only if doctor would have refused it too.
LEMMA RunStops ==
    ASSUME GatesInv, p.args.cmd = "run",
           p.pc \in {"inputs", "trust", "client", "output", "running"},
           NEW q, Shaped(q), q.args = p.args, q.cfg = p.cfg, q.warned = p.warned, q.trust = p.trust,
           q.dir => p.dir \/ p.pc \in {"output", "running"},
           \/ /\ p.pc # "running" /\ q.touched = p.touched /\ q.limited = p.limited
              /\ q.sent = p.sent
           \/ /\ p.pc = "running" /\ q.touched /\ q.limited = Limitations(Cfg)
              /\ q.sent <= p.args.maxRequests /\ q.sent <= p.cfg.hardCap,
           NEW code \in {0, 1, 2, 3, 4, 130}, Exit(q, code), code = 2 => p.pc = "inputs",
           code = 1 /\ ready => p.pc \in {"inputs", "output", "running"}
    PROVE  GatesInv'
<1>1. /\ Session' /\ Shape' /\ Verdicts' /\ Where = p.pc /\ Where' = p.pc /\ p'.pc = "exited"
      /\ p'.args = p.args /\ p'.cfg = p.cfg /\ p'.warned = p.warned /\ p'.limited = q.limited
      /\ p'.trust = p.trust /\ p'.dir = q.dir /\ p'.touched = q.touched /\ p'.sent = q.sent
      /\ p'.exit = code /\ ready' = ready
      /\ UNCHANGED <<doc, profile, files, conversion, stale>>
  BY Ending
<1>2. /\ Warnings(Cfg)' = Warnings(Cfg) /\ Resolves' = Resolves /\ Admitted' = Admitted
      /\ Limitations(Cfg)' = Limitations(Cfg)
  BY <1>1, Disk
<1>3. Loaded'
  BY <1>1, StillLoaded DEF Unloaded
<1>4. RunOrder'
  <2>1. RunOrder
    BY DEF GatesInv
  <2>2. /\ p'.dir => Where' \in {"output", "banner", "running"}
        /\ IF p'.touched THEN p'.limited = Limitations(Cfg)' /\ Where' = "running"
                         ELSE p'.limited = {} /\ p'.sent = 0
        /\ p'.sent > 0 => p'.sent <= p'.args.maxRequests /\ p'.sent <= p'.cfg.hardCap
    BY <1>1, <1>2, <2>1 DEF RunOrder
  <2>3. QED
    BY <1>1, <1>2, <2>1, <2>2 DEF RunOrder
<1>5. ValidateOrder' /\ DoctorOrder'
  BY <1>1 DEF ValidateOrder, DoctorOrder
<1>6. QED
  BY <1>1, <1>3, <1>4, <1>5 DEF GatesInv

\* run, up to its start.
LEMMA RunStarts ==
    ASSUME GatesInv, LoadInputs \/ RunTrust \/ RunClient \/ RunOutput \/ RunBanner
    PROVE  GatesInv'
<1>1. /\ p.args.cmd = "run" /\ p.pc \in {"inputs", "trust", "client", "output", "banner"}
      /\ Where = p.pc /\ Shaped(p)
  BY DEF GatesInv, Shape, LoadInputs, RunTrust, RunClient, RunOutput, RunBanner, At, Where
<1>2. /\ p.cfg = Cfg /\ (p.pc # "inputs" => Admitted)
      /\ p.pc \in {"client", "output", "banner"} => p.trust # "none"
      /\ p.pc \in {"output", "banner"} => Resolves
      /\ p.dir => p.pc \in {"output", "banner"}
  BY <1>1 DEF GatesInv, Loaded, RunOrder, Unloaded
<1>3. ready => Trusted /\ Connects /\ Resolves
  BY DEF GatesInv, Verdicts
<1>4. CASE LoadInputs
  <2>1. p.pc = "inputs" /\ (Exit(p, 2) \/ Exit(p, 1) \/ (Admitted /\ Goto(p, "trust")))
    BY <1>2, <1>4 DEF LoadInputs, At, Gate, Admitted
  <2>2. CASE Exit(p, 2) \/ Exit(p, 1)
    BY <1>1, <1>2, <2>1, <2>2, RunStops
  <2>3. CASE Admitted /\ Goto(p, "trust")
    BY <1>1, <1>2, <2>1, <2>3, RunGoes
  <2>4. QED
    BY <2>1, <2>2, <2>3
<1>5. CASE RunTrust
  <2> DEFINE q == [p EXCEPT !.trust = TSARoots(Cfg)]
  <2>1. p.pc = "trust" /\ IF Trusted THEN Goto(q, "client") ELSE Exit(p, 1)
    BY <1>2, <1>5 DEF RunTrust, At, Gate, Trusted
  <2>2. /\ Shaped(q) /\ q.args = p.args /\ q.exit = p.exit /\ q.stoppedAt = p.stoppedAt
        /\ q.cfg = p.cfg /\ q.limited = p.limited /\ q.sent = p.sent /\ q.tokens = p.tokens
        /\ q.warned = p.warned /\ q.trust = TSARoots(Cfg) /\ q.dir = p.dir /\ q.touched = p.touched
    BY <1>1, Revised
  <2> HIDE DEF q
  <2>3. TSARoots(Cfg) # "none"
    BY DEF TSARoots
  <2>4. CASE Trusted
    BY <1>1, <1>2, <2>1, <2>2, <2>3, <2>4, RunGoes
  <2>5. CASE ~Trusted
    BY <1>1, <1>2, <1>3, <2>1, <2>5, RunStops
  <2>6. QED
    BY <2>4, <2>5
<1>6. CASE RunClient
  <2>1. p.pc = "client" /\ IF Connects /\ Resolves THEN Goto(p, "output") ELSE Exit(p, 1)
    BY <1>2, <1>6 DEF RunClient, At, Gate, Connects, Resolves
  <2>2. CASE Connects /\ Resolves
    BY <1>1, <1>2, <2>1, <2>2, RunGoes
  <2>3. CASE ~(Connects /\ Resolves)
    BY <1>1, <1>2, <1>3, <2>1, <2>3, RunStops
  <2>4. QED
    BY <2>2, <2>3
<1>7. CASE RunOutput
  <2>1. PICK dir \in BOOLEAN :
           /\ p.pc = "output"
           /\ \/ dir /\ Goto([p EXCEPT !.dir = dir], "banner")
              \/ Exit([p EXCEPT !.dir = dir], 1)
    BY <1>7 DEF RunOutput, At
  <2> DEFINE q == [p EXCEPT !.dir = dir]
  <2>2. /\ Shaped(q) /\ q.args = p.args /\ q.exit = p.exit /\ q.stoppedAt = p.stoppedAt
        /\ q.cfg = p.cfg /\ q.limited = p.limited /\ q.sent = p.sent /\ q.tokens = p.tokens
        /\ q.warned = p.warned /\ q.trust = p.trust /\ q.touched = p.touched
    BY <1>1, Revised
  <2>3. Goto(q, "banner") \/ Exit(q, 1)
    BY <2>1
  <2> HIDE DEF q
  <2>4. CASE Goto(q, "banner")
    BY <1>1, <1>2, <2>1, <2>2, <2>4, RunGoes
  <2>5. CASE Exit(q, 1)
    BY <1>1, <1>2, <2>1, <2>2, <2>5, RunStops
  <2>6. QED
    BY <2>3, <2>4, <2>5
<1>8. CASE RunBanner
  <2> DEFINE q == [p EXCEPT !.warned = Warnings(Cfg)]
  <2>1. p.pc = "banner" /\ Goto(q, "running")
    BY <1>2, <1>8 DEF RunBanner, At
  <2>2. /\ Shaped(q) /\ q.args = p.args /\ q.exit = p.exit /\ q.stoppedAt = p.stoppedAt
        /\ q.cfg = p.cfg /\ q.limited = p.limited /\ q.sent = p.sent /\ q.tokens = p.tokens
        /\ q.warned = Warnings(Cfg) /\ q.trust = p.trust /\ q.dir = p.dir /\ q.touched = p.touched
    BY <1>1, Revised
  <2> HIDE DEF q
  <2>3. QED
    BY <1>1, <1>2, <2>1, <2>2, RunGoes
<1>9. QED
  BY <1>4, <1>5, <1>6, <1>7, <1>8

\* A sound Config has its limits in order.
LEMMA Limits ==
    ASSUME Sound
    PROVE  /\ Cfg.hardCap \in 1 .. MaxConfigurableHardCap /\ Cfg.hardCap \in Nat
           /\ Cfg.maxRequests \in 0 .. Cfg.hardCap /\ Cfg.maxRequests \in Nat
<1>1. Cfg.hardCap \in 1 .. MaxConfigurableHardCap /\ Cfg.maxRequests \in 0 .. Cfg.hardCap
  BY DEF Sound, LimitsValid
<1>2. MaxConfigurableHardCap \in Int
  BY GatesAssumption
<1>3. QED
  BY <1>1, <1>2

\* Runner.Run.
LEMMA RunRuns ==
    ASSUME GatesInv, RunLoad
    PROVE  GatesInv'
<1>1. /\ p.args.cmd = "run" /\ p.pc = "running" /\ Where = p.pc /\ Shaped(p)
  BY DEF GatesInv, Shape, RunLoad, At, Where
<1>2. p.cfg = Cfg /\ Sound
  BY <1>1 DEF GatesInv, Loaded, Unloaded
<1>3. p.args.maxRequests \in Int /\ p.args.maxRequests > 0
  BY <1>1, ArgsTyped DEF GatesInv, RunOrder, Shaped
<1>4. Quota \in Nat /\ Quota <= p.args.maxRequests /\ Quota <= p.cfg.hardCap /\ p.cfg.hardCap \in Nat
  BY <1>2, <1>3, Limits DEF Quota
<1>5. PICK sent \in 0 .. Quota, code \in {0, 1, 3, 4, 130} :
         Exit([p EXCEPT !.touched = TRUE, !.sent = sent, !.tokens = sent,
                        !.limited = Limitations(Cfg)], code)
  BY <1>2 DEF RunLoad
<1> DEFINE q == [p EXCEPT !.touched = TRUE, !.sent = sent, !.tokens = sent,
                          !.limited = Limitations(Cfg)]
<1>6. /\ q = [f \in Fields |-> q[f]] /\ q.args = p.args /\ q.cfg = p.cfg /\ q.warned = p.warned
      /\ q.trust = p.trust /\ q.dir = p.dir /\ q.touched = TRUE /\ q.sent = sent /\ q.tokens = sent
      /\ q.limited = Limitations(Cfg)
  BY <1>1 DEF Shaped, Fields
<1> HIDE DEF q
<1>7. sent \in Nat /\ sent <= p.args.maxRequests /\ sent <= p.cfg.hardCap
  BY <1>3, <1>4
<1>8. Shaped(q)
  <2>1. p.args \in CommandLines \cup {NoCommand} /\ p.dir \in BOOLEAN
    BY <1>1 DEF Shaped
  <2>2. sent \in 0 .. sent
    BY <1>7
  <2>3. QED
    BY <1>6, <1>7, <2>1, <2>2, Zenon DEF Shaped
<1>9. Exit(q, code)
  BY <1>5 DEF q
<1>10. QED
  BY <1>1, <1>6, <1>7, <1>8, <1>9, RunStops

\* A command is issued.
LEMMA LaunchStep ==
    ASSUME GatesInv, Launch
    PROVE  GatesInv'
<1>1. PICK args \in Commands : p' = Process(args)
  BY DEF Launch
<1>2. /\ stale' = FALSE /\ launched < MaxCommands /\ launched' = launched + 1
      /\ UNCHANGED <<doc, profile, files, conversion, refused, ready, edits>>
  BY DEF Launch
<1>3. /\ p' = [f \in Fields |-> p'[f]] /\ p'.args = args /\ p'.pc = "flags" /\ p'.cfg = NoConfig
      /\ p'.limited = {} /\ p'.trust = "none" /\ p'.dir = FALSE
      /\ p'.touched = FALSE /\ p'.sent = 0 /\ p'.tokens = 0 /\ p'.exit = -1 /\ p'.stoppedAt = "none"
  BY <1>1 DEF Process, Fields
<1>4. args \in CommandLines /\ args # NoCommand
  BY GatesAssumption DEF CommandLines, NoCommand
<1>5. Where' = "flags"
  BY <1>3 DEF Where
<1>6. Session'
  <2>1. MaxCommands \in Nat /\ launched \in 0 .. MaxCommands
    BY GatesAssumption DEF GatesInv, Session
  <2>2. launched' \in 0 .. MaxCommands
    BY <1>2, <2>1
  <2>3. QED
    BY <1>2, <2>2 DEF GatesInv, Session
<1>7. Shape'
  <2>1. Shaped(p)'
    <3>1. 0 \in 0 .. 0 /\ 0 \in Nat
      OBVIOUS
    <3>2. QED
      BY <1>3, <1>4, <3>1, Zenon DEF Shaped
  <2>2. QED
    BY <1>3, <1>4, <2>1 DEF Shape
<1>8. Loaded'
  BY <1>3, <1>5 DEF Loaded, Unloaded
<1>9. ValidateOrder' /\ DoctorOrder' /\ RunOrder'
  BY <1>3, <1>5 DEF ValidateOrder, DoctorOrder, RunOrder, ValidateLabels, DoctorLabels, RunLabels, Reaching
<1>10. Verdicts'
  BY <1>2, Disk DEF GatesInv, Verdicts
<1>11. QED
  BY <1>6, <1>7, <1>8, <1>9, <1>10 DEF GatesInv

\* A file is replaced, or nothing happens.
LEMMA EditStep ==
    ASSUME GatesInv, EditFile \/ UNCHANGED vars
    PROVE  GatesInv'
<1>1. CASE EditFile
  <2>1. /\ edits < MaxEdits /\ edits' = edits + 1 /\ stale' = TRUE /\ refused' = FALSE
        /\ ready' = FALSE /\ UNCHANGED <<doc, profile, conversion, p, launched>>
    BY <1>1 DEF EditFile
  <2>2. PICK name \in doc.config.tlsFiles, held \in Held : files' = [files EXCEPT ![name] = held]
    BY <1>1 DEF EditFile
  <2>3. Session'
    <3>1. Session /\ doc.config.tlsFiles \subseteq FileNames
      BY DEF GatesInv, Session, Documents, Configs
    <3>2. files' \in [FileNames -> Held]
      BY <2>2, <3>1 DEF Session
    <3>3. MaxEdits \in Nat /\ edits \in 0 .. MaxEdits
      BY <3>1, GatesAssumption DEF Session
    <3>4. edits' \in 0 .. MaxEdits
      BY <2>1, <3>3
    <3>5. QED
      BY <2>1, <3>1, <3>2, <3>4 DEF Session
  <2>4. Where' = Where /\ Shape'
    BY <2>1 DEF GatesInv, Shape, Shaped, Where
  <2>5. /\ Cfg' = Cfg /\ Sound' = Sound /\ Resolves' = Resolves /\ Admitted' = Admitted
        /\ TSARoots(Cfg)' = TSARoots(Cfg) /\ Warnings(Cfg)' = Warnings(Cfg)
        /\ Limitations(Cfg)' = Limitations(Cfg)
    BY <2>1, Disk
  <2>6. Loaded' /\ ValidateOrder' /\ DoctorOrder'
    BY <2>1, <2>4, <2>5 DEF GatesInv, Loaded, ValidateOrder, DoctorOrder
  <2>7. RunOrder'
    BY <2>1, <2>4, <2>5 DEF GatesInv, RunOrder
  <2>8. Verdicts'
    BY <2>1 DEF Verdicts
  <2>9. QED
    BY <2>3, <2>4, <2>6, <2>7, <2>8 DEF GatesInv
<1>2. CASE UNCHANGED vars
  <2>1. UNCHANGED <<doc, profile, files, conversion, p, refused, ready, stale, launched, edits>>
    BY <1>2 DEF vars
  <2>2. Session' /\ Shape' /\ Where' = Where
    BY <2>1 DEF GatesInv, Session, Shape, Shaped, Where
  <2>3. /\ Cfg' = Cfg /\ Sound' = Sound /\ Resolves' = Resolves /\ Admitted' = Admitted
        /\ TSARoots(Cfg)' = TSARoots(Cfg) /\ Warnings(Cfg)' = Warnings(Cfg) /\ Loads' = Loads
        /\ Limitations(Cfg)' = Limitations(Cfg) /\ Trusted' = Trusted /\ Connects' = Connects
        /\ Sends' = Sends /\ Fits' = Fits
    BY <2>1, Disk
  <2>4. Loaded' /\ ValidateOrder' /\ DoctorOrder'
    BY <2>1, <2>2, <2>3 DEF GatesInv, Loaded, ValidateOrder, DoctorOrder
  <2>5. RunOrder' /\ Verdicts'
    BY <2>1, <2>2, <2>3 DEF GatesInv, RunOrder, Verdicts
  <2>6. QED
    BY <2>2, <2>4, <2>5 DEF GatesInv
<1>3. QED
  BY <1>1, <1>2

-----------------------------------------------------------------------------
\* The strengthened invariant holds in every session.
THEOREM GatesInvariant == Spec => []GatesInv
<1>1. Init => GatesInv
  <2> SUFFICES ASSUME Init PROVE GatesInv
    OBVIOUS
  <2>1. /\ p = [f \in Fields |-> p[f]] /\ p.args = NoCommand /\ p.pc = "exited" /\ p.cfg = NoConfig
        /\ p.limited = {} /\ p.trust = "none" /\ p.dir = FALSE
        /\ p.touched = FALSE /\ p.sent = 0 /\ p.tokens = 0 /\ p.exit = -1 /\ p.stoppedAt = "none"
    BY DEF Init, Process, Fields
  <2>2. Where = "none" /\ p.args.cmd = "none"
    BY <2>1 DEF Where, NoCommand
  <2>3. Session
    <3>1. PICK i \in Inputs : doc = i.doc /\ profile = i.profile /\ files = i.files
      BY DEF Init
    <3>2. doc \in Documents /\ profile \in Profiles /\ files \in [FileNames -> Held]
      BY <3>1, GatesAssumption
    <3>3. QED
      <4>1. MaxCommands \in Nat /\ MaxEdits \in Nat
        BY GatesAssumption
      <4>2. 0 \in 0 .. MaxCommands /\ 0 \in 0 .. MaxEdits
        BY <4>1
      <4>3. QED
        BY <3>2, <4>2, Zenon DEF Init, Session
  <2>4. Shape
    <3>1. Shaped(p)
      <4>1. 0 \in 0 .. 0 /\ 0 \in Nat
        OBVIOUS
      <4>2. QED
        BY <2>1, <4>1, Zenon DEF Shaped
    <3>2. QED
      BY <2>1, <3>1 DEF Shape
  <2>5. Loaded /\ ValidateOrder /\ DoctorOrder /\ RunOrder
    BY <2>1, <2>2 DEF Loaded, ValidateOrder, DoctorOrder, RunOrder, Unloaded
  <2>6. Verdicts
    BY DEF Init, Verdicts
  <2>7. QED
    BY <2>3, <2>4, <2>5, <2>6 DEF GatesInv
<1>2. GatesInv /\ [Next]_vars => GatesInv'
  BY FlagsStep, LoadStep, ValidateStep, DoctorReaches, DoctorSends, RunStarts, RunRuns, LaunchStep,
     EditStep DEF Next, Rest
<1>3. QED
  BY <1>1, <1>2, PTL DEF Spec

\* Every state of a session is of its type, and a Config a command works from
\* has its limits and defaults in order, whatever the document said.
THEOREM GatesTypeOK == Spec => []TypeOK
<1>1. ASSUME GatesInv PROVE TypeOK
  <2>1. Session /\ Shape /\ Loaded /\ Shaped(p)
    BY <1>1 DEF GatesInv, Shape
  <2>2. p.cfg # NoConfig => p.cfg = Cfg /\ Sound
    BY <2>1 DEF Loaded
  <2>3. Cfg.certReq \in {"true", "false"} /\ Cfg.directory # ""
    <3> DEFINE c == doc.config
    <3>1. c \in Configs
      BY <2>1 DEF Session, Documents
    <3>2. /\ {"certReq", "hardCap", "minVersion", "directory"} \subseteq DOMAIN c
          /\ c.certReq \in {"absent", "true", "false"}
      BY <3>1 DEF Configs
    <3> HIDE DEF c
    <3>3. c = [f \in DOMAIN c |-> c[f]]
      BY <3>1 DEF Configs, c
    <3> DEFINE certReq == IF c.certReq = "absent" THEN "true" ELSE c.certReq
               hardCap == IF c.hardCap = 0 THEN DefaultHardCap ELSE c.hardCap
               minVersion == IF c.minVersion = "" THEN "1.2" ELSE c.minVersion
               directory == IF c.directory = "" THEN "results" ELSE c.directory
               D == DOMAIN c
               c1 == [f \in D |-> IF f = "certReq" THEN certReq ELSE c[f]]
               c2 == [f \in D |-> IF f = "hardCap" THEN hardCap ELSE c1[f]]
               c3 == [f \in D |-> IF f = "minVersion" THEN minVersion ELSE c2[f]]
               c4 == [f \in D |-> IF f = "directory" THEN directory ELSE c3[f]]
    <3>4. ApplyDefaults(c) = c4
      <4>1. ApplyDefaults(c) = [c EXCEPT !.certReq = certReq, !.hardCap = hardCap,
                                         !.minVersion = minVersion, !.directory = directory]
        BY Zenon DEF ApplyDefaults
      <4> HIDE DEF certReq, hardCap, minVersion, directory
      <4>2. [c EXCEPT !.certReq = certReq] = c1
        BY <3>3, Zenon
      <4> HIDE DEF c1
      <4>3. [c1 EXCEPT !.hardCap = hardCap] = c2
        BY Zenon DEF c1
      <4> HIDE DEF c2
      <4>4. [c2 EXCEPT !.minVersion = minVersion] = c3
        BY Zenon DEF c2
      <4> HIDE DEF c3
      <4>5. [c3 EXCEPT !.directory = directory] = c4
        BY Zenon DEF c3
      <4>6. QED
        BY <4>1, <4>2, <4>3, <4>4, <4>5, Zenon
    <3>5. certReq \in {"true", "false"} /\ directory # ""
      BY <3>2
    <3> HIDE DEF certReq, hardCap, minVersion, directory
    <3>6. c4.certReq = certReq /\ c4.directory = directory
      BY <3>2
    <3> HIDE DEF c4
    <3>7. QED
      BY <3>4, <3>5, <3>6 DEF Cfg, c
  <2>4. p.cfg # NoConfig => /\ p.cfg.hardCap \in 1 .. MaxConfigurableHardCap
                            /\ p.cfg.maxRequests \in 0 .. p.cfg.hardCap
                            /\ p.cfg.certReq = "true" /\ p.cfg.directory # ""
    <3>1. Sound => Cfg.certReq # "false"
      BY Zenon DEF Sound, RequestValid
    <3>2. QED
      BY <2>2, <2>3, <3>1, Limits
  <2>5. p.args.cmd \in {"none", "validate", "doctor", "run"}
    BY <2>1, ArgsTyped DEF Shaped
  <2>6. p.pc \in {"flags", "load", "credentials", "profile", "warn", "dns", "tcp", "tls",
                  "reached", "trust", "client", "prime", "post", "inputs", "output",
                  "banner", "running", "exited"}
    <3>1. CASE p.pc = "exited"
      BY <3>1
    <3>2. CASE p.pc # "exited"
      <4>1. Where = p.pc /\ p.pc # "none"
        BY <2>1, <3>2 DEF Where, Shape
      <4>2. QED
        BY <1>1, <2>5, <4>1 DEF GatesInv, ValidateOrder, DoctorOrder, RunOrder, ValidateLabels,
             DoctorLabels, RunLabels, Reaching
    <3>3. QED
      BY <3>1, <3>2
  <2>7. p.trust \in FileNames \cup {"none", "system"}
    BY <2>1 DEF Loaded, TSARoots, FileNames
  <2>8. p.limited \subseteq p.warned
    <3>1. Limitations(Cfg) \subseteq Warnings(Cfg)
      BY DEF Limitations
    <3>2. QED
      BY <1>1, <2>5, <3>1 DEF GatesInv, ValidateOrder, DoctorOrder, RunOrder
  <2>9. QED
    BY <2>1, <2>4, <2>6, <2>7, <2>8 DEF TypeOK, Session, Shape, Shaped
<1>2. QED
  BY <1>1, GatesInvariant, PTL

\* Whatever the configuration and the session: nothing is sent that was not
\* authorised, acknowledged and announced, and a run stopped while it starts
\* leaves nothing behind.
THEOREM GatesSpend == Spec => []SpendAuthorised
<1>1. ASSUME GatesInv PROVE SpendAuthorised
  <2>1. Shape /\ Shaped(p) /\ p.sent \in Nat /\ p.tokens \in 0 .. p.sent
    BY <1>1 DEF GatesInv, Shape, Shaped
  <2>2. p.args.cmd \in {"none", "validate"} => ~p.touched /\ p.sent = 0
    BY <1>1 DEF GatesInv, ValidateOrder
  <2>3. p.args.cmd = "doctor" => p.tokens <= 1 /\ (p.sent > 0 => p.args.sendOne)
    BY <1>1 DEF GatesInv, DoctorOrder
  <2>4. ASSUME p.args.cmd = "run"
        PROVE  /\ p.sent > 0 =>
                     /\ p.args.authorized /\ (p.cfg.environment = "live" => p.args.ackLive)
                     /\ p.tokens <= p.args.maxRequests /\ p.tokens <= p.cfg.hardCap
               /\ p.stoppedAt \in {"flags", "load", "inputs", "trust", "client"} =>
                     ~p.dir /\ ~p.touched /\ p.sent = 0
               /\ p.exit = 2 => p.stoppedAt \in {"flags", "inputs"}
               /\ p.dir \/ p.touched => p.trust # "none" /\ ResolveCredentials(p.cfg)
    <3>1. RunOrder /\ Loaded
      BY <1>1 DEF GatesInv
    <3>2. p.stoppedAt # "none" \/ p.exit # -1 => Where = p.stoppedAt
      BY <2>1 DEF Shape, Where
    <3>3. Where \in {"output", "banner", "running"} => p.cfg = Cfg
      BY <3>1 DEF Loaded, Unloaded
    <3>4. ASSUME p.sent > 0
          PROVE  /\ p.args.authorized /\ (p.cfg.environment = "live" => p.args.ackLive)
                 /\ p.tokens <= p.args.maxRequests /\ p.tokens <= p.cfg.hardCap
      <4>1. p.touched /\ Where = "running"
        BY <2>4, <3>1, <3>4 DEF RunOrder
      <4>2. p.args.authorized /\ Admitted
        BY <2>4, <3>1, <4>1 DEF RunOrder
      <4>3. p.sent <= p.args.maxRequests /\ p.sent <= p.cfg.hardCap
        BY <2>4, <3>1, <3>4 DEF RunOrder
      <4>4. Sound /\ p.cfg = Cfg
        BY <3>1, <4>1 DEF Loaded, Unloaded
      <4>5. p.cfg.hardCap \in Nat /\ p.args.maxRequests \in Int
        BY <2>1, <2>4, <4>4, Limits, ArgsTyped DEF Shaped
      <4>6. p.tokens <= p.args.maxRequests /\ p.tokens <= p.cfg.hardCap
        BY <2>1, <4>3, <4>5
      <4>7. QED
        BY <4>2, <4>4, <4>6 DEF Admitted
    <3>5. p.dir \/ p.touched => p.trust # "none" /\ ResolveCredentials(p.cfg)
      BY <2>4, <3>1, <3>3 DEF RunOrder, Resolves
    <3>6. p.stoppedAt \in {"flags", "load", "inputs", "trust", "client"} =>
             ~p.dir /\ ~p.touched /\ p.sent = 0
      BY <2>4, <3>1, <3>2 DEF RunOrder
    <3>7. p.exit = 2 => p.stoppedAt \in {"flags", "inputs"}
      BY <2>4, <3>1, <3>2 DEF RunOrder
    <3>8. QED
      BY <3>4, <3>5, <3>6, <3>7
  <2>5. QED
    BY <2>2, <2>3, <2>4 DEF SpendAuthorised
<1>2. QED
  BY <1>1, GatesInvariant, PTL

\* Traffic in plaintext, to an unauthenticated peer or judged against the
\* system roots was warned of, and reported by run.
THEOREM GatesDisclosure == Spec => []NothingUndisclosed
<1>1. ASSUME GatesInv, p.touched PROVE NothingUndisclosed
  <2> DEFINE facts == { w \in {"skip_verify", "allow_plaintext", "tsa_ca_file"} :
                         \/ w = "skip_verify" /\ p.cfg.insecureSkipVerify
                         \/ w = "allow_plaintext" /\ p.cfg.endpoint.scheme = "http"
                                                  /\ p.cfg.endpoint.host # "loopback"
                         \/ w = "tsa_ca_file" /\ p.trust = "system" }
  <2>1. p.args.cmd \in {"none", "validate", "doctor", "run"}
    BY <1>1, ArgsTyped DEF GatesInv, Shape, Shaped
  <2>2. /\ p.args.cmd \in {"doctor", "run"} /\ p.warned = Warnings(Cfg) /\ Where \notin Unloaded
        /\ p.args.cmd = "run" => p.limited = Limitations(Cfg)
    BY <1>1, <2>1 DEF GatesInv, ValidateOrder, DoctorOrder, RunOrder, Reaching, Unloaded
  <2>3. /\ p.cfg = Cfg /\ EndpointValid(Cfg) /\ (p.trust = "system" => TSARoots(Cfg) = "system")
    BY <1>1, <2>2 DEF GatesInv, Loaded, Sound
  <2>4. facts \subseteq Warnings(Cfg) /\ facts \subseteq Limitations(Cfg)
    <3>1. p.trust = "system" => "tsaCA" \notin Cfg.tlsFiles
      BY <2>3 DEF TSARoots
    <3>2. Cfg.endpoint.scheme = "http" => IsLoopbackHost(Cfg.endpoint.host) \/ Cfg.allowPlaintext
      BY <2>3 DEF EndpointValid
    <3>3. QED
      BY <2>3, <3>1, <3>2 DEF Warnings, Limitations, IsLoopbackHost
  <2>5. QED
    BY <2>2, <2>4 DEF NothingUndisclosed
<1>2. GatesInv => NothingUndisclosed
  BY <1>1 DEF NothingUndisclosed
<1>3. QED
  BY <1>2, GatesInvariant, PTL

\* What a profile asks for is a number.
LEMMA DemandCounts ==
    ASSUME Session
    PROVE  Demand(profile) \in Nat
<1> DEFINE units(i) == {i} \X (1 .. Planned(profile.stages[i]))
           all == {units(i) : i \in DOMAIN profile.stages}
           f == [i \in DOMAIN profile.stages |-> units(i)]
<1>1. profile.stages \in Seq(Stages)
  BY DEF Session, Profiles
<1>2. DOMAIN profile.stages = 1 .. Len(profile.stages) /\ Len(profile.stages) \in Nat
  BY <1>1
<1>3. \A i \in DOMAIN profile.stages : Planned(profile.stages[i]) \in Int
  <2> TAKE i \in DOMAIN profile.stages
  <2> DEFINE s == profile.stages[i]
  <2>1. s \in Stages
    BY <1>1
  <2> HIDE DEF s
  <2>2. s.count \in Int /\ s.tps \in Int /\ s.duration \in Int
    BY <2>1 DEF Stages
  <2>3. TpsUnit \in Nat \ {0} /\ Int64Max \in Nat
    BY GatesAssumption
  <2>4. conversion \in Int
    BY <2>3 DEF Session
  <2>5. (s.tps * s.duration) \div TpsUnit \in Int
    <3> DEFINE n == s.tps * s.duration
    <3>1. n \in Int
      BY <2>2
    <3> HIDE DEF n
    <3>2. n \div TpsUnit \in Int
      BY <2>3, <3>1
    <3>3. QED
      BY <3>2 DEF n
  <2>6. QED
    BY <2>2, <2>4, <2>5 DEF Planned, s
<1>4. IsFiniteSet(DOMAIN profile.stages)
  BY <1>2, FS_Interval
<1>5. \A i \in DOMAIN profile.stages : IsFiniteSet(units(i))
  <2> TAKE i \in DOMAIN profile.stages
  <2>1. IsFiniteSet({i}) /\ IsFiniteSet(1 .. Planned(profile.stages[i]))
    <3>1. ASSUME NEW b \in Int PROVE IsFiniteSet(1 .. b)
      BY FS_Interval
    <3>2. QED
      BY <1>3, <3>1, FS_Singleton
  <2>2. QED
    BY <2>1, FS_Product
<1>6. f \in Surjection(DOMAIN profile.stages, all)
  BY DEF Surjection
<1>7. IsFiniteSet(all)
  BY <1>4, <1>6, FS_Surjection
<1>8. IsFiniteSet(UNION all)
  BY <1>5, <1>7, FS_UNION
<1>9. QED
  BY <1>8, FS_CardinalityType DEF Demand

\* int64 holds what is no larger than it.
LEMMA WrapExact ==
    ASSUME NEW n \in 0 .. Int64Max
    PROVE  Wrap(n) = n
<1>1. Int64Max \in Nat
  BY GatesAssumption
<1> DEFINE m == n + Int64Max + 1
           w == 2 * (Int64Max + 1)
<1>2. m \in Nat /\ w \in Nat /\ m < w
  BY <1>1
<1> HIDE DEF m, w
<1>3. m % w = m
  BY <1>2
<1>4. Wrap(n) = (m % w) - (Int64Max + 1)
  BY DEF Wrap, m, w
<1>5. QED
  BY <1>1, <1>3, <1>4 DEF m

\* A run that started was admitted, within a budget no larger than validate's.
LEMMA StartedAdmitted ==
    ASSUME GatesInv, Started
    PROVE  /\ p.args.cmd = "run" /\ p.cfg = Cfg /\ Sound /\ Admitted /\ Resolves /\ (~stale => Loads)
           /\ p.args.maxRequests \in Int /\ p.args.maxRequests > 0
           /\ Budget(Cfg, p.args.maxRequests) = p.args.maxRequests
           /\ p.args.maxRequests <= Cfg.hardCap
           /\ Cfg.maxRequests > 0 => p.args.maxRequests <= Cfg.maxRequests
           /\ p.args.maxRequests <= Budget(Cfg, 0) /\ Budget(Cfg, 0) \in Nat
<1>1. p.args.cmd = "run" /\ Where \in {"output", "banner", "running"}
  BY DEF Started, GatesInv, Shape, Where
<1>2. p.cfg = Cfg /\ Sound /\ (~stale => Loads)
  BY <1>1 DEF GatesInv, Loaded, Unloaded
<1>3. Admitted /\ Resolves /\ p.args.maxRequests > 0
  BY <1>1 DEF GatesInv, RunOrder
<1>4. p.args.maxRequests \in Int
  BY <1>1, ArgsTyped DEF GatesInv, Shape, Shaped
<1>5. Cfg.hardCap \in Nat /\ Cfg.maxRequests \in Nat
  BY <1>2, Limits
<1>6. Budget(Cfg, p.args.maxRequests) # -1
  BY <1>3 DEF Admitted
<1>7. /\ Budget(Cfg, p.args.maxRequests) = p.args.maxRequests
      /\ p.args.maxRequests <= Cfg.hardCap
      /\ Cfg.maxRequests > 0 => p.args.maxRequests <= Cfg.maxRequests
  BY <1>3, <1>4, <1>5, <1>6 DEF Budget
<1>8. p.args.maxRequests <= Budget(Cfg, 0) /\ Budget(Cfg, 0) \in Nat
  BY <1>4, <1>5, <1>7 DEF Budget
<1>9. QED
  BY <1>1, <1>2, <1>3, <1>4, <1>7, <1>8

\* What int64 additions return is an integer.
LEMMA WrapTyped ==
    ASSUME NEW n \in Int
    PROVE  Wrap(n) \in Int
<1>1. Int64Max \in Nat
  BY GatesAssumption
<1> DEFINE m == n + Int64Max + 1
           w == 2 * (Int64Max + 1)
<1>2. m \in Int /\ w \in Nat /\ w > 0
  BY <1>1
<1> HIDE DEF m, w
<1>3. m % w \in Int
  BY <1>2
<1>4. Wrap(n) = (m % w) - (Int64Max + 1)
  BY DEF Wrap, m, w
<1>5. QED
  BY <1>1, <1>3, <1>4

\* A run that starts fits: its quota, max_requests and, with its reserve, the
\* hard cap, for every profile whose sums fit int64.
THEOREM GatesStartedFits == Spec => []StartedFits
<1>1. ASSUME GatesInv, Started, Exact
      PROVE  /\ Demand(profile) <= Quota
             /\ p.cfg.maxRequests > 0 => Demand(profile) <= p.cfg.maxRequests
             /\ Demand(profile) + profile.reserve <= p.cfg.hardCap
             /\ \A i \in DOMAIN profile.stages : Planned(profile.stages[i]) >= 1
  <2>1. /\ p.cfg = Cfg /\ Sound /\ Admitted
        /\ p.args.maxRequests \in Int /\ Budget(Cfg, p.args.maxRequests) = p.args.maxRequests
        /\ Cfg.maxRequests > 0 => p.args.maxRequests <= Cfg.maxRequests
    BY <1>1, StartedAdmitted
  <2>2. Cfg.hardCap \in Nat /\ Cfg.maxRequests \in Nat
    BY <2>1, Limits
  <2>3. Demand(profile) \in Nat /\ profile.reserve \in Int
    BY <1>1, DemandCounts DEF GatesInv, Session, Profiles
  <2>4. /\ ProfileLoads(profile)
        /\ CheckAgainstQuota(profile, p.args.maxRequests, Cfg.hardCap)
    BY <2>1 DEF Admitted
  <2>5. profile.reserve >= 0 /\ \A i \in DOMAIN profile.stages : StageValid(profile.stages[i])
    BY <2>4 DEF ProfileLoads
  <2>6. Demand(profile) + profile.reserve \in 0 .. Int64Max /\ Demand(profile) \in 0 .. Int64Max
    BY <1>1, <2>3, <2>5, GatesAssumption DEF Exact
  <2>7. TotalPlanned(profile) = Demand(profile)
    BY <2>6, WrapExact DEF TotalPlanned
  <2>8. Wrap(Demand(profile) + profile.reserve) = Demand(profile) + profile.reserve
    BY <2>6, WrapExact
  <2>9. /\ Demand(profile) <= p.args.maxRequests /\ Demand(profile) <= Cfg.hardCap
        /\ profile.reserve > 0 => Demand(profile) + profile.reserve <= Cfg.hardCap
    BY <2>4, <2>7, <2>8 DEF CheckAgainstQuota
  <2>10. \A i \in DOMAIN profile.stages : Planned(profile.stages[i]) >= 1
    BY <2>5 DEF StageValid, Planned
  <2>11. QED
    BY <2>1, <2>2, <2>3, <2>5, <2>9, <2>10 DEF Quota
<1>2. GatesInv => StartedFits
  BY <1>1 DEF StartedFits
<1>3. QED
  BY <1>2, GatesInvariant, PTL

\* A run never starts on what validate has refused, and after a doctor
\* --send-one that passed no run is stopped by its configuration, roots, client
\* or credentials.
THEOREM GatesAgree == Spec => []CommandsAgree
<1>1. ASSUME GatesInv, Started PROVE ~refused
  <2>1. /\ Sound /\ Admitted /\ Resolves /\ (~stale => Loads)
        /\ p.args.maxRequests \in Int /\ Budget(Cfg, p.args.maxRequests) = p.args.maxRequests
        /\ p.args.maxRequests <= Budget(Cfg, 0) /\ Budget(Cfg, 0) \in Nat
    BY <1>1, StartedAdmitted
  <2>2. TotalPlanned(profile) \in Int
    BY <1>1, DemandCounts, WrapTyped DEF GatesInv, TotalPlanned
  <2>3. /\ ProfileLoads(profile)
        /\ CheckAgainstQuota(profile, p.args.maxRequests, Cfg.hardCap)
    BY <2>1 DEF Admitted
  <2>4. TotalPlanned(profile) <= Budget(Cfg, 0)
    BY <2>1, <2>2, <2>3 DEF CheckAgainstQuota
  <2>5. Fits
    BY <2>3, <2>4 DEF CheckAgainstQuota, Fits
  <2>6. QED
    BY <1>1, <2>1, <2>5 DEF GatesInv, Verdicts
<1>2. ASSUME GatesInv, p.args.cmd = "run", ready
      PROVE  /\ p.exit = 1 => p.stoppedAt \in {"inputs", "output", "running"}
             /\ p.cfg # NoConfig => Builds(p.cfg)
  <2>1. Sends
    BY <1>2 DEF GatesInv, Verdicts
  <2>2. p.cfg # NoConfig => p.cfg = Cfg
    BY <1>2 DEF GatesInv, Loaded
  <2>3. p.exit = 1 => Where = p.stoppedAt
    BY <1>2 DEF GatesInv, Shape, Where
  <2>4. p.exit = 1 => Where \in {"inputs", "output", "running"}
    BY <1>2 DEF GatesInv, RunOrder
  <2>5. QED
    BY <2>1, <2>2, <2>3, <2>4 DEF Sends
<1>3. GatesInv => CommandsAgree
  BY <1>1, <1>2 DEF CommandsAgree
<1>4. QED
  BY <1>3, GatesInvariant, PTL
=============================================================================
