------------------------------ MODULE RunCommand ------------------------------
(***************************************************************************)
(* The run command (cmd/tsa-bench/run.go) around load.Runner: once Run has *)
(* returned it flushes the record, checks requests.csv against the writer's*)
(* own row count, closes the writer and chooses the exit status.  Workers  *)
(* the drain left behind run on until the process ends.                    *)
(*                                                                         *)
(* The writer (internal/report/writer.go) buffers 256 KB above the file:   *)
(* disk is what requests.csv holds, a prefix of the rows accepted.  A sync *)
(* client (external) may at any time put an empty file in its place, after *)
(* which nothing the writer does reaches it.                               *)
(***************************************************************************)
EXTENDS Runner

VARIABLES
    cmd,       \* where runLoad is
    disk,      \* rows per sequence in the file requests.csv names
    fileLost,  \* the sync client has replaced the file
    wantRows,  \* writer.Rows(), as verifyRecordIntegrity was given it
    recordsOK, \* what it returned
    lostAtCount, \* history: the file was gone when it was counted
    exit       \* exit status; -1 while running, 137 when killed

commandVars == <<cmd, disk, fileLost, wantRows, recordsOK, lostAtCount, exit>>
allVars == <<runnerVars, commandVars>>

-----------------------------------------------------------------------------
\* CountDataRows, of a function of rows per sequence: the rows <<sequence, copy>>.
RowCount(f) == Cardinality(UNION {{s} \X (1 .. f[s]) : s \in 0 .. MaxUnits})

NoRows == [s \in 0 .. MaxUnits |-> 0]

\* CheckAgainstQuota: what the profile plans fits the budget.
CheckAgainstQuota == TotalPlanned <= budget

\* The wiring of runLoad, past its gates.
InitCommand ==
    /\ InitRunner /\ CheckAgainstQuota
    /\ cmd = "run" /\ exit = -1
    /\ disk = NoRows /\ fileLost = FALSE
    /\ wantRows = 0 /\ recordsOK = FALSE /\ lostAtCount = FALSE

Alive == exit = -1

\* Everything buffered reaches the file the handle names.
Flush == disk' = IF fileLost THEN disk ELSE rows

\* Variant: the results are written without the flush.
WriteResultsUnflushed ==
    /\ Alive /\ cmd = "run" /\ pc = "returned"
    /\ cmd' = "verify"
    /\ UNCHANGED <<runnerVars, disk, fileLost, wantRows, recordsOK, lostAtCount, exit>>

\* writeResults, which begins with the flush.
WriteResults ==
    /\ Alive /\ cmd = "run" /\ pc = "returned"
    /\ Flush
    /\ cmd' = "verify"
    /\ UNCHANGED <<runnerVars, fileLost, wantRows, recordsOK, lostAtCount, exit>>

\* writer.Rows() is evaluated first, the file read afterwards.
ReadRows ==
    /\ Alive /\ cmd = "verify"
    /\ wantRows' = RowCount(rows)
    /\ cmd' = "count"
    /\ UNCHANGED <<runnerVars, disk, fileLost, recordsOK, lostAtCount, exit>>

\* verifyRecordIntegrity: CountDataRows against wantRows.
VerifyRecordIntegrity ==
    /\ Alive /\ cmd = "count"
    /\ recordsOK' = (RowCount(disk) = wantRows) /\ lostAtCount' = fileLost
    /\ cmd' = "close"
    /\ UNCHANGED <<runnerVars, disk, fileLost, wantRows, exit>>

\* Variant: the files are closed under the buffers.
CloseUnflushed ==
    /\ Alive /\ cmd = "close"
    /\ sinkClosed' = TRUE
    /\ cmd' = "exit"
    /\ UNCHANGED <<config, main, sem, quota, stopping, signal, reqCancelled, workers, breaker,
                   stats, rows, outcome, disk, fileLost, wantRows, recordsOK, lostAtCount, exit>>

\* writer.Close: late rows that reached the buffer are flushed, later ones
\* are dropped.
CloseWriter ==
    /\ Alive /\ cmd = "close"
    /\ Flush
    /\ sinkClosed' = TRUE
    /\ cmd' = "exit"
    /\ UNCHANGED <<config, main, sem, quota, stopping, signal, reqCancelled, workers,
                   breaker, stats, rows, outcome, fileLost, wantRows, recordsOK, lostAtCount, exit>>

\* Variant: an interrupted run exits like a finished one.
StatusNoSignal(why, ok) ==
    IF ~ok THEN 4
    ELSE CASE why = "auto_abort" -> 3
           [] why = "error"      -> 1
           [] OTHER              -> 0

\* The exit status: an incomplete record first, then the stop reason.
Status(why, ok) ==
    IF ~ok THEN 4
    ELSE CASE why = "signal"     -> 130
           [] why = "auto_abort" -> 3
           [] why = "error"      -> 1
           [] OTHER              -> 0

ExitProcess ==
    /\ Alive /\ cmd = "exit"
    /\ exit' = Status(outcome.reason, recordsOK)
    /\ UNCHANGED <<runnerVars, cmd, disk, fileLost, wantRows, recordsOK, lostAtCount>>

\* A full bufio.Writer writes itself out.
AutoFlush ==
    /\ Alive /\ ~sinkClosed /\ ~fileLost
    /\ disk # rows
    /\ Flush
    /\ UNCHANGED <<runnerVars, cmd, fileLost, wantRows, recordsOK, lostAtCount, exit>>

\* The sync client replaces requests.csv by an empty file.
ReplaceFile ==
    /\ Alive /\ ~fileLost
    /\ fileLost' = TRUE
    /\ disk' = NoRows
    /\ UNCHANGED <<runnerVars, cmd, wantRows, recordsOK, lostAtCount, exit>>

\* SIGKILL, a crash, a power cut.
Kill ==
    /\ Alive
    /\ exit' = 137
    /\ UNCHANGED <<runnerVars, cmd, disk, fileLost, wantRows, recordsOK, lostAtCount>>

Command == WriteResults \/ ReadRows \/ VerifyRecordIntegrity \/ CloseWriter \/ ExitProcess

CommandNext ==
    \/ Alive /\ RunnerNext /\ UNCHANGED commandVars
    \/ Command \/ AutoFlush \/ ReplaceFile \/ Kill
    \/ ~Alive /\ UNCHANGED allVars

CommandSpec == InitCommand /\ [][CommandNext]_allVars

-----------------------------------------------------------------------------
\* The steps of runLoad, and the statuses the process may end with.
CommandTypeOK ==
    /\ TypeOK
    /\ cmd \in {"run", "verify", "count", "close", "exit"}
    /\ disk \in [0 .. MaxUnits -> 0 .. 1] /\ fileLost \in BOOLEAN
    /\ wantRows \in 0 .. MaxUnits + 1 /\ recordsOK \in BOOLEAN /\ lostAtCount \in BOOLEAN
    /\ exit \in {-1, 0, 1, 3, 4, 130, 137}

Exited == exit \notin {-1, 137}

\* A successful exit is a true one: all the profile planned was sent, and if
\* the drain was complete there is a row for every unit and no other.
SuccessIsComplete ==
    exit = 0 =>
        /\ used = TotalPlanned
        /\ outcome.drained => wantRows = used /\ \A w \in 1 .. used : rows[w] = 1

\* Left alone, the file ends up with every row the writer accepted, those of
\* workers that outlived the drain and the flush included.
RecordSurvivesExit == Exited /\ ~fileLost => disk = rows

\* Exit 4 is given when it is due and only then, whatever else ended the run: a
\* file lost by the time it is counted gives it, and a run that drained, with no
\* worker left to race the count, gets it only if the file was lost, never for
\* rows still in the buffer.
ExitFourHonest ==
    /\ Exited /\ lostAtCount /\ wantRows > 0 => exit = 4
    /\ exit = 4 /\ ~fileLost => ~outcome.drained

-----------------------------------------------------------------------------
(* Claims of the documentation that the code does not keep.  Each is refuted *)
(* when it is added to the invariants of MCRunCommand.cfg; the README tells  *)
(* the counterexamples.                                                      *)

\* README: "a lost audit record cannot pass unnoticed".
LossNoticed == Exited /\ exit # 4 => disk = rows

\* README, exit code 4: the per-request record on disk is incomplete.
ExitFourMeansIncomplete == exit = 4 => disk # rows

\* README: on SIGINT or SIGTERM the tool exits with status 130.
InterruptExits130 == interrupted /\ Exited /\ exit # 4 => exit = 130

\* writer.go: a run that is killed still leaves a usable record, the rows
\* being flushed as attempts complete.
KilledLeavesRecord == exit = 137 /\ ~fileLost => disk = rows
=============================================================================
