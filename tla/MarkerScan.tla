----------------------------- MODULE MarkerScan -----------------------------
(***************************************************************************)
(* How the orchestrators wait for a line of their runner                   *)
(* (src/tools/g2_observer/run_g3_pool_probe.py, drain_until_marker and     *)
(* drain_pipe; the campaign and the G4 injection import them): the pipe is *)
(* read in chunks of any size, only the new tail is searched, and a runner *)
(* that has ended is drained before its output is searched once more.      *)
(*                                                                         *)
(* Standard output and standard error of the runner share the pipe, and    *)
(* several threads write to them, so the bytes are arbitrary.              *)
(***************************************************************************)
EXTENDS Integers, Sequences

CONSTANTS
  Symbols,     \* the bytes
  Breaks,      \* the ones at which splitlines() ends a line
  marker,      \* what the line must start with
  ChunkSize,   \* os.read(fd, 65536)
  MaxOutput    \* bound: bytes the runner writes

ASSUME MarkerAssumption ==
  /\ Breaks \subseteq Symbols
  /\ marker \in Seq(Symbols \ Breaks)
  /\ marker # <<>>
  /\ ChunkSize \in Nat \ {0}
  /\ MaxOutput \in Nat

VARIABLES
  output,      \* everything the runner has written to the pipe
  alive,       \* the runner has not ended
  captured,    \* how many bytes of output the orchestrator has read
  found,       \* the local variable of that name
  late,        \* the deadline has passed
  reader           \* where drain_until_marker is

scanVars == <<output, alive, captured, found, late, reader>>

ScanInit ==
  /\ output = <<>>
  /\ alive = TRUE
  /\ captured = 0
  /\ found = FALSE
  /\ late = FALSE
  /\ reader = "start"

\* any(line.startswith(marker) for line in text.splitlines()), where text is
\* the bytes from first to last of the output.
HasLine(first, last) ==
  \E p \in first .. (last - Len(marker) + 1) :
    /\ p = first \/ output[p - 1] \in Breaks
    /\ \A k \in 1 .. Len(marker) : output[p + k - 1] = marker[k]

-----------------------------------------------------------------------------
(* The runner.                                                             *)

Write ==
  /\ alive
  /\ Len(output) < MaxOutput
  /\ \E byte \in Symbols : output' = Append(output, byte)
  /\ UNCHANGED <<alive, captured, found, late, reader>>

\* A regular end or a death: what it has written stays in the pipe.
End ==
  /\ alive
  /\ alive' = FALSE
  /\ UNCHANGED <<output, captured, found, late, reader>>

-----------------------------------------------------------------------------
(* drain_until_marker.                                                     *)

\* Bytes captured before the call: the whole text is searched.
Start ==
  /\ reader = "start"
  /\ \E n \in 0 .. Len(output) :
       /\ captured' = n
       /\ found' = HasLine(1, n)
  /\ reader' = "loop"
  /\ UNCHANGED <<output, alive, late>>

\* The loop's condition.
Return ==
  /\ reader = "loop"
  /\ found
  /\ reader' = "done"
  /\ UNCHANGED <<output, alive, captured, found, late>>

Deadline ==
  /\ reader = "loop"
  /\ ~found
  /\ late' = TRUE
  /\ reader' = "done"
  /\ UNCHANGED <<output, alive, captured, found>>

\* captured[max(0, before - len(marker)):], by its first byte.
WindowNewOnly(before) == before + 1

Window(before) ==
  IF before > Len(marker) THEN before - Len(marker) + 1 ELSE 1

ReadChunk ==
  /\ reader = "loop"
  /\ ~found
  /\ captured < Len(output)
  /\ LET waiting == Len(output) - captured
         chunk   == IF waiting < ChunkSize THEN waiting ELSE ChunkSize
     IN /\ captured' = captured + chunk
        /\ found' = HasLine(Window(captured), captured + chunk)
  /\ UNCHANGED <<output, alive, late, reader>>

\* The pipe was empty: process.poll() comes next.
ReadNothing ==
  /\ reader = "loop"
  /\ ~found
  /\ captured = Len(output)
  /\ reader' = "poll"
  /\ UNCHANGED <<output, alive, captured, found, late>>

PollAlive ==
  /\ reader = "poll"
  /\ alive
  /\ reader' = "loop"
  /\ UNCHANGED <<output, alive, captured, found, late>>

\* Mutant: a runner that has ended is not drained.
PollEndedNoDrain ==
  /\ reader = "poll"
  /\ ~alive
  /\ reader' = "done"
  /\ UNCHANGED <<output, alive, captured, found, late>>

\* The runner has ended, perhaps after its last bytes were missed: drain_pipe,
\* and a search of the whole text.
PollEnded ==
  /\ reader = "poll"
  /\ ~alive
  /\ captured' = Len(output)
  /\ found' = HasLine(1, Len(output))
  /\ reader' = "done"
  /\ UNCHANGED <<output, alive, late>>

ScanDone == reader = "done" /\ ~alive /\ UNCHANGED scanVars

ScanNext ==
  \/ Write \/ End
  \/ Start \/ Return \/ Deadline
  \/ ReadChunk \/ ReadNothing \/ PollAlive \/ PollEnded
  \/ ScanDone

ScanSpec == ScanInit /\ [][ScanNext]_scanVars

-----------------------------------------------------------------------------
(* Properties.                                                             *)

\* Every variable has its type.
TypeOK ==
  /\ output \in Seq(Symbols)
  /\ alive \in BOOLEAN
  /\ captured \in 0 .. Len(output)
  /\ found \in BOOLEAN
  /\ late \in BOOLEAN
  /\ reader \in {"start", "loop", "poll", "done"}

\* "this window is exhaustive" (src/tools/g2_observer/run_g3_pool_probe.py:160):
\* searching the new tail of each chunk misses no line that a search of the
\* whole text would find, wherever the reads cut the lines.
WindowExhaustive ==
  reader # "start" /\ HasLine(1, captured) => found

\* A call that gives up before its deadline has read everything the runner ever
\* wrote, and there is no such line in it: the death analysis that follows
\* never sees a runner that did report.
GivesUpOnlyWithoutLine ==
  reader = "done" /\ ~found /\ ~late =>
    /\ ~alive
    /\ captured = Len(output)
    /\ ~HasLine(1, Len(output))

\* The inductive strengthening of the two safety properties.
ScanInv ==
  /\ TypeOK
  /\ WindowExhaustive
  /\ GivesUpOnlyWithoutLine
=============================================================================
