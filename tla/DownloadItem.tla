---------------------------- MODULE DownloadItem ----------------------------
(***************************************************************************)
(* internal/download/item.go: one workshop item is downloaded by several   *)
(* workers that take its files from a filled and closed channel.  The      *)
(* context may end, and the process die, at any step; the directory is     *)
(* whatever earlier runs left, also with files cut off in the middle.      *)
(*                                                                         *)
(* Of a file's content the model tells apart: what the manifest lists      *)
(* ("right"), another whole content ("wrong"), part of one ("part") and no *)
(* file ("none").  Removing a file is taken to succeed (its error is       *)
(* ignored by the code).                                                   *)
(***************************************************************************)
EXTENDS Backoff, FiniteSets

CONSTANTS N,         \* files of the manifest that are not directories
          HasSHA,    \* those of them whose manifest entry has a SHA-1
          Retries,   \* Options.Retries
          Jobs       \* Options.Jobs, 0 for automatic

ASSUME ItemAssumption ==
    /\ N \in Nat
    /\ HasSHA \subseteq 1 .. N
    /\ Retries \in Nat
    /\ Jobs \in Int

MaxAutoJobs == 8

Files == 1 .. N

retries == IF Retries < 1 THEN 5 ELSE Retries

workers ==
    LET w == AtLeast(IF Jobs <= 0 THEN SuggestJobs(N, MaxAutoJobs) ELSE Jobs, 1)
    IN  IF N > 0 /\ w > N THEN N ELSE w

Workers == 1 .. workers
Contents == {"right", "wrong", "part", "none"}
Outcomes == {"ok", "fail", "skip"}

VARIABLES
    phase,    \* of DownloadItem: "manifest", "files", "ended"; or "dead"
    ctxDone,  \* the context was cancelled or ran out of time
    next,     \* the next file in the channel
    pc,       \* pc[k]: where worker k is
    job,      \* job[k]: the file worker k downloads
    attempt,  \* attempt[k]: downloadOneFile's attempt
    data,     \* data[k]: what ReadFile returned
    disk,     \* disk[f]: the content of f in the directory
    stats,    \* okN, failN and skipN
    outcome   \* outcome[f]: what became of f in this run

workerVars == <<pc, job, attempt, data>>
vars == <<phase, ctxDone, next, workerVars, disk, stats, outcome>>

TypeOK ==
    /\ phase \in {"manifest", "files", "ended", "dead"}
    /\ ctxDone \in BOOLEAN
    /\ next \in 1 .. N + 1
    /\ pc \in [Workers -> {"recv", "match", "try", "open", "write", "giveup",
                           "exited"}]
    /\ job \in [Workers -> Files \cup {0}]
    /\ attempt \in [Workers -> 0 .. retries]
    /\ data \in [Workers -> Contents]
    /\ disk \in [Files -> Contents]
    /\ stats \in [Outcomes -> 0 .. N + 1]
    /\ outcome \in [Files -> Outcomes \cup {"none"}]

NewRun ==
    [ctxDone |-> FALSE, next |-> 1, pc |-> [k \in Workers |-> "recv"],
     job |-> [k \in Workers |-> 0], attempt |-> [k \in Workers |-> 0],
     data |-> [k \in Workers |-> "none"], stats |-> [o \in Outcomes |-> 0],
     outcome |-> [f \in Files |-> "none"]]

Init ==
    /\ phase = "manifest"
    /\ disk \in [Files -> Contents]
    /\ ctxDone = NewRun.ctxDone /\ next = NewRun.next
    /\ pc = NewRun.pc /\ job = NewRun.job /\ attempt = NewRun.attempt
    /\ data = NewRun.data /\ stats = NewRun.stats /\ outcome = NewRun.outcome

-----------------------------------------------------------------------------
(* The run as a whole. *)

\* The manifest or the directory cannot be had: one failure, whatever N is.
ManifestFails ==
    /\ phase = "manifest"
    /\ stats' = [stats EXCEPT !["fail"] = 1]
    /\ phase' = "ended"
    /\ UNCHANGED <<ctxDone, next, workerVars, disk, outcome>>

\* Without files there are no workers to wait for.
FillChannel ==
    /\ phase = "manifest"
    /\ phase' = IF N = 0 THEN "ended" ELSE "files"
    /\ UNCHANGED <<ctxDone, next, workerVars, disk, stats, outcome>>

EndFiles ==
    /\ phase = "files"
    /\ \A k \in Workers : pc[k] = "exited"
    /\ phase' = "ended"
    /\ UNCHANGED <<ctxDone, next, workerVars, disk, stats, outcome>>

Cancel ==
    /\ phase \in {"manifest", "files"}
    /\ ~ctxDone
    /\ ctxDone' = TRUE
    /\ UNCHANGED <<phase, next, workerVars, disk, stats, outcome>>

Crash ==
    /\ phase \in {"manifest", "files"}
    /\ phase' = "dead"
    /\ UNCHANGED <<ctxDone, next, workerVars, disk, stats, outcome>>

\* The item is downloaded again, over what is in the directory.
RunAgain ==
    /\ phase \in {"ended", "dead"}
    /\ phase' = "manifest"
    /\ ctxDone' = NewRun.ctxDone /\ next' = NewRun.next
    /\ pc' = NewRun.pc /\ job' = NewRun.job /\ attempt' = NewRun.attempt
    /\ data' = NewRun.data /\ stats' = NewRun.stats /\ outcome' = NewRun.outcome
    /\ UNCHANGED disk

-----------------------------------------------------------------------------
(* One worker: the loop over the channel, runOne and downloadOneFile. *)

Goto(k, l) == pc' = [pc EXCEPT ![k] = l]

\* The file a done context takes from the channel is in no count.
Take(k) ==
    /\ pc[k] = "recv"
    /\ next <= N
    /\ next' = next + 1
    /\ IF ctxDone THEN Goto(k, "exited") /\ UNCHANGED job
                  ELSE Goto(k, "match") /\ job' = [job EXCEPT ![k] = next]
    /\ UNCHANGED <<attempt, data, disk, stats, outcome>>

Exit(k) ==
    /\ pc[k] = "recv"
    /\ next = N + 1
    /\ Goto(k, "exited")
    /\ UNCHANGED <<next, job, attempt, data, disk, stats, outcome>>

\* Mutant: a failure is not counted.
FinishUncounted(k, o) ==
    /\ stats' = IF o = "fail" THEN stats ELSE [stats EXCEPT ![o] = @ + 1]
    /\ outcome' = [outcome EXCEPT ![job[k]] = o]
    /\ Goto(k, "recv")

Finish(k, o) ==
    /\ stats' = [stats EXCEPT ![o] = @ + 1]
    /\ outcome' = [outcome EXCEPT ![job[k]] = o]
    /\ Goto(k, "recv")

SetDisk(k, c) == disk' = [disk EXCEPT ![job[k]] = c]

localMatches(f) == f \in HasSHA /\ disk[f] = "right"

Skip(k) ==
    /\ pc[k] = "match"
    /\ localMatches(job[k])
    /\ Finish(k, "skip")
    /\ UNCHANGED <<next, job, attempt, data, disk>>

Begin(k) ==
    /\ pc[k] = "match"
    /\ ~localMatches(job[k])
    /\ SetDisk(k, "none")
    /\ attempt' = [attempt EXCEPT ![k] = 1]
    /\ Goto(k, "try")
    /\ UNCHANGED <<next, job, data, stats, outcome>>

TryCancelled(k) ==
    /\ pc[k] = "try"
    /\ ctxDone
    /\ Finish(k, "fail")
    /\ UNCHANGED <<next, job, attempt, data, disk>>

\* Data of the wrong size is returned with a warning.
ReadOK(k) ==
    /\ pc[k] = "try"
    /\ ~ctxDone
    /\ \E c \in {"right", "wrong"} : data' = [data EXCEPT ![k] = c]
    /\ Goto(k, "open")
    /\ UNCHANGED <<next, job, attempt, disk, stats, outcome>>

\* Mutant: the count starts over when it reaches the limit.
NextAttemptAgain(k) == (attempt[k] + 1) % retries

NextAttempt(k) == attempt[k] + 1

LastAttempt(k) == attempt[k] >= retries

\* The back-off of ComputeBackoff seconds comes before the next attempt and
\* does not look at the context.
ReadFails(k) ==
    /\ pc[k] = "try"
    /\ IF LastAttempt(k)
         THEN Goto(k, "giveup") /\ UNCHANGED attempt
         ELSE attempt' = [attempt EXCEPT ![k] = NextAttempt(k)] /\ UNCHANGED pc
    /\ UNCHANGED <<next, job, data, disk, stats, outcome>>

OpenFile(k) ==
    /\ pc[k] = "open"
    /\ SetDisk(k, "part")
    /\ Goto(k, "write")
    /\ UNCHANGED <<next, job, attempt, data, stats, outcome>>

WriteFile(k) ==
    /\ pc[k] = "write"
    /\ SetDisk(k, data[k])
    /\ Finish(k, "ok")
    /\ UNCHANGED <<next, job, attempt, data>>

\* A failed write is not tried again.
WriteFails(k) ==
    /\ pc[k] \in {"open", "write"}
    /\ Goto(k, "giveup")
    /\ UNCHANGED <<next, job, attempt, data, disk, stats, outcome>>

\* Mutant: what was written stays.
Leftover(k) == disk[job[k]]

AfterRemove(k) == "none"

GiveUp(k) ==
    /\ pc[k] = "giveup"
    /\ SetDisk(k, AfterRemove(k))
    /\ Finish(k, "fail")
    /\ UNCHANGED <<next, job, attempt, data>>

Worker(k) ==
    /\ phase = "files"
    /\ \/ Take(k) \/ Exit(k)
       \/ Skip(k) \/ Begin(k)
       \/ TryCancelled(k) \/ ReadOK(k) \/ ReadFails(k)
       \/ OpenFile(k) \/ WriteFile(k) \/ WriteFails(k)
       \/ GiveUp(k)
    /\ UNCHANGED <<phase, ctxDone>>

Run == ManifestFails \/ FillChannel \/ EndFiles

Next ==
    \/ Run
    \/ \E k \in Workers : Worker(k)
    \/ Cancel
    \/ Crash
    \/ RunAgain

Spec == Init /\ [][Next]_vars

\* Reads, writes and back-offs return; goroutines are scheduled.
FairSpec ==
    /\ Spec
    /\ WF_vars(Run)
    /\ \A k \in Workers : WF_vars(Worker(k))

-----------------------------------------------------------------------------
(* Properties. *)

Counted(o) == Cardinality({f \in Files : outcome[f] = o})

\* The statistics of a run add up, with any number of workers: each count is
\* the number of files it is about, and unless the context ended every file
\* is in one of them (DownloadItem 137-202).  A run without a manifest has
\* one failure and no files.
StatsAddUp ==
    phase = "ended" /\ N > 0 =>
        IF next = 1
          THEN stats = [ok |-> 0, fail |-> 1, skip |-> 0]
          ELSE /\ \A o \in Outcomes : stats[o] = Counted(o)
               /\ ctxDone \/ \A f \in Files : outcome[f] # "none"

\* The types (attempts stay within Retries, item.go 243), and the statistics
\* account for the files.
Consistent == TypeOK /\ StatsAddUp

\* What is reported of a file is what its directory holds, whatever was there
\* before: a skipped file is right, a downloaded one is whole, and a failed
\* one leaves nothing behind, above all no part that a later run might take
\* for the file (downloadOneFile 229-280).
OutcomeMatchesDisk ==
    \A f \in Files :
        /\ outcome[f] = "skip" => disk[f] = "right"
        /\ outcome[f] = "ok" => disk[f] \in {"right", "wrong"}
        /\ outcome[f] = "fail" => disk[f] = "none"

\* A run ends, however often files fail and whenever the context does: no
\* worker waits for another, and attempts are counted (177-198, 243).
RunEnds == (phase = "manifest") ~> (phase \in {"ended", "dead"})

-----------------------------------------------------------------------------
(* What the code says and does not do. *)

\* cdn/client.go 340, of data of the wrong size: "still return; SHA check at
\* higher layer may catch".
DownloadedIsRight == \A f \in HasSHA : outcome[f] = "ok" => disk[f] = "right"

FullyFailed == stats["ok"] = 0 /\ stats["skip"] = 0 /\ stats["fail"] > 0

\* item.go 32: "FullyFailed is true when nothing was downloaded or skipped."
FullyFailedIsNothingDone ==
    phase = "ended" /\ stats["ok"] = 0 /\ stats["skip"] = 0 => FullyFailed

\* What the download command makes of an item: it fails for one that has
\* fully failed only.
CommandSucceeds == phase = "ended" /\ ~FullyFailed

\* cli/download.go 185: "All items downloaded."
AllDownloaded == CommandSucceeds => \A f \in Files : outcome[f] \in {"ok", "skip"}
=============================================================================
