------------------------- MODULE DownloadItemProofs -------------------------
(***************************************************************************)
(* For every number of files, workers and attempts: what a run reports of  *)
(* a file is what its directory holds, and the counts add up.  The         *)
(* invariant gives every file one worker at most (OneWorker), and lets no  *)
(* file go without a worker or a result (NoneForgotten).                   *)
(***************************************************************************)
EXTENDS DownloadItem, FiniteSetTheorems, TLAPS

-----------------------------------------------------------------------------
(* The inductive invariant. *)

BusyAt == {"match", "try", "open", "write", "giveup"}

\* Worker k has a file in hand.
Busy(k) == pc[k] \in BusyAt

\* A run starts from scratch.
Fresh ==
    phase = "manifest" =>
        /\ next = 1
        /\ \A k \in Workers : pc[k] = "recv"
        /\ \A o \in Outcomes : stats[o] = 0

\* Every file has one worker at most, and no result while it has one.
OneWorker ==
    /\ \A k \in Workers : Busy(k) =>
          /\ job[k] \in 1 .. next - 1
          /\ outcome[job[k]] = "none"
    /\ \A k, l \in Workers : Busy(k) /\ Busy(l) /\ job[k] = job[l] => k = l
    /\ \A f \in Files : f >= next => outcome[f] = "none"

\* A file that was taken from the channel has a worker or a result, unless
\* the context had ended by then; a worker leaves when there are no more.
NoneForgotten ==
    /\ ~ctxDone => \A f \in 1 .. next - 1 :
          outcome[f] # "none" \/ \E k \in Workers : Busy(k) /\ job[k] = f
    /\ \A k \in Workers : pc[k] = "exited" =>
          next > 1 /\ (ctxDone \/ next = N + 1)
    /\ phase = "files" => N > 0
    /\ phase = "ended" /\ next > 1 => \A k \in Workers : pc[k] = "exited"

\* What a worker is about to write is whole, and what it waits to read is
\* not in the directory.
OnDisk ==
    /\ \A k \in Workers :
          /\ pc[k] = "try" => disk[job[k]] = "none"
          /\ pc[k] \in {"open", "write"} => data[k] \in {"right", "wrong"}
    /\ OutcomeMatchesDisk

\* The counts are those of the results, but for a run without a manifest.
Counts ==
    IF phase = "ended" /\ next = 1
      THEN N > 0 => stats = [ok |-> 0, fail |-> 1, skip |-> 0]
      ELSE \A o \in Outcomes : stats[o] = Counted(o)

IInv == TypeOK /\ Fresh /\ OneWorker /\ NoneForgotten /\ OnDisk /\ Counts

-----------------------------------------------------------------------------
(* The operators of backoff.go. *)

(***************************************************************************)
(* SuggestJobs for any numbers: the largest number of workers that is      *)
(* neither more than the files nor more than the cap, but for the one      *)
(* there always is (backoff.go 28-41).                                     *)
(***************************************************************************)
THEOREM SuggestJobsLargest ==
    \A nFiles, maxJobs \in Int :
        LET n == SuggestJobs(nFiles, maxJobs)
        IN  /\ n \in Nat \ {0}
            /\ n <= AtLeast(nFiles, 1) /\ n <= AtLeast(maxJobs, 1)
            /\ n = AtLeast(nFiles, 1) \/ n = AtLeast(maxJobs, 1)
  BY DEF SuggestJobs, AtLeast

(***************************************************************************)
(* There is a worker, and there are no more workers than files, whatever   *)
(* the number of jobs that is asked for (item.go 160-176).                 *)
(***************************************************************************)
THEOREM WorkersFit ==
    /\ workers \in Nat \ {0}
    /\ N > 0 => workers <= N
    /\ Workers # {}
<1>1. N \in Nat /\ Jobs \in Int /\ MaxAutoJobs \in Int
  BY ItemAssumption DEF MaxAutoJobs
<1>2. SuggestJobs(N, MaxAutoJobs) \in Nat \ {0}
  BY <1>1 DEF SuggestJobs, AtLeast
<1>3. workers \in Nat \ {0} /\ (N > 0 => workers <= N)
  BY <1>1, <1>2 DEF workers, AtLeast
<1>4. 1 \in Workers
  BY <1>3 DEF Workers
<1>5. QED BY <1>3, <1>4

LEMMA RetriesType == retries \in Nat \ {0}
  BY ItemAssumption DEF retries

-----------------------------------------------------------------------------
(* Counting files by their result. *)

\* The results are counted, and there are no more of one kind than files.
LEMMA CountedType ==
    ASSUME NEW o
    PROVE  /\ IsFiniteSet({f \in Files : outcome[f] = o})
           /\ Counted(o) \in 0 .. N
<1>1. IsFiniteSet(Files) /\ Cardinality(Files) = N
  BY FS_Interval, ItemAssumption DEF Files
<1>2. {f \in Files : outcome[f] = o} \in SUBSET Files
  OBVIOUS
<1>3. /\ IsFiniteSet({f \in Files : outcome[f] = o})
      /\ Counted(o) <= N
  BY <1>1, <1>2, FS_Subset DEF Counted
<1>4. Counted(o) \in Nat
  BY <1>3, FS_CardinalityType DEF Counted
<1>5. QED BY <1>3, <1>4, ItemAssumption

\* Before any file has a result, the counts are zero.
LEMMA NothingCounted ==
    ASSUME NEW o \in Outcomes, \A f \in Files : outcome[f] = "none"
    PROVE  Counted(o) = 0
<1>1. {f \in Files : outcome[f] = o} = {}
  BY DEF Outcomes
<1>2. QED BY <1>1, FS_EmptySet DEF Counted

\* A file that gets its result is counted once.
LEMMA CountsOne ==
    ASSUME outcome \in [Files -> Outcomes \cup {"none"}],
           NEW f \in Files, outcome[f] = "none", NEW o \in Outcomes,
           outcome' = [outcome EXCEPT ![f] = o]
    PROVE  \A p \in Outcomes :
               Counted(p)' = IF p = o THEN Counted(p) + 1 ELSE Counted(p)
<1> TAKE p \in Outcomes
<1> DEFINE S == {g \in Files : outcome[g] = p}
           T == {g \in Files : outcome'[g] = p}
<1>1. IsFiniteSet(S) /\ f \notin S
  BY CountedType DEF Outcomes
<1>2. CASE p = o
  <2>1. T = S \cup {f}
    BY <1>2
  <2>2. Cardinality(T) = Cardinality(S) + 1
    BY <1>1, <2>1, FS_AddElement
  <2>3. QED BY <1>2, <2>2 DEF Counted
<1>3. CASE p # o
  <2>1. T = S
    BY <1>3 DEF Outcomes
  <2>2. QED BY <1>3, <2>1 DEF Counted
<1>4. QED BY <1>2, <1>3

-----------------------------------------------------------------------------
(* The worker's steps. *)

LEMMA InHand ==
    ASSUME IInv, NEW k \in Workers, Busy(k)
    PROVE  job[k] \in Files /\ outcome[job[k]] = "none"
  BY ItemAssumption DEF IInv, TypeOK, OneWorker, Files

(***************************************************************************)
(* The worker goes on with the file it has in hand.                        *)
(***************************************************************************)
LEMMA GoesOn ==
    ASSUME IInv, phase = "files", NEW k \in Workers, Busy(k),
           NEW l \in BusyAt, pc' = [pc EXCEPT ![k] = l],
           UNCHANGED <<phase, ctxDone, next, job, stats, outcome>>,
           attempt' \in [Workers -> 0 .. retries],
           data' \in [Workers -> Contents],
           \A j \in Workers \ {k} : data'[j] = data[j],
           disk' \in [Files -> Contents],
           \A f \in Files \ {job[k]} : disk'[f] = disk[f],
           l = "try" => disk'[job[k]] = "none",
           l \in {"open", "write"} => data'[k] \in {"right", "wrong"}
    PROVE  IInv'
<1>1. job[k] \in Files /\ outcome[job[k]] = "none"
  BY InHand
<1>2. /\ pc'[k] = l
      /\ \A j \in Workers \ {k} : pc'[j] = pc[j]
  BY DEF IInv, TypeOK
<1>3. \A j \in Workers : Busy(j)' <=> Busy(j)
  BY <1>2 DEF Busy
<1>4. TypeOK'
  BY DEF IInv, TypeOK, BusyAt
<1>5. Fresh'
  BY DEF Fresh
<1>6. OneWorker'
  BY <1>3 DEF IInv, OneWorker
<1>7. NoneForgotten'
  BY <1>2, <1>3 DEF IInv, NoneForgotten, Busy, BusyAt
<1>8. OnDisk'
  <2>1. \A j \in Workers \ {k} :
            /\ pc'[j] = "try" => disk'[job'[j]] = "none"
            /\ pc'[j] \in {"open", "write"} => data'[j] \in {"right", "wrong"}
    <3> TAKE j \in Workers \ {k}
    <3>1. Busy(j) => job[j] \in Files \ {job[k]}
      BY InHand DEF IInv, OneWorker
    <3>2. QED BY <1>2, <3>1 DEF IInv, OnDisk, Busy, BusyAt
  <2>2. OutcomeMatchesDisk'
    BY <1>1 DEF IInv, OnDisk, OutcomeMatchesDisk
  <2>3. QED BY <1>2, <2>1, <2>2 DEF OnDisk
<1>9. Counts'
  BY DEF IInv, Counts, Counted
<1>10. QED BY <1>4, <1>5, <1>6, <1>7, <1>8, <1>9 DEF IInv

(***************************************************************************)
(* The worker is done with its file: the result is counted, and fits what  *)
(* is in the directory.                                                    *)
(***************************************************************************)
LEMMA IsDone ==
    ASSUME IInv, phase = "files", NEW k \in Workers, Busy(k),
           NEW o \in Outcomes, Finish(k, o),
           UNCHANGED <<phase, ctxDone, next, job, attempt, data>>,
           disk' \in [Files -> Contents],
           \A f \in Files \ {job[k]} : disk'[f] = disk[f],
           o = "skip" => disk'[job[k]] = "right",
           o = "ok" => disk'[job[k]] \in {"right", "wrong"},
           o = "fail" => disk'[job[k]] = "none"
    PROVE  IInv'
<1>1. job[k] \in Files /\ outcome[job[k]] = "none"
  BY InHand
<1>2. /\ stats' = [stats EXCEPT ![o] = @ + 1]
      /\ outcome' = [outcome EXCEPT ![job[k]] = o]
      /\ pc' = [pc EXCEPT ![k] = "recv"]
  BY DEF Finish, Goto
<1>3. /\ pc'[k] = "recv"
      /\ \A j \in Workers \ {k} : pc'[j] = pc[j]
  BY <1>2 DEF IInv, TypeOK
<1>4. \A j \in Workers : Busy(j)' <=> Busy(j) /\ j # k
  BY <1>3 DEF Busy, BusyAt
<1>5. /\ outcome'[job[k]] = o
      /\ \A f \in Files \ {job[k]} : outcome'[f] = outcome[f]
  BY <1>1, <1>2 DEF IInv, TypeOK
<1>6. \A p \in Outcomes : stats'[p] = Counted(p)'
  <2>1. \A p \in Outcomes :
            Counted(p)' = IF p = o THEN Counted(p) + 1 ELSE Counted(p)
    BY <1>1, <1>2, CountsOne DEF IInv, TypeOK
  <2>2. \A p \in Outcomes : stats[p] = Counted(p)
    BY DEF IInv, Counts
  <2>3. QED BY <1>2, <2>1, <2>2 DEF IInv, TypeOK
<1>7. TypeOK'
  <2>1. \A p \in Outcomes : stats'[p] \in 0 .. N
    <3>1. \A p : Counted(p)' \in 0 .. N
      <4> TAKE p
      <4>1. IsFiniteSet(Files) /\ Cardinality(Files) = N
        BY FS_Interval, ItemAssumption DEF Files
      <4>2. {f \in Files : outcome'[f] = p} \in SUBSET Files
        OBVIOUS
      <4>3. /\ Cardinality({f \in Files : outcome'[f] = p}) <= N
            /\ Cardinality({f \in Files : outcome'[f] = p}) \in Nat
        BY <4>1, <4>2, FS_Subset, FS_CardinalityType
      <4>4. QED BY <4>3, ItemAssumption DEF Counted
    <3>2. QED BY <1>6, <3>1
  <2>2. stats' \in [Outcomes -> 0 .. N + 1]
    BY <1>2, <2>1, ItemAssumption DEF IInv, TypeOK
  <2>3. QED BY <1>2, <2>2 DEF IInv, TypeOK
<1>8. Fresh'
  BY DEF Fresh
<1>9. OneWorker'
  <2>1. \A j \in Workers : Busy(j)' => job[j] \in Files \ {job[k]}
    BY <1>4, InHand DEF IInv, OneWorker
  <2>2. \A f \in Files : f >= next => f # job[k]
    BY ItemAssumption DEF IInv, OneWorker, TypeOK
  <2>3. QED BY <1>4, <1>5, <2>1, <2>2 DEF IInv, OneWorker
<1>10. NoneForgotten'
  <2>1. o # "none"
    BY DEF Outcomes
  <2>2. \A f \in 1 .. next - 1 : f \in Files
    BY ItemAssumption DEF IInv, TypeOK, Files
  <2>3. ~ctxDone' => \A f \in 1 .. next' - 1 :
            outcome'[f] # "none" \/ \E j \in Workers : Busy(j)' /\ job'[j] = f
    BY <1>4, <1>5, <2>1, <2>2 DEF IInv, NoneForgotten
  <2>4. QED BY <1>3, <2>3 DEF IInv, NoneForgotten
<1>11. OnDisk'
  <2>1. \A j \in Workers :
            /\ pc'[j] = "try" => disk'[job'[j]] = "none"
            /\ pc'[j] \in {"open", "write"} => data'[j] \in {"right", "wrong"}
    <3> TAKE j \in Workers
    <3>1. Busy(j) /\ j # k => job[j] \in Files \ {job[k]}
      BY InHand DEF IInv, OneWorker
    <3>2. QED BY <1>3, <3>1 DEF IInv, OnDisk, Busy, BusyAt
  <2>2. OutcomeMatchesDisk'
    BY <1>1, <1>5 DEF IInv, OnDisk, OutcomeMatchesDisk
  <2>3. QED BY <2>1, <2>2 DEF OnDisk
<1>12. Counts'
  BY <1>6 DEF Counts
<1>13. QED BY <1>7, <1>8, <1>9, <1>10, <1>11, <1>12 DEF IInv

(***************************************************************************)
(* A worker takes the next file, or leaves.                                *)
(***************************************************************************)
LEMMA TakeInv ==
    ASSUME IInv, phase = "files", NEW k \in Workers, Take(k) \/ Exit(k),
           UNCHANGED <<phase, ctxDone>>
    PROVE  IInv'
<1>1. /\ pc[k] = "recv"
      /\ UNCHANGED <<attempt, data, disk, stats, outcome>>
      /\ next' \in {next, next + 1} /\ next' <= N + 1 /\ next' >= next
  BY ItemAssumption DEF Take, Exit, IInv, TypeOK
<1>2. \/ /\ pc' = [pc EXCEPT ![k] = "exited"] /\ UNCHANGED job
         /\ next' > 1 /\ (ctxDone \/ next' = N + 1)
         /\ next' = next \/ ctxDone
      \/ /\ pc' = [pc EXCEPT ![k] = "match"] /\ job' = [job EXCEPT ![k] = next]
         /\ next' = next + 1 /\ next \in Files
  <2>1. N > 0
    BY DEF IInv, NoneForgotten
  <2>2. QED BY <2>1, ItemAssumption DEF Take, Exit, Goto, IInv, TypeOK, Files
<1>3. /\ pc'[k] \in {"exited", "match"}
      /\ \A j \in Workers \ {k} : pc'[j] = pc[j] /\ job'[j] = job[j]
  BY <1>2 DEF IInv, TypeOK
<1>4. pc'[k] = "match" => job'[k] = next /\ next' = next + 1 /\ next \in Files
  BY <1>2 DEF IInv, TypeOK
<1>5. TypeOK'
  BY <1>1, <1>2 DEF IInv, TypeOK
<1>6. Fresh'
  BY DEF Fresh
<1>7. \A j \in Workers : Busy(j)' <=> IF j = k THEN pc'[k] = "match" ELSE Busy(j)
  BY <1>3 DEF Busy, BusyAt
<1>8. OneWorker'
  <2>1. \A j \in Workers : Busy(j)' =>
            job'[j] \in 1 .. next' - 1 /\ outcome[job'[j]] = "none"
    BY <1>1, <1>3, <1>4, <1>7 DEF IInv, OneWorker, TypeOK, Files
  <2>2. \A j, l \in Workers : Busy(j)' /\ Busy(l)' /\ job'[j] = job'[l] => j = l
    <3>1. \A j \in Workers \ {k} : Busy(j) => job[j] \in Int /\ job[j] < next
      BY DEF IInv, OneWorker, TypeOK
    <3>2. \A j \in Workers \ {k} : Busy(j)' /\ Busy(k)' => job'[j] # job'[k]
      BY <1>3, <1>4, <1>7, <3>1 DEF IInv, TypeOK
    <3>3. QED BY <1>3, <1>7, <3>2 DEF IInv, OneWorker
  <2>3. \A f \in Files : f >= next' => outcome[f] = "none"
    BY <1>1 DEF IInv, OneWorker, TypeOK, Files
  <2>4. QED BY <1>1, <2>1, <2>2, <2>3 DEF OneWorker
<1>9. NoneForgotten'
  <2>1. ASSUME ~ctxDone', NEW f \in 1 .. next' - 1
        PROVE  outcome'[f] # "none" \/ \E j \in Workers : Busy(j)' /\ job'[j] = f
    <3>1. CASE f \in 1 .. next - 1
      <4>1. outcome[f] # "none" \/ \E j \in Workers : Busy(j) /\ job[j] = f
        BY <2>1, <3>1 DEF IInv, NoneForgotten
      <4>2. ~Busy(k)
        BY <1>1 DEF Busy, BusyAt
      <4>3. QED BY <1>1, <1>3, <1>7, <4>1, <4>2
    <3>2. CASE f \notin 1 .. next - 1
      <4>1. next' # next /\ ~ctxDone
        BY <2>1, <3>2
      <4>2. pc' = [pc EXCEPT ![k] = "match"] /\ next' = next + 1
        BY <1>2, <4>1
      <4>3. f = next /\ pc'[k] = "match"
        BY <2>1, <3>2, <4>2 DEF IInv, TypeOK
      <4>4. QED BY <1>4, <1>7, <4>3
    <3>3. QED BY <3>1, <3>2
  <2>2. \A j \in Workers : pc'[j] = "exited" =>
            next' > 1 /\ (ctxDone' \/ next' = N + 1)
    BY <1>1, <1>2, <1>3, ItemAssumption DEF IInv, NoneForgotten, TypeOK
  <2>3. QED BY <2>1, <2>2 DEF IInv, NoneForgotten
<1>10. OnDisk'
  BY <1>1, <1>3 DEF IInv, OnDisk, OutcomeMatchesDisk
<1>11. Counts'
  BY <1>1 DEF IInv, Counts, Counted
<1>12. QED BY <1>5, <1>6, <1>8, <1>9, <1>10, <1>11 DEF IInv

LEMMA WorkerInv == ASSUME IInv, NEW k \in Workers, Worker(k) PROVE IInv'
<1>1. phase = "files" /\ UNCHANGED <<phase, ctxDone>>
  BY DEF Worker
<1>2. CASE Take(k) \/ Exit(k)
  BY <1>1, <1>2, TakeInv
<1>3. ASSUME Busy(k)
      PROVE  \A c \in Contents : SetDisk(k, c) =>
                 /\ disk' \in [Files -> Contents]
                 /\ disk'[job[k]] = c
                 /\ \A f \in Files \ {job[k]} : disk'[f] = disk[f]
  BY <1>3, InHand DEF SetDisk, IInv, TypeOK
<1>4. disk \in [Files -> Contents] /\ data \in [Workers -> Contents]
      /\ attempt \in [Workers -> 0 .. retries]
  BY DEF IInv, TypeOK
<1>5. CASE Skip(k)
  <2>1. Busy(k) /\ Finish(k, "skip") /\ UNCHANGED <<next, job, attempt, data, disk>>
    BY <1>5 DEF Skip, Busy, BusyAt
  <2>2. disk[job[k]] = "right"
    BY <1>5 DEF Skip, localMatches
  <2>3. QED BY <1>1, <1>4, <2>1, <2>2, IsDone DEF Outcomes
<1>6. CASE Begin(k)
  <2>1. /\ Busy(k) /\ SetDisk(k, "none") /\ pc' = [pc EXCEPT ![k] = "try"]
        /\ attempt' = [attempt EXCEPT ![k] = 1]
        /\ UNCHANGED <<next, job, data, stats, outcome>>
    BY <1>6 DEF Begin, Busy, BusyAt, Goto
  <2>2. attempt' \in [Workers -> 0 .. retries]
    BY <1>4, <2>1, RetriesType
  <2>3. disk' \in [Files -> Contents] /\ disk'[job[k]] = "none"
        /\ \A f \in Files \ {job[k]} : disk'[f] = disk[f]
    BY <1>3, <2>1 DEF Contents
  <2>4. QED BY <1>1, <1>4, <2>1, <2>2, <2>3, GoesOn DEF BusyAt
<1>7. CASE TryCancelled(k)
  <2>1. Busy(k) /\ Finish(k, "fail") /\ UNCHANGED <<next, job, attempt, data, disk>>
    BY <1>7 DEF TryCancelled, Busy, BusyAt
  <2>2. disk[job[k]] = "none"
    BY <1>7 DEF TryCancelled, IInv, OnDisk
  <2>3. QED BY <1>1, <1>4, <2>1, <2>2, IsDone DEF Outcomes
<1>8. CASE ReadOK(k)
  <2>1. /\ Busy(k) /\ pc' = [pc EXCEPT ![k] = "open"]
        /\ UNCHANGED <<next, job, attempt, disk, stats, outcome>>
    BY <1>8 DEF ReadOK, Busy, BusyAt, Goto
  <2>2. PICK c \in {"right", "wrong"} : data' = [data EXCEPT ![k] = c]
    BY <1>8 DEF ReadOK
  <2>3. /\ data' \in [Workers -> Contents] /\ data'[k] = c
        /\ \A j \in Workers \ {k} : data'[j] = data[j]
    BY <1>4, <2>2 DEF Contents
  <2>4. QED BY <1>1, <1>4, <2>1, <2>2, <2>3, GoesOn DEF BusyAt
<1>9. CASE ReadFails(k)
  <2>1. /\ Busy(k) /\ disk[job[k]] = "none" /\ pc[k] = "try"
        /\ UNCHANGED <<next, job, data, disk, stats, outcome>>
    BY <1>9 DEF ReadFails, Busy, BusyAt, IInv, OnDisk
  <2>2. attempt' \in [Workers -> 0 .. retries]
    BY <1>4, <1>9, RetriesType DEF ReadFails, LastAttempt, NextAttempt
  <2>3. PICK l \in {"try", "giveup"} : pc' = [pc EXCEPT ![k] = l]
    BY <1>9, <2>1 DEF ReadFails, Goto, IInv, TypeOK
  <2>4. QED BY <1>1, <1>4, <2>1, <2>2, <2>3, GoesOn DEF BusyAt
<1>10. CASE OpenFile(k)
  <2>1. /\ Busy(k) /\ SetDisk(k, "part") /\ pc' = [pc EXCEPT ![k] = "write"]
        /\ UNCHANGED <<next, job, attempt, data, stats, outcome>>
        /\ data[k] \in {"right", "wrong"}
    BY <1>10 DEF OpenFile, Busy, BusyAt, Goto, IInv, OnDisk
  <2>2. disk' \in [Files -> Contents]
        /\ \A f \in Files \ {job[k]} : disk'[f] = disk[f]
    BY <1>3, <2>1 DEF Contents
  <2>3. QED BY <1>1, <1>4, <2>1, <2>2, GoesOn DEF BusyAt
<1>11. CASE WriteFile(k)
  <2>1. /\ Busy(k) /\ SetDisk(k, data[k]) /\ Finish(k, "ok")
        /\ UNCHANGED <<next, job, attempt, data>>
        /\ data[k] \in {"right", "wrong"}
    BY <1>11 DEF WriteFile, Busy, BusyAt, IInv, OnDisk
  <2>2. disk' \in [Files -> Contents] /\ disk'[job[k]] = data[k]
        /\ \A f \in Files \ {job[k]} : disk'[f] = disk[f]
    BY <1>3, <2>1 DEF Contents
  <2>3. QED BY <1>1, <2>1, <2>2, IsDone DEF Outcomes
<1>12. CASE WriteFails(k)
  <2>1. /\ Busy(k) /\ pc' = [pc EXCEPT ![k] = "giveup"]
        /\ UNCHANGED <<next, job, attempt, data, disk, stats, outcome>>
    BY <1>12 DEF WriteFails, Busy, BusyAt, Goto
  <2>2. QED BY <1>1, <1>4, <2>1, GoesOn DEF BusyAt
<1>13. CASE GiveUp(k)
  <2>1. /\ Busy(k) /\ SetDisk(k, "none") /\ Finish(k, "fail")
        /\ UNCHANGED <<next, job, attempt, data>>
    BY <1>13 DEF GiveUp, Busy, BusyAt, AfterRemove
  <2>2. disk' \in [Files -> Contents] /\ disk'[job[k]] = "none"
        /\ \A f \in Files \ {job[k]} : disk'[f] = disk[f]
    BY <1>3, <2>1 DEF Contents
  <2>3. QED BY <1>1, <2>1, <2>2, IsDone DEF Outcomes
<1>14. QED BY <1>2, <1>5, <1>6, <1>7, <1>8, <1>9, <1>10, <1>11, <1>12, <1>13
       DEF Worker

-----------------------------------------------------------------------------
(* The run as a whole. *)

\* A run that begins, the first one or another over what is in the directory.
LEMMA Begins ==
    ASSUME phase' = "manifest", disk' \in [Files -> Contents],
           ctxDone' = NewRun.ctxDone, next' = NewRun.next, pc' = NewRun.pc,
           job' = NewRun.job, attempt' = NewRun.attempt,
           data' = NewRun.data, stats' = NewRun.stats,
           outcome' = NewRun.outcome
    PROVE  IInv'
<1>1. /\ ctxDone' = FALSE /\ next' = 1
      /\ pc' = [k \in Workers |-> "recv"]
      /\ job' = [k \in Workers |-> 0]
      /\ attempt' = [k \in Workers |-> 0]
      /\ data' = [k \in Workers |-> "none"]
      /\ stats' = [o \in Outcomes |-> 0]
      /\ outcome' = [f \in Files |-> "none"]
  BY DEF NewRun
<1>2. TypeOK'
  <2>1. attempt' \in [Workers -> 0 .. retries]
    BY <1>1, RetriesType
  <2>2. stats' \in [Outcomes -> 0 .. N + 1] /\ next' \in 1 .. N + 1
    BY <1>1, ItemAssumption
  <2>3. /\ pc' \in [Workers -> {"recv", "match", "try", "open", "write",
                              "giveup", "exited"}]
        /\ job' \in [Workers -> Files \cup {0}]
        /\ data' \in [Workers -> Contents]
        /\ outcome' \in [Files -> Outcomes \cup {"none"}]
    BY <1>1 DEF Contents
  <2>4. phase' = "manifest" /\ ctxDone' \in BOOLEAN
    BY <1>1
  <2>5. QED BY <2>1, <2>2, <2>3, <2>4 DEF TypeOK
<1>3. Fresh' /\ OneWorker' /\ NoneForgotten'
  BY <1>1 DEF Fresh, OneWorker, NoneForgotten, Busy, BusyAt
<1>4. OnDisk'
  BY <1>1 DEF OnDisk, OutcomeMatchesDisk
<1>5. Counts'
  <2>1. \A o \in Outcomes : {f \in Files : outcome'[f] = o} = {}
    BY <1>1 DEF Outcomes
  <2>2. \A o \in Outcomes : Counted(o)' = 0
    BY <2>1, FS_EmptySet DEF Counted
  <2>3. QED BY <1>1, <2>2 DEF Counts
<1>6. QED BY <1>2, <1>3, <1>4, <1>5 DEF IInv

LEMMA InitInv == Init => IInv
<1> SUFFICES ASSUME Init PROVE IInv
  OBVIOUS
<1>1. /\ phase = "manifest" /\ ctxDone = FALSE /\ next = 1
      /\ pc = [k \in Workers |-> "recv"]
      /\ job = [k \in Workers |-> 0]
      /\ attempt = [k \in Workers |-> 0]
      /\ data = [k \in Workers |-> "none"]
      /\ stats = [o \in Outcomes |-> 0]
      /\ outcome = [f \in Files |-> "none"]
      /\ disk \in [Files -> Contents]
  BY DEF Init, NewRun
<1>2. TypeOK
  <2>1. attempt \in [Workers -> 0 .. retries]
    BY <1>1, RetriesType
  <2>2. stats \in [Outcomes -> 0 .. N + 1] /\ next \in 1 .. N + 1
    BY <1>1, ItemAssumption
  <2>3. QED BY <1>1, <2>1, <2>2 DEF TypeOK, Contents
<1>3. Fresh /\ OneWorker /\ NoneForgotten
  BY <1>1 DEF Fresh, OneWorker, NoneForgotten, Busy, BusyAt
<1>4. OnDisk
  BY <1>1 DEF OnDisk, OutcomeMatchesDisk
<1>5. Counts
  BY <1>1, NothingCounted DEF Counts
<1>6. QED BY <1>2, <1>3, <1>4, <1>5 DEF IInv

LEMMA RunInv == ASSUME IInv, Run \/ Cancel \/ Crash PROVE IInv'
<1>1. UNCHANGED <<next, workerVars, disk, outcome>>
  BY DEF Run, ManifestFails, FillChannel, EndFiles, Cancel, Crash
<1>2. UNCHANGED <<pc, job, attempt, data>>
  BY <1>1 DEF workerVars
<1>3. \A k \in Workers : Busy(k)' <=> Busy(k)
  BY <1>2 DEF Busy
<1>4. OneWorker' /\ OnDisk'
  BY <1>1, <1>2, <1>3 DEF IInv, OneWorker, OnDisk, OutcomeMatchesDisk
<1>5. \A o : Counted(o)' = Counted(o)
  BY <1>1 DEF Counted
<1>6. CASE ManifestFails
  <2>1. next = 1 /\ \A o \in Outcomes : stats[o] = 0
    BY <1>6 DEF ManifestFails, IInv, Fresh
  <2>2. stats' = [ok |-> 0, fail |-> 1, skip |-> 0]
    BY <1>6, <2>1 DEF ManifestFails, IInv, TypeOK, Outcomes
  <2>3. stats' \in [Outcomes -> 0 .. N + 1]
    BY <1>6, ItemAssumption DEF ManifestFails, IInv, TypeOK, Outcomes
  <2>4. TypeOK' /\ Fresh' /\ Counts'
    BY <1>1, <1>2, <1>6, <2>1, <2>2, <2>3 DEF ManifestFails, IInv, TypeOK, Fresh,
       Counts
  <2>5. NoneForgotten'
    BY <1>1, <1>2, <1>3, <1>6, <2>1 DEF ManifestFails, IInv, NoneForgotten
  <2>6. QED BY <1>4, <2>4, <2>5 DEF IInv
<1>7. CASE FillChannel
  <2>1. next = 1 /\ phase' \in {"ended", "files"} /\ (phase' = "files" <=> N # 0)
    BY <1>7 DEF FillChannel, IInv, Fresh
  <2>2. UNCHANGED <<ctxDone, stats>> /\ phase = "manifest"
    BY <1>7 DEF FillChannel
  <2>3. TypeOK' /\ Fresh'
    BY <1>1, <1>2, <2>1, <2>2 DEF IInv, TypeOK, Fresh
  <2>4. NoneForgotten'
    BY <1>1, <1>2, <1>3, <2>1, <2>2, ItemAssumption DEF IInv, NoneForgotten
  <2>5. Counts'
    BY <1>1, <1>5, <2>1, <2>2, ItemAssumption DEF IInv, Counts
  <2>6. QED BY <1>4, <2>3, <2>4, <2>5 DEF IInv
<1>8. CASE EndFiles
  <2>1. /\ phase = "files" /\ phase' = "ended" /\ UNCHANGED <<ctxDone, stats>>
        /\ \A k \in Workers : pc[k] = "exited"
    BY <1>8 DEF EndFiles
  <2>2. next > 1
    BY <2>1, WorkersFit DEF IInv, NoneForgotten
  <2>3. TypeOK' /\ Fresh'
    BY <1>1, <1>2, <2>1 DEF IInv, TypeOK, Fresh
  <2>4. NoneForgotten'
    BY <1>1, <1>2, <1>3, <2>1 DEF IInv, NoneForgotten
  <2>5. Counts'
    BY <1>1, <1>5, <2>1, <2>2 DEF IInv, Counts, TypeOK
  <2>6. QED BY <1>4, <2>3, <2>4, <2>5 DEF IInv
<1>9. CASE Cancel \/ Crash
  <2>1. /\ phase \in {"manifest", "files"} /\ phase' \in {phase, "dead"}
        /\ ctxDone' \in {ctxDone, TRUE} /\ UNCHANGED stats
    BY <1>9 DEF Cancel, Crash
  <2>2. TypeOK' /\ Fresh'
    BY <1>1, <1>2, <2>1 DEF IInv, TypeOK, Fresh
  <2>3. NoneForgotten'
    <3>1. /\ UNCHANGED <<next, pc, job, outcome>>
          /\ phase' # "ended" /\ (phase' = "files" => phase = "files")
      BY <1>1, <1>2, <2>1
    <3>2. ctxDone => ctxDone'
      BY <1>9 DEF Cancel, Crash
    <3>3. QED BY <1>3, <3>1, <3>2 DEF IInv, NoneForgotten
  <2>4. Counts'
    BY <1>1, <1>5, <2>1 DEF IInv, Counts
  <2>5. QED BY <1>4, <2>2, <2>3, <2>4 DEF IInv
<1>10. QED BY <1>6, <1>7, <1>8, <1>9 DEF Run

LEMMA NextInv == ASSUME IInv, [Next]_vars PROVE IInv'
<1>1. CASE UNCHANGED vars
  BY <1>1 DEF vars, workerVars, IInv, TypeOK, Fresh, OneWorker, NoneForgotten,
     Busy, OnDisk, OutcomeMatchesDisk, Counts, Counted
<1>2. CASE Run \/ Cancel \/ Crash
  BY <1>2, RunInv
<1>3. ASSUME NEW k \in Workers, Worker(k) PROVE IInv'
  BY <1>3, WorkerInv
<1>4. CASE RunAgain
  BY <1>4, Begins DEF RunAgain, IInv, TypeOK
<1>5. QED BY <1>1, <1>2, <1>3, <1>4 DEF Next

LEMMA Invariance == Spec => []IInv
<1>1. QED BY InitInv, NextInv, PTL DEF Spec

-----------------------------------------------------------------------------

(***************************************************************************)
(* What a run reports of a file is what its directory holds, for any       *)
(* number of files, workers and attempts, over whatever earlier runs and   *)
(* crashes left (item.go 229-280).                                         *)
(***************************************************************************)
THEOREM OutcomeMatchesDiskTheorem == Spec => []OutcomeMatchesDisk
<1>1. IInv => OutcomeMatchesDisk
  BY DEF IInv, OnDisk
<1>2. QED BY <1>1, Invariance, PTL

(***************************************************************************)
(* Types, and the counts of a run that ended account for every file: no    *)
(* file is counted twice or forgotten by the workers that share the        *)
(* channel (item.go 137-202).                                              *)
(***************************************************************************)
THEOREM ConsistentTheorem == Spec => []Consistent
<1>1. ASSUME IInv PROVE StatsAddUp
  <2> SUFFICES ASSUME phase = "ended", N > 0, next # 1
               PROVE  /\ \A o \in Outcomes : stats[o] = Counted(o)
                      /\ ctxDone \/ \A f \in Files : outcome[f] # "none"
    BY <1>1 DEF StatsAddUp, IInv, Counts
  <2>1. next > 1 /\ \A k \in Workers : pc[k] = "exited"
    BY <1>1 DEF IInv, TypeOK, NoneForgotten
  <2>2. ~ctxDone => next = N + 1
    BY <1>1, <2>1, WorkersFit DEF IInv, NoneForgotten
  <2>3. ~ctxDone => \A f \in Files : outcome[f] # "none"
    BY <1>1, <2>1, <2>2, ItemAssumption DEF IInv, NoneForgotten, Busy, BusyAt,
       Files
  <2>4. QED BY <1>1, <2>3 DEF IInv, Counts
<1>2. IInv => Consistent
  BY <1>1 DEF IInv, Consistent
<1>3. QED BY <1>2, Invariance, PTL
=============================================================================
