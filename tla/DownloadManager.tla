-------------------------- MODULE DownloadManager --------------------------
(***************************************************************************)
(* internal/web/downloads.go: the serial download queue of the web server. *)
(* Enqueue (HTTP handlers) resolves an id on the Steam worker, then, under *)
(* m.mu, reuses active jobs, creates new ones, bounds the history and      *)
(* pushes ids into the channel, or starts a goroutine that pushes later    *)
(* when the channel is full.  One goroutine takes ids from the channel and *)
(* runs them.  Close marks the manager and closes the channel.             *)
(*                                                                         *)
(* An item stands for an (appID, workshopID) pair.  What a download does   *)
(* to the files is in DownloadItem; the Steam worker is in SteamSession:   *)
(* here a resolution succeeds or fails, a download ends well or badly.     *)
(***************************************************************************)
EXTENDS Naturals, Sequences, FiniteSets, Functions

CONSTANTS
    Requests,    \* the calls of Enqueue
    Wants,       \* what can be asked for: items and collections
    Answers,     \* Answers[w]: what ResolveIDs may answer for w
    QueueCap,    \* capacity of the queue channel (256)
    MaxHistory,  \* jobs kept in order (500)
    MaxJobs,     \* bound: jobs created during a behaviour
    Free         \* m.mu is not held

Items == Wants \cup UNION {UNION {Range(s) : s \in Answers[w]} : w \in Wants}
\* What a resolution may find; nothing, when it fails.
Found == {<<>>} \cup UNION {Answers[w] : w \in Wants}
JobIds == 1..MaxJobs
NoJob == 0

ASSUME ManagerAssumption ==
    /\ \A w \in Wants : Answers[w] \subseteq Seq(Items)
    /\ QueueCap \in Nat \ {0}
    /\ MaxHistory \in Nat \ {0}
    /\ MaxJobs \in Nat
    /\ Free \notin Requests

VARIABLES
    closed,       \* m.closed
    mu,           \* who holds m.mu across steps: an Enqueue, or Free
    jobsMap,      \* the ids of m.jobsMap
    order,        \* m.order, oldest first
    idSeq,        \* m.idSeq
    queue,        \* the queue channel
    queueClosed,  \* close(m.queue) has run
    item,         \* item[j]: what job j downloads
    status,       \* status[j]: Status of job j, "none" before it exists
    pusher,       \* the overflow goroutine of job j
    loop,         \* the loop goroutine
    cur,          \* the id loop has in hand
    pc,           \* where each Enqueue stands
    ids,          \* what it has still to insert
    crashed,      \* a goroutine without recover has panicked
    misread       \* history: jobs taken for inactive while being started

jobVars == <<jobsMap, order, idSeq, item, status>>
chanVars == <<queue, queueClosed>>
loopVars == <<loop, cur>>
reqVars == <<pc, ids>>
vars == <<closed, mu, jobVars, chanVars, pusher, loopVars, reqVars, crashed,
          misread>>

ActiveStatus == {"queued", "running"}

TypeOK ==
    /\ closed \in BOOLEAN
    /\ mu \in Requests \cup {Free}
    /\ jobsMap \subseteq JobIds
    /\ order \in Seq(JobIds)
    /\ Len(order) <= MaxHistory
    /\ idSeq \in 0..MaxJobs
    /\ queue \in Seq(JobIds)
    /\ Len(queue) <= QueueCap
    /\ queueClosed \in BOOLEAN
    /\ item \in [JobIds -> Items \cup {Free}]
    /\ status \in [JobIds -> {"none", "queued", "running", "done", "failed"}]
    /\ pusher \in [JobIds -> {"none", "check", "send", "sent", "dropped"}]
    /\ loop \in {"recv", "lookup", "mark", "run", "exited"}
    /\ cur \in JobIds \cup {NoJob}
    /\ pc \in [Requests -> {"idle", "resolve", "lock", "insert", "returned"}]
    /\ ids \in [Requests -> Seq(Items)]
    /\ crashed \in BOOLEAN
    /\ misread \subseteq JobIds

(* NewDownloadManager. *)
Init ==
    /\ closed = FALSE
    /\ mu = Free
    /\ jobsMap = {}
    /\ order = <<>>
    /\ idSeq = 0
    /\ queue = <<>>
    /\ queueClosed = FALSE
    /\ item = [j \in JobIds |-> Free]
    /\ status = [j \in JobIds |-> "none"]
    /\ pusher = [j \in JobIds |-> "none"]
    /\ loop = "recv"
    /\ cur = NoJob
    /\ pc = [r \in Requests |-> "idle"]
    /\ ids = [r \in Requests |-> <<>>]
    /\ crashed = FALSE
    /\ misread = {}

-----------------------------------------------------------------------------
(* Enqueue. *)

Ask(r, w) ==
    /\ pc[r] = "idle"
    /\ pc' = [pc EXCEPT ![r] = "resolve"]
    /\ ids' = [ids EXCEPT ![r] = <<w>>]
    /\ UNCHANGED <<closed, mu, jobVars, chanVars, pusher, loopVars, crashed,
                   misread>>

\* The ids of a resolution; w itself when it failed or found nothing.
Resolution(w, found) == IF found = <<>> THEN <<w>> ELSE found

Resolve(r, found) ==
    /\ pc[r] = "resolve"
    /\ found \in Answers[Head(ids[r])] \cup {<<>>}
    /\ pc' = [pc EXCEPT ![r] = "lock"]
    /\ ids' = [ids EXCEPT ![r] = Resolution(Head(@), found)]
    /\ UNCHANGED <<closed, mu, jobVars, chanVars, pusher, loopVars, crashed,
                   misread>>

Refuses == closed

Lock(r) ==
    /\ pc[r] = "lock"
    /\ mu = Free
    /\ IF Refuses
         THEN pc' = [pc EXCEPT ![r] = "returned"] /\ UNCHANGED mu
         ELSE pc' = [pc EXCEPT ![r] = "insert"] /\ mu' = r
    /\ UNCHANGED <<closed, jobVars, chanVars, pusher, loopVars, ids, crashed,
                   misread>>

(***************************************************************************)
(* Enqueue reads job.Status without job.mu while runOne writes it.  The    *)
(* string is two words: a read in the middle of the change from "queued"   *)
(* to "running" may see neither.  torn is such a read of the job in loop's *)
(* hands.  (A torn read of the later change to "done" or "failed" looks    *)
(* like one made after the change.)                                        *)
(***************************************************************************)
\* Mutant: only queued jobs count as active.
LooksQueued(j, torn) ==
    status[j] = "queued" /\ ~(torn /\ loop = "mark" /\ j = cur)

LooksActive(j, torn) ==
    /\ status[j] \in ActiveStatus
    /\ ~(torn /\ loop = "mark" /\ j = cur)

\* findActiveLocked: the listed active jobs of item w.
ActiveJobs(w, torn) ==
    {j \in Range(order) : j \in jobsMap /\ item[j] = w /\ LooksActive(j, torn)}

ReuseJob(r, torn) ==
    /\ mu = r
    /\ ids[r] # <<>>
    /\ ActiveJobs(Head(ids[r]), torn) # {}
    /\ ids' = [ids EXCEPT ![r] = Tail(@)]
    /\ UNCHANGED <<closed, mu, jobVars, chanVars, pusher, loopVars, pc,
                   crashed, misread>>

\* order with j appended, cut down to its newest MaxHistory entries, and
\* the entries cut off.
Kept(s) ==
    IF Len(s) <= MaxHistory THEN s ELSE SubSeq(s, Len(s) - MaxHistory + 1, Len(s))
Cut(s) ==
    IF Len(s) <= MaxHistory THEN <<>> ELSE SubSeq(s, 1, Len(s) - MaxHistory)

\* Mutant: a full channel loses the push.
PushOrForget(j) ==
    /\ queue' = IF Len(queue) < QueueCap THEN Append(queue, j) ELSE queue
    /\ UNCHANGED pusher

\* The non-blocking push, with the goroutine that replaces it.
Push(j) ==
    IF Len(queue) < QueueCap
      THEN queue' = Append(queue, j) /\ UNCHANGED pusher
      ELSE pusher' = [pusher EXCEPT ![j] = "check"] /\ UNCHANGED queue

CreateJob(r, torn) ==
    LET w == Head(ids[r])
        j == idSeq + 1
        listed == Append(order, j)
    IN  /\ mu = r
        /\ ids[r] # <<>>
        /\ ActiveJobs(w, torn) = {}
        /\ j \in JobIds
        /\ idSeq' = j
        /\ item' = [item EXCEPT ![j] = w]
        /\ status' = [status EXCEPT ![j] = "queued"]
        /\ order' = Kept(listed)
        /\ jobsMap' = (jobsMap \cup {j}) \
                        {d \in Range(Cut(listed)) \ {j} : ~LooksActive(d, torn)}
        /\ misread' = IF torn THEN misread \cup {cur} ELSE misread
        /\ Push(j)
        /\ ids' = [ids EXCEPT ![r] = Tail(@)]
        /\ UNCHANGED <<closed, mu, queueClosed, loopVars, pc, crashed>>

Unlock(r) ==
    /\ mu = r
    /\ ids[r] = <<>>
    /\ mu' = Free
    /\ pc' = [pc EXCEPT ![r] = "returned"]
    /\ UNCHANGED <<closed, jobVars, chanVars, pusher, loopVars, ids, crashed,
                   misread>>

-----------------------------------------------------------------------------
(* The goroutine Enqueue starts for a job that found the channel full. *)

PusherCheck(j) ==
    /\ pusher[j] = "check"
    /\ mu = Free
    /\ pusher' = [pusher EXCEPT ![j] = IF closed THEN "dropped" ELSE "send"]
    /\ UNCHANGED <<closed, mu, jobVars, chanVars, loopVars, reqVars, crashed,
                   misread>>

PushEnds(j) == [pusher EXCEPT ![j] = "sent"]

PusherSend(j) ==
    /\ pusher[j] = "send"
    /\ ~queueClosed
    /\ Len(queue) < QueueCap
    /\ queue' = Append(queue, j)
    /\ pusher' = PushEnds(j)
    /\ UNCHANGED <<closed, mu, jobVars, queueClosed, loopVars, reqVars,
                   crashed, misread>>

\* After 30 seconds of a full channel.
PusherTimeout(j) ==
    /\ pusher[j] = "send"
    /\ pusher' = [pusher EXCEPT ![j] = "dropped"]
    /\ UNCHANGED <<closed, mu, jobVars, chanVars, loopVars, reqVars, crashed,
                   misread>>

\* A send on a closed channel panics, also when it was blocked before.
PusherPanics(j) ==
    /\ pusher[j] = "send"
    /\ queueClosed
    /\ crashed' = TRUE
    /\ UNCHANGED <<closed, mu, jobVars, chanVars, pusher, loopVars, reqVars,
                   misread>>

-----------------------------------------------------------------------------
(* loop and runOne. *)

\* Mutant: the newest id is taken first.
NewestId == queue[Len(queue)]

OldestId == Head(queue)

Recv ==
    /\ loop = "recv"
    /\ queue # <<>>
    /\ cur' = OldestId
    /\ queue' = Tail(queue)
    /\ loop' = "lookup"
    /\ UNCHANGED <<closed, mu, jobVars, queueClosed, pusher, reqVars, crashed,
                   misread>>

Lookup ==
    /\ loop = "lookup"
    /\ mu = Free
    /\ IF cur \in jobsMap
         THEN loop' = "mark" /\ UNCHANGED cur
         ELSE loop' = "recv" /\ cur' = NoJob
    /\ UNCHANGED <<closed, mu, jobVars, chanVars, pusher, reqVars, crashed,
                   misread>>

StartJob ==
    /\ loop = "mark"
    /\ status' = [status EXCEPT ![cur] = "running"]
    /\ loop' = "run"
    /\ UNCHANGED <<closed, mu, jobsMap, order, idSeq, item, chanVars, pusher,
                   cur, reqVars, crashed, misread>>

\* Mutant: a failed job is queued again.
EndedOrRetried(v) ==
    [status EXCEPT ![cur] = IF v = "failed" THEN "queued" ELSE v]

Ended(v) == [status EXCEPT ![cur] = v]

EndJob(v) ==
    /\ loop = "run"
    /\ status' = Ended(v)
    /\ loop' = "recv"
    /\ cur' = NoJob
    /\ UNCHANGED <<closed, mu, jobsMap, order, idSeq, item, chanVars, pusher,
                   reqVars, crashed, misread>>

\* Mutant: the loop leaves without draining.
DrainedAtOnce == queueClosed

Drained == queue = <<>> /\ queueClosed

LoopExits ==
    /\ loop = "recv"
    /\ Drained
    /\ loop' = "exited"
    /\ UNCHANGED <<closed, mu, jobVars, chanVars, pusher, cur, reqVars,
                   crashed, misread>>

-----------------------------------------------------------------------------
(* Close. *)

CloseMark ==
    /\ mu = Free
    /\ ~closed
    /\ closed' = TRUE
    /\ UNCHANGED <<mu, jobVars, chanVars, pusher, loopVars, reqVars, crashed,
                   misread>>

CloseQueue ==
    /\ closed
    /\ ~queueClosed
    /\ queueClosed' = TRUE
    /\ UNCHANGED <<closed, mu, jobVars, queue, pusher, loopVars, reqVars,
                   crashed, misread>>

-----------------------------------------------------------------------------

Enqueue(r) ==
    \/ \E found \in Found : Resolve(r, found)
    \/ Lock(r)
    \/ \E torn \in {FALSE, loop = "mark"} : ReuseJob(r, torn) \/ CreateJob(r, torn)
    \/ Unlock(r)

Pusher(j) ==
    PusherCheck(j) \/ PusherSend(j) \/ PusherTimeout(j) \/ PusherPanics(j)

Loop ==
    \/ Recv \/ Lookup \/ StartJob
    \/ \E v \in {"done", "failed"} : EndJob(v)
    \/ LoopExits

\* The process is gone, or everything it was asked to do is over.
Terminated ==
    /\ \/ crashed
       \/ /\ loop = "exited"
          /\ \A r \in Requests : pc[r] = "returned"
          /\ \A j \in JobIds : pusher[j] \notin {"check", "send"}
    /\ UNCHANGED vars

Next ==
    \/ /\ ~crashed
       /\ \/ \E r \in Requests, w \in Wants : Ask(r, w)
          \/ \E r \in Requests : Enqueue(r)
          \/ \E j \in JobIds : Pusher(j)
          \/ Loop
          \/ CloseMark
          \/ CloseQueue
    \/ Terminated

Spec == Init /\ [][Next]_vars

(***************************************************************************)
(* Goroutines run.  A download ends because it is a bounded number of      *)
(* bounded requests; an Enqueue that holds m.mu releases it (it never      *)
(* blocks while it does).  Nobody has to ask, nor to Close.                *)
(***************************************************************************)
Fairness ==
    /\ SF_vars(~crashed /\ Lookup)
    /\ WF_vars(~crashed /\ Loop)
    /\ \A r \in Requests : WF_vars(~crashed /\ Enqueue(r))
    /\ \A j \in JobIds : WF_vars(~crashed /\ Pusher(j))
    /\ WF_vars(~crashed /\ CloseQueue)

FairSpec == Spec /\ Fairness

-----------------------------------------------------------------------------
(* Properties. *)

(***************************************************************************)
(* No two listed jobs download one item at the same time, unless an        *)
(* Enqueue misread the status of the older one while runOne was writing it *)
(* (downloads.go 299-311).  Jobs cut off the history are not protected.    *)
(***************************************************************************)
OneActivePerItem ==
    \A i, j \in Range(order) :
        /\ i < j
        /\ item[i] = item[j]
        /\ {status[i], status[j]} \subseteq ActiveStatus
        => i \in misread

(***************************************************************************)
(* A job id is in at most one place on its way to runOne: once in the      *)
(* channel, or with its overflow goroutine, or in loop's hands; and only   *)
(* while the job has not started.  A job therefore never runs twice.       *)
(***************************************************************************)
OneTicket ==
    /\ IsInjective(queue)
    /\ \A j \in Range(queue) :
          /\ j # cur
          /\ pusher[j] \in {"none", "sent"}
          /\ status[j] = "queued"
    /\ \A j \in JobIds :
          pusher[j] \in {"check", "send", "dropped"} =>
              j # cur /\ status[j] = "queued"

(***************************************************************************)
(* A job shown as queued is really on its way, unless its overflow         *)
(* goroutine gave up (downloads.go 284-288): then it stays queued for ever *)
(* and, while listed, every Enqueue of its item is answered with it.       *)
(***************************************************************************)
QueuedHasTicket ==
    \A j \in JobIds :
        status[j] = "queued" /\ pusher[j] # "dropped" =>
            j \in Range(queue) \/ pusher[j] \in {"check", "send"} \/ j = cur

(***************************************************************************)
(* Every listed job can be looked up by id (order and jobsMap never drift  *)
(* apart that way), and a job forgotten by jobsMap is not waiting to run.  *)
(***************************************************************************)
ListedIsKnown ==
    /\ Range(order) \subseteq jobsMap
    /\ \A j \in 1..idSeq :
          j \notin jobsMap => status[j] # "queued" \/ (loop = "mark" /\ j = cur)

\* Enqueue pushes under m.mu: the channel is never closed under its feet.
QueueOpenUnderLock == mu # Free => ~queueClosed

(***************************************************************************)
(* The rest of the inductive invariant: what the ids in use are, what the  *)
(* place of loop says of its job, and what m.mu protects.                  *)
(***************************************************************************)
KnownIds ==
    /\ \A j \in JobIds : status[j] = "none" <=> j > idSeq
    /\ \A j \in JobIds : pusher[j] # "none" => j <= idSeq
    /\ IsInjective(order)
    /\ \A j \in Range(order) : j <= idSeq
    /\ \A r \in Requests :
          pc[r] = "resolve" => \E w \in Wants : ids[r] = <<w>>

LoopPlace ==
    /\ loop \in {"recv", "exited"} <=> cur = NoJob
    /\ loop \in {"lookup", "mark"} => status[cur] = "queued"
    /\ loop = "run" => status[cur] = "running"
    /\ \A j \in JobIds : status[j] = "running" => loop = "run" /\ j = cur

LockPlace ==
    /\ \A r \in Requests : pc[r] = "insert" <=> mu = r
    /\ mu # Free => ~closed
    /\ queueClosed => closed

IInv ==
    /\ TypeOK /\ KnownIds /\ LoopPlace /\ LockPlace
    /\ OneActivePerItem /\ OneTicket /\ QueuedHasTicket /\ ListedIsKnown

(***************************************************************************)
(* Jobs that found room in the channel start in the order of their ids     *)
(* (serial queue, downloads.go 178).  Jobs pushed by a goroutine may be    *)
(* overtaken.                                                              *)
(***************************************************************************)
StartsInOrder ==
    [][\A i, j \in JobIds :
          /\ i < j
          /\ pusher[i] = "none" /\ pusher[j] = "none"
          /\ status[j] = "queued" /\ status'[j] = "running"
          => status[i] # "queued"]_vars

\* downloads.go 353: after Close no job is created.
ClosedCreatesNothing == [][closed => idSeq' = idSeq]_vars

\* Jobs live the life JobLifecycle describes.
Lifecycle == INSTANCE JobLifecycle WITH phase <- status
LifecycleKept == Lifecycle!Spec

\* A job that got into the channel directly ends, also when Close is called.
QueuedEnds ==
    \A j \in JobIds :
        status[j] = "queued" /\ pusher[j] = "none"
            ~> status[j] \in {"done", "failed"} \/ crashed

-----------------------------------------------------------------------------
(* What the code says and does not do. *)

(***************************************************************************)
(* downloads.go 259: "Bound history so long-running servers do not grow    *)
(* forever."  A job cut off while it is queued or running is kept in       *)
(* jobsMap, and nothing removes it when it has ended.                      *)
(***************************************************************************)
HistoryBounded ==
    (\A j \in jobsMap : status[j] \notin ActiveStatus) =>
        Cardinality(jobsMap) <= MaxHistory

(***************************************************************************)
(* downloads.go 213: Enqueue "expands collections into children".  When    *)
(* the worker does not answer in time the collection itself is queued.     *)
(***************************************************************************)
ExpandsCollections ==
    \A j \in 1..idSeq :
        item[j] \in Wants => \E s \in Answers[item[j]] : item[j] \in Range(s)

(***************************************************************************)
(* downloads.go 353: Close "stops accepting new work (in-flight may        *)
(* finish)".  A goroutine blocked on the full channel panics when it is    *)
(* closed, and takes the process and the download in flight with it.       *)
(***************************************************************************)
CloseLetsInFlightFinish == ~(crashed /\ loop = "run")
=============================================================================
