---------------------------- MODULE SteamSession ----------------------------
(***************************************************************************)
(* internal/web/session.go: one anonymous CM session owned by a worker     *)
(* goroutine.  Callers (HTTP handlers, the download loop, Warmup) push     *)
(* jobs into a bounded channel and wait for the result, a timer, their     *)
(* request context or the end of the worker.  Close closes the job channel *)
(* and waits for the worker to drain it.                                   *)
(*                                                                         *)
(* Time is nondeterministic: the timer of a waiting caller may fire at any *)
(* moment.  A caller stands for one call, from its test of closed to its   *)
(* return.  How the CM session dies and logs in again is in CMClient; here *)
(* it only dies (LoggedOn turns false) and is replaced by ensure.          *)
(***************************************************************************)
EXTENDS Naturals, Sequences, FiniteSets, Functions

CONSTANTS
    Callers,      \* the calls made during the life of the session
    Timed,        \* those made with a timeout (workerWait)
    Cancellable,  \* those made with the context of an HTTP request
    QueueCap,     \* capacity of the jobs channel (64)
    Nobody        \* the worker has no job in hand

ASSUME SessionAssumption ==
    /\ Timed \subseteq Callers
    /\ Cancellable \subseteq Callers
    /\ QueueCap \in Nat \ {0}
    /\ Nobody \notin Callers

VARIABLES
    closed,      \* s.closed
    jobs,        \* the jobs channel: the callers whose job is buffered
    jobsClosed,  \* close(s.jobs) has run
    sess,        \* s.sess: "nil", "live" (CM logged on) or "dead"
    loop,        \* the worker: "recv", "ensure", "run" or "exited" (s.done)
    cur,         \* the caller of the job in the worker's hands
    pc,          \* where each call stands
    result,      \* what the worker sent to the caller's resCh
    answer,      \* what the call returned
    gone,        \* parent.Done() of the caller has fired
    closer,      \* the goroutine that runs Close
    warm         \* some login has succeeded

callerVars == <<pc, answer>>
workerVars == <<sess, loop, cur, result, warm>>
vars == <<closed, jobs, jobsClosed, sess, loop, cur, pc, result, answer,
          gone, closer, warm>>

Outcomes == {"ok", "error", "aborted"}
Refusals == {"timeout", "cancelled", "closed", "panic"}

TypeOK ==
    /\ closed \in BOOLEAN
    /\ jobs \in Seq(Callers)
    /\ Len(jobs) <= QueueCap
    /\ jobsClosed \in BOOLEAN
    /\ sess \in {"nil", "live", "dead"}
    /\ loop \in {"recv", "ensure", "run", "exited"}
    /\ cur \in Callers \cup {Nobody}
    /\ pc \in [Callers -> {"start", "send", "wait", "returned"}]
    /\ result \in [Callers -> Outcomes \cup {"empty"}]
    /\ answer \in [Callers -> Outcomes \cup Refusals \cup {"none"}]
    /\ gone \in [Callers -> BOOLEAN]
    /\ closer \in {"idle", "closing", "draining", "returned"}
    /\ warm \in BOOLEAN

(* NewSteamSession: the worker is started with no session. *)
Init ==
    /\ closed = FALSE
    /\ jobs = <<>>
    /\ jobsClosed = FALSE
    /\ sess = "nil"
    /\ loop = "recv"
    /\ cur = Nobody
    /\ pc = [c \in Callers |-> "start"]
    /\ result = [c \in Callers |-> "empty"]
    /\ answer = [c \in Callers |-> "none"]
    /\ gone = [c \in Callers |-> FALSE]
    /\ closer = "idle"
    /\ warm = FALSE

Done == loop = "exited"

(* HTTP and LoggedOn: what other goroutines read of the session. *)
HTTP == IF sess = "nil" THEN "default" ELSE "session"
LoggedOn == sess = "live"

-----------------------------------------------------------------------------
(* CallCtx. *)

Return(c, a) ==
    /\ pc' = [pc EXCEPT ![c] = "returned"]
    /\ answer' = [answer EXCEPT ![c] = a]

\* closed is read under s.mu, and s.mu is released before the send.
CheckClosed(c) ==
    /\ pc[c] = "start"
    /\ IF closed
         THEN Return(c, "closed")
         ELSE pc' = [pc EXCEPT ![c] = "send"] /\ UNCHANGED answer
    /\ UNCHANGED <<closed, jobs, jobsClosed, workerVars, gone, closer>>

Room == Len(jobs) < QueueCap

\* First select.  A send on a closed channel panics when its case is taken.
SendJob(c) ==
    /\ pc[c] = "send"
    /\ ~jobsClosed
    /\ Room
    /\ jobs' = Append(jobs, c)
    /\ pc' = [pc EXCEPT ![c] = "wait"]
    /\ UNCHANGED <<closed, jobsClosed, workerVars, answer, gone, closer>>

NotSent(c) ==
    /\ pc[c] = "send"
    /\ \/ jobsClosed /\ Return(c, "panic")
       \/ gone[c] /\ Return(c, "cancelled")
       \/ Done /\ Return(c, "closed")
    /\ UNCHANGED <<closed, jobs, jobsClosed, workerVars, gone, closer>>

\* Second select, timer only with a timeout; any ready case may be taken.
Receive(c) ==
    /\ pc[c] = "wait"
    /\ result[c] # "empty"
    /\ Return(c, result[c])
    /\ UNCHANGED <<closed, jobs, jobsClosed, workerVars, gone, closer>>

StopWaiting(c) ==
    /\ pc[c] = "wait"
    /\ \/ c \in Timed /\ Return(c, "timeout")
       \/ gone[c] /\ Return(c, "cancelled")
       \/ Done /\ Return(c, "closed")
    /\ UNCHANGED <<closed, jobs, jobsClosed, workerVars, gone, closer>>

\* The browser of the request goes away.
CancelParent(c) ==
    /\ c \in Cancellable
    /\ pc[c] # "returned"
    /\ ~gone[c]
    /\ gone' = [gone EXCEPT ![c] = TRUE]
    /\ UNCHANGED <<closed, jobs, jobsClosed, workerVars, callerVars, closer>>

-----------------------------------------------------------------------------
(* loop, runJob and ensure: the worker goroutine. *)

\* Mutant: the newest job is taken.
NewestJob == jobs[Len(jobs)]

OldestJob == Head(jobs)
OtherJobs == Tail(jobs)

TakeJob ==
    /\ loop = "recv"
    /\ jobs # <<>>
    /\ cur' = OldestJob
    /\ jobs' = OtherJobs
    /\ loop' = "ensure"
    /\ UNCHANGED <<closed, jobsClosed, sess, callerVars, result, gone, closer,
                   warm>>

SessionAlive ==
    /\ loop = "ensure"
    /\ LoggedOn
    /\ loop' = "run"
    /\ UNCHANGED <<closed, jobs, jobsClosed, sess, cur, callerVars, result,
                   gone, closer, warm>>

\* A dead session is closed and forgotten before the login that replaces it.
DropDeadSession ==
    /\ loop = "ensure"
    /\ sess = "dead"
    /\ sess' = "nil"
    /\ UNCHANGED <<closed, jobs, jobsClosed, loop, cur, callerVars, result,
                   gone, closer, warm>>

LoginOK ==
    /\ loop = "ensure"
    /\ sess = "nil"
    /\ sess' = "live"
    /\ warm' = TRUE
    /\ loop' = "run"
    /\ UNCHANGED <<closed, jobs, jobsClosed, cur, callerVars, result, gone,
                   closer>>

\* Mutants: the result is dropped, or only when nobody waits for it.
ResultLost(v) == result
ResultIfWanted(v) == [result EXCEPT ![cur] = IF pc[cur] = "wait" THEN v ELSE @]

\* resCh has room for one result: a full one is left as it is.
ResultSent(v) == [result EXCEPT ![cur] = IF @ = "empty" THEN v ELSE @]

Deliver(v) ==
    /\ result' = ResultSent(v)
    /\ cur' = Nobody
    /\ loop' = "recv"

LoginFails ==
    /\ loop = "ensure"
    /\ sess = "nil"
    /\ Deliver("error")
    /\ UNCHANGED <<closed, jobs, jobsClosed, sess, callerVars, gone, closer,
                   warm>>

\* fn ends by itself, or because the context it was given is done.
RunJob ==
    /\ loop = "run"
    /\ \/ \E v \in {"ok", "error"} : Deliver(v)
       \/ gone[cur] /\ Deliver("aborted")
    /\ UNCHANGED <<closed, jobs, jobsClosed, sess, callerVars, gone, closer,
                   warm>>

\* Mutant: the worker leaves as soon as the channel is closed.
DrainedAtOnce == jobsClosed

Drained == jobs = <<>> /\ jobsClosed

\* The range over a closed and drained channel ends: Close the session.
Exit ==
    /\ loop = "recv"
    /\ Drained
    /\ sess' = "nil"
    /\ loop' = "exited"
    /\ UNCHANGED <<closed, jobs, jobsClosed, cur, callerVars, result, gone,
                   closer, warm>>

\* The CM connection is lost while the session is held.
SessionDies ==
    /\ LoggedOn
    /\ sess' = "dead"
    /\ UNCHANGED <<closed, jobs, jobsClosed, loop, cur, callerVars, result,
                   gone, closer, warm>>

-----------------------------------------------------------------------------
(* Close. *)

\* Mutant: the channel is closed before closed is set.
CloseMarkLate ==
    /\ closer = "idle"
    /\ jobsClosed' = TRUE
    /\ closer' = "closing"
    /\ UNCHANGED <<closed, jobs, workerVars, callerVars, gone>>

CloseMark ==
    /\ closer = "idle"
    /\ closed' = TRUE
    /\ closer' = "closing"
    /\ UNCHANGED <<jobs, jobsClosed, workerVars, callerVars, gone>>

CloseJobs ==
    /\ closer = "closing"
    /\ jobsClosed' = TRUE
    /\ closer' = "draining"
    /\ UNCHANGED <<closed, jobs, workerVars, callerVars, gone>>

CloseReturns ==
    /\ closer = "draining"
    /\ Done
    /\ closer' = "returned"
    /\ UNCHANGED <<closed, jobs, jobsClosed, workerVars, callerVars, gone>>

-----------------------------------------------------------------------------

Caller(c) ==
    \/ CheckClosed(c) \/ SendJob(c) \/ NotSent(c)
    \/ Receive(c) \/ StopWaiting(c)

Worker ==
    \/ TakeJob \/ SessionAlive \/ DropDeadSession \/ LoginOK \/ LoginFails
    \/ RunJob \/ Exit

Close == CloseMark \/ CloseJobs \/ CloseReturns

\* Every call has returned and the worker has gone: nothing is left to do.
Terminated ==
    /\ closer = "returned"
    /\ \A c \in Callers : pc[c] = "returned"
    /\ UNCHANGED vars

Next ==
    \/ \E c \in Callers : Caller(c) \/ CancelParent(c)
    \/ Worker
    \/ SessionDies
    \/ Close
    \/ Terminated

Spec == Init /\ [][Next]_vars

(***************************************************************************)
(* Goroutines that can run do run.  Senders blocked on the full channel    *)
(* are served first come first served by the runtime, hence strong         *)
(* fairness of SendJob.  Worker fairness assumes that every fn ends: a     *)
(* timed one has a deadline on its context, a download is a finite number  *)
(* of bounded HTTP requests.  Nothing forces Close, a lost browser or a    *)
(* lost connection to happen.                                              *)
(***************************************************************************)
Fairness ==
    /\ \A c \in Callers : WF_vars(Caller(c)) /\ SF_vars(SendJob(c))
    /\ WF_vars(Worker)
    /\ WF_vars(CloseJobs \/ CloseReturns)

FairSpec == Spec /\ Fairness

-----------------------------------------------------------------------------
(* Properties. *)

(***************************************************************************)
(* Draining leaves nobody behind: when the worker has exited (session.go   *)
(* 182-195) no accepted job is left without a result, although calls race  *)
(* with Close; the session is closed and never comes back.                 *)
(***************************************************************************)
DrainedClean ==
    Done => /\ jobs = <<>>
            /\ sess = "nil"
            /\ \A c \in Callers : pc[c] = "wait" => result[c] # "empty"

(***************************************************************************)
(* A job is handed to fn at most once, whatever its caller did meanwhile:  *)
(* a job buffered or in hand has no result yet, and is there only once.    *)
(* The non-blocking send of session.go 211-222 therefore never drops a     *)
(* result a caller is waiting for.                                         *)
(***************************************************************************)
ServedOnce ==
    /\ IsInjective(jobs)
    /\ \A c \in Range(jobs) : result[c] = "empty" /\ c # cur
    /\ cur # Nobody => result[cur] = "empty"

(***************************************************************************)
(* Only a call that read closed before Close set it can panic on the       *)
(* closed channel, and such a call has no job in the worker's hands.       *)
(***************************************************************************)
PanicHasNoJob ==
    \A c \in Callers :
        answer[c] = "panic" =>
            /\ closed
            /\ c \notin Range(jobs)
            /\ c # cur
            /\ result[c] = "empty"

(***************************************************************************)
(* The rest of the inductive invariant: where the job of a call can be,    *)
(* given how far the call got, and what the worker's place says.           *)
(***************************************************************************)
Placement ==
    \A c \in Callers :
        /\ pc[c] \in {"start", "send"} =>
             c \notin Range(jobs) /\ c # cur /\ result[c] = "empty"
        /\ pc[c] = "wait" =>
             c \in Range(jobs) \/ c = cur \/ result[c] # "empty"
        /\ answer[c] = "none" <=> pc[c] # "returned"

WorkerPlace ==
    /\ loop \in {"ensure", "run"} <=> cur # Nobody
    /\ jobsClosed => closed
    /\ closer # "idle" => closed
    /\ Done => jobsClosed /\ jobs = <<>> /\ sess = "nil"

IInv ==
    TypeOK /\ Placement /\ WorkerPlace /\ ServedOnce /\ PanicHasNoJob

\* The calls and the worker keep the contract of WorkerContract.
Contract == INSTANCE WorkerContract WITH
    accepted <- jobs,
    serving  <- cur,
    verdict  <- result,
    told     <- [c \in Callers |->
                   IF answer[c] \in Refusals THEN "gaveUp" ELSE answer[c]]

(* The session implements its contract (steps map to steps or stutters). *)
KeepsContract == Contract!Spec

(***************************************************************************)
(* Every call that got past the closed test returns, also when it is       *)
(* blocked on a full channel, has no timeout, or races with Close.         *)
(***************************************************************************)
CallReturns == \A c \in Callers : pc[c] = "send" ~> pc[c] = "returned"

(***************************************************************************)
(* An accepted job is run to a result even if its caller timed out, went   *)
(* away, or Close was called meanwhile.                                    *)
(***************************************************************************)
AcceptedRuns ==
    \A c \in Callers : c \in Range(jobs) ~> result[c] # "empty"

(***************************************************************************)
(* Nobody waits for ever, neither the caller nor its job (session.go       *)
(* 88-140, 182-195).                                                       *)
(***************************************************************************)
CallsEnd == CallReturns /\ AcceptedRuns

-----------------------------------------------------------------------------
(* What the code says and does not do. *)

(***************************************************************************)
(* session.go 86-87: "cancels the wait; the worker still finishes the      *)
(* in-flight Steam call".  runJob hands the request context to fn, so the  *)
(* cancellation ends the call in flight too.                               *)
(***************************************************************************)
InFlightFinishes == \A c \in Callers : result[c] # "aborted"

(***************************************************************************)
(* README.md 69: with --proxy, preview images are fetched server-side so   *)
(* that the browser does not need the proxy; the handler takes the client  *)
(* from HTTP().  Once the session has been up and until Close, that client *)
(* should be the session's.  ensure forgets a dead session before it logs  *)
(* in again, and HTTP() then answers http.DefaultClient.                   *)
(***************************************************************************)
ProxyAwareHTTP == warm /\ ~closed => HTTP = "session"
=============================================================================
