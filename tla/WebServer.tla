----------------------------- MODULE WebServer -----------------------------
(***************************************************************************)
(* internal/web/server.go and the main goroutine of internal/cli/web.go:   *)
(* the HTTP server, the two Steam sessions (SteamSession, one for browsing *)
(* and one for downloads), the loop of the download queue, the goroutine   *)
(* that warms both sessions up, and Shutdown, which stops them one after   *)
(* the other when a signal arrives.                                        *)
(*                                                                         *)
(* A handler makes one call of a session.  Those that show pages or add    *)
(* subscriptions call the browse session with the context of the request.  *)
(* Those that queue a download (DownloadManager.Enqueue) or update         *)
(* subscriptions call the download session, beside the loop of the queue;  *)
(* they are not cancelled with the request, and only the former have a     *)
(* timeout.  Of DownloadManager only what the composition needs is here:   *)
(* how many jobs are queued and that its loop calls the download session   *)
(* for one after the other, also after the manager was closed.  A panic in *)
(* a handler is caught by net/http; one in any other goroutine ends the    *)
(* process.                                                                *)
(***************************************************************************)
EXTENDS Naturals, Sequences, FiniteSets

CONSTANTS
    Pages,    \* requests that call the browse session
    Enqueues, \* requests that queue downloads (apiDownloadsCreate)
    Syncs,    \* requests that update subscriptions (apiSubsUpdate)
    Warm,     \* the warm-up goroutine, as a caller of either session
    MaxRequests, \* bound: requests that are accepted
    MaxQueued,\* bound: download jobs; their loop's calls are 1 .. MaxQueued
    QueueCap, \* capacity of the channel of a session
    Nobody

\* A call is made by one goroutine: a handler, a job's or the warm-up.
ASSUME ServerAssumption ==
    /\ MaxRequests \in Nat /\ MaxQueued \in Nat /\ QueueCap \in Nat \ {0}
    /\ Pages \cap (Enqueues \cup Syncs) = {}
    /\ Enqueues \cap Syncs = {}
    /\ (Enqueues \cup Syncs) \cap (1 .. MaxQueued) = {}
    /\ Warm \notin Pages \cup Enqueues \cup Syncs \cup (1 .. MaxQueued)
    /\ Nobody \notin Pages \cup Enqueues \cup Syncs \cup (1 .. MaxQueued)
                    \cup {Warm}

VARIABLES
    main,     \* the main goroutine: "serving" and the stages of Shutdown
    http,     \* s.httpSrv: "unset", "open" or "shut"
    handler,  \* handler[h]: "none", "active" or "answered"
    dlClosed, \* DownloadManager.closed
    queued,   \* jobs that were queued
    forced,   \* history: Shutdown went on without waiting for the handlers
    \* the variables of the browse session, and those of the download session
    bClosed, bJobs, bJobsClosed, bSess, bLoop, bCur, bPc, bResult, bAnswer,
    bGone, bCloser, bWarm,
    dClosed, dJobs, dJobsClosed, dSess, dLoop, dCur, dPc, dResult, dAnswer,
    dGone, dCloser, dWarm

bVars == <<bClosed, bJobs, bJobsClosed, bSess, bLoop, bCur, bPc, bResult,
           bAnswer, bGone, bCloser, bWarm>>
dVars == <<dClosed, dJobs, dJobsClosed, dSess, dLoop, dCur, dPc, dResult,
           dAnswer, dGone, dCloser, dWarm>>
webVars == <<main, http, handler, dlClosed, queued, forced>>
vars == <<webVars, bVars, dVars>>

JobCalls == 1 .. MaxQueued
DownloadHandlers == Enqueues \cup Syncs
Handlers == Pages \cup DownloadHandlers

Browse == INSTANCE SteamSession WITH
    Callers <- Pages \cup {Warm}, Timed <- Pages \cup {Warm},
    Cancellable <- Pages, closed <- bClosed, jobs <- bJobs,
    jobsClosed <- bJobsClosed, sess <- bSess, loop <- bLoop, cur <- bCur,
    pc <- bPc, result <- bResult, answer <- bAnswer, gone <- bGone,
    closer <- bCloser, warm <- bWarm

Download == INSTANCE SteamSession WITH
    Callers <- DownloadHandlers \cup JobCalls \cup {Warm},
    Timed <- Enqueues \cup {Warm}, Cancellable <- {}, closed <- dClosed, jobs <- dJobs,
    jobsClosed <- dJobsClosed, sess <- dSess, loop <- dLoop, cur <- dCur,
    pc <- dPc, result <- dResult, answer <- dAnswer, gone <- dGone,
    closer <- dCloser, warm <- dWarm

TypeOK ==
    /\ main \in {"serving", "http", "manager", "browse", "download", "exited"}
    /\ http \in {"unset", "open", "shut"}
    /\ handler \in [Handlers -> {"none", "active", "answered"}]
    /\ dlClosed \in BOOLEAN
    /\ queued \in 0 .. MaxQueued
    /\ forced \in BOOLEAN
    /\ Browse!TypeOK
    /\ Download!TypeOK

Init ==
    /\ main = "serving"
    /\ http = "unset"
    /\ handler = [h \in Handlers |-> "none"]
    /\ dlClosed = FALSE
    /\ queued = 0
    /\ forced = FALSE
    /\ Browse!Init
    /\ Download!Init

-----------------------------------------------------------------------------
(* The HTTP server and its handlers. *)

\* ListenAndServe, in its own goroutine, sets s.httpSrv and listens.
Listen ==
    /\ http = "unset"
    /\ http' = "open"
    /\ UNCHANGED <<main, handler, dlClosed, queued, forced, bVars, dVars>>

\* The address is in use: run returns without Shutdown.
ListenFails ==
    /\ http = "unset"
    /\ main = "serving"
    /\ main' = "exited"
    /\ UNCHANGED <<http, handler, dlClosed, queued, forced, bVars, dVars>>

Accept(h) ==
    /\ http = "open"
    /\ handler[h] = "none"
    /\ Cardinality({g \in Handlers : handler[g] # "none"}) < MaxRequests
    /\ handler' = [handler EXCEPT ![h] = "active"]
    /\ UNCHANGED <<main, http, dlClosed, queued, forced, bVars, dVars>>

\* runQuery and runDetail when the answer is not cached, and apiSubsAdd.
PageCall(h) ==
    /\ handler[h] = "active"
    /\ Browse!Caller(h)
    /\ UNCHANGED <<webVars, dVars>>

BrowserLeaves(h) ==
    /\ handler[h] = "active"
    /\ Browse!CancelParent(h)
    /\ UNCHANGED <<webVars, dVars>>

\* Enqueue resolves the id it is given.
EnqueueCall(h) ==
    /\ handler[h] = "active"
    /\ Download!Caller(h)
    /\ UNCHANGED <<webVars, bVars>>

SyncCall(h) ==
    /\ handler[h] = "active"
    /\ Download!Caller(h)
    /\ UNCHANGED <<webVars, bVars>>

Answered(h) == IF h \in Pages THEN bAnswer[h] # "none" ELSE dAnswer[h] # "none"
Panicked(h) == IF h \in Pages THEN bAnswer[h] = "panic" ELSE dAnswer[h] = "panic"

\* Enqueue queues what the answer names and is not on its way already; when
\* there is none, its own id; and nothing when the manager is closed.
QueuedThen(h) == {n \in queued .. MaxQueued :
    dAnswer[h] # "ok" => n <= queued + 1}

Answer(h) ==
    /\ handler[h] = "active"
    /\ Answered(h)
    /\ handler' = [handler EXCEPT ![h] = "answered"]
    /\ IF h \in Enqueues /\ ~Panicked(h) /\ ~dlClosed
         THEN queued' \in QueuedThen(h)
         ELSE UNCHANGED queued
    /\ UNCHANGED <<main, http, dlClosed, forced, bVars, dVars>>

-----------------------------------------------------------------------------
(* The other goroutines that call sessions. *)

WarmupBrowse ==
    /\ Browse!Caller(Warm)
    /\ UNCHANGED <<webVars, dVars>>

WarmupDownload ==
    /\ bPc[Warm] = "returned"
    /\ Download!Caller(Warm)
    /\ UNCHANGED <<webVars, bVars>>

\* runOne of the n-th job.
JobCall(n) ==
    /\ n <= queued
    /\ \A k \in 1 .. n - 1 : dPc[k] = "returned"
    /\ Download!Caller(n)
    /\ UNCHANGED <<webVars, bVars>>

BrowseWorker ==
    /\ Browse!Worker \/ Browse!SessionDies
    /\ UNCHANGED <<webVars, dVars>>

DownloadWorker ==
    /\ Download!Worker \/ Download!SessionDies
    /\ UNCHANGED <<webVars, bVars>>

-----------------------------------------------------------------------------
(* The main goroutine: select, then Shutdown. *)

\* Without s.httpSrv (it is read without a lock) nothing stops the listener.
Signal ==
    /\ main = "serving"
    /\ IF http = "open"
         THEN http' = "shut" /\ main' = "http" /\ UNCHANGED forced
         ELSE main' = "manager" /\ forced' = TRUE /\ UNCHANGED http
    /\ UNCHANGED <<handler, dlClosed, queued, bVars, dVars>>

\* Mutant: the handlers are not waited for.
IdleAtOnce == TRUE

Idle == \A h \in Handlers : handler[h] # "active"

\* httpSrv.Shutdown waits until no request is active, for 10 seconds.
HttpShut ==
    /\ main = "http"
    /\ main' = "manager"
    /\ forced' = (forced \/ ~Idle)
    /\ UNCHANGED <<http, handler, dlClosed, queued, bVars, dVars>>

CloseManager ==
    /\ main = "manager"
    /\ dlClosed' = TRUE
    /\ main' = "browse"
    /\ UNCHANGED <<http, handler, queued, forced, bVars, dVars>>

CloseBrowse ==
    /\ main = "browse"
    /\ Browse!Close
    /\ main' = IF bCloser' = "returned" THEN "download" ELSE main
    /\ UNCHANGED <<http, handler, dlClosed, queued, forced, dVars>>

\* Shutdown returns after the second session is closed, and the process ends.
CloseDownload ==
    /\ main = "download"
    /\ Download!Close
    /\ main' = IF dCloser' = "returned" THEN "exited" ELSE main
    /\ UNCHANGED <<http, handler, dlClosed, queued, forced, bVars>>

-----------------------------------------------------------------------------

\* A goroutine that nobody recovers for has panicked.
Crashed ==
    \/ bAnswer[Warm] = "panic"
    \/ \E c \in JobCalls \cup {Warm} : dAnswer[c] = "panic"

Over == main = "exited" \/ Crashed

Handler(h) ==
    \/ h \in Pages /\ PageCall(h)
    \/ h \in Enqueues /\ EnqueueCall(h)
    \/ h \in Syncs /\ SyncCall(h)
    \/ Answer(h)

Warmup == WarmupBrowse \/ WarmupDownload

Shutdown == HttpShut \/ CloseManager \/ CloseBrowse \/ CloseDownload

Terminated == Over /\ UNCHANGED vars

Next ==
    \/ /\ ~Over
       /\ \/ Listen
          \/ ListenFails
          \/ \E h \in Handlers : Accept(h) \/ Handler(h)
          \/ \E h \in Pages : BrowserLeaves(h)
          \/ Warmup
          \/ \E n \in JobCalls : JobCall(n)
          \/ BrowseWorker
          \/ DownloadWorker
          \/ Signal
          \/ Shutdown
    \/ Terminated

Spec == Init /\ [][Next]_vars

\* The fairness of both sessions (SteamSession) and of Shutdown itself.
Fairness ==
    /\ WF_vars(~Over /\ Browse!Worker /\ UNCHANGED <<webVars, dVars>>)
    /\ WF_vars(~Over /\ Download!Worker /\ UNCHANGED <<webVars, bVars>>)
    /\ \A h \in Handlers : WF_vars(~Over /\ Handler(h))
    /\ \A n \in JobCalls : WF_vars(~Over /\ JobCall(n))
    /\ WF_vars(~Over /\ Warmup)
    /\ WF_vars(~Over /\ Shutdown)

FairSpec == Spec /\ Fairness

-----------------------------------------------------------------------------
(* Properties. *)

\* Shutdown stops the listener, waits for the handlers and only then closes
\* the sessions: a request that was accepted is not turned away by a closed
\* session, or broken off by its closed channel, unless the 10 seconds ran
\* out or the signal came before s.httpSrv was set (server.go 139-148).
AcceptedIsServed ==
    ~forced => /\ \A h \in Pages : bAnswer[h] \notin {"closed", "panic"}
               /\ \A h \in DownloadHandlers : dAnswer[h] \notin {"closed", "panic"}

\* When Shutdown has returned nobody still waits for a session, although it
\* began while handlers, the download loop and the warm-up were calling.
NobodyLeftWaiting ==
    dCloser = "returned" =>
        /\ bJobs = <<>> /\ dJobs = <<>>
        /\ \A c \in Pages \cup {Warm} : bPc[c] = "wait" => bResult[c] # "empty"
        /\ \A c \in DownloadHandlers \cup JobCalls \cup {Warm} :
              dPc[c] = "wait" => dResult[c] # "empty"

\* The types of the server and of both sessions, and nobody left waiting
\* (Shutdown, server.go 138-148).
Consistent == TypeOK /\ NobodyLeftWaiting

\* After a signal the process ends (web.go 93-98).
SignalEnds == main = "http" ~> Over

\* An accepted request is answered, or the process ends first.
RequestAnswered ==
    \A h \in Handlers : handler[h] = "active" ~> handler[h] = "answered" \/ Over

\* Whenever the signal comes, neither it nor a request is left waiting.
ServerEnds == SignalEnds /\ RequestAnswered

-----------------------------------------------------------------------------
(* What the code says and does not do. *)

\* server.go 138: "Shutdown gracefully stops the server."
ShutdownIsGraceful == ~Crashed
=============================================================================
