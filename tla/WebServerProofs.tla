-------------------------- MODULE WebServerProofs --------------------------
(***************************************************************************)
(* Shutdown turns no accepted request away, and the two sessions behave in *)
(* the server as SteamSession says, for every set of requests and jobs.    *)
(***************************************************************************)
EXTENDS WebServer, SequenceTheorems, TLAPS

(***************************************************************************)
(* The parts of the invariant: once the manager may be closed without      *)
(* force no handler is left and none is accepted any more, and a session   *)
(* is not touched by Shutdown before the main goroutine comes to it.       *)
(***************************************************************************)
Quiet ==
    /\ main = "http" => http = "shut"
    /\ ~forced /\ main \in {"manager", "browse", "download"} =>
         http = "shut" /\ Idle

BrowseOpen ==
    main \in {"serving", "http", "manager"} =>
        ~bClosed /\ ~bJobsClosed /\ bLoop # "exited"

DownloadOpen ==
    main \in {"serving", "http", "manager", "browse"} =>
        ~dClosed /\ ~dJobsClosed /\ dLoop # "exited"

\* The sessions are closed one after the other.
InTurn ==
    /\ main = "download" => bCloser = "returned"
    /\ dCloser # "idle" => bCloser = "returned"

(***************************************************************************)
(* In the browse session a call that waits has its job in the channel, in  *)
(* the hands of the worker, or done; what its loop and Close have come to. *)
(***************************************************************************)
BrowseServed ==
    /\ \A c \in Pages \cup {Warm} :
          bPc[c] = "wait" => \/ c \in Range(bJobs) \/ c = bCur
                             \/ bResult[c] # "empty"
    /\ bLoop \in {"ensure", "run"} <=> bCur # Nobody
    /\ bLoop = "exited" => bJobsClosed /\ bJobs = <<>>
    /\ bCloser = "returned" => bLoop = "exited"

(***************************************************************************)
(* In the download session a call that waits has its job in the channel,   *)
(* in the hands of the worker, or done; what its loop and Close say.       *)
(***************************************************************************)
DownloadServed ==
    /\ \A c \in DownloadHandlers \cup JobCalls \cup {Warm} :
          dPc[c] = "wait" => \/ c \in Range(dJobs) \/ c = dCur
                             \/ dResult[c] # "empty"
    /\ dLoop \in {"ensure", "run"} <=> dCur # Nobody
    /\ dLoop = "exited" => dJobsClosed /\ dJobs = <<>>
    /\ dCloser = "returned" => dLoop = "exited"

\* The inductive invariant.
IInv ==
    /\ TypeOK
    /\ Quiet /\ BrowseOpen /\ DownloadOpen /\ AcceptedIsServed
    /\ InTurn /\ BrowseServed /\ DownloadServed

-----------------------------------------------------------------------------
(* A channel as a sequence.                                                *)

\* What a send puts in, and what a receive takes.
LEMMA Channel ==
    ASSUME NEW S, NEW s \in Seq(S)
    PROVE  /\ \A e \in S : Range(Append(s, e)) = Range(s) \cup {e}
           /\ s # <<>> => Range(s) = {Head(s)} \cup Range(Tail(s))
           /\ Range(<<>>) = {}
<1>1. \A t, u \in Seq(S) : Range(t \o u) = Range(t) \cup Range(u)
  BY RangeConcatenation
<1>2. \A e \in S : <<e>> \in Seq(S) /\ Range(<<e>>) = {e}
  BY DEF Range
<1>3. \A e \in S : Append(s, e) = s \o <<e>>
  BY AppendIsConcat
<1>4. ASSUME s # <<>> PROVE Range(s) = {Head(s)} \cup Range(Tail(s))
  <2>1. /\ Head(s) \in S /\ Tail(s) \in Seq(S) /\ Len(Tail(s)) = Len(s) - 1
        /\ Head(s) = s[1] /\ Len(s) \in Nat \ {0}
        /\ \A i \in 1 .. Len(s) - 1 : Tail(s)[i] = s[i + 1]
    BY <1>4, HeadTailProperties, EmptySeq
  <2>2. <<Head(s)>> \in Seq(S) /\ s = <<Head(s)>> \o Tail(s)
    BY <1>4, <2>1
  <2>3. QED BY <1>1, <1>2, <2>1, <2>2
<1>5. \A e \in S : Range(Append(s, e)) = Range(s) \cup {e}
  BY <1>1, <1>2, <1>3
<1>6. Range(<<>>) = {}
  BY DEF Range
<1>7. QED BY <1>4, <1>5, <1>6

-----------------------------------------------------------------------------
(* The browse session by itself.                                           *)

BrowseCallers == Pages \cup {Warm}

\* A step of the browse session keeps its types.
LEMMA BrowseTypes ==
    ASSUME Browse!TypeOK, [Browse!Next]_bVars PROVE Browse!TypeOK'
<1> USE ServerAssumption DEF Browse!TypeOK, Browse!Outcomes, Browse!Refusals
<1>1. ASSUME NEW c \in BrowseCallers, Browse!Caller(c) PROVE Browse!TypeOK'
  <2> USE DEF BrowseCallers, Browse!Return, Browse!workerVars
  <2>1. CASE Browse!CheckClosed(c)
    BY <2>1 DEF Browse!CheckClosed
  <2>2. CASE Browse!SendJob(c)
    <3>1. /\ Append(bJobs, c) \in Seq(Pages \cup {Warm})
          /\ Len(Append(bJobs, c)) = Len(bJobs) + 1
      BY AppendProperties
    <3>2. bJobs' \in Seq(Pages \cup {Warm}) /\ Len(bJobs') <= QueueCap
      BY <2>2, <3>1, LenProperties DEF Browse!SendJob, Browse!Room
    <3>3. QED BY <2>2, <3>2 DEF Browse!SendJob
  <2>3. CASE Browse!NotSent(c)
    BY <2>3 DEF Browse!NotSent
  <2>4. CASE Browse!Receive(c)
    BY <2>4 DEF Browse!Receive
  <2>5. CASE Browse!StopWaiting(c)
    BY <2>5 DEF Browse!StopWaiting
  <2>6. QED BY <1>1, <2>1, <2>2, <2>3, <2>4, <2>5 DEF Browse!Caller
<1>2. ASSUME NEW c \in BrowseCallers, Browse!CancelParent(c)
      PROVE  Browse!TypeOK'
  BY <1>2 DEF Browse!CancelParent, Browse!workerVars, Browse!callerVars
<1>3. ASSUME Browse!Worker PROVE Browse!TypeOK'
  <2> USE DEF Browse!callerVars
  <2>1. CASE Browse!TakeJob
    <3>1. /\ Head(bJobs) \in Pages \cup {Warm}
          /\ Tail(bJobs) \in Seq(Pages \cup {Warm})
          /\ Len(Tail(bJobs)) = Len(bJobs) - 1 /\ Len(bJobs) \in Nat
      BY <2>1, HeadTailProperties, LenProperties DEF Browse!TakeJob
    <3>2. Len(Tail(bJobs)) <= QueueCap
      BY <3>1
    <3>3. QED
      BY <2>1, <3>1, <3>2 DEF Browse!TakeJob, Browse!OldestJob,
         Browse!OtherJobs
  <2>2. CASE Browse!SessionAlive \/ Browse!DropDeadSession
    BY <2>2 DEF Browse!SessionAlive, Browse!DropDeadSession
  <2>3. CASE Browse!LoginOK \/ Browse!Exit
    BY <2>3 DEF Browse!LoginOK, Browse!Exit
  <2>4. ASSUME NEW v \in {"ok", "error", "aborted"}, Browse!Deliver(v),
               UNCHANGED <<bClosed, bJobs, bJobsClosed, bSess, bPc,
                           bAnswer, bGone, bCloser, bWarm>>
        PROVE  Browse!TypeOK'
    <3>1. bResult'
            \in [Pages \cup {Warm} -> {"ok", "error", "aborted", "empty"}]
      BY <2>4 DEF Browse!Deliver, Browse!ResultSent
    <3>2. QED BY <2>4, <3>1 DEF Browse!Deliver
  <2>5. CASE Browse!LoginFails \/ Browse!RunJob
    BY <2>4, <2>5 DEF Browse!LoginFails, Browse!RunJob
  <2>6. QED BY <1>3, <2>1, <2>2, <2>3, <2>5 DEF Browse!Worker
<1>4. CASE Browse!SessionDies
  BY <1>4 DEF Browse!SessionDies, Browse!callerVars
<1>5. CASE Browse!Close
  BY <1>5 DEF Browse!Close, Browse!CloseMark, Browse!CloseJobs,
     Browse!CloseReturns,
              Browse!workerVars, Browse!callerVars
<1>6. CASE UNCHANGED bVars
  BY <1>6 DEF bVars
<1>7. QED
  BY <1>1, <1>2, <1>3, <1>4, <1>5, <1>6 DEF Browse!Next, Browse!Terminated,
     Browse!vars,
     bVars, BrowseCallers

\* A call leaves the session and the answers of the others alone; that it is
\* turned away or broken off shows that Shutdown has come to the session.
LEMMA BrowseCall ==
    ASSUME Browse!TypeOK, NEW c \in BrowseCallers, Browse!Caller(c)
    PROVE  /\ UNCHANGED <<bClosed, bJobsClosed, bLoop, bCloser>>
           /\ \A h \in BrowseCallers \ {c} : bAnswer'[h] = bAnswer[h]
           /\ bAnswer'[c] \in {"closed", "panic"} =>
                \/ bAnswer[c] \in {"closed", "panic"}
                \/ bClosed \/ bJobsClosed \/ bLoop = "exited"
<1> USE DEF BrowseCallers, Browse!TypeOK, Browse!Return, Browse!workerVars,
Browse!Done
<1>1. CASE Browse!CheckClosed(c)
  BY <1>1 DEF Browse!CheckClosed
<1>2. CASE Browse!SendJob(c)
  BY <1>2 DEF Browse!SendJob
<1>3. CASE Browse!NotSent(c)
  BY <1>3 DEF Browse!NotSent
<1>4. CASE Browse!Receive(c)
  <2>1. bResult[c] \notin {"closed", "panic"}
    BY DEF Browse!Outcomes
  <2>2. QED BY <1>4, <2>1 DEF Browse!Receive
<1>5. CASE Browse!StopWaiting(c)
  BY <1>5 DEF Browse!StopWaiting
<1>6. QED BY <1>1, <1>2, <1>3, <1>4, <1>5 DEF Browse!Caller

\* The worker changes no answer, and leaves only when its channel is closed.
LEMMA BrowseWork ==
    ASSUME Browse!Worker \/ Browse!SessionDies
    PROVE  /\ UNCHANGED <<bClosed, bJobsClosed, bAnswer, bCloser>>
           /\ bLoop' = "exited" => bLoop = "exited" \/ bJobsClosed
BY DEF Browse!Worker, Browse!SessionDies, Browse!TakeJob, Browse!SessionAlive,
       Browse!DropDeadSession, Browse!LoginOK, Browse!LoginFails,
       Browse!RunJob, Browse!Exit,
       Browse!Deliver, Browse!Drained, Browse!callerVars

\* No step of the session leaves a call waiting for nothing.
LEMMA BrowseWaits ==
    ASSUME Browse!TypeOK, BrowseServed, [Browse!Next]_bVars PROVE BrowseServed'
<1>0. /\ \A e \in Pages \cup {Warm} :
            Range(Append(bJobs, e)) = Range(bJobs) \cup {e}
      /\ bJobs # <<>> =>
            Range(bJobs) = {Head(bJobs)} \cup Range(Tail(bJobs))
      /\ Range(<<>>) = {}
  <2>1. bJobs \in Seq(Pages \cup {Warm})
    BY DEF Browse!TypeOK
  <2>2. QED BY <2>1, Channel
<1> USE DEF Browse!TypeOK, BrowseServed
<1>1. ASSUME NEW c \in BrowseCallers, Browse!Caller(c) PROVE BrowseServed'
  <2> USE DEF BrowseCallers, Browse!Return, Browse!workerVars
  <2>1. CASE Browse!CheckClosed(c)
    BY <2>1 DEF Browse!CheckClosed
  <2>2. CASE Browse!SendJob(c)
    BY <1>0, <2>2 DEF Browse!SendJob
  <2>3. CASE Browse!NotSent(c)
    BY <2>3 DEF Browse!NotSent
  <2>4. CASE Browse!Receive(c)
    BY <2>4 DEF Browse!Receive
  <2>5. CASE Browse!StopWaiting(c)
    BY <2>5 DEF Browse!StopWaiting
  <2>6. QED BY <1>1, <2>1, <2>2, <2>3, <2>4, <2>5 DEF Browse!Caller
<1>2. ASSUME NEW c \in BrowseCallers, Browse!CancelParent(c)
      PROVE  BrowseServed'
  BY <1>2 DEF Browse!CancelParent, Browse!workerVars, Browse!callerVars
<1>3. ASSUME Browse!Worker PROVE BrowseServed'
  <2> USE ServerAssumption DEF Browse!callerVars
  <2>1. CASE Browse!TakeJob
    <3>1. Head(bJobs) \in Pages \cup {Warm}
      BY <2>1, HeadTailProperties DEF Browse!TakeJob
    <3>2. Nobody \notin Pages \cup {Warm}
      BY DEF JobCalls
    <3>3. QED
      BY <1>0, <2>1, <3>1, <3>2 DEF Browse!TakeJob, Browse!OldestJob,
         Browse!OtherJobs
  <2>2. CASE Browse!SessionAlive \/ Browse!DropDeadSession \/ Browse!LoginOK
    BY <2>2 DEF Browse!SessionAlive, Browse!DropDeadSession, Browse!LoginOK
  <2>3. CASE Browse!Exit
    BY <2>3 DEF Browse!Exit, Browse!Drained
  <2>4. ASSUME bCur # Nobody, NEW v \in {"ok", "error", "aborted"},
               Browse!Deliver(v),
               UNCHANGED <<bClosed, bJobs, bJobsClosed, bSess, bPc,
                           bAnswer, bGone, bCloser, bWarm>>
        PROVE  BrowseServed'
    <3>1. /\ bResult'[bCur] # "empty"
          /\ \A c \in Pages \cup {Warm} :
                bResult[c] # "empty" => bResult'[c] # "empty"
      BY <2>4 DEF Browse!Deliver, Browse!ResultSent
    <3>2. QED BY <2>4, <3>1 DEF Browse!Deliver
  <2>5. CASE Browse!LoginFails \/ Browse!RunJob
    BY <2>4, <2>5 DEF Browse!LoginFails, Browse!RunJob
  <2>6. QED BY <1>3, <2>1, <2>2, <2>3, <2>5 DEF Browse!Worker
<1>4. CASE Browse!SessionDies
  BY <1>4 DEF Browse!SessionDies, Browse!callerVars
<1>5. CASE Browse!Close
  BY <1>5 DEF Browse!Close, Browse!CloseMark, Browse!CloseJobs,
     Browse!CloseReturns,
              Browse!Done, Browse!workerVars, Browse!callerVars
<1>6. CASE UNCHANGED bVars
  BY <1>6 DEF bVars
<1>7. QED
  BY <1>1, <1>2, <1>3, <1>4, <1>5, <1>6 DEF Browse!Next, Browse!Terminated,
     Browse!vars,
     bVars, BrowseCallers

\* Close answers no call.
LEMMA BrowseClose == Browse!Close => UNCHANGED bAnswer
BY DEF Browse!Close, Browse!CloseMark, Browse!CloseJobs, Browse!CloseReturns,
   Browse!callerVars

-----------------------------------------------------------------------------
(* The download session by itself.                                         *)

DownloadCallers == DownloadHandlers \cup JobCalls \cup {Warm}

\* A step of the download session keeps its types.
LEMMA DownloadTypes ==
    ASSUME Download!TypeOK, [Download!Next]_dVars PROVE Download!TypeOK'
<1> USE ServerAssumption DEF Download!TypeOK, Download!Outcomes,
Download!Refusals
<1>1. ASSUME NEW c \in DownloadCallers, Download!Caller(c)
      PROVE  Download!TypeOK'
  <2> USE DEF DownloadCallers, Download!Return, Download!workerVars
  <2>1. CASE Download!CheckClosed(c)
    BY <2>1 DEF Download!CheckClosed
  <2>2. CASE Download!SendJob(c)
    <3>1. /\ Append(dJobs, c) \in Seq(DownloadHandlers \cup JobCalls \cup {Warm})
          /\ Len(Append(dJobs, c)) = Len(dJobs) + 1
      BY AppendProperties
    <3>2. dJobs' \in Seq(DownloadHandlers \cup JobCalls \cup {Warm})
          /\ Len(dJobs') <= QueueCap
      BY <2>2, <3>1, LenProperties DEF Download!SendJob, Download!Room
    <3>3. QED BY <2>2, <3>2 DEF Download!SendJob
  <2>3. CASE Download!NotSent(c)
    BY <2>3 DEF Download!NotSent
  <2>4. CASE Download!Receive(c)
    BY <2>4 DEF Download!Receive
  <2>5. CASE Download!StopWaiting(c)
    BY <2>5 DEF Download!StopWaiting
  <2>6. QED BY <1>1, <2>1, <2>2, <2>3, <2>4, <2>5 DEF Download!Caller
<1>2. ASSUME NEW c \in DownloadCallers, Download!CancelParent(c)
      PROVE  Download!TypeOK'
  BY <1>2 DEF Download!CancelParent, Download!workerVars, Download!callerVars
<1>3. ASSUME Download!Worker PROVE Download!TypeOK'
  <2> USE DEF Download!callerVars
  <2>1. CASE Download!TakeJob
    <3>1. /\ Head(dJobs) \in DownloadHandlers \cup JobCalls \cup {Warm}
          /\ Tail(dJobs) \in Seq(DownloadHandlers \cup JobCalls \cup {Warm})
          /\ Len(Tail(dJobs)) = Len(dJobs) - 1 /\ Len(dJobs) \in Nat
      BY <2>1, HeadTailProperties, LenProperties DEF Download!TakeJob
    <3>2. Len(Tail(dJobs)) <= QueueCap
      BY <3>1
    <3>3. QED
      BY <2>1, <3>1, <3>2 DEF Download!TakeJob, Download!OldestJob,
         Download!OtherJobs
  <2>2. CASE Download!SessionAlive \/ Download!DropDeadSession
    BY <2>2 DEF Download!SessionAlive, Download!DropDeadSession
  <2>3. CASE Download!LoginOK \/ Download!Exit
    BY <2>3 DEF Download!LoginOK, Download!Exit
  <2>4. ASSUME NEW v \in {"ok", "error", "aborted"}, Download!Deliver(v),
               UNCHANGED <<dClosed, dJobs, dJobsClosed, dSess, dPc,
                           dAnswer, dGone, dCloser, dWarm>>
        PROVE  Download!TypeOK'
    <3>1. dResult'
            \in [DownloadHandlers \cup JobCalls \cup {Warm}
                   -> {"ok", "error", "aborted", "empty"}]
      BY <2>4 DEF Download!Deliver, Download!ResultSent
    <3>2. QED BY <2>4, <3>1 DEF Download!Deliver
  <2>5. CASE Download!LoginFails \/ Download!RunJob
    BY <2>4, <2>5 DEF Download!LoginFails, Download!RunJob
  <2>6. QED BY <1>3, <2>1, <2>2, <2>3, <2>5 DEF Download!Worker
<1>4. CASE Download!SessionDies
  BY <1>4 DEF Download!SessionDies, Download!callerVars
<1>5. CASE Download!Close
  BY <1>5 DEF Download!Close, Download!CloseMark, Download!CloseJobs,
     Download!CloseReturns,
              Download!workerVars, Download!callerVars
<1>6. CASE UNCHANGED dVars
  BY <1>6 DEF dVars
<1>7. QED
  BY <1>1, <1>2, <1>3, <1>4, <1>5, <1>6 DEF Download!Next,
     Download!Terminated, Download!vars,
     dVars, DownloadCallers

\* A call leaves the session and the answers of the others alone; that it is
\* turned away or broken off shows that Shutdown has come to the session.
LEMMA DownloadCall ==
    ASSUME Download!TypeOK, NEW c \in DownloadCallers, Download!Caller(c)
    PROVE  /\ UNCHANGED <<dClosed, dJobsClosed, dLoop, dCloser>>
           /\ \A h \in DownloadCallers \ {c} : dAnswer'[h] = dAnswer[h]
           /\ dAnswer'[c] \in {"closed", "panic"} =>
                \/ dAnswer[c] \in {"closed", "panic"}
                \/ dClosed \/ dJobsClosed \/ dLoop = "exited"
<1> USE DEF DownloadCallers, Download!TypeOK, Download!Return,
Download!workerVars, Download!Done
<1>1. CASE Download!CheckClosed(c)
  BY <1>1 DEF Download!CheckClosed
<1>2. CASE Download!SendJob(c)
  BY <1>2 DEF Download!SendJob
<1>3. CASE Download!NotSent(c)
  BY <1>3 DEF Download!NotSent
<1>4. CASE Download!Receive(c)
  <2>1. dResult[c] \notin {"closed", "panic"}
    BY DEF Download!Outcomes
  <2>2. QED BY <1>4, <2>1 DEF Download!Receive
<1>5. CASE Download!StopWaiting(c)
  BY <1>5 DEF Download!StopWaiting
<1>6. QED BY <1>1, <1>2, <1>3, <1>4, <1>5 DEF Download!Caller

\* The worker changes no answer, and leaves only when its channel is closed.
LEMMA DownloadWork ==
    ASSUME Download!Worker \/ Download!SessionDies
    PROVE  /\ UNCHANGED <<dClosed, dJobsClosed, dAnswer, dCloser>>
           /\ dLoop' = "exited" => dLoop = "exited" \/ dJobsClosed
BY DEF Download!Worker, Download!SessionDies, Download!TakeJob,
   Download!SessionAlive,
       Download!DropDeadSession, Download!LoginOK, Download!LoginFails,
       Download!RunJob, Download!Exit,
       Download!Deliver, Download!Drained, Download!callerVars

\* No step of the session leaves a call waiting for nothing.
LEMMA DownloadWaits ==
    ASSUME Download!TypeOK, DownloadServed, [Download!Next]_dVars
    PROVE  DownloadServed'
<1>0. /\ \A e \in DownloadHandlers \cup JobCalls \cup {Warm} :
            Range(Append(dJobs, e)) = Range(dJobs) \cup {e}
      /\ dJobs # <<>> =>
            Range(dJobs) = {Head(dJobs)} \cup Range(Tail(dJobs))
      /\ Range(<<>>) = {}
  <2>1. dJobs \in Seq(DownloadHandlers \cup JobCalls \cup {Warm})
    BY DEF Download!TypeOK
  <2>2. QED BY <2>1, Channel
<1> USE DEF Download!TypeOK, DownloadServed
<1>1. ASSUME NEW c \in DownloadCallers, Download!Caller(c)
      PROVE  DownloadServed'
  <2> USE DEF DownloadCallers, Download!Return, Download!workerVars
  <2>1. CASE Download!CheckClosed(c)
    BY <2>1 DEF Download!CheckClosed
  <2>2. CASE Download!SendJob(c)
    BY <1>0, <2>2 DEF Download!SendJob
  <2>3. CASE Download!NotSent(c)
    BY <2>3 DEF Download!NotSent
  <2>4. CASE Download!Receive(c)
    BY <2>4 DEF Download!Receive
  <2>5. CASE Download!StopWaiting(c)
    BY <2>5 DEF Download!StopWaiting
  <2>6. QED BY <1>1, <2>1, <2>2, <2>3, <2>4, <2>5 DEF Download!Caller
<1>2. ASSUME NEW c \in DownloadCallers, Download!CancelParent(c)
      PROVE  DownloadServed'
  BY <1>2 DEF Download!CancelParent, Download!workerVars, Download!callerVars
<1>3. ASSUME Download!Worker PROVE DownloadServed'
  <2> USE ServerAssumption DEF Download!callerVars
  <2>1. CASE Download!TakeJob
    <3>1. Head(dJobs) \in DownloadHandlers \cup JobCalls \cup {Warm}
      BY <2>1, HeadTailProperties DEF Download!TakeJob
    <3>2. Nobody \notin DownloadHandlers \cup JobCalls \cup {Warm}
      BY DEF JobCalls, DownloadHandlers
    <3>3. QED
      BY <1>0, <2>1, <3>1, <3>2 DEF Download!TakeJob, Download!OldestJob,
         Download!OtherJobs
  <2>2. CASE Download!SessionAlive \/ Download!DropDeadSession
                \/ Download!LoginOK
    BY <2>2 DEF Download!SessionAlive, Download!DropDeadSession,
       Download!LoginOK
  <2>3. CASE Download!Exit
    BY <2>3 DEF Download!Exit, Download!Drained
  <2>4. ASSUME dCur # Nobody, NEW v \in {"ok", "error", "aborted"},
               Download!Deliver(v),
               UNCHANGED <<dClosed, dJobs, dJobsClosed, dSess, dPc,
                           dAnswer, dGone, dCloser, dWarm>>
        PROVE  DownloadServed'
    <3>1. /\ dResult'[dCur] # "empty"
          /\ \A c \in DownloadHandlers \cup JobCalls \cup {Warm} :
                dResult[c] # "empty" => dResult'[c] # "empty"
      BY <2>4 DEF Download!Deliver, Download!ResultSent
    <3>2. QED BY <2>4, <3>1 DEF Download!Deliver
  <2>5. CASE Download!LoginFails \/ Download!RunJob
    BY <2>4, <2>5 DEF Download!LoginFails, Download!RunJob
  <2>6. QED BY <1>3, <2>1, <2>2, <2>3, <2>5 DEF Download!Worker
<1>4. CASE Download!SessionDies
  BY <1>4 DEF Download!SessionDies, Download!callerVars
<1>5. CASE Download!Close
  BY <1>5 DEF Download!Close, Download!CloseMark, Download!CloseJobs,
     Download!CloseReturns,
              Download!Done, Download!workerVars, Download!callerVars
<1>6. CASE UNCHANGED dVars
  BY <1>6 DEF dVars
<1>7. QED
  BY <1>1, <1>2, <1>3, <1>4, <1>5, <1>6 DEF Download!Next,
     Download!Terminated, Download!vars,
     dVars, DownloadCallers

\* Close answers no call.
LEMMA DownloadClose == Download!Close => UNCHANGED dAnswer
BY DEF Download!Close, Download!CloseMark, Download!CloseJobs,
   Download!CloseReturns, Download!callerVars

-----------------------------------------------------------------------------
(* The server.                                                             *)

\* Shutdown has not begun, and nobody has called.
LEMMA InitInv == Init => IInv
<1> SUFFICES ASSUME Init PROVE IInv
  OBVIOUS
<1> USE ServerAssumption DEF Init
<1>1. Browse!TypeOK
  <2>1. bJobs \in Seq(Pages \cup {Warm}) /\ Len(bJobs) <= QueueCap
    BY EmptySeq DEF Browse!Init
  <2>2. QED BY <2>1 DEF Browse!Init, Browse!TypeOK
<1>2. Download!TypeOK
  <2>1. /\ dJobs \in Seq(DownloadHandlers \cup JobCalls \cup {Warm})
        /\ Len(dJobs) <= QueueCap
    BY EmptySeq DEF Download!Init
  <2>2. QED BY <2>1 DEF Download!Init, Download!TypeOK
<1>3. TypeOK
  <2>1. handler \in [Handlers -> {"none", "active", "answered"}]
    OBVIOUS
  <2>2. queued \in 0 .. MaxQueued
    OBVIOUS
  <2>3. QED BY <1>1, <1>2, <2>1, <2>2 DEF TypeOK
<1>4. Quiet /\ BrowseOpen /\ DownloadOpen /\ AcceptedIsServed
  BY DEF Quiet, BrowseOpen, DownloadOpen, AcceptedIsServed, Handlers,
         Browse!Init, Download!Init
<1>5. /\ InTurn
      /\ Range(bJobs) = {} /\ Range(dJobs) = {}
  <2>1. <<>> \in Seq(Pages)
    BY EmptySeq
  <2>2. QED BY <2>1, Channel DEF InTurn, Browse!Init, Download!Init
<1>6. BrowseServed /\ DownloadServed
  BY DEF BrowseServed, DownloadServed, Browse!Init, Download!Init
<1>7. QED BY <1>3, <1>4, <1>5, <1>6 DEF IInv

(***************************************************************************)
(* A step of the server that leaves both sessions alone.                   *)
(***************************************************************************)
LEMMA ServerInv ==
    ASSUME IInv, UNCHANGED <<bVars, dVars>>,
           \/ Listen \/ ListenFails \/ Signal \/ HttpShut \/ CloseManager
           \/ \E h \in Handlers : Accept(h) \/ Answer(h)
    PROVE  IInv'
<1> USE DEF IInv
<1>1. Browse!TypeOK' /\ Download!TypeOK'
  BY DEF TypeOK, bVars, dVars, Browse!TypeOK, Download!TypeOK
<1>2. TypeOK'
  <2>1. CASE Listen \/ ListenFails \/ Signal \/ HttpShut \/ CloseManager
    BY <1>1, <2>1 DEF TypeOK, Listen, ListenFails, Signal, HttpShut,
       CloseManager
  <2>2. ASSUME NEW h \in Handlers, Accept(h) PROVE TypeOK'
    BY <1>1, <2>2 DEF TypeOK, Accept
  <2>3. ASSUME NEW h \in Handlers, Answer(h) PROVE TypeOK'
    BY <1>1, <2>3, ServerAssumption DEF TypeOK, Answer, QueuedThen
  <2>4. QED BY <2>1, <2>2, <2>3
<1>3. Quiet'
  <2>1. CASE Listen \/ ListenFails \/ Signal \/ HttpShut \/ CloseManager
    BY <2>1 DEF Quiet, Idle, Listen, ListenFails, Signal, HttpShut,
       CloseManager
  <2>2. ASSUME NEW h \in Handlers, Accept(h) PROVE Quiet'
    BY <2>2 DEF Quiet, Accept
  <2>3. ASSUME NEW h \in Handlers, Answer(h) PROVE Quiet'
    BY <2>3 DEF Quiet, Idle, TypeOK, Answer
  <2>4. QED BY <2>1, <2>2, <2>3
<1>4. /\ main' \in {"serving", "http", "manager"} =>
            main \in {"serving", "http", "manager"}
      /\ main' \in {"serving", "http", "manager", "browse"} =>
            main \in {"serving", "http", "manager", "browse"}
      /\ forced => forced'
  BY DEF TypeOK, Listen, ListenFails, Signal, HttpShut, CloseManager, Accept,
     Answer
<1>5. BrowseOpen' /\ DownloadOpen'
  BY <1>4 DEF BrowseOpen, DownloadOpen, bVars, dVars
<1>6. AcceptedIsServed'
  BY <1>4 DEF AcceptedIsServed, bVars, dVars
<1>7. InTurn' /\ BrowseServed' /\ DownloadServed'
  <2>1. main' = "download" => main = "download"
    BY DEF Listen, ListenFails, Signal, HttpShut, CloseManager, Accept, Answer
  <2>2. QED BY <2>1 DEF InTurn, BrowseServed, DownloadServed, bVars, dVars
<1>8. QED BY <1>2, <1>3, <1>5, <1>6, <1>7

(***************************************************************************)
(* A handler calls its session only while it is active, and then the main  *)
(* goroutine has not come to the sessions, or it was forced.               *)
(***************************************************************************)
LEMMA ActiveInTime ==
    ASSUME IInv, ~Over, ~forced, NEW h \in Handlers, handler[h] = "active"
    PROVE  main \in {"serving", "http"}
BY DEF IInv, TypeOK, Over, Quiet, Idle

(***************************************************************************)
(* A call of the browse session, by a page or by the warm-up.              *)
(***************************************************************************)
LEMMA BrowseCallInv ==
    ASSUME IInv, ~Over, NEW c \in BrowseCallers, Browse!Caller(c),
           c \in Pages => handler[c] = "active", UNCHANGED <<webVars, dVars>>
    PROVE  IInv'
<1> USE DEF IInv
<1>1. Browse!TypeOK'
  BY BrowseTypes DEF TypeOK, BrowseCallers, Browse!Next
<1>2. TypeOK' /\ Quiet' /\ DownloadOpen'
  BY <1>1 DEF TypeOK, Quiet, Idle, DownloadOpen, webVars, dVars,
     Download!TypeOK
<1>3. /\ UNCHANGED <<bClosed, bJobsClosed, bLoop, bCloser>>
      /\ \A h \in BrowseCallers \ {c} : bAnswer'[h] = bAnswer[h]
      /\ bAnswer'[c] \in {"closed", "panic"} =>
           \/ bAnswer[c] \in {"closed", "panic"}
           \/ bClosed \/ bJobsClosed \/ bLoop = "exited"
  BY BrowseCall DEF TypeOK
<1>4. BrowseOpen'
  BY <1>3 DEF BrowseOpen, webVars
<1>5. AcceptedIsServed'
  <2>1. SUFFICES ASSUME ~forced, NEW h \in Pages
                 PROVE  bAnswer'[h] \notin {"closed", "panic"}
    BY DEF AcceptedIsServed, webVars, dVars
  <2>2. CASE h # c
    BY <1>3, <2>1, <2>2 DEF AcceptedIsServed, BrowseCallers
  <2>3. CASE h = c
    <3>1. main \in {"serving", "http"}
      BY <2>1, <2>3, ActiveInTime DEF Handlers
    <3>2. QED BY <1>3, <2>1, <2>3, <3>1 DEF AcceptedIsServed, BrowseOpen
  <2>4. QED BY <2>2, <2>3
<1>6. InTurn'
  BY <1>3 DEF InTurn, webVars, dVars
<1>7. BrowseServed' /\ DownloadServed'
  <2>1. Browse!Next
    BY DEF Browse!Next, BrowseCallers
  <2>2. BrowseServed'
    BY <2>1, BrowseWaits DEF TypeOK
  <2>3. DownloadServed'
    BY DEF DownloadServed, dVars
  <2>4. QED BY <2>2, <2>3
<1>8. QED BY <1>2, <1>4, <1>5, <1>6, <1>7

(***************************************************************************)
(* A call of the download session, by a request, a job or the warm-up.     *)
(***************************************************************************)
LEMMA DownloadCallInv ==
    ASSUME IInv, ~Over, NEW c \in DownloadCallers, Download!Caller(c),
           c \in DownloadHandlers => handler[c] = "active", UNCHANGED <<webVars, bVars>>
    PROVE  IInv'
<1> USE DEF IInv
<1>1. Download!TypeOK'
  BY DownloadTypes DEF TypeOK, DownloadCallers, Download!Next
<1>2. TypeOK' /\ Quiet' /\ BrowseOpen'
  BY <1>1 DEF TypeOK, Quiet, Idle, BrowseOpen, webVars, bVars, Browse!TypeOK
<1>3. /\ UNCHANGED <<dClosed, dJobsClosed, dLoop, dCloser>>
      /\ \A h \in DownloadCallers \ {c} : dAnswer'[h] = dAnswer[h]
      /\ dAnswer'[c] \in {"closed", "panic"} =>
           \/ dAnswer[c] \in {"closed", "panic"}
           \/ dClosed \/ dJobsClosed \/ dLoop = "exited"
  BY DownloadCall DEF TypeOK
<1>4. DownloadOpen'
  BY <1>3 DEF DownloadOpen, webVars
<1>5. AcceptedIsServed'
  <2>1. SUFFICES ASSUME ~forced, NEW h \in DownloadHandlers
                 PROVE  dAnswer'[h] \notin {"closed", "panic"}
    BY DEF AcceptedIsServed, webVars, bVars
  <2>2. CASE h # c
    BY <1>3, <2>1, <2>2 DEF AcceptedIsServed, DownloadCallers
  <2>3. CASE h = c
    <3>1. main \in {"serving", "http"}
      BY <2>1, <2>3, ActiveInTime DEF Handlers
    <3>2. QED BY <1>3, <2>1, <2>3, <3>1 DEF AcceptedIsServed, DownloadOpen
  <2>4. QED BY <2>2, <2>3
<1>6. InTurn'
  BY <1>3 DEF InTurn, webVars, bVars
<1>7. BrowseServed' /\ DownloadServed'
  <2>1. Download!Next
    BY DEF Download!Next, DownloadCallers
  <2>2. DownloadServed'
    BY <2>1, DownloadWaits DEF TypeOK
  <2>3. BrowseServed'
    BY DEF BrowseServed, bVars
  <2>4. QED BY <2>2, <2>3
<1>8. QED BY <1>2, <1>4, <1>5, <1>6, <1>7

(***************************************************************************)
(* The browse session works, its browser leaves, or Shutdown closes it.    *)
(***************************************************************************)
LEMMA BrowseStepInv ==
    ASSUME IInv,
           \/ BrowseWorker \/ CloseBrowse
           \/ \E h \in Pages : BrowserLeaves(h)
    PROVE  IInv'
<1> USE DEF IInv
<1>0. Browse!Next
  BY DEF BrowseWorker, CloseBrowse, BrowserLeaves, Browse!Next
<1>1. Browse!TypeOK'
  BY <1>0, BrowseTypes DEF TypeOK
<1>2. /\ UNCHANGED <<http, handler, dlClosed, queued, forced, dVars>>
      /\ main' = main \/ (main = "browse" /\ main' = "download")
  BY DEF BrowseWorker, CloseBrowse, BrowserLeaves, webVars
<1>3. TypeOK' /\ Quiet' /\ DownloadOpen'
  BY <1>1, <1>2 DEF TypeOK, Quiet, Idle, DownloadOpen, dVars, Download!TypeOK
<1>4. UNCHANGED bAnswer
  BY BrowseWork, BrowseClose DEF BrowseWorker, CloseBrowse, BrowserLeaves,
     Browse!CancelParent, Browse!callerVars
<1>5. AcceptedIsServed'
  BY <1>2, <1>4 DEF AcceptedIsServed, dVars
<1>6. BrowseOpen'
  <2>1. CASE CloseBrowse
    BY <1>2, <2>1 DEF BrowseOpen, CloseBrowse
  <2>2. CASE BrowseWorker \/ \E h \in Pages : BrowserLeaves(h)
    <3>1. main' = main
      BY <2>2 DEF BrowseWorker, BrowserLeaves, webVars
    <3>2. /\ UNCHANGED <<bClosed, bJobsClosed>>
          /\ bLoop' = "exited" => bLoop = "exited" \/ bJobsClosed
      BY <2>2, BrowseWork DEF BrowseWorker, BrowserLeaves, Browse!CancelParent,
         Browse!workerVars
    <3>3. QED BY <3>1, <3>2 DEF BrowseOpen
  <2>3. QED BY <2>1, <2>2
<1>7. InTurn'
  <2>1. bCloser = "returned" => bCloser' = "returned"
    BY BrowseWork DEF BrowseWorker, CloseBrowse, BrowserLeaves,
       Browse!CancelParent, Browse!Close, Browse!CloseMark, Browse!CloseJobs,
       Browse!CloseReturns
  <2>2. main' = "download" => main = "download" \/ bCloser' = "returned"
    BY DEF BrowseWorker, CloseBrowse, BrowserLeaves, webVars
  <2>3. QED BY <1>2, <2>1, <2>2 DEF InTurn, dVars
<1>8. BrowseServed' /\ DownloadServed'
  <2>1. BrowseServed'
    BY <1>0, BrowseWaits DEF TypeOK
  <2>2. DownloadServed'
    BY <1>2 DEF DownloadServed, dVars
  <2>3. QED BY <2>1, <2>2
<1>9. QED BY <1>3, <1>5, <1>6, <1>7, <1>8

(***************************************************************************)
(* The download session works, or Shutdown closes it.                      *)
(***************************************************************************)
LEMMA DownloadStepInv ==
    ASSUME IInv, DownloadWorker \/ CloseDownload
    PROVE  IInv'
<1> USE DEF IInv
<1>0. Download!Next
  BY DEF DownloadWorker, CloseDownload, Download!Next
<1>1. Download!TypeOK'
  BY <1>0, DownloadTypes DEF TypeOK
<1>2. /\ UNCHANGED <<http, handler, dlClosed, queued, forced, bVars>>
      /\ main' = main \/ (main = "download" /\ main' = "exited")
  BY DEF DownloadWorker, CloseDownload, webVars
<1>3. TypeOK' /\ Quiet' /\ BrowseOpen'
  BY <1>1, <1>2 DEF TypeOK, Quiet, Idle, BrowseOpen, bVars, Browse!TypeOK
<1>4. UNCHANGED dAnswer
  BY DownloadWork, DownloadClose DEF DownloadWorker, CloseDownload
<1>5. AcceptedIsServed'
  BY <1>2, <1>4 DEF AcceptedIsServed, bVars
<1>6. DownloadOpen'
  <2>1. CASE CloseDownload
    BY <1>2, <2>1 DEF DownloadOpen, CloseDownload
  <2>2. CASE DownloadWorker
    <3>1. main' = main
      BY <2>2 DEF DownloadWorker, webVars
    <3>2. /\ UNCHANGED <<dClosed, dJobsClosed>>
          /\ dLoop' = "exited" => dLoop = "exited" \/ dJobsClosed
      BY <2>2, DownloadWork DEF DownloadWorker
    <3>3. QED BY <3>1, <3>2 DEF DownloadOpen
  <2>3. QED BY <2>1, <2>2
<1>7. InTurn'
  <2>1. CASE CloseDownload
    BY <1>2, <2>1 DEF InTurn, CloseDownload, bVars
  <2>2. CASE DownloadWorker
    BY <2>2, DownloadWork DEF InTurn, DownloadWorker, webVars, bVars
  <2>3. QED BY <2>1, <2>2
<1>8. BrowseServed' /\ DownloadServed'
  <2>1. DownloadServed'
    BY <1>0, DownloadWaits DEF TypeOK
  <2>2. BrowseServed'
    BY <1>2 DEF BrowseServed, bVars
  <2>3. QED BY <2>1, <2>2
<1>9. QED BY <1>3, <1>5, <1>6, <1>7, <1>8

\* A step is one of the server, of a caller, or of a session.
LEMMA NextInv == IInv /\ [Next]_vars => IInv'
<1> SUFFICES ASSUME IInv, [Next]_vars PROVE IInv'
  OBVIOUS
<1>1. CASE UNCHANGED vars
  BY <1>1 DEF IInv, TypeOK, Quiet, Idle, BrowseOpen, DownloadOpen, InTurn,
     BrowseServed, DownloadServed, AcceptedIsServed, vars, webVars, bVars,
     dVars,
     Browse!TypeOK, Download!TypeOK
<1>2. CASE ~Over /\ (Listen \/ ListenFails \/ Signal)
  BY <1>2, ServerInv DEF Listen, ListenFails, Signal
<1>3. ASSUME ~Over, NEW h \in Handlers, Accept(h) \/ Handler(h) PROVE IInv'
  <2>1. CASE Accept(h) \/ Answer(h)
    BY <2>1, ServerInv DEF Accept, Answer
  <2>2. CASE h \in Pages /\ PageCall(h)
    BY <1>3, <2>2, BrowseCallInv DEF PageCall, BrowseCallers
  <2>3. CASE h \in Enqueues /\ EnqueueCall(h)
    BY <1>3, <2>3, DownloadCallInv
    DEF EnqueueCall, DownloadCallers, DownloadHandlers
  <2>4. CASE h \in Syncs /\ SyncCall(h)
    BY <1>3, <2>4, DownloadCallInv
    DEF SyncCall, DownloadCallers, DownloadHandlers
  <2>5. QED BY <1>3, <2>1, <2>2, <2>3, <2>4 DEF Handler
<1>4. CASE ~Over /\ Warmup
  <2>1. Warm \notin Pages /\ Warm \notin DownloadHandlers
    BY ServerAssumption DEF DownloadHandlers
  <2>2. CASE WarmupBrowse
    BY <1>4, <2>1, <2>2, BrowseCallInv DEF WarmupBrowse, BrowseCallers
  <2>3. CASE WarmupDownload
    BY <1>4, <2>1, <2>3, DownloadCallInv DEF WarmupDownload, DownloadCallers
  <2>4. QED BY <1>4, <2>2, <2>3 DEF Warmup
<1>5. ASSUME ~Over, NEW n \in JobCalls, JobCall(n) PROVE IInv'
  <2>1. n \notin DownloadHandlers
    BY ServerAssumption DEF JobCalls, DownloadHandlers
  <2>2. QED BY <1>5, <2>1, DownloadCallInv DEF JobCall, DownloadCallers
<1>6. CASE BrowseWorker \/ CloseBrowse \/ \E h \in Pages : BrowserLeaves(h)
  BY <1>6, BrowseStepInv
<1>7. CASE DownloadWorker \/ CloseDownload
  BY <1>7, DownloadStepInv
<1>8. CASE HttpShut \/ CloseManager
  BY <1>8, ServerInv DEF HttpShut, CloseManager
<1>9. QED
  BY <1>1, <1>2, <1>3, <1>4, <1>5, <1>6, <1>7, <1>8 DEF Next, Shutdown,
     Terminated

\* The invariant holds in every state.
LEMMA InvariantHolds == Spec => []IInv
<1>1. QED BY InitInv, NextInv, PTL DEF Spec

-----------------------------------------------------------------------------
(* Theorems.                                                               *)

(***************************************************************************)
(* A request that was accepted is neither turned away by a closed session  *)
(* nor broken off by its closed channel, unless Shutdown could not wait    *)
(* for it: for every number of requests, jobs and places in the channel    *)
(* (Shutdown, server.go 139-148; CallCtx, session.go 88-140).              *)
(***************************************************************************)
THEOREM AcceptedIsServedTheorem == Spec => []AcceptedIsServed
<1>1. IInv => AcceptedIsServed
  BY DEF IInv
<1>2. QED BY <1>1, InvariantHolds, PTL

(***************************************************************************)
(* Whenever the signal comes, when Shutdown has returned no caller of      *)
(* either session still waits for an answer, and no job is left in a       *)
(* channel (Shutdown, server.go 138-148); and all states have their types. *)
(***************************************************************************)
THEOREM ConsistentTheorem == Spec => []Consistent
<1>1. ASSUME IInv PROVE Consistent
  <2>1. ASSUME dCloser = "returned"
        PROVE  bLoop = "exited" /\ dLoop = "exited"
    BY <1>1, <2>1 DEF IInv, InTurn, BrowseServed, DownloadServed
  <2>2. Range(<<>>) = {}
    BY EmptySeq, Channel
  <2>3. ASSUME dCloser = "returned", NEW c \in Pages \cup {Warm},
               bPc[c] = "wait"
        PROVE  bResult[c] # "empty"
    <3>1. bJobs = <<>> /\ bCur = Nobody /\ c # Nobody
      BY <1>1, <2>1, <2>3, ServerAssumption DEF IInv, BrowseServed
    <3>2. QED BY <1>1, <2>2, <2>3, <3>1 DEF IInv, BrowseServed
  <2>4. ASSUME dCloser = "returned", NEW c \in DownloadHandlers \cup JobCalls \cup {Warm},
               dPc[c] = "wait"
        PROVE  dResult[c] # "empty"
    <3>1. dJobs = <<>> /\ dCur = Nobody /\ c # Nobody
      BY <1>1, <2>1, <2>4, ServerAssumption
      DEF IInv, DownloadServed, JobCalls, DownloadHandlers
    <3>2. QED BY <1>1, <2>2, <2>4, <3>1 DEF IInv, DownloadServed
  <2>5. QED
    BY <1>1, <2>1, <2>3, <2>4
    DEF IInv, Consistent, NobodyLeftWaiting, BrowseServed, DownloadServed
<1>2. QED BY <1>1, InvariantHolds, PTL

(***************************************************************************)
(* The server uses its sessions as SteamSession says they are used: every  *)
(* step of the server is a step of the browse session, or leaves it alone, *)
(* and so for the download session.  What SteamSessionProofs proves of a   *)
(* session is therefore true of both (New, server.go 84-97).               *)
(***************************************************************************)
THEOREM SessionsTheorem == Spec => Browse!Spec /\ Download!Spec
<1>1. Init => Browse!Init /\ Download!Init
  BY DEF Init
<1>2. [Next]_vars => [Browse!Next]_(Browse!vars)
  <2> SUFFICES ASSUME [Next]_vars PROVE Browse!Next \/ UNCHANGED bVars
    BY DEF bVars, Browse!vars
  <2>1. CASE UNCHANGED vars
    BY <2>1 DEF vars
  <2>2. CASE \/ Listen \/ ListenFails \/ Signal \/ HttpShut \/ CloseManager
             \/ CloseDownload \/ WarmupDownload \/ DownloadWorker
             \/ \E n \in JobCalls : JobCall(n)
             \/ \E h \in Handlers : Accept(h) \/ Answer(h)
             \/ \E h \in Handlers : EnqueueCall(h) \/ SyncCall(h)
    BY <2>2 DEF EnqueueCall, Listen, ListenFails, Signal, HttpShut, CloseManager,
       CloseDownload, WarmupDownload, DownloadWorker, JobCall, Accept, Answer,
       SyncCall
  <2>3. CASE \/ WarmupBrowse \/ BrowseWorker \/ CloseBrowse
             \/ \E h \in Pages : PageCall(h) \/ BrowserLeaves(h)
    BY <2>3 DEF WarmupBrowse, BrowseWorker, CloseBrowse, PageCall,
       BrowserLeaves, Browse!Next
  <2>4. QED
    BY <2>1, <2>2, <2>3 DEF Next, Handler, Warmup, Shutdown, Terminated
<1>3. [Next]_vars => [Download!Next]_(Download!vars)
  <2> SUFFICES ASSUME [Next]_vars PROVE Download!Next \/ UNCHANGED dVars
    BY DEF dVars, Download!vars
  <2>1. CASE UNCHANGED vars
    BY <2>1 DEF vars
  <2>2. CASE \/ Listen \/ ListenFails \/ Signal \/ HttpShut \/ CloseManager
             \/ CloseBrowse \/ WarmupBrowse \/ BrowseWorker
             \/ \E h \in Handlers : Accept(h) \/ Answer(h)
             \/ \E h \in Pages : PageCall(h) \/ BrowserLeaves(h)
    BY <2>2 DEF Listen, ListenFails, Signal, HttpShut, CloseManager,
       CloseBrowse, WarmupBrowse, BrowseWorker, Accept, Answer, PageCall,
       BrowserLeaves
  <2>3. CASE \/ WarmupDownload \/ DownloadWorker \/ CloseDownload
             \/ \E n \in JobCalls : JobCall(n)
             \/ \E h \in Enqueues : EnqueueCall(h)
             \/ \E h \in Syncs : SyncCall(h)
    BY <2>3 DEF WarmupDownload, DownloadWorker, CloseDownload, JobCall,
       EnqueueCall, SyncCall, DownloadHandlers, Download!Next
  <2>4. QED
    BY <2>1, <2>2, <2>3 DEF Next, Handler, Warmup, Shutdown, Terminated
<1>4. QED
  BY <1>1, <1>2, <1>3, PTL DEF Spec, Browse!Spec, Download!Spec
=============================================================================
