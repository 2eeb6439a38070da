------------------------- MODULE SteamSessionProofs -------------------------
(***************************************************************************)
(* The session keeps its invariants and its contract for every set of      *)
(* calls and every capacity of the channel.                                *)
(***************************************************************************)
EXTENDS SteamSession, SequenceTheorems, TLAPS

-----------------------------------------------------------------------------
(* A channel as a sequence. *)

\* A send adds its element; one that is not there keeps all of them distinct.
LEMMA Sent ==
    ASSUME NEW S, NEW s \in Seq(S), NEW e \in S
    PROVE  /\ Append(s, e) \in Seq(S) /\ Len(Append(s, e)) = Len(s) + 1
           /\ Range(Append(s, e)) = Range(s) \cup {e}
           /\ IsInjective(s) /\ e \notin Range(s) => IsInjective(Append(s, e))
<1>1. Range(<<e>>) = {e} /\ <<e>> \in Seq(S)
  BY DEF Range
<1>2. \A t \in Seq(S) : Range(s \o t) = Range(s) \cup Range(t)
  BY RangeConcatenation
<1>3. Append(s, e) = s \o <<e>>
  BY AppendIsConcat
<1>4. IsInjective(s) /\ e \notin Range(s) => IsInjective(Append(s, e))
  BY AppendProperties, RangeEquality DEF IsInjective
<1>5. QED BY <1>1, <1>2, <1>3, <1>4, AppendProperties

\* A receive takes the head and leaves the others.
LEMMA Received ==
    ASSUME NEW S, NEW s \in Seq(S), s # <<>>, IsInjective(s)
    PROVE  /\ Tail(s) \in Seq(S) /\ Len(Tail(s)) = Len(s) - 1
           /\ Head(s) \in S /\ Head(s) \in Range(s)
           /\ Range(Tail(s)) = Range(s) \ {Head(s)}
           /\ IsInjective(Tail(s))
<1>1. /\ Head(s) \in S /\ Tail(s) \in Seq(S) /\ Len(Tail(s)) = Len(s) - 1
      /\ Head(s) = s[1] /\ Len(s) \in Nat \ {0}
      /\ \A i \in 1 .. Len(s) - 1 : Tail(s)[i] = s[i + 1]
  BY HeadTailProperties, EmptySeq
<1>2. <<Head(s)>> \in Seq(S) /\ s = <<Head(s)>> \o Tail(s)
  BY <1>1
<1>3. \A t, u \in Seq(S) : Range(t \o u) = Range(t) \cup Range(u)
  BY RangeConcatenation
<1>4. Range(<<Head(s)>>) = {Head(s)}
  BY DEF Range
<1>5. \A i, j \in 1 .. Len(s) : s[i] = s[j] => i = j
  BY LenProperties DEF IsInjective
<1>6. IsInjective(Tail(s))
  <2>1. DOMAIN Tail(s) = 1 .. Len(s) - 1
    BY <1>1, LenProperties
  <2>2. QED BY <1>1, <1>5, <2>1 DEF IsInjective
<1>7. Head(s) \notin Range(Tail(s))
  <2>1. Range(Tail(s)) = {Tail(s)[i] : i \in 1 .. Len(s) - 1}
    BY <1>1, RangeEquality
  <2>2. QED BY <1>1, <1>5, <2>1
<1>8. Range(s) = {Head(s)} \cup Range(Tail(s))
  <2>1. Range(<<Head(s)>> \o Tail(s)) = Range(<<Head(s)>>) \cup Range(Tail(s))
    BY <1>1, <1>2, <1>3
  <2>2. QED BY <1>2, <1>4, <2>1
<1>9. Head(s) \in Range(s) /\ Range(Tail(s)) = Range(s) \ {Head(s)}
  BY <1>7, <1>8
<1>10. QED BY <1>1, <1>6, <1>9

\* An empty channel has no elements.
LEMMA EmptyRange == Range(<<>>) = {} /\ IsInjective(<<>>)
  BY DEF Range, IsInjective

-----------------------------------------------------------------------------

LEMMA InitInv == Init => IInv
<1> SUFFICES ASSUME Init PROVE IInv
  OBVIOUS
<1> USE SessionAssumption DEF Init
<1>1. TypeOK
  <2>1. jobs \in Seq(Callers) /\ Len(jobs) <= QueueCap
    OBVIOUS
  <2>2. QED BY <2>1 DEF TypeOK
<1>2. Range(jobs) = {} /\ IsInjective(jobs)
  BY EmptyRange
<1>3. Placement /\ WorkerPlace /\ ServedOnce /\ PanicHasNoJob
  BY <1>2 DEF Placement, WorkerPlace, ServedOnce, PanicHasNoJob, Done
<1>4. QED BY <1>1, <1>3 DEF IInv

(***************************************************************************)
(* A call that returns without touching the channel.                       *)
(***************************************************************************)
LEMMA ReturnInv ==
    ASSUME IInv, NEW c \in Callers, NEW a \in Outcomes \cup Refusals,
           pc[c] # "returned", Return(c, a),
           a = "panic" => pc[c] = "send" /\ jobsClosed,
           UNCHANGED <<closed, jobs, jobsClosed, workerVars, gone, closer>>
    PROVE  IInv'
<1> USE DEF IInv, Return, workerVars
<1>0. "none" \notin Outcomes \cup Refusals
  BY DEF Outcomes, Refusals
<1>1. TypeOK'
  BY DEF TypeOK
<1>2. pc' = [pc EXCEPT ![c] = "returned"] /\ answer' = [answer EXCEPT ![c] = a]
  OBVIOUS
<1>3. \A d \in Callers \ {c} : pc'[d] = pc[d] /\ answer'[d] = answer[d]
  BY <1>2 DEF TypeOK
<1>4. pc'[c] = "returned" /\ answer'[c] = a
  BY <1>2 DEF TypeOK
<1>5. Placement'
  BY <1>0, <1>3, <1>4 DEF Placement
<1>6. WorkerPlace' /\ ServedOnce'
  BY DEF WorkerPlace, ServedOnce, Done
<1>7. PanicHasNoJob'
  BY <1>3, <1>4 DEF PanicHasNoJob, Placement, WorkerPlace
<1>8. QED BY <1>1, <1>5, <1>6, <1>7

LEMMA SendJobInv ==
    ASSUME IInv, NEW c \in Callers, SendJob(c)
    PROVE  IInv'
<1> USE DEF IInv, SendJob, Room, workerVars
<1>1. /\ jobs \in Seq(Callers)
      /\ c \notin Range(jobs) /\ c # cur /\ result[c] = "empty"
      /\ answer[c] = "none"
      /\ IsInjective(jobs)
  BY DEF TypeOK, Placement, ServedOnce
<1>2. /\ jobs' \in Seq(Callers)
      /\ Len(jobs') = Len(jobs) + 1
      /\ Range(jobs') = Range(jobs) \cup {c}
      /\ IsInjective(jobs')
  BY <1>1, Sent
<1>3. TypeOK'
  BY <1>2, SessionAssumption DEF TypeOK
<1>4. pc'[c] = "wait" /\ \A d \in Callers \ {c} : pc'[d] = pc[d]
  BY DEF TypeOK
<1>5. Placement'
  BY <1>1, <1>2, <1>4 DEF Placement
<1>6. WorkerPlace'
  BY DEF WorkerPlace, Done
<1>7. ServedOnce'
  BY <1>1, <1>2 DEF ServedOnce
<1>8. PanicHasNoJob'
  BY <1>1, <1>2 DEF PanicHasNoJob
<1>9. QED BY <1>3, <1>5, <1>6, <1>7, <1>8

LEMMA TakeJobInv ==
    ASSUME IInv, TakeJob
    PROVE  IInv'
<1> USE DEF IInv, TakeJob, OldestJob, OtherJobs, callerVars
<1>1. jobs \in Seq(Callers) /\ IsInjective(jobs) /\ cur = Nobody
  BY DEF TypeOK, ServedOnce, WorkerPlace
<1>2. /\ jobs' \in Seq(Callers)
      /\ Len(jobs') = Len(jobs) - 1
      /\ cur' \in Callers
      /\ cur' \in Range(jobs)
      /\ Range(jobs') = Range(jobs) \ {cur'}
      /\ IsInjective(jobs')
  BY <1>1, Received
<1>3. TypeOK'
  BY <1>1, <1>2, SessionAssumption DEF TypeOK
<1>4. Placement'
  BY <1>1, <1>2, SessionAssumption DEF Placement
<1>5. WorkerPlace'
  BY <1>2, SessionAssumption DEF WorkerPlace, Done
<1>6. ServedOnce'
  BY <1>2 DEF ServedOnce
<1>7. PanicHasNoJob'
  BY <1>2, <1>1 DEF PanicHasNoJob
<1>8. QED BY <1>3, <1>4, <1>5, <1>6, <1>7

(***************************************************************************)
(* The worker answers the job in its hands.                                *)
(***************************************************************************)
LEMMA DeliverInv ==
    ASSUME IInv, NEW v \in Outcomes, Deliver(v), loop \in {"ensure", "run"},
           UNCHANGED <<closed, jobs, jobsClosed, sess, callerVars, gone,
                       closer, warm>>
    PROVE  /\ IInv'
           /\ cur \in Callers
           /\ result[cur] = "empty"
           /\ result' = [result EXCEPT ![cur] = v]
<1> USE DEF IInv, Deliver, ResultSent, callerVars
<1>1. cur \in Callers /\ result[cur] = "empty"
  BY DEF WorkerPlace, TypeOK, ServedOnce
<1>2. result' = [result EXCEPT ![cur] = v]
  BY <1>1
<1>3. result'[cur] = v /\ \A d \in Callers \ {cur} : result'[d] = result[d]
  BY <1>1, <1>2 DEF TypeOK
<1>4. v # "empty"
  BY DEF Outcomes
<1>5. TypeOK'
  <2>1. result' \in [Callers -> Outcomes \cup {"empty"}]
    BY <1>2 DEF TypeOK
  <2>2. UNCHANGED <<closed, jobs, jobsClosed, sess, pc, answer, gone, closer, warm>>
    OBVIOUS
  <2>3. loop' = "recv" /\ cur' = Nobody
    OBVIOUS
  <2>4. QED BY <2>1, <2>2, <2>3 DEF TypeOK
<1>6. Placement'
  BY <1>1, <1>3, <1>4, SessionAssumption DEF Placement
<1>7. WorkerPlace'
  BY DEF WorkerPlace, Done
<1>8. ServedOnce'
  <2>1. Range(jobs) \subseteq Callers
    BY RangeEquality, RangeOfSeq DEF TypeOK
  <2>2. \A d \in Range(jobs) : d # cur /\ d # Nobody
    BY <2>1, SessionAssumption DEF ServedOnce
  <2>3. QED BY <1>3, <2>1, <2>2 DEF ServedOnce
<1>9. PanicHasNoJob'
  BY <1>1, <1>3, SessionAssumption DEF PanicHasNoJob
<1>10. QED BY <1>1, <1>2, <1>5, <1>6, <1>7, <1>8, <1>9

LEMMA NextInv == IInv /\ [Next]_vars => IInv'
<1> SUFFICES ASSUME IInv, [Next]_vars PROVE IInv'
  OBVIOUS
<1>a. /\ "closed" \in Refusals /\ "panic" \in Refusals
      /\ "cancelled" \in Refusals /\ "timeout" \in Refusals
      /\ "ok" \in Outcomes /\ "error" \in Outcomes /\ "aborted" \in Outcomes
  BY DEF Refusals, Outcomes
<1>1. ASSUME NEW c \in Callers, CheckClosed(c) PROVE IInv'
  <2>1. CASE closed
    BY <2>1, <1>1, <1>a, ReturnInv DEF CheckClosed
  <2>2. CASE ~closed
    <3>1. /\ pc' = [pc EXCEPT ![c] = "send"]
          /\ UNCHANGED <<closed, jobs, jobsClosed, sess, loop, cur, result,
                         warm, gone, closer, answer>>
      BY <2>2, <1>1 DEF CheckClosed, workerVars
    <3>2. TypeOK'
      BY <3>1 DEF IInv, TypeOK
    <3>3. pc'[c] = "send" /\ pc[c] = "start"
          /\ \A d \in Callers \ {c} : pc'[d] = pc[d]
      BY <3>1, <1>1 DEF IInv, TypeOK, CheckClosed
    <3>4. Placement'
      BY <3>1, <3>3 DEF IInv, Placement
    <3>5. WorkerPlace' /\ ServedOnce' /\ PanicHasNoJob'
      BY <3>1 DEF IInv, WorkerPlace, ServedOnce, PanicHasNoJob, Done
    <3>6. QED BY <3>2, <3>4, <3>5 DEF IInv
  <2>3. QED BY <2>1, <2>2
<1>2. ASSUME NEW c \in Callers, SendJob(c) PROVE IInv'
  BY <1>2, SendJobInv
<1>3. ASSUME NEW c \in Callers, NotSent(c) PROVE IInv'
  BY <1>3, <1>a, ReturnInv DEF NotSent
<1>4. ASSUME NEW c \in Callers, Receive(c) PROVE IInv'
  <2>1. result[c] \in Outcomes /\ result[c] # "panic"
    BY <1>4 DEF Receive, IInv, TypeOK, Outcomes
  <2>2. QED BY <2>1, <1>4, ReturnInv DEF Receive
<1>5. ASSUME NEW c \in Callers, StopWaiting(c) PROVE IInv'
  BY <1>5, <1>a, ReturnInv DEF StopWaiting
<1>6. ASSUME NEW c \in Callers, CancelParent(c) PROVE IInv'
  BY <1>6 DEF CancelParent, workerVars, callerVars, IInv, TypeOK, Placement,
              WorkerPlace, ServedOnce, PanicHasNoJob, Done
<1>7. CASE TakeJob
  BY <1>7, TakeJobInv
<1>8. CASE SessionAlive
  BY <1>8 DEF SessionAlive, callerVars, IInv, TypeOK, Placement, WorkerPlace,
              ServedOnce, PanicHasNoJob, Done
<1>9. CASE DropDeadSession
  BY <1>9 DEF DropDeadSession, callerVars, IInv, TypeOK, Placement,
              WorkerPlace, ServedOnce, PanicHasNoJob, Done
<1>10. CASE LoginOK
  BY <1>10 DEF LoginOK, callerVars, IInv, TypeOK, Placement, WorkerPlace,
               ServedOnce, PanicHasNoJob, Done
<1>11. CASE LoginFails
  BY <1>11, <1>a, DeliverInv DEF LoginFails
<1>12. CASE RunJob
  BY <1>12, <1>a, DeliverInv DEF RunJob
<1>13. CASE Exit
  BY <1>13 DEF Exit, Drained, callerVars, IInv, TypeOK, Placement, WorkerPlace,
               ServedOnce, PanicHasNoJob, Done
<1>14. CASE SessionDies
  BY <1>14 DEF SessionDies, LoggedOn, callerVars, IInv, TypeOK, Placement,
               WorkerPlace, ServedOnce, PanicHasNoJob, Done
<1>15. CASE Close
  <2>1. /\ UNCHANGED <<jobs, sess, loop, cur, result, warm, pc, answer, gone>>
        /\ \/ closed' = TRUE /\ closer' = "closing" /\ UNCHANGED jobsClosed
           \/ /\ closer = "closing" /\ closer' = "draining"
              /\ jobsClosed' = TRUE /\ UNCHANGED closed
           \/ /\ closer = "draining" /\ closer' = "returned"
              /\ UNCHANGED <<closed, jobsClosed>>
    BY <1>15 DEF Close, CloseMark, CloseJobs, CloseReturns, callerVars,
                 workerVars
  <2>2. TypeOK'
    BY <2>1 DEF IInv, TypeOK
  <2>3. WorkerPlace'
    BY <2>1 DEF IInv, WorkerPlace, Done
  <2>4. Placement' /\ ServedOnce' /\ PanicHasNoJob'
    BY <2>1 DEF IInv, Placement, ServedOnce, PanicHasNoJob
  <2>5. QED BY <2>2, <2>3, <2>4 DEF IInv
<1>16. CASE UNCHANGED vars
  BY <1>16 DEF vars, IInv, TypeOK, Placement, WorkerPlace, ServedOnce,
               PanicHasNoJob, Done
<1>17. QED
  BY <1>1, <1>2, <1>3, <1>4, <1>5, <1>6, <1>7, <1>8, <1>9, <1>10, <1>11,
     <1>12, <1>13, <1>14, <1>15, <1>16
     DEF Next, Caller, Worker, Terminated

LEMMA Invariant == Spec => []IInv
BY InitInv, NextInv, PTL DEF Spec

-----------------------------------------------------------------------------

(***************************************************************************)
(* Every variable of the session keeps its type, and the channel never     *)
(* holds more than its capacity.                                           *)
(***************************************************************************)
THEOREM TypeCorrect == Spec => []TypeOK
<1>1. IInv => TypeOK
  BY DEF IInv
<1>2. QED BY <1>1, Invariant, PTL

(***************************************************************************)
(* No job is served twice or answered twice.                               *)
(***************************************************************************)
THEOREM ServedAtMostOnce == Spec => []ServedOnce
<1>1. IInv => ServedOnce
  BY DEF IInv
<1>2. QED BY <1>1, Invariant, PTL

(***************************************************************************)
(* A call that panics on the closed channel leaves no job behind.          *)
(***************************************************************************)
THEOREM PanicLeavesNoJob == Spec => []PanicHasNoJob
<1>1. IInv => PanicHasNoJob
  BY DEF IInv
<1>2. QED BY <1>1, Invariant, PTL

(***************************************************************************)
(* When the worker has exited, every job that was accepted is answered and *)
(* the session is closed.                                                  *)
(***************************************************************************)
THEOREM DrainIsClean == Spec => []DrainedClean
<1>1. IInv => DrainedClean
  <2> SUFFICES ASSUME IInv, Done PROVE DrainedClean
    BY DEF DrainedClean
  <2>1. jobs = <<>> /\ sess = "nil" /\ cur = Nobody
    BY DEF IInv, WorkerPlace, Done
  <2>2. Range(jobs) = {}
    BY <2>1, EmptyRange
  <2>3. QED
    BY <2>1, <2>2, SessionAssumption DEF IInv, Placement, DrainedClean
<1>2. QED BY <1>1, Invariant, PTL

-----------------------------------------------------------------------------

\* What a call has been told, as KeepsContract reads it.
Told == [c \in Callers |-> IF answer[c] \in Refusals THEN "gaveUp" ELSE answer[c]]

LEMMA ContractInit == Init => Contract!Init
BY DEF Init, Contract!Init, Refusals

LEMMA ToldStep ==
    ASSUME IInv, NEW c \in Callers, NEW a \in Outcomes \cup Refusals,
           pc[c] # "returned", Return(c, a)
    PROVE  /\ Told[c] = "none"
           /\ Told' = [Told EXCEPT ![c] = IF a \in Refusals THEN "gaveUp" ELSE a]
<1>1. answer[c] = "none" /\ answer' = [answer EXCEPT ![c] = a]
  BY DEF IInv, Placement, Return
<1>2. "none" \notin Refusals
  BY DEF Refusals
<1>3. answer \in [Callers -> Outcomes \cup Refusals \cup {"none"}]
  BY DEF IInv, TypeOK
<1>4. QED BY <1>1, <1>2, <1>3 DEF Told

(***************************************************************************)
(* A call that gives up, in any of the ways it can.                        *)
(***************************************************************************)
LEMMA ContractGiveUp ==
    ASSUME IInv, NEW c \in Callers, NEW a \in Refusals, pc[c] # "returned",
           Return(c, a), UNCHANGED <<jobs, cur, result>>
    PROVE  Contract!GiveUp(c)
<1>1. Told[c] = "none" /\ Told' = [Told EXCEPT ![c] = "gaveUp"]
  BY ToldStep
<1>2. QED BY <1>1 DEF Contract!GiveUp, Told

LEMMA ContractFinish ==
    ASSUME IInv, NEW v \in Outcomes, Deliver(v), loop \in {"ensure", "run"},
           UNCHANGED <<closed, jobs, jobsClosed, sess, callerVars, gone,
                       closer, warm>>
    PROVE  Contract!Finish
<1>1. /\ cur \in Callers
      /\ result[cur] = "empty"
      /\ result' = [result EXCEPT ![cur] = v]
  BY DeliverInv
<1>2. cur # Nobody /\ cur' = Nobody
  BY <1>1, SessionAssumption DEF Deliver, ResultSent
<1>3. v \in Contract!Verdicts
  BY DEF Contract!Verdicts, Outcomes
<1>4. QED BY <1>1, <1>2, <1>3 DEF Contract!Finish, callerVars

LEMMA ContractNext == IInv /\ [Next]_vars => [Contract!Next]_(Contract!vars)
<1> SUFFICES ASSUME IInv, [Next]_vars
             PROVE  Contract!Next \/ UNCHANGED <<jobs, cur, result, Told>>
  BY DEF Contract!vars, Told
<1>a. /\ "closed" \in Refusals /\ "panic" \in Refusals
      /\ "cancelled" \in Refusals /\ "timeout" \in Refusals
      /\ "ok" \in Outcomes /\ "error" \in Outcomes /\ "aborted" \in Outcomes
  BY DEF Refusals, Outcomes
<1>b. ASSUME UNCHANGED answer PROVE UNCHANGED Told
  BY <1>b DEF Told
<1>1. ASSUME NEW c \in Callers, CheckClosed(c)
      PROVE  Contract!Next \/ UNCHANGED <<jobs, cur, result, Told>>
  <2>1. CASE closed
    <3>1. Contract!GiveUp(c)
      BY <1>1, <2>1, <1>a, ContractGiveUp DEF CheckClosed, workerVars
    <3>2. QED BY <3>1 DEF Contract!Next
  <2>2. CASE ~closed
    BY <1>1, <2>2, <1>b DEF CheckClosed, workerVars
  <2>3. QED BY <2>1, <2>2
<1>2. ASSUME NEW c \in Callers, SendJob(c) PROVE Contract!Next
  <2>1. /\ answer[c] = "none" /\ result[c] = "empty"
        /\ c # cur /\ c \notin Range(jobs)
    BY <1>2 DEF IInv, Placement, SendJob, Room
  <2>2. Told[c] = "none"
    BY <2>1 DEF Told, Refusals
  <2>3. jobs' = Append(jobs, c) /\ UNCHANGED <<cur, result, answer>>
    BY <1>2 DEF SendJob, Room, workerVars
  <2>4. answer[c] \notin Refusals
    BY <2>1 DEF Refusals
  <2>5. Contract!Accept(c)
    BY <2>1, <2>3, <2>4 DEF Contract!Accept, Contract!Range, Range
  <2>6. QED BY <2>5 DEF Contract!Next
<1>3. ASSUME NEW c \in Callers, NotSent(c) PROVE Contract!Next
  <2>1. Contract!GiveUp(c)
    BY <1>3, <1>a, ContractGiveUp DEF NotSent, workerVars
  <2>2. QED BY <2>1 DEF Contract!Next
<1>4. ASSUME NEW c \in Callers, Receive(c) PROVE Contract!Next
  <2>1. result[c] \in Outcomes /\ result[c] \notin Refusals
    BY <1>4 DEF Receive, IInv, TypeOK, Outcomes, Refusals
  <2>2. pc[c] # "returned" /\ Return(c, result[c])
    BY <1>4 DEF Receive
  <2>3. Told[c] = "none" /\ Told' = [Told EXCEPT ![c] = result[c]]
    BY <2>1, <2>2, ToldStep
  <2>4. Contract!Tell(c)
    BY <1>4, <2>3 DEF Contract!Tell, Receive, workerVars, Told
  <2>5. QED BY <2>4 DEF Contract!Next
<1>5. ASSUME NEW c \in Callers, StopWaiting(c) PROVE Contract!Next
  <2>1. Contract!GiveUp(c)
    BY <1>5, <1>a, ContractGiveUp DEF StopWaiting, workerVars
  <2>2. QED BY <2>1 DEF Contract!Next
<1>6. ASSUME NEW c \in Callers, CancelParent(c)
      PROVE  UNCHANGED <<jobs, cur, result, Told>>
  BY <1>6, <1>b DEF CancelParent, workerVars, callerVars
<1>7. CASE TakeJob
  <2>1. cur = Nobody
    BY <1>7 DEF IInv, WorkerPlace, TakeJob, OldestJob, OtherJobs
  <2>2. /\ cur = Nobody /\ jobs # <<>>
        /\ cur' = Head(jobs) /\ jobs' = Tail(jobs)
        /\ UNCHANGED <<result, answer>>
    BY <1>7, <2>1 DEF TakeJob, OldestJob, OtherJobs, callerVars
  <2>3. Contract!Serve
    BY <2>2 DEF Contract!Serve
  <2>4. QED BY <2>3 DEF Contract!Next
<1>8. CASE SessionAlive \/ DropDeadSession \/ LoginOK \/ Exit \/ SessionDies
  BY <1>8, <1>b DEF SessionAlive, DropDeadSession, LoginOK, Exit, Drained, SessionDies,
                    callerVars
<1>9. CASE LoginFails
  <2>1. Contract!Finish
    BY <1>9, <1>a, ContractFinish DEF LoginFails
  <2>2. QED BY <2>1 DEF Contract!Next
<1>10. CASE RunJob
  <2>1. Contract!Finish
    BY <1>10, <1>a, ContractFinish DEF RunJob
  <2>2. QED BY <2>1 DEF Contract!Next
<1>11. CASE Close
  BY <1>11, <1>b DEF Close, CloseMark, CloseJobs, CloseReturns, workerVars,
                     callerVars
<1>12. CASE UNCHANGED vars
  BY <1>12, <1>b DEF vars
<1>13. QED
  BY <1>1, <1>2, <1>3, <1>4, <1>5, <1>6, <1>7, <1>8, <1>9, <1>10, <1>11, <1>12
     DEF Next, Caller, Worker, Terminated

(***************************************************************************)
(* The session implements WorkerContract: jobs are served one at a time in *)
(* the order they were accepted, at most once, and a call is told its own  *)
(* verdict or gives up.                                                    *)
(***************************************************************************)
THEOREM ImplementsContract == Spec => KeepsContract
BY ContractInit, ContractNext, Invariant, PTL
   DEF Spec, KeepsContract, Contract!Spec
=============================================================================
