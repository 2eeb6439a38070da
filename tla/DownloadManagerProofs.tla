----------------------- MODULE DownloadManagerProofs -----------------------
(***************************************************************************)
(* The download queue keeps its invariants, and its jobs the life of       *)
(* JobLifecycle, for every number of requests, every collection, every     *)
(* capacity of the channel and every bound of the history.                 *)
(***************************************************************************)
EXTENDS DownloadManager, SequenceTheorems, TLAPS

-----------------------------------------------------------------------------
(* A channel as a sequence. *)

\* A send adds its element; one that is not there keeps all of them distinct.
LEMMA Sent ==
    ASSUME NEW S, NEW s \in Seq(S), NEW e \in S
    PROVE  /\ Append(s, e) \in Seq(S) /\ Len(Append(s, e)) = Len(s) + 1
           /\ Range(Append(s, e)) = Range(s) \cup {e}
           /\ IsInjective(s) /\ e \notin Range(s) => IsInjective(Append(s, e))
<1>1. Range(<<e>>) = {e} /\ <<e>> \in Seq(S)
  BY DEF Range
<1>2. \A t \in Seq(S) : Range(s \o t) = Range(s) \cup Range(t)
  BY RangeConcatenation
<1>3. Append(s, e) = s \o <<e>>
  BY AppendIsConcat
<1>4. IsInjective(s) /\ e \notin Range(s) => IsInjective(Append(s, e))
  BY AppendProperties, RangeEquality DEF IsInjective
<1>5. QED BY <1>1, <1>2, <1>3, <1>4, AppendProperties

\* A receive takes the head and leaves the others.
LEMMA Received ==
    ASSUME NEW S, NEW s \in Seq(S), s # <<>>, IsInjective(s)
    PROVE  /\ Tail(s) \in Seq(S) /\ Len(Tail(s)) = Len(s) - 1
           /\ Head(s) \in S /\ Head(s) \in Range(s)
           /\ Range(Tail(s)) = Range(s) \ {Head(s)}
           /\ IsInjective(Tail(s))
<1>1. /\ Head(s) \in S /\ Tail(s) \in Seq(S) /\ Len(Tail(s)) = Len(s) - 1
      /\ Head(s) = s[1] /\ Len(s) \in Nat \ {0}
      /\ \A i \in 1 .. Len(s) - 1 : Tail(s)[i] = s[i + 1]
  BY HeadTailProperties, EmptySeq
<1>2. <<Head(s)>> \in Seq(S) /\ s = <<Head(s)>> \o Tail(s)
  BY <1>1
<1>3. \A t, u \in Seq(S) : Range(t \o u) = Range(t) \cup Range(u)
  BY RangeConcatenation
<1>4. Range(<<Head(s)>>) = {Head(s)}
  BY DEF Range
<1>5. \A i, j \in 1 .. Len(s) : s[i] = s[j] => i = j
  BY LenProperties DEF IsInjective
<1>6. IsInjective(Tail(s))
  <2>1. DOMAIN Tail(s) = 1 .. Len(s) - 1
    BY <1>1, LenProperties
  <2>2. QED BY <1>1, <1>5, <2>1 DEF IsInjective
<1>7. Head(s) \notin Range(Tail(s))
  <2>1. Range(Tail(s)) = {Tail(s)[i] : i \in 1 .. Len(s) - 1}
    BY <1>1, RangeEquality
  <2>2. QED BY <1>1, <1>5, <2>1
<1>8. Range(s) = {Head(s)} \cup Range(Tail(s))
  <2>1. Range(<<Head(s)>> \o Tail(s)) = Range(<<Head(s)>>) \cup Range(Tail(s))
    BY <1>1, <1>2, <1>3
  <2>2. QED BY <1>2, <1>4, <2>1
<1>9. Head(s) \in Range(s) /\ Range(Tail(s)) = Range(s) \ {Head(s)}
  BY <1>7, <1>8
<1>10. QED BY <1>1, <1>6, <1>9

\* An empty channel has no elements.
LEMMA EmptyRange == Range(<<>>) = {} /\ IsInjective(<<>>)
  BY DEF Range, IsInjective

-----------------------------------------------------------------------------

LEMMA InitInv == Init => IInv
<1> SUFFICES ASSUME Init PROVE IInv
  OBVIOUS
<1> USE ManagerAssumption DEF Init
<1>1. Range(queue) = {} /\ Range(order) = {}
      /\ IsInjective(queue) /\ IsInjective(order)
  BY EmptyRange
<1>2. TypeOK
  <2>1. order \in Seq(JobIds) /\ Len(order) <= MaxHistory
    OBVIOUS
  <2>2. queue \in Seq(JobIds) /\ Len(queue) <= QueueCap
    OBVIOUS
  <2>3. ids \in [Requests -> Seq(Items)]
    OBVIOUS
  <2>4. idSeq \in 0..MaxJobs
    OBVIOUS
  <2>5. QED BY <2>1, <2>2, <2>3, <2>4 DEF TypeOK, NoJob
<1>3. KnownIds
  BY <1>1 DEF KnownIds, JobIds
<1>4. LoopPlace /\ LockPlace
  BY DEF LoopPlace, LockPlace
<1>5. OneActivePerItem /\ OneTicket /\ QueuedHasTicket /\ ListedIsKnown
  BY <1>1 DEF OneActivePerItem, OneTicket, QueuedHasTicket, ListedIsKnown,
              JobIds
<1>6. QED BY <1>2, <1>3, <1>4, <1>5 DEF IInv

(***************************************************************************)
(* A step that leaves the jobs, the channel, the pushers and the loop      *)
(* alone keeps what the invariant says of them.                            *)
(***************************************************************************)
LEMMA JobsUntouched ==
    ASSUME IInv,
           UNCHANGED <<jobVars, queue, pusher, loopVars, misread>>
    PROVE  /\ LoopPlace' /\ OneActivePerItem' /\ OneTicket'
           /\ QueuedHasTicket' /\ ListedIsKnown'
<1> USE DEF IInv, jobVars, loopVars
<1>1. LoopPlace'
  BY DEF LoopPlace
<1>2. OneActivePerItem'
  BY DEF OneActivePerItem
<1>3. OneTicket'
  BY DEF OneTicket
<1>4. QueuedHasTicket' /\ ListedIsKnown'
  BY DEF QueuedHasTicket, ListedIsKnown
<1>5. QED BY <1>1, <1>2, <1>3, <1>4

-----------------------------------------------------------------------------
(* Enqueue. *)

LEMMA AskInv ==
    ASSUME IInv, NEW r \in Requests, NEW w \in Wants, Ask(r, w)
    PROVE  IInv'
<1> USE DEF IInv, Ask
<1>1. LoopPlace' /\ OneActivePerItem' /\ OneTicket'
      /\ QueuedHasTicket' /\ ListedIsKnown'
  BY JobsUntouched DEF chanVars
<1>2. w \in Items /\ <<w>> \in Seq(Items)
  BY DEF Items
<1>3. TypeOK'
  BY <1>2 DEF TypeOK, jobVars, chanVars, loopVars
<1>4. KnownIds'
  <2>1. ids'[r] = <<w>> /\ \A q \in Requests \ {r} : pc'[q] = pc[q] /\ ids'[q] = ids[q]
    BY DEF TypeOK
  <2>2. \A q \in Requests : pc'[q] = "resolve" => \E x \in Wants : ids'[q] = <<x>>
    BY <2>1 DEF KnownIds
  <2>3. QED BY <2>2 DEF KnownIds, jobVars
<1>5. LockPlace'
  BY DEF LockPlace, TypeOK, chanVars
<1>6. QED BY <1>1, <1>3, <1>4, <1>5

LEMMA ResolveInv ==
    ASSUME IInv, NEW r \in Requests, NEW found \in Found, Resolve(r, found)
    PROVE  IInv'
<1> USE DEF IInv, Resolve
<1>1. LoopPlace' /\ OneActivePerItem' /\ OneTicket'
      /\ QueuedHasTicket' /\ ListedIsKnown'
  BY JobsUntouched DEF chanVars
<1>2. PICK w \in Wants : ids[r] = <<w>>
  BY DEF KnownIds
<1>3. Resolution(w, found) \in Seq(Items)
  <2>1. <<w>> \in Seq(Items) /\ found \in Answers[w] \cup {<<>>}
    BY <1>2 DEF Items
  <2>2. found # <<>> => found \in Seq(Items)
    BY <2>1, ManagerAssumption
  <2>3. QED BY <2>1, <2>2 DEF Resolution
<1>4. ids' = [ids EXCEPT ![r] = Resolution(w, found)]
  BY <1>2
<1>5. TypeOK'
  BY <1>3, <1>4 DEF TypeOK, jobVars, chanVars, loopVars
<1>6. KnownIds'
  <2>1. pc'[r] = "lock" /\ \A q \in Requests \ {r} : pc'[q] = pc[q] /\ ids'[q] = ids[q]
    BY <1>4 DEF TypeOK
  <2>2. \A q \in Requests : pc'[q] = "resolve" => \E x \in Wants : ids'[q] = <<x>>
    BY <2>1 DEF KnownIds
  <2>3. QED BY <2>2 DEF KnownIds, jobVars
<1>7. LockPlace'
  BY DEF LockPlace, TypeOK, chanVars
<1>8. QED BY <1>1, <1>5, <1>6, <1>7

LEMMA LockInv ==
    ASSUME IInv, NEW r \in Requests, Lock(r)
    PROVE  IInv'
<1> USE DEF IInv, Lock, Refuses
<1>1. LoopPlace' /\ OneActivePerItem' /\ OneTicket'
      /\ QueuedHasTicket' /\ ListedIsKnown'
  BY JobsUntouched DEF chanVars
<1>2. TypeOK'
  BY DEF TypeOK, jobVars, chanVars, loopVars
<1>3. pc'[r] # "resolve" /\ \A q \in Requests \ {r} : pc'[q] = pc[q]
  BY DEF TypeOK
<1>4. KnownIds'
  BY <1>3 DEF KnownIds, jobVars
<1>5. LockPlace'
  BY <1>3, ManagerAssumption DEF LockPlace, TypeOK, chanVars
<1>6. QED BY <1>1, <1>2, <1>4, <1>5

\* The ids an Enqueue has left after one of them.
LEMMA TailIds ==
    ASSUME TypeOK, NEW r \in Requests, ids[r] # <<>>,
           ids' = [ids EXCEPT ![r] = Tail(@)]
    PROVE  /\ Head(ids[r]) \in Items
           /\ ids' \in [Requests -> Seq(Items)]
           /\ \A q \in Requests \ {r} : ids'[q] = ids[q]
<1>1. ids \in [Requests -> Seq(Items)] /\ ids[r] \in Seq(Items)
  BY DEF TypeOK
<1>2. Head(ids[r]) \in Items /\ Tail(ids[r]) \in Seq(Items)
  BY <1>1
<1>3. QED BY <1>1, <1>2

LEMMA ReuseJobInv ==
    ASSUME IInv, NEW r \in Requests, NEW torn \in BOOLEAN, ReuseJob(r, torn)
    PROVE  IInv'
<1> USE DEF IInv, ReuseJob
<1>1. LoopPlace' /\ OneActivePerItem' /\ OneTicket'
      /\ QueuedHasTicket' /\ ListedIsKnown'
  BY JobsUntouched DEF chanVars
<1>2. /\ ids' \in [Requests -> Seq(Items)]
      /\ \A q \in Requests \ {r} : ids'[q] = ids[q]
  BY TailIds
<1>3. TypeOK'
  BY <1>2 DEF TypeOK, jobVars, chanVars, loopVars
<1>4. pc[r] = "insert"
  BY DEF LockPlace
<1>5. KnownIds'
  BY <1>2, <1>4 DEF KnownIds, jobVars
<1>6. LockPlace'
  BY DEF LockPlace, chanVars
<1>7. QED BY <1>1, <1>3, <1>5, <1>6

LEMMA UnlockInv ==
    ASSUME IInv, NEW r \in Requests, Unlock(r)
    PROVE  IInv'
<1> USE DEF IInv, Unlock
<1>1. LoopPlace' /\ OneActivePerItem' /\ OneTicket'
      /\ QueuedHasTicket' /\ ListedIsKnown'
  BY JobsUntouched DEF chanVars
<1>2. TypeOK'
  BY DEF TypeOK, jobVars, chanVars, loopVars
<1>3. pc'[r] = "returned" /\ \A q \in Requests \ {r} : pc'[q] = pc[q]
  BY DEF TypeOK
<1>4. KnownIds'
  BY <1>3 DEF KnownIds, jobVars
<1>5. LockPlace'
  BY <1>3, ManagerAssumption DEF LockPlace, TypeOK, chanVars
<1>6. QED BY <1>1, <1>2, <1>4, <1>5

(***************************************************************************)
(* Bounding a history without duplicates splits it: what is kept and what  *)
(* is cut off have nothing in common, and the kept part is short enough.   *)
(***************************************************************************)
LEMMA HistorySplit ==
    ASSUME NEW s \in Seq(JobIds), IsInjective(s)
    PROVE  /\ Kept(s) \in Seq(JobIds)
           /\ Len(Kept(s)) <= MaxHistory
           /\ IsInjective(Kept(s))
           /\ Range(Kept(s)) \subseteq Range(s)
           /\ Range(Kept(s)) \cap Range(Cut(s)) = {}
<1>0. MaxHistory \in Nat \ {0} /\ Len(s) \in Nat /\ DOMAIN s = 1..Len(s)
  BY ManagerAssumption
<1>1. CASE Len(s) <= MaxHistory
  <2>1. Kept(s) = s /\ Cut(s) = <<>>
    BY <1>1 DEF Kept, Cut
  <2>2. QED BY <2>1, <1>1, EmptyRange
<1>2. CASE ~(Len(s) <= MaxHistory)
  <2> DEFINE n == Len(s) - MaxHistory
  <2>1. n \in 1..Len(s) /\ n + MaxHistory = Len(s)
    BY <1>0, <1>2
  <2>2. Kept(s) = SubSeq(s, n + 1, Len(s)) /\ Cut(s) = SubSeq(s, 1, n)
    BY <1>2 DEF Kept, Cut
  <2>3. /\ Kept(s) \in Seq(JobIds)
        /\ Len(Kept(s)) = MaxHistory
        /\ \A i \in 1..MaxHistory : Kept(s)[i] = s[n + i]
    BY <1>0, <2>1, <2>2
  <2>4. Len(Cut(s)) = n /\ DOMAIN Cut(s) = 1..n
        /\ \A i \in 1..n : Cut(s)[i] = s[i]
    BY <1>0, <2>1, <2>2
  <2>5. \A i \in 1..MaxHistory : n + i \in 1..Len(s)
    BY <1>0, <2>1
  <2>6. DOMAIN Kept(s) = 1..MaxHistory
    BY <2>3, <1>0
  <2> HIDE DEF n
  <2>7. IsInjective(Kept(s))
    <3> SUFFICES ASSUME NEW i \in 1..MaxHistory, NEW j \in 1..MaxHistory,
                        Kept(s)[i] = Kept(s)[j]
                 PROVE  i = j
      BY <2>6 DEF IsInjective
    <3>1. s[n + i] = s[n + j] /\ n + i \in DOMAIN s /\ n + j \in DOMAIN s
      BY <2>3, <2>5, <1>0
    <3>2. n + i = n + j
      BY <3>1 DEF IsInjective
    <3>3. QED BY <3>2, <2>1, <1>0
  <2>8. Range(Kept(s)) \subseteq Range(s)
    <3> SUFFICES ASSUME NEW i \in 1..MaxHistory PROVE Kept(s)[i] \in Range(s)
      BY <2>6 DEF Range
    <3>1. Kept(s)[i] = s[n + i] /\ n + i \in DOMAIN s
      BY <2>3, <2>5, <1>0
    <3>2. QED BY <3>1 DEF Range
  <2>9. Range(Kept(s)) \cap Range(Cut(s)) = {}
    <3> SUFFICES ASSUME NEW i \in 1..MaxHistory, NEW k \in 1..n,
                        Kept(s)[i] = Cut(s)[k]
                 PROVE  FALSE
      BY <2>4, <2>6 DEF Range
    <3>1. k \in 1..Len(s) /\ n + i \in 1..Len(s) /\ n + i # k
      BY <2>1, <2>5, <1>0
    <3>2. s[n + i] = s[k]
      BY <2>3, <2>4
    <3>3. QED BY <3>1, <3>2, <1>0 DEF IsInjective
  <2>10. QED BY <2>3, <2>7, <2>8, <2>9, <1>0
<1>3. QED BY <1>1, <1>2

LEMMA CreateJobInv ==
    ASSUME IInv, NEW r \in Requests, NEW torn \in BOOLEAN,
           torn => loop = "mark", CreateJob(r, torn)
    PROVE  IInv'
<1> DEFINE w == Head(ids[r])
           j == idSeq + 1
           listed == Append(order, j)
<1>1. /\ mu = r /\ ids[r] # <<>> /\ ActiveJobs(w, torn) = {} /\ j \in JobIds
      /\ idSeq' = j
      /\ item' = [item EXCEPT ![j] = w]
      /\ status' = [status EXCEPT ![j] = "queued"]
      /\ order' = Kept(listed)
      /\ jobsMap' = (jobsMap \cup {j}) \
                      {d \in Range(Cut(listed)) \ {j} : ~LooksActive(d, torn)}
      /\ misread' = IF torn THEN misread \cup {cur} ELSE misread
      /\ Push(j)
      /\ ids' = [ids EXCEPT ![r] = Tail(@)]
      /\ UNCHANGED <<closed, mu, queueClosed, loop, cur, pc, crashed>>
  BY DEF CreateJob, loopVars
<1>t. TypeOK /\ idSeq \in 0..MaxJobs
  BY DEF IInv, TypeOK
<1>2. /\ status[j] = "none" /\ pusher[j] = "none"
      /\ j \notin Range(order) /\ j \notin Range(queue) /\ j # cur
  <2>1. j > idSeq /\ ~(j <= idSeq)
    BY <1>t
  <2>2. status[j] = "none" /\ pusher[j] = "none" /\ j \notin Range(order)
    BY <1>1, <2>1 DEF IInv, KnownIds
  <2>3. j \notin Range(queue)
    BY <2>2 DEF IInv, OneTicket
  <2>4. j # cur
    BY <2>2, <1>1 DEF IInv, LoopPlace, TypeOK, NoJob, JobIds
  <2>5. QED BY <2>2, <2>3, <2>4
<1>3. /\ listed \in Seq(JobIds)
      /\ Range(listed) = Range(order) \cup {j}
      /\ IsInjective(listed)
  BY <1>1, <1>2, <1>t, Sent
     DEF IInv, TypeOK, KnownIds
<1>4. /\ order' \in Seq(JobIds)
      /\ Len(order') <= MaxHistory
      /\ IsInjective(order')
      /\ Range(order') \subseteq Range(order) \cup {j}
      /\ Range(order') \cap Range(Cut(listed)) = {}
  BY <1>1, <1>3, HistorySplit
<1> HIDE DEF listed
<1>5. /\ Head(ids[r]) \in Items
      /\ ids' \in [Requests -> Seq(Items)]
      /\ \A q \in Requests \ {r} : ids'[q] = ids[q]
  BY <1>1, <1>t, TailIds
<1>6. /\ \A k \in JobIds \ {j} : status'[k] = status[k] /\ item'[k] = item[k]
      /\ status'[j] = "queued" /\ item'[j] = w
      /\ jobsMap' \subseteq JobIds
  BY <1>1, <1>t DEF TypeOK
<1>7. \/ /\ queue' = Append(queue, j) /\ pusher' = pusher
         /\ Len(queue) < QueueCap
      \/ /\ queue' = queue
         /\ pusher' = [pusher EXCEPT ![j] = "check"]
  BY <1>1 DEF Push
<1>8. /\ Append(queue, j) \in Seq(JobIds)
      /\ Len(Append(queue, j)) = Len(queue) + 1
      /\ Range(Append(queue, j)) = Range(queue) \cup {j}
      /\ IsInjective(Append(queue, j))
  BY <1>1, <1>2, <1>t, Sent
     DEF IInv, TypeOK, OneTicket
<1>9. /\ queue' \in Seq(JobIds) /\ Len(queue') <= QueueCap
      /\ IsInjective(queue')
      /\ Range(queue') \subseteq Range(queue) \cup {j}
      /\ Range(queue) \subseteq Range(queue')
      /\ \A k \in JobIds \ {j} : pusher'[k] = pusher[k]
      /\ \/ j \in Range(queue') /\ pusher'[j] = "none"
         \/ j \notin Range(queue') /\ pusher'[j] = "check"
      /\ pusher' \in [JobIds -> {"none", "check", "send", "sent", "dropped"}]
  <2>0. /\ queue \in Seq(JobIds) /\ Len(queue) <= QueueCap
        /\ QueueCap \in Nat /\ IsInjective(queue)
        /\ pusher \in [JobIds -> {"none", "check", "send", "sent", "dropped"}]
    BY <1>t, ManagerAssumption DEF IInv, TypeOK, OneTicket
  <2>1. CASE queue' = Append(queue, j) /\ pusher' = pusher /\ Len(queue) < QueueCap
    BY <2>0, <2>1, <1>1, <1>2, <1>8
  <2>2. CASE queue' = queue /\ pusher' = [pusher EXCEPT ![j] = "check"]
    BY <2>0, <2>2, <1>1, <1>2
  <2>3. QED BY <2>1, <2>2, <1>7
<1>10. TypeOK'
  <2>1. cur \in JobIds \/ ~torn
    BY <1>t DEF IInv, LoopPlace, TypeOK
  <2>2. misread' \subseteq JobIds
    BY <2>1, <1>1, <1>t DEF TypeOK
  <2>3. item' \in [JobIds -> Items \cup {Free}]
    BY <1>1, <1>5, <1>t DEF TypeOK
  <2>4. status' \in [JobIds -> {"none", "queued", "running", "done", "failed"}]
    BY <1>1, <1>t DEF TypeOK
  <2>5. idSeq' \in 0..MaxJobs
    BY <1>1 DEF JobIds
  <2>6. QED
    BY <2>2, <2>3, <2>4, <2>5, <1>1, <1>4, <1>5, <1>6, <1>9, <1>t DEF TypeOK
<1> HIDE DEF w
<1>11. KnownIds'
  <2>1. \A k \in JobIds : k <= idSeq' <=> k <= idSeq \/ k = j
    BY <1>1, <1>t DEF JobIds
  <2>2. \A k \in JobIds : status'[k] = "none" <=> k > idSeq'
    <3> SUFFICES ASSUME NEW k \in JobIds
                 PROVE  status'[k] = "none" <=> ~(k <= idSeq')
      BY <1>1, <1>t DEF JobIds
    <3>1. status[k] = "none" <=> ~(k <= idSeq)
      BY <1>t DEF IInv, KnownIds, JobIds
    <3>2. QED BY <3>1, <2>1, <1>6
  <2>3. \A k \in JobIds : pusher'[k] # "none" => k <= idSeq'
    BY <2>1, <1>9 DEF IInv, KnownIds
  <2>4. \A k \in Range(order') : k <= idSeq'
    <3>1. Range(order) \subseteq JobIds
      BY <1>t, RangeEquality, RangeOfSeq DEF TypeOK
    <3>2. QED BY <3>1, <2>1, <1>1, <1>4 DEF IInv, KnownIds
  <2>5. \A q \in Requests : pc'[q] = "resolve" => \E x \in Wants : ids'[q] = <<x>>
    <3>1. pc[r] = "insert"
      BY <1>1 DEF IInv, LockPlace
    <3>2. QED BY <3>1, <1>1, <1>5 DEF IInv, KnownIds
  <2>6. QED BY <2>2, <2>3, <2>4, <2>5, <1>4 DEF KnownIds
<1>12. LoopPlace'
  <2>1. loop \in {"lookup", "mark", "run"} => cur \in JobIds \ {j}
    BY <1>2, <1>t DEF IInv, LoopPlace, TypeOK
  <2>2. QED BY <2>1, <1>1, <1>6 DEF IInv, LoopPlace
<1>13. LockPlace'
  BY <1>1 DEF IInv, LockPlace
<1>14. OneActivePerItem'
  <2> SUFFICES ASSUME NEW i \in Range(order'), NEW k \in Range(order'),
                      i < k, item'[i] = item'[k],
                      {status'[i], status'[k]} \subseteq ActiveStatus
               PROVE  i \in misread'
    BY DEF OneActivePerItem
  <2>0. /\ Range(order) \subseteq JobIds
        /\ \A x \in Range(order) : x <= idSeq /\ x # j
    BY <1>t, <1>2, RangeEquality, RangeOfSeq DEF TypeOK, IInv, KnownIds
  <2>1. CASE k # j /\ i # j
    <3>1. i \in Range(order) /\ k \in Range(order)
      BY <2>1, <1>4
    <3>2. i \in misread
      BY <3>1, <2>0, <1>6 DEF IInv, OneActivePerItem
    <3>3. QED BY <3>2, <1>1
  <2>2. CASE k = j /\ i # j
    <3>1. /\ i \in Range(order) /\ i \in jobsMap /\ i \in JobIds
          /\ item[i] = w /\ status[i] \in ActiveStatus
      BY <2>2, <2>0, <1>4, <1>6 DEF IInv, ListedIsKnown
    <3>2. ~LooksActive(i, torn)
      BY <3>1, <1>1 DEF ActiveJobs
    <3>3. torn /\ i = cur
      BY <3>1, <3>2 DEF LooksActive
    <3>4. QED BY <3>3, <1>1
  <2>3. CASE i = j
    <3>1. k \in Range(order) /\ k \in JobIds /\ k <= idSeq
      BY <2>3, <2>0, <1>4, <1>t DEF JobIds
    <3>2. QED BY <3>1, <2>3, <1>t DEF JobIds
  <2>4. QED BY <2>1, <2>2, <2>3
<1>15. OneTicket'
  <2>1. Range(queue) \subseteq JobIds \ {j}
    BY <1>t, <1>2, RangeEquality, RangeOfSeq DEF TypeOK
  <2>2. \A k \in Range(queue') :
          k # cur' /\ pusher'[k] \in {"none", "sent"} /\ status'[k] = "queued"
    BY <2>1, <1>1, <1>2, <1>6, <1>9 DEF IInv, OneTicket
  <2>3. \A k \in JobIds : pusher'[k] \in {"check", "send", "dropped"} =>
          k # cur' /\ status'[k] = "queued"
    BY <1>1, <1>2, <1>6, <1>9 DEF IInv, OneTicket
  <2>4. QED BY <2>2, <2>3, <1>9 DEF OneTicket
<1>16. QueuedHasTicket'
  BY <1>1, <1>6, <1>9 DEF IInv, QueuedHasTicket
<1>17. ListedIsKnown'
  <2>1. Range(order') \subseteq jobsMap'
    BY <1>1, <1>4 DEF IInv, ListedIsKnown
  <2>2. ASSUME NEW k \in 1..idSeq', k \notin jobsMap'
        PROVE  status'[k] # "queued" \/ (loop' = "mark" /\ k = cur')
    <3>1. k # j
      BY <2>2, <1>1
    <3>2. k \in 1..idSeq /\ k \in JobIds
      <4>1. k \in 1..(idSeq + 1) /\ k # idSeq + 1 /\ idSeq + 1 \in 1..MaxJobs
        BY <2>2, <3>1, <1>1 DEF JobIds
      <4>2. QED BY <4>1, <1>t, ManagerAssumption DEF JobIds
    <3>3. CASE k \notin jobsMap
      BY <3>1, <3>2, <3>3, <1>1, <1>6 DEF IInv, ListedIsKnown
    <3>4. CASE k \in jobsMap
      <4>1. ~LooksActive(k, torn)
        BY <3>1, <3>4, <2>2, <1>1
      <4>2. QED
        BY <4>1, <3>1, <3>2, <1>1, <1>6 DEF LooksActive, ActiveStatus
    <3>5. QED BY <3>3, <3>4
  <2>3. QED BY <2>1, <2>2 DEF ListedIsKnown
<1>18. QED
  BY <1>10, <1>11, <1>12, <1>13, <1>14, <1>15, <1>16, <1>17 DEF IInv

-----------------------------------------------------------------------------
(* The overflow goroutines. *)

LEMMA PusherInv ==
    ASSUME IInv, NEW j \in JobIds, Pusher(j)
    PROVE  IInv'
<1> USE DEF IInv
<1>1. /\ UNCHANGED <<closed, mu, jobVars, queueClosed, loopVars, reqVars, misread>>
      /\ j # cur /\ status[j] = "queued" /\ pusher[j] \in {"check", "send"}
  BY DEF Pusher, PusherCheck, PusherSend, PushEnds, PusherTimeout, PusherPanics,
         OneTicket, chanVars
<1>2. j \notin Range(queue)
  BY <1>1 DEF OneTicket
<1>3. crashed' \in BOOLEAN
  BY DEF Pusher, PusherCheck, PusherSend, PushEnds, PusherTimeout, PusherPanics, TypeOK
<1>4. CASE PusherSend(j)
  <2>1. /\ queue' \in Seq(JobIds) /\ Len(queue') <= QueueCap
        /\ Range(queue') = Range(queue) \cup {j}
        /\ IsInjective(queue')
    <3>1. queue \in Seq(JobIds) /\ Len(queue) < QueueCap /\ QueueCap \in Nat
          /\ queue' = Append(queue, j) /\ IsInjective(queue)
      BY <1>4, ManagerAssumption DEF PusherSend, PushEnds, TypeOK, OneTicket
    <3>2. QED BY <3>1, <1>2, Sent
  <2>2. pusher' = [pusher EXCEPT ![j] = "sent"]
    BY <1>4 DEF PusherSend, PushEnds
  <2>3. pusher'[j] = "sent" /\ \A k \in JobIds \ {j} : pusher'[k] = pusher[k]
    BY <2>2 DEF TypeOK
  <2>4. TypeOK'
    BY <1>1, <1>3, <2>1, <2>2 DEF TypeOK, jobVars, loopVars, reqVars
  <2>5. KnownIds'
    BY <1>1, <2>3 DEF KnownIds, jobVars, reqVars
  <2>6. LoopPlace' /\ LockPlace' /\ OneActivePerItem' /\ ListedIsKnown'
    BY <1>1 DEF LoopPlace, LockPlace, OneActivePerItem, ListedIsKnown,
                jobVars, loopVars, reqVars
  <2>7. OneTicket'
    <3>1. Range(queue) \subseteq JobIds
      BY RangeEquality, RangeOfSeq DEF TypeOK
    <3>2. QED BY <3>1, <1>1, <2>1, <2>3 DEF OneTicket, jobVars, loopVars
  <2>8. QueuedHasTicket'
    BY <1>1, <2>1, <2>3 DEF QueuedHasTicket, jobVars, loopVars
  <2>9. QED BY <2>4, <2>5, <2>6, <2>7, <2>8
<1>5. CASE PusherCheck(j) \/ PusherTimeout(j) \/ PusherPanics(j)
  <2>1. UNCHANGED queue
    BY <1>5 DEF PusherCheck, PusherTimeout, PusherPanics, chanVars
  <2>2. /\ pusher'[j] \in {"send", "dropped"}
        /\ \A k \in JobIds \ {j} : pusher'[k] = pusher[k]
        /\ pusher' \in [JobIds -> {"none", "check", "send", "sent", "dropped"}]
    BY <1>5 DEF PusherCheck, PusherTimeout, PusherPanics, TypeOK
  <2>3. TypeOK'
    BY <1>1, <1>3, <2>1, <2>2 DEF TypeOK, jobVars, loopVars, reqVars
  <2>4. KnownIds'
    BY <1>1, <2>2 DEF KnownIds, jobVars, reqVars
  <2>5. LoopPlace' /\ LockPlace' /\ OneActivePerItem' /\ ListedIsKnown'
    BY <1>1 DEF LoopPlace, LockPlace, OneActivePerItem, ListedIsKnown,
                jobVars, loopVars, reqVars
  <2>6. OneTicket'
    <3>1. Range(queue) \subseteq JobIds
      BY RangeEquality, RangeOfSeq DEF TypeOK
    <3>2. QED
      BY <3>1, <1>1, <1>2, <2>1, <2>2 DEF OneTicket, jobVars, loopVars
  <2>7. QueuedHasTicket'
    BY <1>1, <2>1, <2>2 DEF QueuedHasTicket, jobVars, loopVars
  <2>8. QED BY <2>3, <2>4, <2>5, <2>6, <2>7
<1>6. QED BY <1>4, <1>5 DEF Pusher

-----------------------------------------------------------------------------
(* loop and runOne. *)

LEMMA RecvInv ==
    ASSUME IInv, Recv
    PROVE  IInv'
<1> USE DEF IInv, Recv, OldestId, jobVars, reqVars
<1>1. queue \in Seq(JobIds) /\ IsInjective(queue) /\ cur = NoJob
  BY DEF TypeOK, OneTicket, LoopPlace
<1>2. /\ queue' \in Seq(JobIds)
      /\ Len(queue') = Len(queue) - 1
      /\ cur' \in JobIds /\ cur' \in Range(queue)
      /\ Range(queue') = Range(queue) \ {cur'}
      /\ IsInjective(queue')
  BY <1>1, Received
<1>3. cur' # NoJob /\ status[cur'] = "queued" /\ pusher[cur'] \in {"none", "sent"}
  BY <1>2 DEF OneTicket, NoJob, JobIds
<1>4. TypeOK'
  BY <1>1, <1>2, ManagerAssumption DEF TypeOK
<1>5. KnownIds' /\ LockPlace' /\ OneActivePerItem'
  BY DEF KnownIds, LockPlace, OneActivePerItem
<1>6. LoopPlace'
  BY <1>3 DEF LoopPlace
<1>7. OneTicket'
  BY <1>2, <1>3 DEF OneTicket
<1>8. QueuedHasTicket'
  BY <1>1, <1>2, <1>3 DEF QueuedHasTicket, NoJob, JobIds
<1>9. ListedIsKnown'
  BY DEF ListedIsKnown
<1>10. QED BY <1>4, <1>5, <1>6, <1>7, <1>8, <1>9

LEMMA LookupInv ==
    ASSUME IInv, Lookup
    PROVE  IInv'
<1> USE DEF IInv, Lookup, jobVars, reqVars, chanVars
<1>1. cur \in JobIds /\ cur # NoJob /\ status[cur] = "queued"
  BY DEF LoopPlace, TypeOK
<1>2. cur \in 1..idSeq
  BY <1>1 DEF KnownIds, TypeOK, JobIds
<1>3. cur \in jobsMap
  BY <1>1, <1>2 DEF ListedIsKnown
<1>4. loop' = "mark" /\ cur' = cur
  BY <1>3
<1>5. TypeOK' /\ KnownIds' /\ LockPlace' /\ OneActivePerItem'
  BY <1>4 DEF TypeOK, KnownIds, LockPlace, OneActivePerItem
<1>6. LoopPlace' /\ OneTicket' /\ QueuedHasTicket' /\ ListedIsKnown'
  BY <1>1, <1>4 DEF LoopPlace, OneTicket, QueuedHasTicket, ListedIsKnown
<1>7. QED BY <1>5, <1>6

\* A step of loop that changes the status of the job in its hands.
LEMMA StatusInv ==
    ASSUME IInv, NEW v \in {"running", "done", "failed"},
           \/ StartJob /\ v = "running"
           \/ EndJob(v) /\ v # "running"
    PROVE  IInv'
<1> USE DEF IInv, jobVars, reqVars, chanVars
<1>1. /\ status' = [status EXCEPT ![cur] = v]
      /\ \/ loop = "mark" /\ v = "running" /\ loop' = "run" /\ cur' = cur
         \/ loop = "run" /\ v # "running" /\ loop' = "recv" /\ cur' = NoJob
      /\ UNCHANGED <<closed, mu, jobsMap, order, idSeq, item, queue, queueClosed,
                     pusher, pc, ids, crashed, misread>>
  BY DEF StartJob, EndJob, Ended
<1>2. /\ cur \in JobIds /\ cur # NoJob
      /\ status[cur] = IF loop = "mark" THEN "queued" ELSE "running"
  BY <1>1 DEF LoopPlace, TypeOK
<1>3. status'[cur] = v /\ \A k \in JobIds \ {cur} : status'[k] = status[k]
  BY <1>1, <1>2 DEF TypeOK
<1>4. TypeOK'
  BY <1>1, <1>2 DEF TypeOK
<1>5. KnownIds'
  <2>1. \A k \in JobIds : status'[k] = "none" <=> status[k] = "none"
    BY <1>2, <1>3
  <2>2. QED BY <1>1, <2>1 DEF KnownIds
<1>6. LoopPlace'
  <2>1. \A k \in JobIds : status'[k] = "running" => k = cur /\ v = "running"
    BY <1>1, <1>2, <1>3 DEF LoopPlace
  <2>2. QED BY <1>1, <1>2, <1>3, <2>1 DEF LoopPlace
<1>7. LockPlace'
  BY <1>1 DEF LockPlace
<1>8. OneActivePerItem'
  <2>1. Range(order) \subseteq JobIds
    BY RangeEquality, RangeOfSeq DEF TypeOK
  <2>2. \A k \in JobIds : status'[k] \in ActiveStatus => status[k] \in ActiveStatus
    BY <1>2, <1>3 DEF ActiveStatus
  <2>3. QED BY <1>1, <2>1, <2>2 DEF OneActivePerItem
<1>9. OneTicket'
  <2>1. Range(queue) \subseteq JobIds
    BY RangeEquality, RangeOfSeq DEF TypeOK
  <2>2. NoJob \notin JobIds
    BY DEF NoJob, JobIds
  <2>3. QED BY <1>1, <1>2, <1>3, <2>1, <2>2 DEF OneTicket
<1>10. QueuedHasTicket'
  BY <1>1, <1>2, <1>3 DEF QueuedHasTicket
<1>11. ListedIsKnown'
  <2>1. 1..idSeq \subseteq JobIds
    BY ManagerAssumption DEF TypeOK, JobIds
  <2>2. \A k \in JobIds : status'[k] = "queued" => status[k] = "queued" /\ k # cur
    BY <1>2, <1>3
  <2>3. QED BY <1>1, <2>1, <2>2 DEF ListedIsKnown
<1>12. QED
  BY <1>4, <1>5, <1>6, <1>7, <1>8, <1>9, <1>10, <1>11

LEMMA LoopExitsInv ==
    ASSUME IInv, LoopExits
    PROVE  IInv'
BY DEF IInv, LoopExits, Drained, jobVars, reqVars, chanVars, TypeOK, KnownIds, LoopPlace,
       LockPlace, OneActivePerItem, OneTicket, QueuedHasTicket, ListedIsKnown

LEMMA CloseInv ==
    ASSUME IInv, CloseMark \/ CloseQueue
    PROVE  IInv'
<1> USE DEF IInv, CloseMark, CloseQueue
<1>1. LoopPlace' /\ OneActivePerItem' /\ OneTicket'
      /\ QueuedHasTicket' /\ ListedIsKnown'
  BY JobsUntouched DEF chanVars
<1>2. TypeOK'
  BY DEF TypeOK, jobVars, chanVars, loopVars, reqVars
<1>3. KnownIds'
  BY DEF KnownIds, jobVars, chanVars, loopVars, reqVars
<1>4. LockPlace'
  BY DEF LockPlace, reqVars, chanVars
<1>5. QED BY <1>1, <1>2, <1>3, <1>4

-----------------------------------------------------------------------------

LEMMA NextInv == IInv /\ [Next]_vars => IInv'
<1> SUFFICES ASSUME IInv, [Next]_vars PROVE IInv'
  OBVIOUS
<1>1. ASSUME NEW r \in Requests, NEW w \in Wants, Ask(r, w) PROVE IInv'
  BY <1>1, AskInv
<1>2. ASSUME NEW r \in Requests, Enqueue(r) PROVE IInv'
  <2>1. ASSUME NEW found \in Found, Resolve(r, found) PROVE IInv'
    BY <2>1, ResolveInv
  <2>2. CASE Lock(r)
    BY <2>2, LockInv
  <2>3. ASSUME NEW torn \in {FALSE, loop = "mark"},
               ReuseJob(r, torn) \/ CreateJob(r, torn)
        PROVE  IInv'
    <3>1. torn \in BOOLEAN /\ (torn => loop = "mark")
      BY <2>3
    <3>2. QED BY <2>3, <3>1, ReuseJobInv, CreateJobInv
  <2>4. CASE Unlock(r)
    BY <2>4, UnlockInv
  <2>5. QED BY <1>2, <2>1, <2>2, <2>3, <2>4 DEF Enqueue
<1>3. ASSUME NEW j \in JobIds, Pusher(j) PROVE IInv'
  BY <1>3, PusherInv
<1>4. CASE Loop
  <2>1. CASE Recv
    BY <2>1, RecvInv
  <2>2. CASE Lookup
    BY <2>2, LookupInv
  <2>3. CASE StartJob
    BY <2>3, StatusInv
  <2>4. ASSUME NEW v \in {"done", "failed"}, EndJob(v) PROVE IInv'
    BY <2>4, StatusInv
  <2>5. CASE LoopExits
    BY <2>5, LoopExitsInv
  <2>6. QED BY <1>4, <2>1, <2>2, <2>3, <2>4, <2>5 DEF Loop
<1>5. CASE CloseMark \/ CloseQueue
  BY <1>5, CloseInv
<1>6. CASE UNCHANGED vars
  <2>1. LoopPlace' /\ OneActivePerItem' /\ OneTicket'
        /\ QueuedHasTicket' /\ ListedIsKnown'
    BY <1>6, JobsUntouched DEF vars, chanVars
  <2>2. TypeOK' /\ KnownIds' /\ LockPlace'
    BY <1>6 DEF vars, IInv, TypeOK, KnownIds, LockPlace, jobVars, chanVars,
                loopVars, reqVars
  <2>3. QED BY <2>1, <2>2 DEF IInv
<1>7. QED
  BY <1>1, <1>2, <1>3, <1>4, <1>5, <1>6 DEF Next, Terminated

LEMMA Invariant == Spec => []IInv
BY InitInv, NextInv, PTL DEF Spec

-----------------------------------------------------------------------------

(***************************************************************************)
(* Every variable keeps its type; the channel and the history keep their   *)
(* bounds.                                                                 *)
(***************************************************************************)
THEOREM TypeCorrect == Spec => []TypeOK
<1>1. IInv => TypeOK
  BY DEF IInv
<1>2. QED BY <1>1, Invariant, PTL

(***************************************************************************)
(* Two listed active jobs for one item need a misread of the older one.    *)
(***************************************************************************)
THEOREM DedupHolds == Spec => []OneActivePerItem
<1>1. IInv => OneActivePerItem
  BY DEF IInv
<1>2. QED BY <1>1, Invariant, PTL

(***************************************************************************)
(* An id is never in two places on its way to runOne, nor after the start. *)
(***************************************************************************)
THEOREM TicketsUnique == Spec => []OneTicket
<1>1. IInv => OneTicket
  BY DEF IInv
<1>2. QED BY <1>1, Invariant, PTL

(***************************************************************************)
(* A queued job is on its way unless its overflow goroutine gave up.       *)
(***************************************************************************)
THEOREM NoLostJob == Spec => []QueuedHasTicket
<1>1. IInv => QueuedHasTicket
  BY DEF IInv
<1>2. QED BY <1>1, Invariant, PTL

(***************************************************************************)
(* Listed jobs can be looked up; forgotten ones do not wait to run.        *)
(***************************************************************************)
THEOREM ListedKnown == Spec => []ListedIsKnown
<1>1. IInv => ListedIsKnown
  BY DEF IInv
<1>2. QED BY <1>1, Invariant, PTL

(***************************************************************************)
(* The channel is open whenever an Enqueue pushes into it.                 *)
(***************************************************************************)
THEOREM NoPushOnClosedQueue == Spec => []QueueOpenUnderLock
<1>1. IInv => QueueOpenUnderLock
  BY DEF IInv, LockPlace, QueueOpenUnderLock
<1>2. QED BY <1>1, Invariant, PTL

(***************************************************************************)
(* After Close has marked the manager no job is created.                   *)
(***************************************************************************)
THEOREM NothingAfterClose == Spec => ClosedCreatesNothing
<1>1. IInv /\ [Next]_vars => [closed => idSeq' = idSeq]_vars
  <2> SUFFICES ASSUME IInv, Next, closed PROVE UNCHANGED idSeq
    BY DEF vars
  <2>1. \A r \in Requests, torn \in BOOLEAN : ~CreateJob(r, torn)
    <3> SUFFICES ASSUME NEW r \in Requests, mu = r PROVE FALSE
      BY DEF CreateJob
    <3>1. QED BY ManagerAssumption DEF IInv, LockPlace
  <2>2. QED
    BY <2>1 DEF Next, Ask, Enqueue, Resolve, Lock, Refuses, ReuseJob, Unlock, Pusher,
       PusherCheck, PusherSend, PushEnds, PusherTimeout, PusherPanics, Loop, Recv, OldestId,
       Lookup, StartJob, EndJob, Ended, LoopExits, Drained, CloseMark, CloseQueue, Terminated,
       jobVars, vars
<1>2. QED BY <1>1, Invariant, PTL DEF Spec, ClosedCreatesNothing

-----------------------------------------------------------------------------
(* The order in which jobs start. *)

\* Of the jobs that found room in the channel, the one in loop's hands is the
\* oldest that has not started, and those behind it come in their order.
InOrder ==
    /\ \A a, b \in 1 .. Len(queue) :
          a < b /\ pusher[queue[a]] = "none" /\ pusher[queue[b]] = "none"
            => queue[a] < queue[b]
    /\ cur # NoJob /\ pusher[cur] = "none" =>
          \A a \in 1 .. Len(queue) : pusher[queue[a]] = "none" => cur < queue[a]

\* What is in the channel, or in loop's hands, are ids in use.
LEMMA UsedIds ==
    ASSUME IInv
    PROVE  /\ queue \in Seq(JobIds) /\ Len(queue) \in Nat
           /\ \A a \in 1 .. Len(queue) :
                 queue[a] \in Range(queue) /\ queue[a] \in JobIds
                 /\ queue[a] <= idSeq
           /\ cur # NoJob => cur \in JobIds /\ cur <= idSeq
           /\ idSeq \in Nat
<1>1. /\ queue \in Seq(JobIds) /\ idSeq \in Nat
      /\ cur # NoJob => cur \in JobIds
  BY ManagerAssumption DEF IInv, TypeOK
<1>2. Range(queue) = {queue[a] : a \in 1 .. Len(queue)}
  BY <1>1, RangeEquality
<1>3. \A j \in JobIds : status[j] # "none" => j <= idSeq
  BY <1>1, ManagerAssumption DEF IInv, KnownIds, JobIds
<1>4. cur # NoJob => status[cur] # "none"
  BY DEF IInv, LoopPlace, TypeOK
<1>5. \A j \in Range(queue) : status[j] # "none"
  BY DEF IInv, OneTicket
<1>6. QED BY <1>1, <1>2, <1>3, <1>4, <1>5

\* Enqueue appends the newest id, or leaves it to a goroutine.
LEMMA CreateInOrder ==
    ASSUME IInv, InOrder, NEW r \in Requests, NEW torn \in BOOLEAN,
           CreateJob(r, torn)
    PROVE  InOrder'
<1> DEFINE j == idSeq + 1
<1>1. /\ j \in JobIds /\ cur' = cur
      /\ \/ queue' = Append(queue, j) /\ pusher' = pusher
         \/ queue' = queue /\ pusher' = [pusher EXCEPT ![j] = "check"]
  BY DEF CreateJob, Push, loopVars
<1>2. /\ queue \in Seq(JobIds) /\ Len(queue) \in Nat
      /\ \A a \in 1 .. Len(queue) :
            queue[a] \in JobIds /\ queue[a] < j /\ queue[a] # j
      /\ cur # NoJob => cur \in JobIds /\ cur < j /\ cur # j
  BY <1>1, UsedIds DEF JobIds
<1>3. pusher \in [JobIds -> {"none", "check", "send", "sent", "dropped"}]
  BY DEF IInv, TypeOK
<1> HIDE DEF j
<1>4. CASE queue' = Append(queue, j) /\ pusher' = pusher
  <2>1. /\ Len(queue') = Len(queue) + 1
        /\ \A a \in 1 .. Len(queue) : queue'[a] = queue[a]
        /\ queue'[Len(queue) + 1] = j
    BY <1>1, <1>2, <1>4, AppendProperties
  <2>2. \A a \in 1 .. Len(queue') : a \in 1 .. Len(queue) \/ a = Len(queue) + 1
    BY <1>2, <2>1
  <2>3. \A a, b \in 1 .. Len(queue') :
          a < b => a \in 1 .. Len(queue)
    BY <1>2, <2>1
  <2>4. QED BY <1>1, <1>2, <1>4, <2>1, <2>2, <2>3 DEF InOrder
<1>5. CASE queue' = queue /\ pusher' = [pusher EXCEPT ![j] = "check"]
  <2>1. \A k \in JobIds \ {j} : pusher'[k] = pusher[k]
    BY <1>3, <1>5
  <2>2. QED BY <1>1, <1>2, <1>5, <2>1 DEF InOrder
<1>6. QED BY <1>1, <1>4, <1>5

\* What a goroutine appends is not of those that found room.
LEMMA PusherInOrder ==
    ASSUME IInv, InOrder, NEW j \in JobIds, PusherSend(j)
    PROVE  InOrder'
<1>1. /\ queue' = Append(queue, j) /\ cur' = cur /\ pusher[j] = "send"
      /\ pusher' = [pusher EXCEPT ![j] = "sent"]
  BY DEF PusherSend, PushEnds, loopVars
<1>2. /\ queue \in Seq(JobIds) /\ Len(queue) \in Nat
      /\ \A a \in 1 .. Len(queue) : queue[a] \in JobIds
      /\ cur # NoJob => cur \in JobIds
  BY UsedIds
<1>3. pusher'[j] = "sent" /\ \A k \in JobIds \ {j} : pusher'[k] = pusher[k]
  BY <1>1 DEF IInv, TypeOK
<1>4. \A k \in JobIds : pusher'[k] = "none" => pusher[k] = "none"
  BY <1>3
<1>5. /\ Len(queue') = Len(queue) + 1
      /\ \A a \in 1 .. Len(queue) : queue'[a] = queue[a]
      /\ queue'[Len(queue) + 1] = j
  BY <1>1, <1>2, AppendProperties
<1>6. \A a \in 1 .. Len(queue') :
        pusher'[queue'[a]] = "none" =>
            /\ a \in 1 .. Len(queue) /\ queue'[a] = queue[a]
            /\ pusher[queue[a]] = "none"
  <2>1. \A a \in 1 .. Len(queue') : a \in 1 .. Len(queue) \/ a = Len(queue) + 1
    BY <1>2, <1>5
  <2>2. QED BY <1>2, <1>3, <1>4, <1>5, <2>1
<1>7. QED BY <1>1, <1>2, <1>4, <1>6 DEF InOrder

\* loop takes the first of them.
LEMMA RecvInOrder ==
    ASSUME IInv, InOrder, Recv
    PROVE  InOrder'
<1>1. /\ queue # <<>> /\ cur' = Head(queue) /\ queue' = Tail(queue)
      /\ pusher' = pusher
  BY DEF Recv, OldestId
<1>2. queue \in Seq(JobIds)
  BY UsedIds
<1>3. /\ cur' = queue[1] /\ Len(queue) \in Nat \ {0}
      /\ Len(queue') = Len(queue) - 1
      /\ \A a \in 1 .. Len(queue) - 1 : queue'[a] = queue[a + 1]
  BY <1>1, <1>2, HeadTailProperties, EmptySeq
<1>4. \A a \in 1 .. Len(queue') :
        queue'[a] = queue[a + 1] /\ a + 1 \in 1 .. Len(queue) /\ 1 < a + 1
  BY <1>3
<1>5. \A a, b \in 1 .. Len(queue') : a < b => a + 1 < b + 1
  BY <1>3
<1>6. 1 \in 1 .. Len(queue)
  BY <1>3
<1>7. QED BY <1>1, <1>3, <1>4, <1>5, <1>6 DEF InOrder

\* All other steps.
LEMMA OthersInOrder ==
    ASSUME IInv, InOrder, queue' = queue, cur' \in {cur, NoJob},
           \A k \in JobIds : pusher'[k] = "none" => pusher[k] = "none"
    PROVE  InOrder'
<1>1. /\ \A a \in 1 .. Len(queue) : queue[a] \in JobIds
      /\ cur # NoJob => cur \in JobIds
  BY UsedIds
<1>2. QED BY <1>1 DEF InOrder

LEMMA NextInOrder == IInv /\ InOrder /\ [Next]_vars => InOrder'
<1> SUFFICES ASSUME IInv, InOrder, [Next]_vars PROVE InOrder'
  OBVIOUS
<1>1. ASSUME NEW r \in Requests, Enqueue(r) PROVE InOrder'
  <2>1. ASSUME NEW torn \in {FALSE, loop = "mark"}, CreateJob(r, torn)
        PROVE  InOrder'
    BY <2>1, CreateInOrder
  <2>2. CASE \/ \E found \in Found : Resolve(r, found)
             \/ Lock(r) \/ Unlock(r)
             \/ \E torn \in {FALSE, loop = "mark"} : ReuseJob(r, torn)
    <3>1. UNCHANGED <<queue, cur, pusher>>
      BY <2>2 DEF Resolve, Lock, Unlock, ReuseJob, chanVars, loopVars
    <3>2. QED BY <3>1, OthersInOrder
  <2>3. QED BY <1>1, <2>1, <2>2 DEF Enqueue
<1>2. ASSUME NEW j \in JobIds, Pusher(j) PROVE InOrder'
  <2>1. CASE PusherSend(j)
    BY <2>1, PusherInOrder
  <2>2. CASE PusherCheck(j) \/ PusherTimeout(j) \/ PusherPanics(j)
    <3>1. queue' = queue /\ cur' = cur
      BY <2>2 DEF PusherCheck, PusherTimeout, PusherPanics, chanVars, loopVars
    <3>2. \A k \in JobIds : pusher'[k] = "none" => pusher[k] = "none"
      BY <2>2 DEF PusherCheck, PusherTimeout, PusherPanics, IInv, TypeOK
    <3>3. QED BY <3>1, <3>2, OthersInOrder
  <2>3. QED BY <1>2, <2>1, <2>2 DEF Pusher
<1>3. CASE Recv
  BY <1>3, RecvInOrder
<1>4. CASE \/ Lookup \/ StartJob \/ LoopExits \/ CloseMark \/ CloseQueue
           \/ UNCHANGED vars
           \/ \E v \in {"done", "failed"} : EndJob(v)
           \/ \E r \in Requests, w \in Wants : Ask(r, w)
  <2>1. queue' = queue /\ cur' \in {cur, NoJob} /\ pusher' = pusher
    BY <1>4 DEF Lookup, StartJob, LoopExits, CloseMark, CloseQueue, EndJob,
       Ask, chanVars, loopVars, vars
  <2>2. QED BY <2>1, OthersInOrder
<1>5. QED BY <1>1, <1>2, <1>3, <1>4 DEF Next, Loop, Terminated

(***************************************************************************)
(* Jobs that found room in the channel start in the order of their ids,    *)
(* whoever enqueues, overflows, times out or closes meanwhile (the one     *)
(* loop of downloads.go 178 and 365-375).                                  *)
(***************************************************************************)
THEOREM StartsInOrderTheorem == Spec => StartsInOrder
<1>1. Init => InOrder
  BY DEF Init, InOrder
<1>2. ASSUME IInv, InOrder, [Next]_vars, ~UNCHANGED vars,
             NEW i \in JobIds, NEW j \in JobIds, i < j,
             pusher[i] = "none", pusher[j] = "none",
             status[j] = "queued", status'[j] = "running", status[i] = "queued"
      PROVE  FALSE
  <2>1. j = cur /\ cur # NoJob
    <3>1. IInv'
      BY <1>2, NextInv
    <3>2. j = cur' /\ loop' = "run"
      BY <1>2, <3>1 DEF IInv, LoopPlace
    <3>3. loop # "run" \/ j # cur
      BY <1>2 DEF IInv, LoopPlace
    <3>4. cur' = cur
      BY <1>2, <3>2, <3>3 DEF Next, Ask, Enqueue, Resolve, Lock, ReuseJob, CreateJob,
         Unlock, Pusher, PusherCheck, PusherSend, PusherTimeout, PusherPanics,
         Loop, Recv, Lookup, StartJob, EndJob, LoopExits, CloseMark,
         CloseQueue, Terminated, loopVars, vars
    <3>5. QED BY <3>2, <3>4 DEF NoJob, JobIds
  <2>2. i \in Range(queue)
    BY <1>2, <2>1 DEF IInv, QueuedHasTicket, JobIds
  <2>3. PICK a \in 1 .. Len(queue) : queue[a] = i
    BY <2>2, UsedIds, RangeEquality, <1>2
  <2>4. cur < i
    BY <1>2, <2>1, <2>3 DEF InOrder
  <2>5. QED BY <1>2, <2>1, <2>4 DEF JobIds
<1>3. IInv /\ InOrder /\ [Next]_vars
        => [\A i, j \in JobIds :
              /\ i < j
              /\ pusher[i] = "none" /\ pusher[j] = "none"
              /\ status[j] = "queued" /\ status'[j] = "running"
              => status[i] # "queued"]_vars
  BY <1>2
<1>4. QED
  BY <1>1, <1>3, NextInOrder, Invariant, PTL DEF Spec, StartsInOrder

-----------------------------------------------------------------------------

(***************************************************************************)
(* The manager implements JobLifecycle: every job is queued, runs at most  *)
(* once and ends once, one job at a time.                                  *)
(***************************************************************************)
THEOREM ImplementsLifecycle == Spec => LifecycleKept
<1>1. Init => Lifecycle!Init
  BY DEF Init, Lifecycle!Init
<1>2. IInv /\ [Next]_vars => [Lifecycle!Next]_status
  <2> SUFFICES ASSUME IInv, [Next]_vars
               PROVE  Lifecycle!Next \/ UNCHANGED status
    OBVIOUS
  <2>1. ASSUME NEW r \in Requests, NEW torn \in BOOLEAN, CreateJob(r, torn)
        PROVE  Lifecycle!Next
    <3>1. /\ idSeq + 1 \in JobIds
          /\ status' = [status EXCEPT ![idSeq + 1] = "queued"]
      BY <2>1 DEF CreateJob
    <3>2. idSeq \in Nat
      BY ManagerAssumption DEF IInv, TypeOK
    <3>3. status[idSeq + 1] = "none"
      BY <3>1, <3>2 DEF IInv, KnownIds
    <3>4. Lifecycle!Create(idSeq + 1)
      BY <3>1, <3>3 DEF Lifecycle!Create
    <3>5. QED BY <3>1, <3>4 DEF Lifecycle!Next
  <2>2. CASE StartJob
    <3>1. /\ cur \in JobIds /\ status[cur] = "queued"
          /\ \A i \in JobIds : status[i] # "running"
          /\ status' = [status EXCEPT ![cur] = "running"]
      BY <2>2 DEF StartJob, IInv, LoopPlace, TypeOK
    <3>2. Lifecycle!Start(cur)
      BY <3>1 DEF Lifecycle!Start
    <3>3. QED BY <3>1, <3>2 DEF Lifecycle!Next
  <2>3. ASSUME NEW v \in {"done", "failed"}, EndJob(v) PROVE Lifecycle!Next
    <3>1. /\ cur \in JobIds /\ status[cur] = "running"
          /\ status' = [status EXCEPT ![cur] = v]
      BY <2>3 DEF EndJob, Ended, IInv, LoopPlace, TypeOK
    <3>2. Lifecycle!End(cur)
      BY <3>1 DEF Lifecycle!End
    <3>3. QED BY <3>1, <3>2 DEF Lifecycle!Next
  <2>4. CASE UNCHANGED vars
    BY <2>4 DEF vars, jobVars
  <2>5. ASSUME NEW r \in Requests, Enqueue(r)
        PROVE  UNCHANGED status \/ \E torn \in BOOLEAN : CreateJob(r, torn)
    BY <2>5 DEF Enqueue, Resolve, Lock, Refuses, ReuseJob, Unlock, jobVars
  <2>6. ASSUME NEW r \in Requests, NEW w \in Wants, Ask(r, w)
        PROVE  UNCHANGED status
    BY <2>6 DEF Ask, jobVars
  <2>7. ASSUME NEW j \in JobIds, Pusher(j) PROVE UNCHANGED status
    BY <2>7 DEF Pusher, PusherCheck, PusherSend, PushEnds, PusherTimeout, PusherPanics,
                jobVars
  <2>8. CASE Recv \/ Lookup \/ LoopExits \/ CloseMark \/ CloseQueue
    BY <2>8 DEF Recv, OldestId, Lookup, LoopExits, Drained, CloseMark, CloseQueue, jobVars
  <2>9. QED
    BY <2>1, <2>2, <2>3, <2>4, <2>5, <2>6, <2>7, <2>8
       DEF Next, Loop, Terminated
<1>3. QED BY <1>1, <1>2, Invariant, PTL DEF Spec, LifecycleKept, Lifecycle!Spec
=============================================================================
