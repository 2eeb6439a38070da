------------------------------ MODULE CMProofs ------------------------------
(***************************************************************************)
(* The CM client, its login and its link, for every value of the constants.*)
(*                                                                         *)
(* CMClient, for every number of connections, calls, attempts and job ids: *)
(* the client loses no socket, beats while it is logged on, returns the    *)
(* answer to the job it sent last, and does not panic on its first         *)
(* connection.                                                             *)
(*                                                                         *)
(* CMLogin, for every answer of the Web API: the login tries every server  *)
(* before it tries one again, and the loop around the client leaves what   *)
(* holds of the client as it is.                                           *)
(*                                                                         *)
(* ProxiedLink, for every kind of proxy, answer of it and writers: the     *)
(* dialer closes the connection or returns it right behind the answer, and *)
(* what is written to it is whole frames, while no goroutine writes into   *)
(* the frame of another.                                                   *)
(***************************************************************************)
EXTENDS CMLogin, ProxiedLink, Integers, SequenceTheorems, FiniteSetTheorems,
        TLAPS

-----------------------------------------------------------------------------
(* THE CLIENT                                                              *)

-----------------------------------------------------------------------------
(* The inductive invariant, in five parts. *)

\* From Connect to Adopt the client has no connection, so that the one that
\* was just dialled is the only open socket.
Sockets ==
    /\ SocketOwned
    /\ pc \in {"dial", "adopt"} => conn = 0
    /\ pc = "adopt" => nconns # 0

\* A connection has no reader before it is adopted, and a reader that runs
\* captured a connection.
Readers ==
    \A k \in Conns :
        /\ k > nconns \/ (pc = "adopt" /\ k = nconns) => reader[k] = "none"
        /\ reader[k] \in {"read", "decrypt", "lookup", "deliver"} => rconn[k] # 0
        /\ reader[k] = "deliver" => rref[k] # 0

\* m answers what the caller waits for.
Awaited(m) == m.kind = want /\ m.job = WaitedJob

\* There is one waiter at most, while the caller waits; what is in its
\* channel, or about to be, is what it waits for.
Waiters ==
    /\ pc \in {"send", "register", "wait"} => want # "none"
    /\ pc # "wait" => reg = {}
    /\ \A r \in reg : Awaited(r) /\ r.id = nwaits
    /\ \A w \in WaitIds : w > nwaits => box[w] = NoMsg
    /\ pc = "wait" =>
          /\ nwaits # 0
          /\ box[nwaits] = NoMsg \/ Awaited(box[nwaits])
          /\ \A k \in Conns : reader[k] = "deliver" /\ rref[k] = nwaits
                                => Awaited(rmsg[k])

\* Waits that the login over the current connection, or the job in hand, may
\* still need.
WaitsToCome ==
    LET needed == CASE want = "encReq" -> 3
                    [] want = "encRes" -> 2
                    [] want = "logon" -> 1
                    [] OTHER -> 0
    IN  CASE pc = "adopt" -> 3
          [] pc \in {"send", "register"} /\ want # "reply" -> needed
          [] pc = "wait" /\ want # "reply" -> needed - 1
          [] pc = "register" /\ want = "reply" -> 1
          [] OTHER -> 0

\* One if the current attempt of a call has not sent its job yet.
SendsToCome ==
    IF \/ pc = "send" /\ want = "reply"
       \/ ret = "call" /\ pc \in {"connect", "dial", "adopt", "fail", "beat"}
       \/ ret = "call" /\ pc \in {"send", "register", "wait"} /\ want # "reply"
      THEN 1
      ELSE 0

\* Jobs that the calls to come may send.
CallsToCome == (MaxCalls - ncalls) * UMRetries

Budget ==
    /\ nwaits + WaitsToCome <= 3 * nconns + sends
    /\ sends + tries + SendsToCome + CallsToCome <= MaxSends

\* A reply says which send it answers, and until ids are used again its job
\* id says the same.
Honest(m) ==
    /\ m.send <= sends
    /\ m.kind = "reply" /\ sends <= JobCycle => m.job = m.send

Jobs ==
    /\ \A k \in Conns : Honest(rmsg[k]) /\ \A m \in wire[k] : Honest(m)
    /\ \A w \in WaitIds : Honest(box[w])
    /\ sends < JobCycle => nextJob = sends + 1
    /\ sends <= JobCycle /\ want = "reply" /\ pc \in {"register", "wait"}
          => job = sends
    /\ answer = "ok" => pc \in {"ready", "closed"}
    /\ RightAnswer

\* On the first connection a channel is closed by the reader alone, which is
\* gone then.
FirstReader ==
    /\ nconns <= 1 /\ shut # {} => nconns = 1 /\ reader[1] = "gone"
    /\ FirstConnectionSafe

IInv ==
    TypeOK /\ Sockets /\ Readers /\ Waiters /\ Budget /\ Jobs /\ FirstReader

-----------------------------------------------------------------------------
(* TypeOK in parts. *)

LinkTypes ==
    /\ conn \in 0..nconns
    /\ nconns \in 0..MaxConns
    /\ transport \in [Conns -> {"none", "tcp", "wss"}]
    /\ sock \in [Conns -> {"none", "open", "closed"}]
    /\ key \in 0..nconns

FlagTypes ==
    /\ channelOK \in BOOLEAN
    /\ loggedOn \in BOOLEAN
    /\ beat \in BOOLEAN
    /\ crashed \in BOOLEAN

MessageTypes ==
    /\ wire \in [Conns -> SUBSET Msgs]
    /\ box \in [WaitIds -> Msgs]
    /\ rmsg \in [Conns -> Msgs]

WaiterTypes ==
    /\ reg \subseteq [kind : LoginKinds \cup {"reply"}, job : 0..JobCycle,
                      id : WaitIds]
    /\ nwaits \in 0..MaxWaits
    /\ shut \subseteq WaitIds
    /\ reader \in [Conns -> {"none", "start", "read", "decrypt", "lookup",
                             "deliver", "gone"}]
    /\ rconn \in [Conns -> 0..nconns]
    /\ rref \in [Conns -> 0..nwaits]

CallerTypes ==
    /\ pc \in {"new", "ready", "closed", "attempt", "connect", "dial", "adopt",
               "send", "register", "wait", "beat", "fail"}
    /\ want \in LoginKinds \cup {"reply", "none"}
    /\ left \in Nat
    /\ last \in {"none", "soft", "hard"}
    /\ ret \in {"session", "call"}
    /\ tries \in 0..UMRetries
    /\ nextJob \in 1..JobCycle
    /\ job \in 0..JobCycle
    /\ sends \in 0..MaxSends
    /\ ncalls \in 0..MaxCalls
    /\ answer \in {"none", "ok", "error"}
    /\ got \in 0..sends

\* The types after a step, put together from their parts.
LEMMA Types ==
    LinkTypes' /\ FlagTypes' /\ MessageTypes' /\ WaiterTypes' /\ CallerTypes'
        => TypeOK'
  BY DEF TypeOK, LinkTypes, FlagTypes, MessageTypes, WaiterTypes, CallerTypes

-----------------------------------------------------------------------------
(* The actions, by what they do to the state that is shared.               *)

\* The caller goes on, and nothing else happens.
Moves ==
    \/ StartSession \/ StartUM \/ GetDepotKey \/ Attempt \/ LoginGivesUp
    \/ DialFails

\* The caller disconnects.
Drops == CloseSession \/ Connect \/ LoginFailed

\* The caller stops waiting.
WaitEnds ==
    \/ WaitFails \/ GotEncReq \/ GotEncRes \/ GotLogon
    \/ \E v \in {"soft", "hard"} : LoginRefused(v)
    \/ \E v \in {"ok", "soft", "hard"} : GotReply(v)

\* A reader disconnects.
ReaderDrops(k) == ReadFails(k) \/ DecryptFails(k)

\* A reader has a message, and decrypts it or drops it.
ReaderMoves(k) == Decrypt(k) \/ DecryptSkipped(k)

\* Every step is of one of these kinds.
LEMMA StepKinds ==
    ASSUME [Next]_vars
    PROVE  \/ Moves \/ SendFails \/ Drops \/ Adopt
           \/ \E t \in {"tcp", "wss"} : DialOK(t)
           \/ StartHeartbeat \/ SendOK \/ Register \/ WaitEnds
           \/ \E k \in Conns : \/ Capture(k) \/ ReadMsg(k) \/ ReaderDrops(k)
                               \/ ReaderMoves(k) \/ Lookup(k) \/ Deliver(k)
           \/ UNCHANGED vars
  BY DEF Next, Login, Exchange, Reader, Terminated, Moves, Drops, WaitEnds,
         ReaderDrops, ReaderMoves

(***************************************************************************)
(* Without a waiter, Disconnect closes no channel.                         *)
(***************************************************************************)
LEMMA Disconnects ==
    ASSUME IInv, Disconnect
    PROVE  /\ conn' = 0 /\ key' = 0 /\ channelOK' = FALSE /\ loggedOn' = FALSE
           /\ beat' = FALSE /\ reg' = {}
           /\ sock' \in [Conns -> {"none", "open", "closed"}]
           /\ \A k \in Conns : sock'[k] = "open" => sock[k] = "open" /\ k # conn
           /\ shut' \subseteq WaitIds
           /\ pc # "wait" => shut' = shut
<1> USE DEF IInv, Disconnect
<1>1. sock' = [k \in Conns |-> IF k = conn THEN "closed" ELSE sock[k]]
  BY DEF SocketsLeft
<1>2. sock' \in [Conns -> {"none", "open", "closed"}]
  BY <1>1 DEF TypeOK
<1>3. shut' \subseteq WaitIds
  BY DEF TypeOK
<1>4. pc # "wait" => shut' = shut
  BY DEF Waiters
<1>5. QED BY <1>1, <1>2, <1>3, <1>4 DEF LoginLeft

(***************************************************************************)
(* The budget leaves room for the waits and sends to come.                 *)
(***************************************************************************)
LEMMA BudgetLeft ==
    ASSUME IInv
    PROVE  /\ sends + SendsToCome <= MaxSends
           /\ nwaits + WaitsToCome <= MaxWaits
           /\ CallsToCome \in Nat /\ MaxSends \in Nat
<1>1. MaxCalls - ncalls \in Nat /\ UMRetries \in Nat
  BY ClientAssumption DEF IInv, TypeOK
<1>2. CallsToCome \in Nat
  BY <1>1 DEF CallsToCome
<1>3. MaxSends \in Nat
  BY ClientAssumption DEF MaxSends
<1>4. SendsToCome \in Nat /\ WaitsToCome \in Nat
  <2>1. SendsToCome \in {0, 1}
    BY DEF SendsToCome
  <2>2. pc = "wait" => want \in LoginKinds \cup {"reply"}
    BY DEF IInv, Waiters, TypeOK
  <2>3. WaitsToCome \in 0..3
    BY <2>2 DEF WaitsToCome, LoginKinds
  <2>4. QED BY <2>1, <2>3
<1>5. sends + SendsToCome <= MaxSends
  BY <1>2, <1>3, <1>4 DEF IInv, Budget, TypeOK
<1>6. 3 * nconns + sends <= MaxWaits
  BY <1>3, ClientAssumption DEF IInv, TypeOK, MaxWaits
<1>7. nwaits + WaitsToCome <= MaxWaits
  BY <1>3, <1>4, <1>6, ClientAssumption DEF IInv, Budget, TypeOK, MaxWaits
<1>8. QED BY <1>2, <1>3, <1>5, <1>7

(***************************************************************************)
(* A job that is sent is one of those the calls may send.                  *)
(***************************************************************************)
LEMMA NextJob ==
    ASSUME IInv, pc = "send"
    PROVE  /\ want = "reply" => sends + 1 <= MaxSends
           /\ sends <= MaxSends
           /\ NextID \in 1..JobCycle
<1>1. sends + SendsToCome <= MaxSends
  BY BudgetLeft
<1>2. want = "reply" => SendsToCome = 1
  BY DEF SendsToCome
<1>3. NextID \in 1..JobCycle
  BY ClientAssumption DEF IInv, TypeOK, NextID
<1>4. QED BY <1>1, <1>2, <1>3 DEF IInv, TypeOK, SendsToCome

(***************************************************************************)
(* A call takes its part of the jobs to come.                              *)
(***************************************************************************)
LEMMA CallTaken ==
    ASSUME IInv, ncalls' = ncalls + 1, ncalls < MaxCalls
    PROVE  CallsToCome' \in Nat /\ CallsToCome' + UMRetries = CallsToCome
<1>1. /\ MaxCalls - ncalls' \in Nat /\ UMRetries \in Nat
      /\ MaxCalls - ncalls = (MaxCalls - ncalls') + 1
  BY ClientAssumption DEF IInv, TypeOK
<1>2. \A m, u \in Nat : m * u \in Nat /\ m * u + u = (m + 1) * u
  OBVIOUS
<1>3. QED BY <1>1, <1>2 DEF CallsToCome

\* The caller's own steps: no channel, socket or job is touched; a call
\* that starts takes its part of the jobs to come.
LEMMA MovesInv == ASSUME IInv, Moves PROVE IInv'
<1> USE ClientAssumption DEF IInv
<1>1. UNCHANGED <<netVars, jobVars>>
  BY DEF Moves, StartSession, StartUM, GetDepotKey, Attempt, LoginGivesUp,
         DialFails, loginVars, jobVars, askVars
<1>2. LinkTypes'
  BY <1>1 DEF TypeOK, LinkTypes, netVars, linkVars, discVars, flagVars
<1>3. FlagTypes'
  BY <1>1 DEF TypeOK, FlagTypes, netVars, discVars, flagVars
<1>4. MessageTypes'
  BY <1>1 DEF TypeOK, MessageTypes, netVars, boxVars, readVars
<1>5. WaiterTypes'
  BY <1>1 DEF TypeOK, WaiterTypes, netVars, linkVars, discVars, boxVars,
       readVars
<1>6. CallerTypes'
  BY <1>1 DEF TypeOK, CallerTypes, Moves, StartSession, StartUM, GetDepotKey,
       Attempt, LoginGivesUp, DialFails, loginVars, askVars, jobVars
<1>7. Sockets'
  BY <1>1 DEF Sockets, SocketOwned, TypeOK, Moves, StartSession, StartUM,
       GetDepotKey, Attempt, LoginGivesUp, DialFails, netVars, linkVars,
       discVars
<1>8. Readers'
  BY <1>1 DEF Readers, TypeOK, Sockets, Moves, StartSession, StartUM,
       GetDepotKey, Attempt, LoginGivesUp, DialFails, netVars, linkVars,
       readVars
<1>9. Waiters'
  BY <1>1 DEF Waiters, Awaited, WaitedJob, TypeOK, Moves, StartSession,
       StartUM, GetDepotKey, Attempt, LoginGivesUp, DialFails, netVars,
       discVars, boxVars, readVars, jobVars
<1>10. Budget'
  <2>1. UNCHANGED <<nwaits, nconns, sends>>
    BY <1>1 DEF netVars, boxVars, linkVars, jobVars
  <2>2. CASE StartUM
    <3>1. ncalls < MaxCalls /\ ncalls' = ncalls + 1 /\ pc = "ready"
      BY <2>2 DEF StartUM
    <3>2. /\ tries' \in Nat /\ SendsToCome' \in Nat
          /\ tries' + SendsToCome' <= UMRetries
      BY <2>2 DEF StartUM, SendsToCome, loginVars
    <3>3. WaitsToCome = 0 /\ WaitsToCome' = 0
      BY <2>2 DEF StartUM, WaitsToCome
    <3>4. CallsToCome' \in Nat /\ CallsToCome' + UMRetries = CallsToCome
      BY <3>1, CallTaken
    <3>5. SendsToCome = 0
      BY <3>1 DEF SendsToCome
    <3>6. /\ sends \in Nat /\ tries \in Nat /\ UMRetries \in Nat
          /\ MaxSends \in Nat
          /\ CallsToCome \in Nat
      BY BudgetLeft DEF TypeOK
    <3>7. sends + tries + CallsToCome <= MaxSends
      BY <3>5, <3>6, BudgetLeft DEF Budget
    <3>8. \A t, p, c \in Nat :
             t + p <= UMRetries /\ c + UMRetries = CallsToCome
               => sends + t + p + c <= MaxSends
      BY <3>6, <3>7
    <3>9. sends + tries' + SendsToCome' + CallsToCome' <= MaxSends
      BY <3>2, <3>4, <3>8, Zenon
    <3>10. QED BY <2>1, <3>3, <3>9 DEF Budget
  <2>3. CASE GetDepotKey
    <3>1. ncalls < MaxCalls /\ ncalls' = ncalls + 1 /\ pc = "ready"
      BY <2>3 DEF GetDepotKey
    <3>2. /\ tries' \in Nat /\ SendsToCome' \in Nat
          /\ tries' + SendsToCome' <= UMRetries
      BY <2>3 DEF GetDepotKey, SendsToCome, loginVars
    <3>3. WaitsToCome = 0 /\ WaitsToCome' = 0
      BY <2>3 DEF GetDepotKey, WaitsToCome
    <3>4. CallsToCome' \in Nat /\ CallsToCome' + UMRetries = CallsToCome
      BY <3>1, CallTaken
    <3>5. SendsToCome = 0
      BY <3>1 DEF SendsToCome
    <3>6. /\ sends \in Nat /\ tries \in Nat /\ UMRetries \in Nat
          /\ MaxSends \in Nat
          /\ CallsToCome \in Nat
      BY BudgetLeft DEF TypeOK
    <3>7. sends + tries + CallsToCome <= MaxSends
      BY <3>5, <3>6, BudgetLeft DEF Budget
    <3>8. \A t, p, c \in Nat :
             t + p <= UMRetries /\ c + UMRetries = CallsToCome
               => sends + t + p + c <= MaxSends
      BY <3>6, <3>7
    <3>9. sends + tries' + SendsToCome' + CallsToCome' <= MaxSends
      BY <3>2, <3>4, <3>8, Zenon
    <3>10. QED BY <2>1, <3>3, <3>9 DEF Budget
  <2>4. CASE StartSession \/ Attempt \/ LoginGivesUp \/ DialFails
    <3>1. UNCHANGED ncalls /\ CallsToCome' = CallsToCome
      BY <2>4 DEF StartSession, Attempt, LoginGivesUp, DialFails, askVars,
         CallsToCome
    <3>2. WaitsToCome = 0 /\ WaitsToCome' = 0
      BY <2>4 DEF StartSession, Attempt, LoginGivesUp, DialFails, WaitsToCome
    <3>3. tries' + SendsToCome' <= tries + SendsToCome
      BY <2>4 DEF StartSession, Attempt, LoginGivesUp, DialFails,
         SendsToCome, TypeOK,
           askVars, loginVars
    <3>4. tries' \in Nat /\ SendsToCome' \in Nat
      BY <2>4 DEF StartSession, Attempt, LoginGivesUp, DialFails,
         SendsToCome, TypeOK,
           askVars, loginVars
    <3>5. SendsToCome \in Nat /\ sends \in Nat /\ tries \in Nat
      BY DEF SendsToCome, TypeOK
    <3>6. \A t, p \in Nat :
             t + p <= tries + SendsToCome
               => sends + t + p + CallsToCome <= MaxSends
      BY <3>5, BudgetLeft DEF Budget
    <3>7. sends + tries' + SendsToCome' + CallsToCome <= MaxSends
      BY <3>3, <3>4, <3>6, Zenon
    <3>8. QED BY <2>1, <3>1, <3>2, <3>7 DEF Budget
  <2>5. QED BY <2>2, <2>3, <2>4 DEF Moves
<1>11. Jobs'
  BY <1>1 DEF Jobs, Honest, RightAnswer, TypeOK, Moves, StartSession,
       StartUM, GetDepotKey, Attempt, LoginGivesUp, DialFails, askVars,
       netVars, boxVars, readVars, jobVars
<1>12. FirstReader'
  BY <1>1 DEF FirstReader, FirstConnectionSafe, TypeOK, netVars, linkVars,
       discVars, readVars
<1>13. QED BY <1>2, <1>3, <1>4, <1>5, <1>6, <1>7, <1>8, <1>9, <1>10, <1>11,
   <1>12, Types

\* A failed send uses up a job id all the same.
LEMMA SendFailsInv == ASSUME IInv, SendFails PROVE IInv'
<1> USE ClientAssumption DEF IInv
<1>1. /\ pc = "send"
      /\ \/ /\ want = "reply" /\ pc' = "attempt" /\ UNCHANGED last
            /\ job' = nextJob /\ nextJob' = NextID /\ sends' = sends + 1
         \/ /\ want # "reply" /\ pc' = "fail" /\ last' = "soft"
            /\ UNCHANGED <<nextJob, job, sends>>
      /\ UNCHANGED <<netVars, askVars, want, left, ret>>
  BY DEF SendFails, NextJobID, Failed, jobVars
<1>2. sends' <= MaxSends /\ NextID \in 1..JobCycle
  BY <1>1, NextJob
<1>3. LinkTypes'
  BY <1>1, <1>2 DEF TypeOK, LinkTypes, netVars, linkVars, discVars, flagVars
<1>4. FlagTypes'
  BY <1>1, <1>2 DEF TypeOK, FlagTypes, netVars, discVars, flagVars
<1>5. MessageTypes'
  BY <1>1, <1>2 DEF TypeOK, MessageTypes, netVars, boxVars, readVars
<1>6. WaiterTypes'
  BY <1>1, <1>2 DEF TypeOK, WaiterTypes, netVars, linkVars, discVars,
       boxVars, readVars
<1>7. CallerTypes'
  BY <1>1, <1>2 DEF TypeOK, CallerTypes, MaxSends, askVars
<1>8. Sockets'
  BY <1>1, <1>2 DEF Sockets, SocketOwned, TypeOK, netVars, linkVars, discVars
<1>9. Readers'
  BY <1>1, <1>2 DEF Readers, TypeOK, Sockets, netVars, linkVars, readVars
<1>10. Waiters'
  BY <1>1, <1>2 DEF Waiters, Awaited, WaitedJob, TypeOK, netVars, discVars,
       boxVars, readVars
<1>11. Budget'
  BY <1>1, <1>2 DEF Budget, TypeOK, WaitsToCome, SendsToCome, CallsToCome,
       netVars, linkVars, boxVars, askVars
<1>12. Jobs'
  <2>1. sends' \in {sends, sends + 1} /\ UNCHANGED <<answer, got, want, box, rmsg, wire>>
    BY <1>1 DEF netVars, boxVars, readVars, askVars
  <2>2. \A x \in Msgs : Honest(x) => Honest(x)'
    BY <2>1 DEF Honest, Msgs, TypeOK
  <2>3. /\ \A k \in Conns : Honest(rmsg[k])' /\ \A x \in wire'[k] : Honest(x)'
        /\ \A w \in WaitIds : Honest(box[w])'
    BY <2>1, <2>2 DEF Jobs, TypeOK
  <2>4. sends' < JobCycle => nextJob' = sends' + 1
    BY <1>1 DEF Jobs, TypeOK, NextID
  <2>5. answer # "ok" /\ pc' \notin {"register", "wait"}
    BY <1>1 DEF Jobs
  <2>6. QED BY <2>1, <2>3, <2>4, <2>5 DEF Jobs, RightAnswer
<1>13. FirstReader'
  BY <1>1, <1>2 DEF FirstReader, FirstConnectionSafe, TypeOK, netVars,
       linkVars, discVars, readVars
<1>14. QED BY <1>3, <1>4, <1>5, <1>6, <1>7, <1>8, <1>9, <1>10, <1>11, <1>12,
   <1>13, Types

\* Disconnect by the caller, who waits for nothing then: no channel is
\* closed.
LEMMA DropsInv == ASSUME IInv, Drops PROVE IInv'
<1> USE ClientAssumption DEF IInv
<1>1. /\ pc \in {"ready", "connect", "fail"}
      /\ pc' \in {"closed", "dial", "connect"}
      /\ pc' = "closed" => pc = "ready"
      /\ pc' # "closed" => pc # "ready" /\ UNCHANGED ret
      /\ UNCHANGED <<idleVars, askVars, jobVars, want, last, ret>>
      /\ left' \in Nat
  BY DEF Drops, CloseSession, Connect, LoginFailed, loginVars,
     AttemptCounted, TypeOK
<1>2. Disconnect
  BY DEF Drops, CloseSession, Connect, LoginFailed
<1>3. /\ conn' = 0 /\ key' = 0 /\ channelOK' = FALSE /\ loggedOn' = FALSE
      /\ beat' = FALSE /\ reg' = {} /\ shut' = shut
  BY <1>1, <1>2, Disconnects
<1>4. /\ sock' \in [Conns -> {"none", "open", "closed"}]
      /\ \A k \in Conns : sock'[k] = "open" => sock[k] = "open" /\ k # conn
  BY <1>2, Disconnects
<1>5. LinkTypes'
  BY <1>1, <1>3, <1>4 DEF TypeOK, LinkTypes, idleVars, linkVars
<1>6. FlagTypes'
  BY <1>1, <1>3, <1>4 DEF TypeOK, FlagTypes, idleVars
<1>7. MessageTypes'
  BY <1>1, <1>3, <1>4 DEF TypeOK, MessageTypes, idleVars, boxVars, readVars
<1>8. WaiterTypes'
  BY <1>1, <1>3, <1>4 DEF TypeOK, WaiterTypes, idleVars, linkVars, boxVars,
       readVars
<1>9. CallerTypes'
  BY <1>1, <1>3, <1>4 DEF TypeOK, CallerTypes, Waiters, LoginKinds, askVars,
       jobVars
<1>10. Sockets'
  BY <1>1, <1>3, <1>4 DEF Sockets, SocketOwned, TypeOK, idleVars, linkVars
<1>11. Readers'
  BY <1>1, <1>3, <1>4 DEF Readers, TypeOK, Sockets, idleVars, linkVars,
       readVars
<1>12. Waiters'
  BY <1>1, <1>3, <1>4 DEF Waiters, Awaited, WaitedJob, TypeOK, Waiters,
       LoginKinds, idleVars, boxVars, readVars, jobVars
<1>13. Budget'
  BY <1>1, <1>3, <1>4 DEF Budget, TypeOK, WaitsToCome, SendsToCome, Waiters,
       LoginKinds, CallsToCome, idleVars, linkVars, boxVars, askVars, jobVars
<1>14. Jobs'
  BY <1>1, <1>3, <1>4 DEF Jobs, Honest, RightAnswer, TypeOK, idleVars,
       boxVars, readVars, askVars, jobVars
<1>15. FirstReader'
  BY <1>1, <1>3, <1>4 DEF FirstReader, FirstConnectionSafe, TypeOK, idleVars,
       linkVars, readVars
<1>16. QED BY <1>5, <1>6, <1>7, <1>8, <1>9, <1>10, <1>11, <1>12, <1>13,
   <1>14, <1>15, Types

\* A dial opens one more socket, and the client has no connection to lose.
LEMMA DialOKInv == ASSUME IInv, NEW t \in {"tcp", "wss"}, DialOK(t) PROVE IInv'
<1> USE ClientAssumption DEF IInv
<1>1. /\ pc = "dial" /\ pc' = "adopt" /\ nconns < MaxConns /\ nconns' = nconns + 1
      /\ transport' = [transport EXCEPT ![nconns + 1] = t]
      /\ sock' = [sock EXCEPT ![nconns + 1] = "open"]
      /\ \E W \in SUBSET {[kind |-> "encReq", job |-> 0, send |-> 0]} :
            wire' = [wire EXCEPT ![nconns + 1] = W]
      /\ UNCHANGED <<flagVars, readVars, askVars, loginVars, jobVars, conn,
                     reg,
                     shut, nwaits, box, want, crashed>>
  BY DEF DialOK
<1>2. nconns + 1 \in Conns
  BY <1>1 DEF TypeOK, Conns
<1>3. LinkTypes'
  BY <1>1, <1>2 DEF TypeOK, LinkTypes, flagVars
<1>4. FlagTypes'
  BY <1>1, <1>2 DEF TypeOK, FlagTypes, flagVars
<1>5. MessageTypes'
  <2>1. \A W \in SUBSET {[kind |-> "encReq", job |-> 0, send |-> 0]} : W \subseteq Msgs
    BY DEF Msgs, LoginKinds, MaxSends
  <2>2. UNCHANGED <<box, rmsg>>
    BY <1>1 DEF readVars
  <2>3. QED BY <1>1, <1>2, <2>1, <2>2 DEF TypeOK, MessageTypes
<1>6. WaiterTypes'
  BY <1>1, <1>2 DEF TypeOK, WaiterTypes, readVars
<1>7. CallerTypes'
  BY <1>1, <1>2 DEF TypeOK, CallerTypes, askVars, loginVars, jobVars
<1>8. Sockets'
  BY <1>1, <1>2 DEF Sockets, SocketOwned, TypeOK
<1>9. Readers'
  BY <1>1, <1>2 DEF Readers, TypeOK, Sockets, Conns, readVars
<1>10. Waiters'
  BY <1>1, <1>2 DEF Waiters, Awaited, WaitedJob, TypeOK, readVars, jobVars
<1>11. Budget'
  BY <1>1, <1>2 DEF Budget, TypeOK, WaitsToCome, SendsToCome, Waiters,
       LoginKinds, CallsToCome, askVars, loginVars, jobVars
<1>12. Jobs'
  BY <1>1, <1>2 DEF Jobs, Honest, RightAnswer, TypeOK, Msgs, LoginKinds,
       readVars, askVars, jobVars
<1>13. FirstReader'
  BY <1>1, <1>2 DEF FirstReader, FirstConnectionSafe, TypeOK, Readers, Conns,
       readVars
<1>14. QED BY <1>3, <1>4, <1>5, <1>6, <1>7, <1>8, <1>9, <1>10, <1>11, <1>12,
   <1>13, Types

\* The new connection becomes the client's, with a reader of its own.
LEMMA AdoptInv == ASSUME IInv, Adopt PROVE IInv'
<1> USE ClientAssumption DEF IInv
<1>1. /\ pc = "adopt" /\ conn' = nconns /\ key' = 0 /\ loggedOn' = FALSE
      /\ channelOK' = (transport[nconns] = "wss")
      /\ reader' = [reader EXCEPT ![nconns] = "start"]
      /\ \/ want' = "logon" /\ pc' = "send"
         \/ want' = "encReq" /\ pc' = "register"
      /\ UNCHANGED <<askVars, boxVars, loginVars, jobVars, linkVars, sock,
                     beat, reg,
                     shut, rconn, rmsg, rref, crashed>>
  BY DEF Adopt
<1>2. nconns \in Conns /\ reader[nconns] = "none"
  BY <1>1 DEF TypeOK, Conns, Sockets, Readers
<1>3. LinkTypes'
  BY <1>1, <1>2 DEF TypeOK, LinkTypes, linkVars
<1>4. FlagTypes'
  BY <1>1, <1>2 DEF TypeOK, FlagTypes
<1>5. MessageTypes'
  BY <1>1, <1>2 DEF TypeOK, MessageTypes, boxVars
<1>6. WaiterTypes'
  BY <1>1, <1>2 DEF TypeOK, WaiterTypes, boxVars, linkVars
<1>7. CallerTypes'
  BY <1>1, <1>2 DEF TypeOK, CallerTypes, LoginKinds, Waiters, askVars,
       loginVars, jobVars
<1>8. Sockets'
  <2>1. \A k \in Conns : sock[k] = "open" => k = nconns
    BY <1>1, <1>2 DEF Sockets, SocketOwned, Conns
  <2>2. QED BY <1>1, <2>1 DEF Sockets, SocketOwned
<1>9. Readers'
  BY <1>1, <1>2 DEF Readers, TypeOK, Sockets, linkVars
<1>10. Waiters'
  BY <1>1, <1>2 DEF Waiters, Awaited, WaitedJob, TypeOK, LoginKinds, Waiters,
       boxVars, jobVars
<1>11. Budget'
  BY <1>1, <1>2 DEF Budget, TypeOK, WaitsToCome, SendsToCome, LoginKinds,
       Waiters, CallsToCome, askVars, boxVars, loginVars, jobVars, linkVars
<1>12. Jobs'
  BY <1>1, <1>2 DEF Jobs, Honest, RightAnswer, TypeOK, askVars, boxVars,
       jobVars
<1>13. FirstReader'
  BY <1>1, <1>2 DEF FirstReader, FirstConnectionSafe, TypeOK, Conns, linkVars
<1>14. QED BY <1>3, <1>4, <1>5, <1>6, <1>7, <1>8, <1>9, <1>10, <1>11, <1>12,
   <1>13, Types

\* The heartbeat starts.
LEMMA StartHeartbeatInv == ASSUME IInv, StartHeartbeat PROVE IInv'
<1> USE ClientAssumption DEF IInv
<1>1. /\ pc = "beat" /\ beat' = TRUE
      /\ \/ ret = "session" /\ pc' = "ready" /\ UNCHANGED want
         \/ ret = "call" /\ pc' = "send" /\ want' = "reply"
      /\ UNCHANGED <<idleVars, askVars, loginVars, jobVars, conn, sock, key,
                     channelOK, loggedOn, reg, shut>>
  BY DEF StartHeartbeat, TypeOK
<1>2. LinkTypes'
  BY <1>1 DEF TypeOK, LinkTypes, idleVars, linkVars
<1>3. FlagTypes'
  BY <1>1 DEF TypeOK, FlagTypes, idleVars
<1>4. MessageTypes'
  BY <1>1 DEF TypeOK, MessageTypes, idleVars, boxVars, readVars
<1>5. WaiterTypes'
  BY <1>1 DEF TypeOK, WaiterTypes, idleVars, linkVars, boxVars, readVars
<1>6. CallerTypes'
  BY <1>1 DEF TypeOK, CallerTypes, askVars, loginVars, jobVars
<1>7. Sockets'
  BY <1>1 DEF Sockets, SocketOwned, TypeOK, idleVars, linkVars
<1>8. Readers'
  BY <1>1 DEF Readers, TypeOK, Sockets, idleVars, linkVars, readVars
<1>9. Waiters'
  BY <1>1 DEF Waiters, Awaited, WaitedJob, TypeOK, idleVars, boxVars,
       readVars, jobVars
<1>10. Budget'
  BY <1>1 DEF Budget, TypeOK, WaitsToCome, SendsToCome, CallsToCome,
       idleVars, linkVars, boxVars, askVars, loginVars, jobVars
<1>11. Jobs'
  BY <1>1 DEF Jobs, Honest, RightAnswer, TypeOK, idleVars, boxVars, readVars,
       askVars, jobVars
<1>12. FirstReader'
  BY <1>1 DEF FirstReader, FirstConnectionSafe, TypeOK, idleVars, linkVars,
       readVars
<1>13. QED BY <1>2, <1>3, <1>4, <1>5, <1>6, <1>7, <1>8, <1>9, <1>10, <1>11,
   <1>12, Types

\* A message that goes out says truthfully which send it answers.
LEMMA SendOKInv == ASSUME IInv, SendOK PROVE IInv'
<1> USE ClientAssumption DEF IInv
<1>1. /\ pc = "send" /\ pc' = "register" /\ conn \in Conns
      /\ \/ /\ want = "reply" /\ job' = nextJob /\ nextJob' = NextID
            /\ sends' = sends + 1
         \/ want # "reply" /\ UNCHANGED <<nextJob, job, sends>>
      /\ UNCHANGED <<discVars, readVars, askVars, loginVars, linkVars,
                     nwaits, box,
                     want, crashed>>
  BY DEF SendOK, NextJobID, jobVars, TypeOK, Conns
<1>2. sends' <= MaxSends /\ NextID \in 1..JobCycle
  BY <1>1, NextJob
<1>3. PICK m \in Msgs :
         /\ wire' = [wire EXCEPT ![conn] = @ \cup {m}]
         /\ m.kind = want
         /\ IF want = "reply" THEN m.job = job' /\ m.send = sends' ELSE m.send = 0
  <2>1. CASE want = "reply"
    <3>1. [kind |-> "reply", job |-> job', send |-> sends'] \in Msgs
      BY <1>1, <1>2, <2>1 DEF Msgs, TypeOK
    <3>2. QED BY <2>1, <3>1 DEF SendOK
  <2>2. CASE want # "reply"
    <3>1. [kind |-> want, job |-> 0, send |-> 0] \in Msgs
      BY <1>1 DEF Msgs, TypeOK, MaxSends
    <3>2. QED BY <2>2, <3>1 DEF SendOK
  <2>3. QED BY <2>1, <2>2
<1>4. LinkTypes'
  BY <1>1, <1>2, <1>3 DEF TypeOK, LinkTypes, discVars, flagVars, linkVars
<1>5. FlagTypes'
  BY <1>1, <1>2, <1>3 DEF TypeOK, FlagTypes, discVars, flagVars
<1>6. MessageTypes'
  BY <1>1, <1>2, <1>3 DEF TypeOK, MessageTypes, readVars
<1>7. WaiterTypes'
  BY <1>1, <1>2, <1>3 DEF TypeOK, WaiterTypes, discVars, readVars, linkVars
<1>8. CallerTypes'
  BY <1>1, <1>2, <1>3 DEF TypeOK, CallerTypes, MaxSends, askVars, loginVars
<1>9. Sockets'
  BY <1>1, <1>2, <1>3 DEF Sockets, SocketOwned, TypeOK, discVars, linkVars
<1>10. Readers'
  BY <1>1, <1>2, <1>3 DEF Readers, TypeOK, Sockets, readVars, linkVars
<1>11. Waiters'
  BY <1>1, <1>2, <1>3 DEF Waiters, Awaited, WaitedJob, TypeOK, Msgs,
       discVars, readVars
<1>12. Budget'
  BY <1>1, <1>2, <1>3 DEF Budget, TypeOK, WaitsToCome, SendsToCome,
       LoginKinds, CallsToCome, askVars, loginVars, linkVars
<1>13. Jobs'
  <2>1. sends' \in {sends, sends + 1} /\ UNCHANGED <<answer, got, want, box, rmsg>>
    BY <1>1 DEF readVars, askVars
  <2>2. \A x \in Msgs : Honest(x) => Honest(x)'
    BY <2>1 DEF Honest, Msgs, TypeOK
  <2>3. Honest(m)'
    BY <1>1, <1>3 DEF Honest, Jobs, TypeOK
  <2>4. \A k \in Conns : \A x \in wire'[k] : x = m \/ x \in wire[k]
    BY <1>1, <1>3 DEF TypeOK
  <2>5. /\ \A k \in Conns : Honest(rmsg[k])' /\ \A x \in wire'[k] : Honest(x)'
        /\ \A w \in WaitIds : Honest(box[w])'
    BY <2>1, <2>2, <2>3, <2>4 DEF Jobs, TypeOK
  <2>6. sends' < JobCycle => nextJob' = sends' + 1
    BY <1>1 DEF Jobs, TypeOK, NextID
  <2>7. sends' <= JobCycle /\ want = "reply" => job' = sends'
    BY <1>1 DEF Jobs, TypeOK
  <2>8. answer # "ok"
    BY <1>1 DEF Jobs
  <2>9. QED BY <2>1, <2>5, <2>6, <2>7, <2>8 DEF Jobs, RightAnswer
<1>14. FirstReader'
  BY <1>1, <1>2, <1>3 DEF FirstReader, FirstConnectionSafe, TypeOK, discVars,
       readVars, linkVars
<1>15. QED BY <1>4, <1>5, <1>6, <1>7, <1>8, <1>9, <1>10, <1>11, <1>12, <1>13,
   <1>14, Types

\* The one waiter is made, of a channel nobody has used.
LEMMA RegisterInv == ASSUME IInv, Register PROVE IInv'
<1> USE ClientAssumption DEF IInv
<1>1. /\ pc = "register" /\ pc' = "wait" /\ nwaits' = nwaits + 1
      /\ reg' = {[kind |-> want, job |-> WaitedJob, id |-> nwaits + 1]}
      /\ UNCHANGED <<flagVars, readVars, askVars, loginVars, jobVars,
                     linkVars, conn,
                     sock, shut, wire, box, want, crashed>>
  BY DEF Register, Waiters
<1>2. nwaits + 1 \in WaitIds
  <2>1. want \in LoginKinds \cup {"reply"}
    BY <1>1 DEF Waiters, TypeOK
  <2>2. WaitsToCome \in 1..3
    BY <1>1, <2>1 DEF WaitsToCome, LoginKinds
  <2>3. MaxWaits \in Nat
    BY DEF MaxWaits, MaxSends
  <2>4. QED BY <2>2, <2>3, BudgetLeft DEF WaitIds, TypeOK
<1>3. LinkTypes'
  BY <1>1, <1>2 DEF TypeOK, LinkTypes, flagVars, linkVars
<1>4. FlagTypes'
  BY <1>1, <1>2 DEF TypeOK, FlagTypes, flagVars
<1>5. MessageTypes'
  BY <1>1, <1>2 DEF TypeOK, MessageTypes, readVars
<1>6. WaiterTypes'
  <2>1. reg' \subseteq [kind : LoginKinds \cup {"reply"}, job : 0..JobCycle,
     id : WaitIds]
    BY <1>1, <1>2 DEF TypeOK, WaitedJob, Waiters
  <2>2. UNCHANGED <<shut, reader, rconn, rref, nconns>>
    BY <1>1 DEF readVars, linkVars
  <2>3. QED BY <1>1, <1>2, <2>1, <2>2 DEF TypeOK, WaiterTypes, WaitIds
<1>7. CallerTypes'
  BY <1>1, <1>2 DEF TypeOK, CallerTypes, askVars, loginVars, jobVars
<1>8. Sockets'
  BY <1>1, <1>2 DEF Sockets, SocketOwned, TypeOK, linkVars
<1>9. Readers'
  BY <1>1, <1>2 DEF Readers, TypeOK, Sockets, readVars, linkVars
<1>10. Waiters'
  <2>1. UNCHANGED <<want, job, box, reader, rref, rmsg>> /\ WaitedJob' = WaitedJob
    BY <1>1 DEF readVars, jobVars, WaitedJob
  <2>2. \A k \in Conns : rref[k] # nwaits + 1
    BY DEF TypeOK
  <2>3. box[nwaits + 1] = NoMsg
    BY <1>2 DEF Waiters, TypeOK
  <2>4. \A w \in WaitIds : w > nwaits + 1 => box[w] = NoMsg
    BY DEF Waiters, TypeOK, WaitIds
  <2>5. QED BY <1>1, <2>1, <2>2, <2>3, <2>4 DEF Waiters, Awaited, TypeOK
<1>11. Budget'
  BY <1>1, <1>2 DEF Budget, TypeOK, WaitsToCome, SendsToCome, LoginKinds,
       CallsToCome, askVars, loginVars, jobVars, linkVars
<1>12. Jobs'
  BY <1>1, <1>2 DEF Jobs, Honest, RightAnswer, TypeOK, readVars, askVars,
       jobVars
<1>13. FirstReader'
  BY <1>1, <1>2 DEF FirstReader, FirstConnectionSafe, TypeOK, readVars,
       linkVars
<1>14. QED BY <1>3, <1>4, <1>5, <1>6, <1>7, <1>8, <1>9, <1>10, <1>11, <1>12,
   <1>13, Types

\* The caller stops waiting; a reply it takes is what it waited for.
LEMMA WaitEndsInv == ASSUME IInv, WaitEnds PROVE IInv'
<1> USE ClientAssumption DEF IInv
<1>1. /\ pc = "wait" /\ want # "none" /\ reg' = {}
      /\ UNCHANGED <<idleVars, jobVars, conn, sock, beat, shut, left, ret,
                     tries, ncalls>>
      /\ (key' = key /\ channelOK' = channelOK) \/ (key' = nconns /\ channelOK' = TRUE)
      /\ loggedOn' = loggedOn \/ (loggedOn' = TRUE /\ pc' = "beat")
      /\ last' \in {"none", "soft", "hard"}
  <2>1. Unregister => reg' = {}
    BY DEF Unregister, Waiters, Awaited
  <2>2. QED BY <2>1 DEF WaitEnds, WaitFails, GotEncReq, GotEncRes, GotLogon,
                 LoginRefused, GotReply, Received, Failed, flagVars, askVars,
                 loginVars,
                 TypeOK, Waiters
<1>2. \/ want = "reply" /\ pc' \in {"attempt", "ready"} /\ UNCHANGED want
      \/ want # "reply" /\ pc' \in {"fail", "beat"} /\ UNCHANGED want
      \/ want = "encReq" /\ want' = "encRes" /\ pc' = "send"
      \/ want = "encRes" /\ want' = "logon" /\ pc' = "send"
  BY DEF WaitEnds, WaitFails, GotEncReq, GotEncRes, GotLogon, LoginRefused,
     GotReply,
         Failed, LoginKinds
<1>3. \/ UNCHANGED <<answer, got>>
      \/ /\ want = "reply" /\ pc' = "ready" /\ box[nwaits] # NoMsg
         /\ answer' \in {"ok", "error"} /\ got' = box[nwaits].send
  BY DEF WaitEnds, WaitFails, GotEncReq, GotEncRes, GotLogon, LoginRefused,
     GotReply,
         Failed, Received, askVars
<1>4. LinkTypes'
  BY <1>1, <1>2, <1>3 DEF TypeOK, LinkTypes, idleVars, linkVars
<1>5. FlagTypes'
  BY <1>1, <1>2, <1>3 DEF TypeOK, FlagTypes, idleVars
<1>6. MessageTypes'
  BY <1>1, <1>2, <1>3 DEF TypeOK, MessageTypes, idleVars, boxVars, readVars
<1>7. WaiterTypes'
  BY <1>1, <1>2, <1>3 DEF TypeOK, WaiterTypes, idleVars, linkVars, boxVars,
       readVars
<1>8. CallerTypes'
  <2>1. got' \in 0..sends /\ answer' \in {"none", "ok", "error"}
    <3>1. nwaits \in WaitIds
      BY <1>1 DEF Waiters, TypeOK, WaitIds
    <3>2. box[nwaits].send \in 0..sends
      BY <3>1 DEF Jobs, Honest, TypeOK, Msgs
    <3>3. QED BY <1>3, <3>2 DEF TypeOK
  <2>2. want' \in LoginKinds \cup {"reply", "none"}
    BY <1>2 DEF TypeOK, LoginKinds
  <2>3. QED BY <1>1, <1>2, <2>1, <2>2 DEF TypeOK, CallerTypes, jobVars
<1>9. Sockets'
  BY <1>1, <1>2, <1>3 DEF Sockets, SocketOwned, TypeOK, idleVars, linkVars
<1>10. Readers'
  BY <1>1, <1>2, <1>3 DEF Readers, TypeOK, Sockets, idleVars, linkVars,
       readVars
<1>11. Waiters'
  BY <1>1, <1>2, <1>3 DEF Waiters, Awaited, WaitedJob, TypeOK, idleVars,
       boxVars, readVars, jobVars
<1>12. Budget'
  BY <1>1, <1>2, <1>3 DEF Budget, TypeOK, WaitsToCome, SendsToCome,
       LoginKinds, CallsToCome, idleVars, linkVars, boxVars, jobVars
<1>13. Jobs'
  <2>1. UNCHANGED <<wire, box, rmsg, nextJob, job, sends>>
    BY <1>1 DEF idleVars, boxVars, readVars, jobVars
  <2>2. pc' \notin {"register", "wait"} /\ answer # "ok"
    BY <1>1, <1>2 DEF Jobs
  <2>3. ASSUME answer' = "ok", sends <= JobCycle PROVE got' = sends
    <3>1. want = "reply" /\ box[nwaits] # NoMsg /\ got' = box[nwaits].send
      BY <1>3, <2>2, <2>3
    <3>2. nwaits \in WaitIds /\ Awaited(box[nwaits])
      BY <1>1, <3>1 DEF Waiters, TypeOK, WaitIds
    <3>3. box[nwaits].kind = "reply" /\ box[nwaits].job = sends
      BY <1>1, <2>3, <3>1, <3>2 DEF Awaited, WaitedJob, Jobs
    <3>4. QED BY <2>3, <3>1, <3>2, <3>3 DEF Jobs, Honest
  <2>4. answer' = "ok" => pc' = "ready"
    BY <1>3, <2>2
  <2>5. QED BY <2>1, <2>2, <2>3, <2>4 DEF Jobs, Honest, RightAnswer
<1>14. FirstReader'
  BY <1>1, <1>2, <1>3 DEF FirstReader, FirstConnectionSafe, TypeOK, idleVars,
       linkVars, readVars
<1>15. QED BY <1>4, <1>5, <1>6, <1>7, <1>8, <1>9, <1>10, <1>11, <1>12, <1>13,
   <1>14, Types

\* A reader captures the connection that is current.
LEMMA CaptureInv == ASSUME IInv, NEW k \in Conns, Capture(k) PROVE IInv'
<1> USE ClientAssumption DEF IInv
<1>1. /\ reader[k] = "start"
      /\ rconn' = [rconn EXCEPT ![k] = conn]
      /\ reader' = [reader EXCEPT ![k] = IF conn = 0 THEN "gone" ELSE "read"]
      /\ UNCHANGED <<callVars, discVars, boxVars, linkVars, rmsg, rref,
                     crashed>>
  BY DEF Capture
<1>2. LinkTypes'
  BY <1>1 DEF TypeOK, LinkTypes, discVars, flagVars, linkVars
<1>3. FlagTypes'
  BY <1>1 DEF TypeOK, FlagTypes, discVars, flagVars
<1>4. MessageTypes'
  BY <1>1 DEF TypeOK, MessageTypes, boxVars
<1>5. WaiterTypes'
  BY <1>1 DEF TypeOK, WaiterTypes, discVars, boxVars, linkVars
<1>6. CallerTypes'
  BY <1>1 DEF TypeOK, CallerTypes, callVars, loginVars, jobVars, askVars
<1>7. Sockets'
  BY <1>1 DEF Sockets, SocketOwned, TypeOK, callVars, discVars, linkVars
<1>8. Readers'
  BY <1>1 DEF Readers, TypeOK, Sockets, callVars, linkVars
<1>9. Waiters'
  BY <1>1 DEF Waiters, Awaited, WaitedJob, TypeOK, callVars, jobVars,
       discVars, boxVars
<1>10. Budget'
  BY <1>1 DEF Budget, TypeOK, WaitsToCome, SendsToCome, CallsToCome,
       callVars, loginVars, jobVars, askVars, boxVars, linkVars
<1>11. Jobs'
  BY <1>1 DEF Jobs, Honest, RightAnswer, TypeOK, callVars, jobVars, askVars,
       boxVars
<1>12. FirstReader'
  BY <1>1 DEF FirstReader, FirstConnectionSafe, TypeOK, Readers, Conns,
       discVars, linkVars
<1>13. QED BY <1>2, <1>3, <1>4, <1>5, <1>6, <1>7, <1>8, <1>9, <1>10, <1>11,
   <1>12, Types

\* A reader takes a message off its connection.
LEMMA ReadMsgInv == ASSUME IInv, NEW k \in Conns, ReadMsg(k) PROVE IInv'
<1> USE ClientAssumption DEF IInv
<1>1. /\ reader[k] = "read" /\ rconn[k] \in Conns
      /\ reader' = [reader EXCEPT ![k] = "decrypt"]
      /\ UNCHANGED <<callVars, discVars, linkVars, nwaits, box, rconn, rref,
                     crashed>>
  BY DEF ReadMsg, Readers, TypeOK, Conns
<1>2. PICK m \in wire[rconn[k]] :
         /\ wire' = [wire EXCEPT ![rconn[k]] = @ \ {m}]
         /\ rmsg' = [rmsg EXCEPT ![k] = m]
  BY DEF ReadMsg
<1>3. LinkTypes'
  BY <1>1, <1>2 DEF TypeOK, LinkTypes, discVars, flagVars, linkVars
<1>4. FlagTypes'
  BY <1>1, <1>2 DEF TypeOK, FlagTypes, discVars, flagVars
<1>5. MessageTypes'
  BY <1>1, <1>2 DEF TypeOK, MessageTypes
<1>6. WaiterTypes'
  BY <1>1, <1>2 DEF TypeOK, WaiterTypes, discVars, linkVars
<1>7. CallerTypes'
  BY <1>1, <1>2 DEF TypeOK, CallerTypes, callVars, loginVars, jobVars,
       askVars
<1>8. Sockets'
  BY <1>1, <1>2 DEF Sockets, SocketOwned, TypeOK, callVars, discVars,
       linkVars
<1>9. Readers'
  BY <1>1, <1>2 DEF Readers, TypeOK, Sockets, callVars, linkVars
<1>10. Waiters'
  BY <1>1, <1>2 DEF Waiters, Awaited, WaitedJob, TypeOK, callVars, jobVars,
       discVars
<1>11. Budget'
  BY <1>1, <1>2 DEF Budget, TypeOK, WaitsToCome, SendsToCome, CallsToCome,
       callVars, loginVars, jobVars, askVars, linkVars
<1>12. Jobs'
  BY <1>1, <1>2 DEF Jobs, Honest, RightAnswer, TypeOK, callVars, jobVars,
       askVars
<1>13. FirstReader'
  BY <1>1, <1>2 DEF FirstReader, FirstConnectionSafe, TypeOK, Readers, Conns,
       discVars, linkVars
<1>14. QED BY <1>3, <1>4, <1>5, <1>6, <1>7, <1>8, <1>9, <1>10, <1>11, <1>12,
   <1>13, Types

\* Disconnect by a reader, which may close the channel in use.
LEMMA ReaderDropsInv == ASSUME IInv, NEW k \in Conns, ReaderDrops(k) PROVE IInv'
<1> USE ClientAssumption DEF IInv
<1>1. /\ reader[k] \in {"read", "decrypt"}
      /\ reader' = [reader EXCEPT ![k] = "gone"]
      /\ UNCHANGED <<callVars, boxVars, linkVars, rconn, rmsg, rref, crashed>>
  BY DEF ReaderDrops, ReadFails, DecryptFails
<1>2. Disconnect
  BY DEF ReaderDrops, ReadFails, DecryptFails
<1>3. /\ conn' = 0 /\ key' = 0 /\ channelOK' = FALSE /\ loggedOn' = FALSE
      /\ beat' = FALSE /\ reg' = {} /\ shut' \subseteq WaitIds
      /\ pc # "wait" => shut' = shut
  BY <1>2, Disconnects
<1>4. /\ sock' \in [Conns -> {"none", "open", "closed"}]
      /\ \A j \in Conns : sock'[j] = "open" => sock[j] = "open" /\ j # conn
  BY <1>2, Disconnects
<1>5. LinkTypes'
  <2>1. UNCHANGED <<nconns, transport>>
    BY <1>1 DEF linkVars
  <2>2. QED BY <1>3, <1>4, <2>1 DEF TypeOK, LinkTypes
<1>6. FlagTypes'
  BY <1>1, <1>3, <1>4 DEF TypeOK, FlagTypes
<1>7. MessageTypes'
  BY <1>1, <1>3, <1>4 DEF TypeOK, MessageTypes, boxVars
<1>8. WaiterTypes'
  BY <1>1, <1>3, <1>4 DEF TypeOK, WaiterTypes, boxVars, linkVars
<1>9. CallerTypes'
  BY <1>1, <1>3, <1>4 DEF TypeOK, CallerTypes, callVars, loginVars, jobVars,
       askVars
<1>10. Sockets'
  BY <1>1, <1>3, <1>4 DEF Sockets, SocketOwned, TypeOK, linkVars, callVars
<1>11. Readers'
  BY <1>1, <1>3, <1>4 DEF Readers, TypeOK, Sockets, linkVars, callVars
<1>12. Waiters'
  BY <1>1, <1>3, <1>4 DEF Waiters, Awaited, WaitedJob, TypeOK, boxVars,
       callVars, jobVars
<1>13. Budget'
  BY <1>1, <1>3, <1>4 DEF Budget, TypeOK, WaitsToCome, SendsToCome,
       CallsToCome, boxVars, linkVars, callVars, loginVars, jobVars, askVars
<1>14. Jobs'
  BY <1>1, <1>3, <1>4 DEF Jobs, Honest, RightAnswer, TypeOK, boxVars,
       callVars, jobVars, askVars
<1>15. FirstReader'
  BY <1>1, <1>3, <1>4 DEF FirstReader, FirstConnectionSafe, TypeOK, Readers,
       Conns, linkVars
<1>16. QED BY <1>5, <1>6, <1>7, <1>8, <1>9, <1>10, <1>11, <1>12, <1>13,
   <1>14, <1>15, Types

\* A reader decrypts its message or drops it.
LEMMA ReaderMovesInv == ASSUME IInv, NEW k \in Conns, ReaderMoves(k) PROVE IInv'
<1> USE ClientAssumption DEF IInv
<1>1. /\ reader[k] = "decrypt"
      /\ UNCHANGED <<callVars, discVars, boxVars, linkVars, rconn, rref,
                     crashed>>
  BY DEF ReaderMoves, Decrypt, DecryptSkipped
<1>2. \/ reader' = [reader EXCEPT ![k] = "lookup"] /\ UNCHANGED rmsg
      \/ /\ reader' = [reader EXCEPT ![k] = "read"]
         /\ rmsg' = [rmsg EXCEPT ![k] = NoMsg]
  BY DEF ReaderMoves, Decrypt, DecryptSkipped
<1>3. NoMsg \in Msgs
  BY DEF NoMsg, Msgs, LoginKinds, MaxSends
<1>4. LinkTypes'
  BY <1>1, <1>2, <1>3 DEF TypeOK, LinkTypes, discVars, flagVars, linkVars
<1>5. FlagTypes'
  BY <1>1, <1>2, <1>3 DEF TypeOK, FlagTypes, discVars, flagVars
<1>6. MessageTypes'
  BY <1>1, <1>2, <1>3 DEF TypeOK, MessageTypes, boxVars
<1>7. WaiterTypes'
  BY <1>1, <1>2, <1>3 DEF TypeOK, WaiterTypes, discVars, boxVars, linkVars
<1>8. CallerTypes'
  BY <1>1, <1>2, <1>3 DEF TypeOK, CallerTypes, callVars, loginVars, jobVars,
       askVars
<1>9. Sockets'
  BY <1>1, <1>2, <1>3 DEF Sockets, SocketOwned, TypeOK, callVars, discVars,
       linkVars
<1>10. Readers'
  BY <1>1, <1>2, <1>3 DEF Readers, TypeOK, Sockets, callVars, linkVars
<1>11. Waiters'
  BY <1>1, <1>2, <1>3 DEF Waiters, Awaited, WaitedJob, TypeOK, callVars,
       jobVars, discVars, boxVars
<1>12. Budget'
  BY <1>1, <1>2, <1>3 DEF Budget, TypeOK, WaitsToCome, SendsToCome,
       CallsToCome, callVars, loginVars, jobVars, askVars, boxVars, linkVars
<1>13. Jobs'
  BY <1>1, <1>2, <1>3 DEF Jobs, Honest, RightAnswer, TypeOK, NoMsg, callVars,
       jobVars, askVars, boxVars
<1>14. FirstReader'
  BY <1>1, <1>2, <1>3 DEF FirstReader, FirstConnectionSafe, TypeOK, Readers,
       Conns, discVars, linkVars
<1>15. QED BY <1>4, <1>5, <1>6, <1>7, <1>8, <1>9, <1>10, <1>11, <1>12, <1>13,
   <1>14, Types

\* A reader finds the waiter its message is for.
LEMMA LookupInv == ASSUME IInv, NEW k \in Conns, Lookup(k) PROVE IInv'
<1> USE ClientAssumption DEF IInv
<1>1. /\ reader[k] = "lookup"
      /\ UNCHANGED <<callVars, discVars, boxVars, linkVars, rconn, crashed>>
  BY DEF Lookup
<1>2. \/ /\ reader' = [reader EXCEPT ![k] = "read"]
         /\ rmsg' = [rmsg EXCEPT ![k] = NoMsg] /\ UNCHANGED rref
      \/ /\ reader' = [reader EXCEPT ![k] = "deliver"]
         /\ pc = "wait" /\ Awaited(rmsg[k])
         /\ rref' = [rref EXCEPT ![k] = nwaits] /\ UNCHANGED rmsg
  BY DEF Lookup, WaitersFor, Waiters, Awaited
<1>3. NoMsg \in Msgs
  BY DEF NoMsg, Msgs, LoginKinds, MaxSends
<1>4. LinkTypes'
  BY <1>1, <1>2, <1>3 DEF TypeOK, LinkTypes, discVars, flagVars, linkVars
<1>5. FlagTypes'
  BY <1>1, <1>2, <1>3 DEF TypeOK, FlagTypes, discVars, flagVars
<1>6. MessageTypes'
  BY <1>1, <1>2, <1>3 DEF TypeOK, MessageTypes, boxVars
<1>7. WaiterTypes'
  BY <1>1, <1>2, <1>3 DEF TypeOK, WaiterTypes, discVars, boxVars, linkVars
<1>8. CallerTypes'
  BY <1>1, <1>2, <1>3 DEF TypeOK, CallerTypes, callVars, loginVars, jobVars,
       askVars
<1>9. Sockets'
  BY <1>1, <1>2, <1>3 DEF Sockets, SocketOwned, TypeOK, callVars, discVars,
       linkVars
<1>10. Readers'
  BY <1>1, <1>2, <1>3 DEF Readers, TypeOK, Sockets, Waiters, callVars,
       linkVars
<1>11. Waiters'
  BY <1>1, <1>2, <1>3 DEF Waiters, Awaited, WaitedJob, TypeOK, callVars,
       jobVars, discVars, boxVars
<1>12. Budget'
  BY <1>1, <1>2, <1>3 DEF Budget, TypeOK, WaitsToCome, SendsToCome,
       CallsToCome, callVars, loginVars, jobVars, askVars, boxVars, linkVars
<1>13. Jobs'
  BY <1>1, <1>2, <1>3 DEF Jobs, Honest, RightAnswer, TypeOK, NoMsg, callVars,
       jobVars, askVars, boxVars
<1>14. FirstReader'
  BY <1>1, <1>2, <1>3 DEF FirstReader, FirstConnectionSafe, TypeOK, Readers,
       Conns, discVars, linkVars
<1>15. QED BY <1>4, <1>5, <1>6, <1>7, <1>8, <1>9, <1>10, <1>11, <1>12, <1>13,
   <1>14, Types

\* A reader delivers what the waiter waits for, or panics.
LEMMA DeliverInv == ASSUME IInv, NEW k \in Conns, Deliver(k) PROVE IInv'
<1> USE ClientAssumption DEF IInv
<1>1. /\ reader[k] = "deliver" /\ rref[k] \in WaitIds /\ rref[k] <= nwaits
      /\ UNCHANGED <<callVars, discVars, linkVars, wire, nwaits, rconn>>
  <2>1. MaxWaits \in Nat
    BY DEF MaxWaits, MaxSends
  <2>2. rref[k] \in 1..nwaits
    BY DEF Deliver, Readers, TypeOK
  <2>3. QED BY <2>1, <2>2 DEF Deliver, TypeOK, WaitIds
<1>2. \/ /\ rref[k] \in shut /\ crashed' = TRUE
         /\ UNCHANGED <<box, reader, rmsg, rref>>
      \/ /\ box' = [box EXCEPT ![rref[k]] = IF @ = NoMsg THEN rmsg[k] ELSE @]
         /\ reader' = [reader EXCEPT ![k] = "read"]
         /\ rmsg' = [rmsg EXCEPT ![k] = NoMsg]
         /\ rref' = [rref EXCEPT ![k] = 0]
         /\ UNCHANGED crashed
  BY DEF Deliver
<1>3. NoMsg \in Msgs
  BY DEF NoMsg, Msgs, LoginKinds, MaxSends
<1>4. LinkTypes'
  BY <1>1, <1>2, <1>3 DEF TypeOK, LinkTypes, discVars, flagVars, linkVars
<1>5. FlagTypes'
  BY <1>1, <1>2, <1>3 DEF TypeOK, FlagTypes, discVars, flagVars
<1>6. MessageTypes'
  BY <1>1, <1>2, <1>3 DEF TypeOK, MessageTypes
<1>7. WaiterTypes'
  BY <1>1, <1>2, <1>3 DEF TypeOK, WaiterTypes, discVars, linkVars
<1>8. CallerTypes'
  BY <1>1, <1>2, <1>3 DEF TypeOK, CallerTypes, callVars, loginVars, jobVars,
       askVars
<1>9. Sockets'
  BY <1>1, <1>2, <1>3 DEF Sockets, SocketOwned, TypeOK, callVars, discVars,
       linkVars
<1>10. Readers'
  BY <1>1, <1>2, <1>3 DEF Readers, TypeOK, Sockets, callVars, linkVars
<1>11. Waiters'
  <2>1. CASE UNCHANGED <<box, reader, rmsg, rref>>
    BY <1>1, <2>1 DEF Waiters, Awaited, WaitedJob, callVars, jobVars, discVars
  <2>2. CASE ~UNCHANGED <<box, reader, rmsg, rref>>
    <3>1. \A j \in Conns : reader'[j] = "deliver" =>
             reader[j] = "deliver" /\ rmsg'[j] = rmsg[j] /\ rref'[j] = rref[j]
      BY <1>2, <2>2 DEF TypeOK
    <3>2. \A w \in WaitIds : w # rref[k] => box'[w] = box[w]
      BY <1>2, <2>2 DEF TypeOK
    <3>3. box'[rref[k]] \in {box[rref[k]], rmsg[k]}
      BY <1>1, <1>2, <2>2 DEF TypeOK
    <3>4. pc = "wait" /\ rref[k] = nwaits => Awaited(rmsg[k])
      BY <1>1 DEF Waiters
    <3>5. UNCHANGED <<pc, want, job, reg, nwaits>>
      BY <1>1 DEF callVars, jobVars, discVars
    <3>6. \A w \in WaitIds : w > nwaits => box'[w] = NoMsg
      BY <1>1, <3>2 DEF Waiters, TypeOK, WaitIds
    <3>7. pc = "wait" => box'[nwaits] = NoMsg \/ Awaited(box'[nwaits])
      <4>1. SUFFICES ASSUME pc = "wait" PROVE box'[nwaits] = NoMsg \/ Awaited(box'[nwaits])
        OBVIOUS
      <4>2. nwaits \in WaitIds
        BY <4>1 DEF Waiters, TypeOK, WaitIds
      <4>3. QED BY <3>2, <3>3, <3>4, <4>1, <4>2 DEF Waiters
    <3>8. QED BY <3>1, <3>4, <3>5, <3>6, <3>7 DEF Waiters, Awaited, WaitedJob
  <2>3. QED BY <2>1, <2>2
<1>12. Budget'
  <2>1. UNCHANGED <<pc, want, ret, tries, ncalls, sends, nwaits, nconns>>
    BY <1>1 DEF callVars, loginVars, jobVars, askVars, linkVars
  <2>2. UNCHANGED <<WaitsToCome, SendsToCome, CallsToCome>>
    BY <2>1 DEF WaitsToCome, SendsToCome, CallsToCome
  <2>3. QED BY <2>1, <2>2 DEF Budget
<1>13. Jobs'
  <2>1. UNCHANGED <<pc, want, wire, nextJob, job, sends, answer, got>>
    BY <1>1 DEF callVars, jobVars, askVars
  <2>2. \A j \in Conns : rmsg'[j] \in {rmsg[j], NoMsg}
    BY <1>2 DEF TypeOK
  <2>3. \A w \in WaitIds : box'[w] \in {box[w], rmsg[k]}
    BY <1>1, <1>2 DEF TypeOK
  <2>4. Honest(NoMsg)
    BY DEF Honest, NoMsg, TypeOK
  <2>5. /\ \A j \in Conns : Honest(rmsg'[j])
        /\ \A w \in WaitIds : Honest(box'[w])
    BY <2>2, <2>3, <2>4 DEF Jobs
  <2>6. QED BY <2>1, <2>5 DEF Jobs, Honest, RightAnswer
<1>14. FirstReader'
  BY <1>1, <1>2, <1>3 DEF FirstReader, FirstConnectionSafe, TypeOK, Readers,
       Conns, discVars, linkVars
<1>15. QED BY <1>4, <1>5, <1>6, <1>7, <1>8, <1>9, <1>10, <1>11, <1>12, <1>13,
   <1>14, Types

-----------------------------------------------------------------------------
(* The inductive invariant. *)

(***************************************************************************)
(* A new client satisfies the invariant.                                   *)
(***************************************************************************)
LEMMA InitInv == Init => IInv
<1> SUFFICES ASSUME Init PROVE IInv
  OBVIOUS
<1> USE ClientAssumption DEF Init
<1>1. MaxSends \in Nat /\ MaxWaits \in Nat
  BY DEF MaxSends, MaxWaits
<1>2. NoMsg \in Msgs
  BY <1>1 DEF NoMsg, Msgs
<1>3. TypeOK
  <2>1. box \in [WaitIds -> Msgs] /\ rmsg \in [Conns -> Msgs]
    BY <1>2
  <2>2. /\ nwaits \in 0..MaxWaits /\ sends \in 0..MaxSends /\ got \in 0..sends
        /\ ncalls \in 0..MaxCalls /\ nconns \in 0..MaxConns
        /\ tries \in 0..UMRetries /\ left \in Nat
        /\ nextJob \in 1..JobCycle /\ job \in 0..JobCycle
    BY <1>1
  <2>3. /\ conn \in 0..nconns /\ key \in 0..nconns
        /\ rconn \in [Conns -> 0..nconns] /\ rref \in [Conns -> 0..nwaits]
    OBVIOUS
  <2>4. QED BY <2>1, <2>2, <2>3 DEF TypeOK, LoginKinds
<1>4. Sockets /\ Readers /\ Waiters /\ FirstReader
  BY DEF Sockets, SocketOwned, Readers, Waiters, FirstReader,
         FirstConnectionSafe
<1>5. Budget
  <2>1. WaitsToCome = 0 /\ SendsToCome = 0
    BY DEF WaitsToCome, SendsToCome
  <2>2. CallsToCome = MaxSends
    BY DEF CallsToCome, MaxSends
  <2>3. QED BY <1>1, <2>1, <2>2 DEF Budget
<1>6. Jobs
  BY DEF Jobs, Honest, NoMsg, RightAnswer
<1>7. QED BY <1>3, <1>4, <1>5, <1>6 DEF IInv

(***************************************************************************)
(* Every step keeps the invariant.                                         *)
(***************************************************************************)
LEMMA NextInv == ASSUME IInv, [Next]_vars PROVE IInv'
<1>1. CASE UNCHANGED vars
  <2>1. UNCHANGED <<conn, nconns, transport, sock, wire, key, channelOK,
                    loggedOn, beat, reg, nwaits, box, shut, reader, rconn,
                    rmsg, rref, pc, want, left, last, ret, tries, nextJob, job,
                    sends, ncalls, answer, got, crashed>>
    BY <1>1 DEF vars, netVars, callVars, linkVars, flagVars, boxVars, discVars,
                readVars, loginVars, jobVars, askVars
  <2>2. TypeOK' /\ Sockets' /\ Readers' /\ FirstReader'
    BY <2>1 DEF IInv, TypeOK, Sockets, SocketOwned, Readers, FirstReader,
                FirstConnectionSafe
  <2>3. Waiters' /\ Jobs'
    BY <2>1 DEF IInv, Waiters, Awaited, WaitedJob, Jobs, Honest, RightAnswer
  <2>4. Budget'
    BY <2>1 DEF IInv, Budget, WaitsToCome, SendsToCome, CallsToCome
  <2>5. QED BY <2>2, <2>3, <2>4 DEF IInv
<1>2. CASE Moves \/ SendFails \/ Drops \/ \E t \in {"tcp", "wss"} : DialOK(t)
  BY <1>2, MovesInv, SendFailsInv, DropsInv, DialOKInv
<1>3. CASE Adopt \/ StartHeartbeat \/ SendOK \/ Register \/ WaitEnds
  BY <1>3, AdoptInv, StartHeartbeatInv, SendOKInv, RegisterInv, WaitEndsInv
<1>4. CASE \E k \in Conns : \/ Capture(k) \/ ReadMsg(k) \/ ReaderDrops(k)
                            \/ ReaderMoves(k) \/ Lookup(k) \/ Deliver(k)
  BY <1>4, CaptureInv, ReadMsgInv, ReaderDropsInv, ReaderMovesInv, LookupInv,
     DeliverInv
<1>5. QED BY <1>1, <1>2, <1>3, <1>4, StepKinds

\* The invariant holds in every state that is reached.
LEMMA Invariance == Spec => []IInv
<1>1. QED BY InitInv, NextInv, PTL DEF Spec

-----------------------------------------------------------------------------

(***************************************************************************)
(* Types, and no socket is forgotten: whatever readers disconnect between  *)
(* any two steps of connectOne, an open socket is the client's or is about *)
(* to be (client.go 263-293, 477-503).                                     *)
(***************************************************************************)
THEOREM ConsistentTheorem == Spec => []Consistent
<1>1. IInv => Consistent
  BY DEF IInv, Sockets, Consistent
<1>2. QED BY <1>1, Invariance, PTL

(***************************************************************************)
(* The reply a call returns answers the job it sent last, until job ids    *)
(* are used again (client.go 518-600, 742-763).                            *)
(***************************************************************************)
THEOREM RightAnswerTheorem == Spec => []RightAnswer
<1>1. IInv => RightAnswer
  BY DEF IInv, Jobs
<1>2. QED BY <1>1, Invariance, PTL

(***************************************************************************)
(* A client that never connected twice does not send on a closed channel   *)
(* (client.go 492-499, 742-763).                                           *)
(***************************************************************************)
THEOREM FirstConnectionSafeTheorem == Spec => []FirstConnectionSafe
<1>1. IInv => FirstConnectionSafe
  BY DEF IInv, FirstReader
<1>2. QED BY <1>1, Invariance, PTL

(***************************************************************************)
(* A client that is logged on sends heartbeats, or is about to: the logon  *)
(* and the heartbeat go down together, in Disconnect (client.go 426-439,   *)
(* 477-503).                                                               *)
(***************************************************************************)
THEOREM BeatsWhileLoggedOnTheorem == Spec => []BeatsWhileLoggedOn
<1>1. Init => BeatsWhileLoggedOn
  BY DEF Init, BeatsWhileLoggedOn
<1>2. ASSUME BeatsWhileLoggedOn, [Next]_vars PROVE BeatsWhileLoggedOn'
  <2> USE DEF BeatsWhileLoggedOn
  <2>1. CASE Moves \/ SendFails \/ Register \/ UNCHANGED vars
    BY <1>2, <2>1 DEF Moves, StartSession, StartUM, GetDepotKey, Attempt,
       LoginGivesUp, DialFails, SendFails, Failed, Register, vars, netVars,
       discVars, flagVars, callVars
  <2>2. CASE Drops
    BY <2>2 DEF Drops, CloseSession, Connect, LoginFailed, Disconnect,
       LoginLeft
  <2>3. CASE (\E t \in {"tcp", "wss"} : DialOK(t)) \/ Adopt \/ StartHeartbeat
    BY <1>2, <2>3 DEF DialOK, Adopt, StartHeartbeat, flagVars
  <2>4. CASE SendOK
    BY <1>2, <2>4 DEF SendOK, discVars, flagVars
  <2>5. CASE WaitEnds
    BY <1>2, <2>5 DEF WaitEnds, WaitFails, GotEncReq, GotEncRes, GotLogon,
       LoginRefused, GotReply, Received, Failed, flagVars
  <2>6. ASSUME NEW k \in Conns,
               \/ Capture(k) \/ ReadMsg(k) \/ ReaderDrops(k)
               \/ ReaderMoves(k) \/ Lookup(k) \/ Deliver(k)
        PROVE  BeatsWhileLoggedOn'
    <3>1. CASE ReaderDrops(k)
      BY <3>1 DEF ReaderDrops, ReadFails, DecryptFails, Disconnect, LoginLeft
    <3>2. CASE ~ReaderDrops(k)
      BY <1>2, <2>6, <3>2 DEF Capture, ReadMsg, ReaderMoves, Decrypt,
         DecryptSkipped, Lookup, Deliver, discVars, flagVars, callVars
    <3>3. QED BY <3>1, <3>2
  <2>7. QED BY <1>2, <2>1, <2>2, <2>3, <2>4, <2>5, <2>6, StepKinds
<1>3. QED BY <1>1, <1>2, PTL DEF Spec

-----------------------------------------------------------------------------
(* THE LIST OF SERVERS                                                     *)

(***************************************************************************)
(* The list of servers is a fold over the answer of the Web API: a function*)
(* defined by recursion on sets of positions.  What holds of every prefix  *)
(* is proved by taking the shortest one for which it does not hold.        *)
(***************************************************************************)

\* One of the smallest sets of a collection of finite sets.
LEMMA Smallest ==
    ASSUME NEW S, IsFiniteSet(S), NEW X \in SUBSET (SUBSET S), X # {}
    PROVE  \E T \in X : \A U \in X : U \subseteq T => U = T
<1>1. IsWellFoundedOn(StrictSubsetOrdering(S), FiniteSubsetsOf(S))
  BY FS_StrictSubsetOrderingWellFounded
<1>2. FiniteSubsetsOf(S) = SUBSET S
  BY FS_FiniteSubsetsOfFinite
<1>3. PICK T \in X : \A U \in X : ~ (<<U, T>> \in StrictSubsetOrdering(S))
  BY <1>1, <1>2, WFMin
<1>4. \A U \in X : U \subseteq T => U = T
  BY <1>3 DEF StrictSubsetOrdering
<1> HIDE <1>3
<1>5. QED BY <1>4

\* The least of some numbers: its initial segment is the smallest.
LEMMA Least ==
    ASSUME NEW n \in Nat, NEW X \in SUBSET (0 .. n), X # {}
    PROVE  \E k \in X : \A m \in X : k <= m
<1> DEFINE Segments == {1 .. k : k \in X}
<1>1. IsFiniteSet(1 .. n)
  BY FS_Interval
<1>2. Segments \in SUBSET (SUBSET (1 .. n)) /\ Segments # {}
  <2>1. \A k \in X : 1 .. k \in SUBSET (1 .. n)
    OBVIOUS
  <2>2. QED BY <2>1
<1>3. PICK T \in Segments : \A U \in Segments : U \subseteq T => U = T
  <2> DEFINE R == 1 .. n
  <2>1. IsFiniteSet(R) /\ Segments \in SUBSET (SUBSET R) /\ Segments # {}
    BY <1>1, <1>2
  <2> HIDE DEF Segments, R
  <2>2. QED BY <2>1, Smallest
<1>4. PICK k \in X : T = 1 .. k
  OBVIOUS
<1>5. ASSUME NEW m \in X, m < k PROVE FALSE
  <2>1. 1 .. m \in Segments /\ 1 .. m \subseteq T
    BY <1>4, <1>5
  <2>2. k \in 1 .. k /\ k \notin 1 .. m
    BY <1>5
  <2>3. QED BY <1>3, <1>4, <2>1, <2>2
<1>6. QED BY <1>5

\* FiniteSetsExt!Max.
Top(s) == CHOOSE i \in s : \A j \in s : i >= j

\* The greatest of some positions.
LEMMA TopOf ==
    ASSUME NEW n \in Nat, NEW s \in SUBSET (1 .. n), s # {}
    PROVE  Top(s) \in s /\ \A j \in s : Top(s) >= j
<1> DEFINE X == {n - i : i \in s}
<1>1. X \in SUBSET (0 .. n) /\ X # {}
  <2>1. \A i \in s : n - i \in 0 .. n
    OBVIOUS
  <2>2. QED BY <2>1
<1>2. PICK k \in X : \A m \in X : k <= m
  <2> HIDE DEF X
  <2>1. QED BY <1>1, Least
<1>3. PICK i \in s : k = n - i
  OBVIOUS
<1>4. ASSUME NEW j \in s PROVE i >= j
  <2>1. n - j \in X
    OBVIOUS
  <2>2. n - i <= n - j
    BY <1>2, <1>3, <2>1
  <2>3. QED BY <2>2
<1>5. QED BY <1>4 DEF Top

\* What is no less than the others is the greatest.
LEMMA TopIs ==
    ASSUME NEW n \in Nat, NEW s \in SUBSET (1 .. n), NEW k \in s, \A j \in s : k >= j
    PROVE  Top(s) = k
<1>1. s # {}
  OBVIOUS
<1>2. Top(s) \in s /\ Top(s) >= k
  BY <1>1, TopOf
<1>3. k >= Top(s) /\ k \in 1 .. n /\ Top(s) \in 1 .. n
  BY <1>2
<1>4. QED BY <1>2, <1>3

\* The last position of a prefix.
LEMMA TopOfPrefix ==
    ASSUME NEW n \in Nat, NEW k \in 1 .. n
    PROVE  Top(1 .. k) = k /\ (1 .. k) \ {k} = 1 .. k - 1 /\ 1 .. k # {}
<1>1. 1 .. k \in SUBSET (1 .. n) /\ k \in 1 .. k /\ \A j \in 1 .. k : k >= j
  OBVIOUS
<1>2. Top(1 .. k) = k
  BY <1>1, TopIs, Zenon
<1>3. QED BY <1>1, <1>2

\* A fold from the left, by the steps of F.
Folds(g, F, base, x, n) ==
    \A s \in SUBSET (1 .. n) :
        g[s] = IF s = {} THEN base ELSE F[<<g[s \ {Top(s)}], x[Top(s)]>>]

\* There is one, on every prefix.
LEMMA FoldExists ==
    ASSUME NEW A, NEW B, NEW F \in [A \X B -> A], NEW base \in A,
           NEW n \in Nat, NEW x \in [1 .. n -> B]
    PROVE  \E g \in [SUBSET (1 .. n) -> A] : Folds(g, F, base, x, n)
<1> DEFINE Good(m) == \E g \in [SUBSET (1 .. m) -> A] : Folds(g, F, base, x, m)
           X == {m \in 0 .. n : ~ Good(m)}
<1> HIDE DEF Good
<1> SUFFICES ASSUME X # {} PROVE FALSE
  <2>1. n \in 0 .. n
    OBVIOUS
  <2>2. Good(n)
    BY <2>1
  <2>3. QED BY <2>2 DEF Good
<1>1. PICK k \in X : \A m \in X : k <= m
  <2>1. X \in SUBSET (0 .. n)
    OBVIOUS
  <2> HIDE DEF X
  <2>2. QED BY <2>1, Least
<1>2. k \in 0 .. n /\ ~ Good(k) /\ k \in Nat
  OBVIOUS
<1>3. CASE k = 0
  <2> DEFINE g == [s \in SUBSET (1 .. k) |-> base]
  <2>1. \A s \in SUBSET (1 .. k) : s = {}
    BY <1>3
  <2>2. Folds(g, F, base, x, k)
    BY <2>1 DEF Folds
  <2>3. QED BY <1>2, <2>2 DEF Good
<1>4. CASE k # 0
  <2>1. k - 1 \in 0 .. n /\ ~ (k <= k - 1)
    BY <1>2, <1>4
  <2>2. k - 1 \notin X
    BY <1>1, <2>1
  <2>3. Good(k - 1)
    BY <2>1, <2>2
  <2>4. PICK h \in [SUBSET (1 .. k - 1) -> A] : Folds(h, F, base, x, k - 1)
    BY <2>3 DEF Good
  <2> DEFINE g == [s \in SUBSET (1 .. k) |->
                     IF k \in s THEN F[<<h[s \ {k}], x[k]>>] ELSE h[s]]
  <2>5. ASSUME NEW s \in SUBSET (1 .. k), k \in s
        PROVE  s \ {k} \in SUBSET (1 .. k - 1) /\ Top(s) = k
    <3>1. \A j \in s : k >= j
      BY <1>2
    <3>2. Top(s) = k
      BY <1>2, <2>5, <3>1, TopIs, Zenon
    <3>3. QED BY <1>2, <3>2
  <2>6. ASSUME NEW s \in SUBSET (1 .. k), k \notin s
        PROVE  s \in SUBSET (1 .. k - 1)
    BY <1>2, <2>6
  <2>7. g \in [SUBSET (1 .. k) -> A]
    <3>1. x[k] \in B
      BY <1>2, <1>4
    <3>2. QED BY <2>5, <2>6, <3>1
  <2>8. ASSUME NEW s \in SUBSET (1 .. k)
        PROVE  g[s] = IF s = {} THEN base ELSE F[<<g[s \ {Top(s)}], x[Top(s)]>>]
    <3>1. CASE k \in s
      <4>1. g[s] = F[<<h[s \ {k}], x[k]>>] /\ g[s \ {k}] = h[s \ {k}]
        BY <3>1, <2>5
      <4>2. QED BY <3>1, <4>1, <2>5
    <3>2. CASE k \notin s
      <4>1. g[s] = h[s] /\ g[s \ {Top(s)}] = h[s \ {Top(s)}]
        BY <3>2
      <4>2. h[s] = IF s = {} THEN base ELSE F[<<h[s \ {Top(s)}], x[Top(s)]>>]
        BY <2>4, <2>6, <3>2 DEF Folds
      <4>3. QED BY <4>1, <4>2
    <3>3. QED BY <3>1, <3>2
  <2> HIDE DEF g
  <2>9. Folds(g, F, base, x, k)
    BY <2>8 DEF Folds
  <2>10. QED BY <1>2, <2>7, <2>9 DEF Good
<1>5. QED BY <1>3, <1>4

\* What the list is made of.
Server == [addr : Addrs, wss : BOOLEAN]

\* In the order of preference, no address twice.
InOrder(ss) ==
    \A i, j \in DOMAIN ss :
        i < j => ss[i].addr # ss[j].addr /\ (ss[j].wss => ss[i].wss)

\* The servers added after the first k of an answer.
AddedOf(ss, g) ==
    [s \in SUBSET (DOMAIN ss) |->
        IF s = {} THEN <<>> ELSE List!AddOne(g[s \ {Top(s)}], ss[Top(s)])]
Added(ss) == CHOOSE g : g = AddedOf(ss, g)

\* The fold that Add is has the value of a solution.
LEMMA AddIsFold ==
    ASSUME NEW ss
    PROVE  List!Add(List!EmptyList, ss).servers = Added(ss)[DOMAIN ss]
  BY DEF List!Add, List!EmptyList, List!FoldLeft, List!MapThenFoldSet, List!Max,
         Added, AddedOf, Top

\* Each server is added to those before it.
LEMMA AddedInTurn ==
    ASSUME NEW ss \in Seq(Server)
    PROVE  /\ Added(ss)[{}] = <<>>
           /\ \A k \in 1 .. Len(ss) :
                 Added(ss)[1 .. k] = List!AddOne(Added(ss)[1 .. k - 1], ss[k])
<1> DEFINE F == [p \in Seq(Server) \X Server |-> List!AddOne(p[1], p[2])]
           n == Len(ss)
<1>1. F \in [Seq(Server) \X Server -> Seq(Server)]
  BY DEF List!AddOne
<1>2. n \in Nat /\ ss \in [1 .. n -> Server] /\ <<>> \in Seq(Server) /\ DOMAIN ss = 1 .. n
  OBVIOUS
<1>3. PICK g \in [SUBSET (1 .. n) -> Seq(Server)] : Folds(g, F, <<>>, ss, n)
  <2> HIDE DEF F, n
  <2>1. QED BY <1>1, <1>2, FoldExists
<1>4. ASSUME NEW s \in SUBSET (1 .. n), s # {}
      PROVE  g[s] = List!AddOne(g[s \ {Top(s)}], ss[Top(s)])
  <2>1. Top(s) \in 1 .. n /\ s \ {Top(s)} \in SUBSET (1 .. n)
    BY <1>2, <1>4, TopOf
  <2>2. <<g[s \ {Top(s)}], ss[Top(s)]>> \in Seq(Server) \X Server
    BY <2>1
  <2>3. g[s] = F[<<g[s \ {Top(s)}], ss[Top(s)]>>]
    BY <1>3, <1>4 DEF Folds
  <2>4. QED BY <2>2, <2>3
<1>5. g = AddedOf(ss, g)
  <2>1. g[{}] = <<>>
    BY <1>3 DEF Folds
  <2> HIDE DEF n
  <2>2. QED BY <1>2, <1>4, <2>1 DEF AddedOf
<1>6. Added(ss) = AddedOf(ss, Added(ss))
  <2>1. \E f : f = AddedOf(ss, f)
    BY <1>5
  <2>2. QED BY <2>1 DEF Added
<1>7. ASSUME NEW s \in SUBSET (1 .. n)
      PROVE  Added(ss)[s] = IF s = {} THEN <<>>
                            ELSE List!AddOne(Added(ss)[s \ {Top(s)}], ss[Top(s)])
  <2> HIDE DEF n
  <2>1. AddedOf(ss, Added(ss))[s] = IF s = {} THEN <<>>
            ELSE List!AddOne(Added(ss)[s \ {Top(s)}], ss[Top(s)])
    BY <1>2 DEF AddedOf
  <2>2. QED BY <1>6, <2>1
<1>8. Added(ss)[{}] = <<>>
  BY <1>7
<1>9. ASSUME NEW k \in 1 .. n
      PROVE  Added(ss)[1 .. k] = List!AddOne(Added(ss)[1 .. k - 1], ss[k])
  <2>1. 1 .. k \in SUBSET (1 .. n)
    BY <1>2
  <2>2. QED BY <1>2, <1>7, <2>1, TopOfPrefix
<1>10. QED BY <1>8, <1>9

Parts == [wss : Seq(Server), tcp : Seq(Server)]
NoParts == [wss |-> <<>>, tcp |-> <<>>]

\* The parts of the first k servers of an answer.
SplitOf(ss, g) ==
    [s \in SUBSET (DOMAIN ss) |->
        IF s = {} THEN NoParts ELSE List!Split(g[s \ {Top(s)}], ss[Top(s)])]
Parted(ss) == CHOOSE g : g = SplitOf(ss, g)

\* The fold that WSSFirst is has the value of a solution.
LEMMA SortIsFold ==
    ASSUME NEW ss
    PROVE  List!WSSFirst(ss) = Parted(ss)[DOMAIN ss].wss \o Parted(ss)[DOMAIN ss].tcp
  BY DEF List!WSSFirst, List!FoldLeft, List!MapThenFoldSet, List!Max,
         Parted, SplitOf, NoParts, Top

\* What is put where.
LEMMA SplitParts ==
    ASSUME NEW p \in Parts, NEW t \in Server
    PROVE  /\ List!Split(p, t) \in Parts
           /\ t.wss => /\ List!Split(p, t).wss = Append(p.wss, t)
                       /\ List!Split(p, t).tcp = p.tcp
           /\ ~ t.wss => /\ List!Split(p, t).wss = p.wss
                         /\ List!Split(p, t).tcp = Append(p.tcp, t)
<1> DEFINE Q == Seq(Server)
<1>1. /\ p.wss \in Q /\ p.tcp \in Q /\ p = [wss |-> p.wss, tcp |-> p.tcp]
      /\ Append(p.wss, t) \in Q /\ Append(p.tcp, t) \in Q
  BY DEF Parts
<1>2. Parts = [wss : Q, tcp : Q]
  BY DEF Parts
<1>3. List!Split(p, t) = IF t.wss THEN [wss |-> Append(p.wss, t), tcp |-> p.tcp]
                                  ELSE [wss |-> p.wss, tcp |-> Append(p.tcp, t)]
  <2>1. ASSUME NEW a, NEW b
        PROVE  List!Split([wss |-> a, tcp |-> b], t) =
                     IF t.wss THEN [wss |-> Append(a, t), tcp |-> b]
                              ELSE [wss |-> a, tcp |-> Append(b, t)]
    <3> DEFINE q == [wss |-> a, tcp |-> b]
    <3>1. q.wss = a /\ q.tcp = b
      OBVIOUS
    <3>2. \A c : [q EXCEPT !.wss = c] = [wss |-> c, tcp |-> b]
      OBVIOUS
    <3>3. \A c : [q EXCEPT !.tcp = c] = [wss |-> a, tcp |-> c]
      OBVIOUS
    <3> HIDE DEF q
    <3>4. List!Split(q, t) = IF t.wss THEN [q EXCEPT !.wss = Append(q.wss, t)]
                                      ELSE [q EXCEPT !.tcp = Append(q.tcp, t)]
      BY DEF List!Split
    <3>5. List!Split(q, t) = IF t.wss THEN [wss |-> Append(a, t), tcp |-> b]
                                      ELSE [wss |-> a, tcp |-> Append(b, t)]
      BY <3>1, <3>2, <3>3, <3>4
    <3>6. QED BY <3>5 DEF q
  <2>2. List!Split([wss |-> p.wss, tcp |-> p.tcp], t) =
                     IF t.wss THEN [wss |-> Append(p.wss, t), tcp |-> p.tcp]
                              ELSE [wss |-> p.wss, tcp |-> Append(p.tcp, t)]
    BY <2>1
  <2>3. QED BY <1>1, <2>2
<1> HIDE DEF Q
<1>4. QED BY <1>1, <1>2, <1>3

\* Each server is put with those of its kind.
LEMMA PartedInTurn ==
    ASSUME NEW ss \in Seq(Server)
    PROVE  /\ Parted(ss)[{}] = NoParts
           /\ \A k \in 1 .. Len(ss) :
                 Parted(ss)[1 .. k] = List!Split(Parted(ss)[1 .. k - 1], ss[k])
<1> DEFINE F == [p \in Parts \X Server |-> List!Split(p[1], p[2])]
           n == Len(ss)
<1>1. F \in [Parts \X Server -> Parts]
  <2>1. ASSUME NEW p \in Parts, NEW t \in Server PROVE List!Split(p, t) \in Parts
    BY SplitParts
  <2>2. QED BY <2>1
<1>2. /\ n \in Nat /\ ss \in [1 .. n -> Server] /\ DOMAIN ss = 1 .. n
      /\ NoParts \in Parts
  BY DEF Parts, NoParts
<1>3. PICK g \in [SUBSET (1 .. n) -> Parts] : Folds(g, F, NoParts, ss, n)
  <2> HIDE DEF F, n
  <2>1. QED BY <1>1, <1>2, FoldExists
<1>4. ASSUME NEW s \in SUBSET (1 .. n), s # {}
      PROVE  g[s] = List!Split(g[s \ {Top(s)}], ss[Top(s)])
  <2>1. Top(s) \in 1 .. n /\ s \ {Top(s)} \in SUBSET (1 .. n)
    BY <1>2, <1>4, TopOf
  <2>2. <<g[s \ {Top(s)}], ss[Top(s)]>> \in Parts \X Server
    BY <2>1
  <2>3. g[s] = F[<<g[s \ {Top(s)}], ss[Top(s)]>>]
    BY <1>3, <1>4 DEF Folds
  <2>4. QED BY <2>2, <2>3
<1>5. g = SplitOf(ss, g)
  <2>1. g[{}] = NoParts
    BY <1>3 DEF Folds
  <2> HIDE DEF n
  <2>2. QED BY <1>2, <1>4, <2>1 DEF SplitOf
<1>6. Parted(ss) = SplitOf(ss, Parted(ss))
  <2>1. \E f : f = SplitOf(ss, f)
    BY <1>5
  <2>2. QED BY <2>1 DEF Parted
<1>7. ASSUME NEW s \in SUBSET (1 .. n)
      PROVE  Parted(ss)[s] = IF s = {} THEN NoParts
                             ELSE List!Split(Parted(ss)[s \ {Top(s)}], ss[Top(s)])
  <2> HIDE DEF n
  <2>1. SplitOf(ss, Parted(ss))[s] = IF s = {} THEN NoParts
            ELSE List!Split(Parted(ss)[s \ {Top(s)}], ss[Top(s)])
    BY <1>2 DEF SplitOf
  <2>2. QED BY <1>6, <2>1
<1>8. Parted(ss)[{}] = NoParts
  BY <1>7
<1>9. ASSUME NEW k \in 1 .. n
      PROVE  Parted(ss)[1 .. k] = List!Split(Parted(ss)[1 .. k - 1], ss[k])
  <2>1. 1 .. k \in SUBSET (1 .. n)
    BY <1>2
  <2>2. QED BY <1>2, <1>7, <2>1, TopOfPrefix
<1>10. QED BY <1>8, <1>9

\* Those that speak WebSocket come first.
WSSAhead(ss) == \A i, j \in DOMAIN ss : i < j => (ss[j].wss => ss[i].wss)

\* What both parts are after k servers.
PartsOf(p, k) ==
    /\ p \in Parts
    /\ \A i \in DOMAIN p.wss : p.wss[i].wss
    /\ \A i \in DOMAIN p.tcp : ~ p.tcp[i].wss
    /\ Len(p.wss) + Len(p.tcp) = k

\* The elements of a sequence with one more.
LEMMA EachAppended ==
    ASSUME NEW u \in Seq(Server), NEW t \in Server
    PROVE  \A i \in DOMAIN Append(u, t) :
              \/ i \in DOMAIN u /\ Append(u, t)[i] = u[i]
              \/ Append(u, t)[i] = t
  OBVIOUS

\* One more.
LEMMA OneMoreParted ==
    ASSUME NEW p, NEW k \in Nat, PartsOf(p, k), NEW t \in Server
    PROVE  PartsOf(List!Split(p, t), k + 1)
<1>1. /\ p \in Parts /\ p.wss \in Seq(Server) /\ p.tcp \in Seq(Server)
      /\ t.wss \in BOOLEAN /\ List!Split(p, t) \in Parts
  BY SplitParts DEF PartsOf, Parts, Server
<1>2. CASE t.wss
  <2>1. List!Split(p, t).wss = Append(p.wss, t) /\ List!Split(p, t).tcp = p.tcp
    BY <1>1, <1>2, SplitParts
  <2>2. Len(Append(p.wss, t)) + Len(p.tcp) = k + 1
    <3>1. Len(Append(p.wss, t)) = Len(p.wss) + 1
      BY <1>1
    <3>2. Len(p.wss) \in Nat /\ Len(p.tcp) \in Nat
      BY <1>1
    <3>3. Len(p.wss) + Len(p.tcp) = k
      BY DEF PartsOf
    <3>4. \A a, b \in Nat : a + b = k => (a + 1) + b = k + 1
      OBVIOUS
    <3>5. (Len(p.wss) + 1) + Len(p.tcp) = k + 1
      BY <3>2, <3>3, <3>4
    <3>6. QED BY <3>1, <3>5
  <2>3. \A i \in DOMAIN Append(p.wss, t) : Append(p.wss, t)[i].wss
    BY <1>1, <1>2, EachAppended DEF PartsOf
  <2>4. \A i \in DOMAIN p.tcp : ~ p.tcp[i].wss
    BY DEF PartsOf
  <2>5. QED BY <1>1, <2>1, <2>2, <2>4, <2>3 DEF PartsOf
<1>3. CASE ~ t.wss
  <2>1. List!Split(p, t).wss = p.wss /\ List!Split(p, t).tcp = Append(p.tcp, t)
    BY <1>1, <1>3, SplitParts
  <2>2. Len(p.wss) + Len(Append(p.tcp, t)) = k + 1
    <3>1. Len(Append(p.tcp, t)) = Len(p.tcp) + 1
      BY <1>1
    <3>2. Len(p.wss) \in Nat /\ Len(p.tcp) \in Nat
      BY <1>1
    <3>3. Len(p.wss) + Len(p.tcp) = k
      BY DEF PartsOf
    <3>4. \A a, b \in Nat : a + b = k => a + (b + 1) = k + 1
      OBVIOUS
    <3>5. Len(p.wss) + (Len(p.tcp) + 1) = k + 1
      BY <3>2, <3>3, <3>4
    <3>6. QED BY <3>1, <3>5
  <2>3. \A i \in DOMAIN Append(p.tcp, t) : ~ Append(p.tcp, t)[i].wss
    BY <1>1, <1>3, EachAppended DEF PartsOf
  <2>4. \A i \in DOMAIN p.wss : p.wss[i].wss
    BY DEF PartsOf
  <2>5. QED BY <1>1, <2>1, <2>2, <2>4, <2>3 DEF PartsOf
<1>4. QED BY <1>2, <1>3

\* The answer in order: as many servers, those that speak WebSocket ahead.
LEMMA SortPutsAhead ==
    ASSUME NEW ss \in Seq(Server)
    PROVE  /\ List!WSSFirst(ss) \in Seq(Server)
           /\ WSSAhead(List!WSSFirst(ss))
           /\ Len(List!WSSFirst(ss)) = Len(ss)
<1> DEFINE n == Len(ss)
           X == {k \in 0 .. n : ~ PartsOf(Parted(ss)[1 .. k], k)}
<1>1. n \in Nat /\ DOMAIN ss = 1 .. n /\ n \in 0 .. n
  OBVIOUS
<1>2. X = {}
  <2> SUFFICES ASSUME X # {} PROVE FALSE
    OBVIOUS
  <2>1. PICK k \in X : \A m \in X : k <= m
    <3>1. X \in SUBSET (0 .. n)
      OBVIOUS
    <3> HIDE DEF X, n
    <3>2. QED BY <1>1, <3>1, Least
  <2>2. k \in 0 .. n /\ ~ PartsOf(Parted(ss)[1 .. k], k)
    OBVIOUS
  <2>3. k # 0
    <3>1. 1 .. 0 = {} /\ Parted(ss)[{}] = NoParts
      BY PartedInTurn
    <3>2. PartsOf(NoParts, 0)
      BY DEF PartsOf, Parts, NoParts
    <3>3. QED BY <2>2, <3>1, <3>2
  <2>4. k \in 1 .. n /\ k - 1 \in Nat /\ k - 1 \in 0 .. n /\ ~ (k <= k - 1)
    BY <1>1, <2>2, <2>3
  <2>5. PartsOf(Parted(ss)[1 .. k - 1], k - 1)
    <3>1. k - 1 \notin X
      BY <2>1, <2>4
    <3>2. QED BY <2>4, <3>1
  <2>6. ss[k] \in Server /\ Parted(ss)[1 .. k] = List!Split(Parted(ss)[1 .. k - 1], ss[k])
    BY <2>4, PartedInTurn
  <2>7. PartsOf(Parted(ss)[1 .. k], k - 1 + 1)
    BY <2>4, <2>5, <2>6, OneMoreParted
  <2>8. k - 1 + 1 = k
    BY <2>4
  <2>9. QED BY <2>2, <2>7, <2>8
<1>3. PartsOf(Parted(ss)[DOMAIN ss], n)
  BY <1>1, <1>2
<1> DEFINE p == Parted(ss)[DOMAIN ss]
<1>4. List!WSSFirst(ss) = p.wss \o p.tcp
  BY SortIsFold
<1>5. /\ p.wss \in Seq(Server) /\ p.tcp \in Seq(Server)
      /\ \A i \in DOMAIN p.wss : p.wss[i].wss
      /\ \A i \in DOMAIN p.tcp : ~ p.tcp[i].wss
      /\ Len(p.wss) + Len(p.tcp) = n
  BY <1>3 DEF PartsOf, Parts
<1> HIDE DEF p, n
<1> DEFINE u == p.wss
           v == p.tcp
<1>6. /\ u \in Seq(Server) /\ v \in Seq(Server)
      /\ Len(u) + Len(v) = n
      /\ List!WSSFirst(ss) = u \o v
      /\ \A i \in DOMAIN u : u[i].wss
      /\ \A i \in DOMAIN v : ~ v[i].wss
  BY <1>4, <1>5
<1> HIDE DEF u, v
<1>7. u \o v \in Seq(Server) /\ Len(u \o v) = n
  BY <1>6
<1>8. ASSUME NEW i \in 1 .. n, NEW j \in 1 .. n, i < j, (u \o v)[j].wss
      PROVE  (u \o v)[i].wss
  <2>1. \A q \in 1 .. n : (u \o v)[q] = IF q <= Len(u) THEN u[q] ELSE v[q - Len(u)]
    BY <1>6
  <2>2. j <= Len(u)
    BY <1>1, <1>6, <1>8, <2>1
  <2>3. i <= Len(u) /\ i \in DOMAIN u /\ (u \o v)[i] = u[i]
    BY <1>1, <1>6, <1>8, <2>1, <2>2
  <2>4. QED BY <1>6, <2>3
<1>9. WSSAhead(u \o v)
  <2>1. DOMAIN (u \o v) = 1 .. n
    BY <1>7
  <2>2. QED BY <1>8, <2>1 DEF WSSAhead
<1>10. QED BY <1>6, <1>7, <1>9 DEF n

\* The first k servers of an answer, no address twice.
ListOf(d, ss, k) ==
    /\ d \in Seq(Server)
    /\ InOrder(d)
    /\ k > 0 => d # <<>>
    /\ \A i \in DOMAIN d : \E j \in 1 .. k : d[i] = ss[j]

\* One more, unless its address is there already.
LEMMA OneMoreAdded ==
    ASSUME NEW ss \in Seq(Server), WSSAhead(ss), NEW k \in 1 .. Len(ss),
           NEW d, ListOf(d, ss, k - 1)
    PROVE  ListOf(List!AddOne(d, ss[k]), ss, k)
<1> DEFINE t == ss[k]
<1>1. /\ d \in Seq(Server) /\ t \in Server /\ InOrder(d)
      /\ \A i \in DOMAIN d : \E j \in 1 .. k - 1 : d[i] = ss[j]
  BY DEF ListOf
<1>2. \A i \in DOMAIN d : t.wss => d[i].wss
  <2> SUFFICES ASSUME NEW i \in DOMAIN d, t.wss PROVE d[i].wss
    OBVIOUS
  <2>1. PICK j \in 1 .. k - 1 : d[i] = ss[j]
    BY <1>1
  <2>2. j \in DOMAIN ss /\ k \in DOMAIN ss /\ j < k
    OBVIOUS
  <2>3. QED BY <2>1, <2>2 DEF WSSAhead
<1>3. \A i \in DOMAIN d : \E j \in 1 .. k : d[i] = ss[j]
  BY <1>1
<1>4. CASE t.addr \in List!AddrsOf(d)
  <2>1. List!AddOne(d, t) = d
    BY <1>4 DEF List!AddOne
  <2>2. d # <<>>
    BY <1>4 DEF List!AddrsOf, List!ToSet
  <2>3. QED BY <1>1, <1>3, <2>1, <2>2 DEF ListOf
<1>5. CASE t.addr \notin List!AddrsOf(d)
  <2> HIDE DEF t
  <2>1. List!AddOne(d, t) = Append(d, t)
    BY <1>5 DEF List!AddOne
  <2>2. \A i \in DOMAIN d : d[i].addr # t.addr
    BY <1>5 DEF List!AddrsOf, List!ToSet
  <2> DEFINE e == Append(d, t)
  <2>3. /\ e \in Seq(Server) /\ e # <<>> /\ DOMAIN e = 1 .. Len(d) + 1
        /\ DOMAIN d = 1 .. Len(d) /\ Len(d) \in Nat
        /\ \A i \in DOMAIN d : e[i] = d[i]
        /\ e[Len(d) + 1] = t
    BY <1>1
  <2> HIDE DEF e
  <2>4. ASSUME NEW i \in DOMAIN e, NEW j \in DOMAIN e, i < j
        PROVE  e[i].addr # e[j].addr /\ (e[j].wss => e[i].wss)
    <3>1. i \in DOMAIN d /\ e[i] = d[i]
      BY <2>3, <2>4
    <3>2. CASE j \in DOMAIN d
      <4>1. e[j] = d[j]
        BY <2>3, <3>2
      <4>2. QED BY <1>1, <2>4, <3>1, <3>2, <4>1 DEF InOrder
    <3>3. CASE j \notin DOMAIN d
      <4>1. j = Len(d) + 1 /\ e[j] = t
        BY <2>3, <3>3
      <4>2. QED BY <1>2, <2>2, <3>1, <4>1
    <3>4. QED BY <3>2, <3>3
  <2>5. InOrder(e)
    BY <2>4 DEF InOrder
  <2>6. \A i \in DOMAIN e : \E j \in 1 .. k : e[i] = ss[j]
    <3>1. k \in 1 .. k /\ t = ss[k]
      BY DEF t
    <3>2. QED BY <1>3, <2>3, <3>1
  <2>7. List!AddOne(d, ss[k]) = e
    BY <2>1 DEF e, t
  <2>8. QED BY <2>3, <2>5, <2>6, <2>7 DEF ListOf
<1>6. QED BY <1>4, <1>5

\* Servers sorted so are added in order, and there are some.
LEMMA AddKeepsOrder ==
    ASSUME NEW ss \in Seq(Server), WSSAhead(ss), ss # <<>>
    PROVE  LET d == List!Add(List!EmptyList, ss).servers
           IN  d \in Seq(Server) /\ InOrder(d) /\ d # <<>>
<1> DEFINE n == Len(ss)
           X == {k \in 0 .. n : ~ ListOf(Added(ss)[1 .. k], ss, k)}
<1>1. n \in Nat /\ DOMAIN ss = 1 .. n /\ n \in 0 .. n /\ n > 0
  OBVIOUS
<1>2. X = {}
  <2> SUFFICES ASSUME X # {} PROVE FALSE
    OBVIOUS
  <2>1. PICK k \in X : \A m \in X : k <= m
    <3>1. X \in SUBSET (0 .. n)
      OBVIOUS
    <3> HIDE DEF X, n
    <3>2. QED BY <1>1, <3>1, Least
  <2>2. k \in 0 .. n /\ ~ ListOf(Added(ss)[1 .. k], ss, k)
    OBVIOUS
  <2>3. k # 0
    <3>1. 1 .. 0 = {} /\ Added(ss)[{}] = <<>>
      BY AddedInTurn
    <3>2. ListOf(<<>>, ss, 0)
      BY DEF ListOf, InOrder
    <3>3. QED BY <2>2, <3>1, <3>2
  <2>4. k \in 1 .. n /\ k - 1 \in 0 .. n /\ ~ (k <= k - 1)
    BY <1>1, <2>2, <2>3
  <2>5. ListOf(Added(ss)[1 .. k - 1], ss, k - 1)
    <3>1. k - 1 \notin X
      BY <2>1, <2>4
    <3>2. QED BY <2>4, <3>1
  <2>6. Added(ss)[1 .. k] = List!AddOne(Added(ss)[1 .. k - 1], ss[k])
    BY <2>4, AddedInTurn
  <2>7. ListOf(Added(ss)[1 .. k], ss, k)
    BY <2>4, <2>5, <2>6, OneMoreAdded
  <2>8. QED BY <2>2, <2>7
<1>3. ListOf(Added(ss)[DOMAIN ss], ss, n)
  BY <1>1, <1>2
<1>4. QED BY <1>1, <1>3, AddIsFold DEF ListOf

\* What the login begins with: some servers, in order.
LEMMA BootstrapInOrder ==
    ASSUME NEW a \in Answers
    PROVE  LET d == List!Bootstrap(List!EmptyList, a, Tcp(Dns)).servers
           IN  d \in Seq(Server) /\ InOrder(d) /\ d # <<>>
<1>1. a \in Seq(Server) /\ Dns \in Addrs
  BY LoginAssumption DEF Server
<1>2. CASE a = <<>>
  <2> DEFINE one == <<Tcp(Dns)>>
  <2>1. one \in Seq(Server) /\ one # <<>> /\ DOMAIN one = {1}
    BY <1>1 DEF Server, Tcp
  <2>2. WSSAhead(one)
    BY <2>1 DEF WSSAhead
  <2> HIDE DEF one
  <2>3. LET d == List!Add(List!EmptyList, one).servers
        IN  d \in Seq(Server) /\ InOrder(d) /\ d # <<>>
    BY <2>1, <2>2, AddKeepsOrder
  <2>4. QED BY <1>2, <2>3 DEF List!Bootstrap, one
<1>3. CASE a # <<>>
  <2> DEFINE ss == List!WSSFirst(a)
  <2>1. ss \in Seq(Server) /\ WSSAhead(ss) /\ Len(ss) = Len(a)
    BY <1>1, SortPutsAhead
  <2>2. ss # <<>>
    BY <1>1, <1>3, <2>1
  <2> HIDE DEF ss
  <2>3. LET d == List!Add(List!EmptyList, ss).servers
        IN  d \in Seq(Server) /\ InOrder(d) /\ d # <<>>
    BY <2>1, <2>2, AddKeepsOrder
  <2>4. QED BY <1>3, <2>3 DEF List!Bootstrap, ss
<1>4. QED BY <1>2, <1>3

-----------------------------------------------------------------------------
(* The login over the list. *)

ListTypes ==
    /\ list \in [servers : Seq(Server), bad : SUBSET Addrs, idx : Nat]
    /\ srv \in Server
    /\ tried \in Seq(Server)

\* The list is filled as the first login begins.
Filled ==
    IF pc = "new" THEN list = List!EmptyList /\ tried = <<>>
                  ELSE list.servers # <<>> /\ InOrder(list.servers)

\* Until all were tried, the next is the next of the list.
TriedInTurn ==
    \A i \in DOMAIN tried :
        i <= Len(list.servers) => tried[i] = list.servers[i]

\* The index of the list counts the servers tried, and only they are marked.
FirstRound ==
    pc # "new" /\ ret = "session" =>
        /\ Len(tried) <= Len(list.servers) =>
              /\ list.idx = Len(tried) % Len(list.servers)
              /\ list.bad \subseteq {tried[i].addr : i \in DOMAIN tried}
        /\ IF tried = <<>> THEN pc \in {"connect", "closed"}
                           ELSE srv = tried[Len(tried)]

ListInv == ListTypes /\ Filled /\ TriedInTurn /\ FirstRound

\* The invariant says enough.
LEMMA InTurnIsNew == ListInv => NewServerEachTry
<1> SUFFICES ASSUME ListInv, NEW i \in DOMAIN tried, NEW j \in DOMAIN tried,
                    i < j, j <= Len(list.servers)
             PROVE  tried[i] # tried[j] /\ (tried[j].wss => tried[i].wss)
  BY DEF NewServerEachTry
<1>1. /\ tried \in Seq(Server) /\ list.servers \in Seq(Server)
      /\ DOMAIN tried = 1 .. Len(tried) /\ Len(tried) \in Nat
      /\ Len(list.servers) \in Nat
      /\ DOMAIN list.servers = 1 .. Len(list.servers)
  BY DEF ListInv, ListTypes
<1>2. i \in DOMAIN list.servers /\ j \in DOMAIN list.servers
  BY <1>1
<1>3. tried[i] = list.servers[i] /\ tried[j] = list.servers[j]
  BY <1>1 DEF ListInv, TriedInTurn
<1>4. InOrder(list.servers)
  <2>1. pc # "new"
    BY DEF ListInv, Filled
  <2>2. QED BY <2>1 DEF ListInv, Filled
<1>5. QED BY <1>2, <1>3, <1>4 DEF InOrder

\* Nothing was tried yet.
LEMMA ListStarts == ListInit => ListInv
<1> SUFFICES ASSUME ListInit PROVE ListInv
  OBVIOUS
<1>1. list = List!EmptyList /\ srv = Tcp(Dns) /\ tried = <<>> /\ pc = "new"
  BY DEF ListInit, Init
<1>2. list \in [servers : Seq(Server), bad : SUBSET Addrs, idx : Nat]
  BY <1>1 DEF List!EmptyList
<1>3. srv \in Server
  BY <1>1, LoginAssumption DEF Tcp, Server
<1>4. ListTypes
  BY <1>1, <1>2, <1>3 DEF ListTypes
<1>5. TriedInTurn
  BY <1>1 DEF TriedInTurn
<1>6. QED BY <1>1, <1>4, <1>5 DEF ListInv, Filled, FirstRound

\* The first login fills the list.
LEMMA BootstrapKeeps == ListInv /\ Bootstrap => ListInv'
<1> SUFFICES ASSUME ListInv, Bootstrap PROVE ListInv'
  OBVIOUS
<1>1. /\ pc = "new" /\ pc' = "connect" /\ srv' = srv /\ tried' = tried
      /\ list = List!EmptyList /\ tried = <<>>
  BY DEF Bootstrap, StartSession, ListInv, Filled
<1>2. PICK a \in Answers : list' = List!Bootstrap(list, a, Tcp(Dns))
  BY DEF Bootstrap
<1> DEFINE d == List!Bootstrap(List!EmptyList, a, Tcp(Dns)).servers
<1>3. d \in Seq(Server) /\ InOrder(d) /\ d # <<>>
  BY BootstrapInOrder
<1>4. list' = [servers |-> d, bad |-> {}, idx |-> 0]
  <2>1. \A ss : List!Add(List!EmptyList, ss) =
                 [servers |-> List!Add(List!EmptyList, ss).servers, bad |-> {}, idx |-> 0]
    <3> SUFFICES ASSUME NEW ss
                 PROVE  List!Add(List!EmptyList, ss) =
                 [servers |-> List!Add(List!EmptyList, ss).servers, bad |-> {}, idx |-> 0]
      OBVIOUS
    <3> DEFINE q == [servers |-> <<>>, bad |-> {}, idx |-> 0]
    <3>1. \A x, y, z, c : [[servers |-> x, bad |-> y, idx |-> z] EXCEPT !.servers = c]
                          = [servers |-> c, bad |-> y, idx |-> z]
      OBVIOUS
    <3>2. \A c : [q EXCEPT !.servers = c] = [servers |-> c, bad |-> {}, idx |-> 0]
      BY <3>1
    <3> DEFINE c0 == List!FoldLeft(List!AddOne, q.servers, ss)
    <3>3. List!Add(List!EmptyList, ss) = [q EXCEPT !.servers = c0]
      BY DEF List!Add, List!EmptyList
    <3> HIDE DEF q, c0
    <3>4. List!Add(List!EmptyList, ss) = [servers |-> c0, bad |-> {}, idx |-> 0]
      BY <3>2, <3>3
    <3>5. List!Add(List!EmptyList, ss).servers = c0
      BY <3>4
    <3>6. QED BY <3>4, <3>5
  <2>2. list' = List!Bootstrap(List!EmptyList, a, Tcp(Dns))
    BY <1>1, <1>2
  <2>3. \E ss : List!Bootstrap(List!EmptyList, a, Tcp(Dns)) =
                    List!Add(List!EmptyList, ss)
    BY DEF List!Bootstrap
  <2>4. PICK ss : List!Bootstrap(List!EmptyList, a, Tcp(Dns)) =
                    List!Add(List!EmptyList, ss)
    BY <2>3
  <2>5. d = List!Add(List!EmptyList, ss).servers
    BY <2>4
  <2> HIDE DEF d
  <2>6. QED BY <2>1, <2>2, <2>4, <2>5
<1> HIDE DEF d
<1>5. list'.servers = d /\ list'.bad = {} /\ list'.idx = 0
  BY <1>4
<1>6. ListTypes'
  <2>1. list' \in [servers : Seq(Server), bad : SUBSET Addrs, idx : Nat]
    BY <1>3, <1>4
  <2>2. QED BY <1>1, <2>1 DEF ListInv, ListTypes
<1>7. Filled'
  BY <1>1, <1>3, <1>5 DEF Filled
<1>8. TriedInTurn'
  BY <1>1 DEF TriedInTurn
<1>9. FirstRound'
  <2>1. Len(list'.servers) \in Nat \ {0} /\ Len(tried') = 0
    BY <1>1, <1>3, <1>5
  <2>2. \A n \in Nat \ {0} : 0 % n = 0
    OBVIOUS
  <2>3. QED BY <1>1, <1>5, <2>1, <2>2 DEF FirstRound
<1>10. QED BY <1>6, <1>7, <1>8, <1>9 DEF ListInv

\* The least number of some is one of them.
LEMMA MinIn ==
    ASSUME NEW n \in Nat, NEW X \in SUBSET (0 .. n), X # {}
    PROVE  List!Min(X) \in X /\ \A m \in X : List!Min(X) <= m
<1>1. \E k \in X : \A m \in X : k <= m
  BY Least
<1>2. QED BY <1>1 DEF List!Min

\* Servers are passed over by whole numbers, and none if the next is good.
LEMMA SkippedIsNat ==
    ASSUME NEW l, l.servers \in Seq(Server), l.servers # <<>>, l.idx \in Nat
    PROVE  /\ List!Skipped(l) \in Nat
           /\ List!At(l, l.idx).addr \notin l.bad => List!Skipped(l) = 0
<1> DEFINE n == Len(l.servers)
           good == {k \in 0 .. n - 1 : List!At(l, l.idx + k).addr \notin l.bad}
<1>1. n \in Nat \ {0} /\ n - 1 \in Nat
  BY EmptySeq, LenProperties
<1>2. good \in SUBSET (0 .. n - 1)
  OBVIOUS
<1>3. List!Skipped(l) = IF good = {} THEN n ELSE List!Min(good)
  BY DEF List!Skipped
<1>4. List!At(l, l.idx).addr \notin l.bad => 0 \in good
  <2>1. l.idx + 0 = l.idx /\ 0 \in 0 .. n - 1
    BY <1>1
  <2>2. QED BY <2>1
<1> HIDE DEF n, good
<1>5. good # {} => List!Min(good) \in good /\ \A m \in good : List!Min(good) <= m
  BY <1>1, <1>2, MinIn
<1>6. List!Skipped(l) \in Nat
  <2>1. CASE good = {}
    BY <1>1, <1>3, <2>1
  <2>2. CASE good # {}
    <3>1. List!Min(good) \in 0 .. n - 1
      BY <1>2, <1>5, <2>2
    <3>2. QED BY <1>1, <1>3, <2>2, <3>1
  <2>3. QED BY <2>1, <2>2
<1>7. ASSUME 0 \in good PROVE List!Skipped(l) = 0
  <2>1. List!Skipped(l) = List!Min(good) /\ List!Min(good) <= 0
    BY <1>3, <1>5, <1>7
  <2>2. QED BY <1>6, <2>1
<1>8. QED BY <1>4, <1>6, <1>7

\* The next attempt takes the next server.
LEMMA RotateKeeps == ListInv /\ Rotate => ListInv'
<1> SUFFICES ASSUME ListInv, Rotate PROVE ListInv'
  OBVIOUS
<1> DEFINE n == Len(list.servers)
           t == Len(tried)
           step == List!Skipped(list)
           next == List!Next(list).server
<1>1. /\ pc = "connect" /\ pc' = "dial" /\ ret' = ret
      /\ srv' = next
      /\ list' = List!Next(list).list
      /\ tried' = IF ret = "session" THEN Append(tried, next) ELSE tried
  BY DEF Rotate, Connect
<1>2. /\ list \in [servers : Seq(Server), bad : SUBSET Addrs, idx : Nat]
      /\ list.servers \in Seq(Server) /\ list.servers # <<>>
      /\ list.idx \in Nat /\ tried \in Seq(Server)
      /\ InOrder(list.servers)
  BY <1>1 DEF ListInv, ListTypes, Filled
<1>3. n \in Nat \ {0} /\ t \in Nat /\ DOMAIN list.servers = 1 .. n
  BY <1>2, EmptySeq, LenProperties
<1>4. step \in Nat
  BY <1>2, SkippedIsNat
<1>5. list' = [list EXCEPT !.idx = (list.idx + (step + 1)) % n]
  BY <1>1 DEF List!Next, List!MoveOn
<1>6. next = list.servers[((list.idx + step) % n) + 1]
  BY DEF List!Next, List!At
<1> HIDE DEF next, step, n, t
<1>7. /\ (list.idx + (step + 1)) % n \in Nat
      /\ ((list.idx + step) % n) + 1 \in 1 .. n
  <2>1. \A a \in Nat, b \in Nat \ {0} : a % b \in 0 .. b - 1
    OBVIOUS
  <2>2. list.idx + (step + 1) \in Nat /\ list.idx + step \in Nat
    BY <1>2, <1>4
  <2>3. /\ (list.idx + (step + 1)) % n \in 0 .. n - 1
        /\ (list.idx + step) % n \in 0 .. n - 1
    BY <1>3, <2>1, <2>2, Zenon
  <2> DEFINE a == (list.idx + step) % n
  <2> HIDE DEF a
  <2>4. a \in 0 .. n - 1 => a + 1 \in 1 .. n
    BY <1>3
  <2>5. QED BY <1>3, <2>3, <2>4 DEF a
<1>8. /\ list'.servers = list.servers /\ list'.bad = list.bad
      /\ list'.idx = (list.idx + (step + 1)) % n
  BY <1>2, <1>5
<1>9. ListTypes'
  <2>1. list' \in [servers : Seq(Server), bad : SUBSET Addrs, idx : Nat]
    BY <1>2, <1>5, <1>7
  <2>2. next \in Server
    BY <1>2, <1>3, <1>6, <1>7
  <2>3. tried' \in Seq(Server)
    BY <1>1, <1>2, <2>2
  <2>4. QED BY <1>1, <2>1, <2>2, <2>3 DEF ListTypes
<1>10. Filled'
  BY <1>1, <1>2, <1>8 DEF Filled
<1>11. CASE ret # "session"
  <2>1. tried' = tried
    BY <1>1, <1>11
  <2>2. TriedInTurn'
    BY <1>8, <2>1 DEF ListInv, TriedInTurn
  <2>3. FirstRound'
    BY <1>1, <1>11 DEF FirstRound
  <2>4. QED BY <1>9, <1>10, <2>2, <2>3 DEF ListInv
<1>12. CASE ret = "session"
  <2>1. /\ tried' = Append(tried, next) /\ DOMAIN tried' = 1 .. t + 1
        /\ Len(tried') = t + 1 /\ tried'[t + 1] = next
        /\ DOMAIN tried = 1 .. t
        /\ \A i \in 1 .. t : tried'[i] = tried[i]
    <3>1. tried' = Append(tried, next) /\ next \in Server
      BY <1>1, <1>2, <1>3, <1>6, <1>7, <1>12
    <3>2. QED BY <1>2, <3>1 DEF t
  <2>2. ASSUME t < n
        PROVE  next = list.servers[t + 1] /\ list'.idx = (t + 1) % n
    <3>1. t % n = t
      BY <1>3, <2>2
    <3>2. list.idx = t /\ list.bad \subseteq {tried[i].addr : i \in DOMAIN tried}
      <4>1. t <= n /\ pc # "new"
        BY <1>1, <1>3, <2>2
      <4>2. list.idx = t % n /\ list.bad \subseteq {tried[i].addr : i \in DOMAIN tried}
        BY <1>12, <4>1 DEF ListInv, FirstRound, n, t
      <4>3. QED BY <3>1, <4>2
    <3>3. List!At(list, list.idx) = list.servers[t + 1]
      BY <3>1, <3>2 DEF List!At, n
    <3>4. list.servers[t + 1].addr \notin list.bad
      <4> SUFFICES ASSUME list.servers[t + 1].addr \in list.bad PROVE FALSE
        OBVIOUS
      <4>1. PICK i \in 1 .. t : list.servers[t + 1].addr = tried[i].addr
        BY <2>1, <3>2
      <4>2. tried[i] = list.servers[i]
        <5>1. i \in DOMAIN tried /\ i <= Len(list.servers)
          BY <1>3, <2>1, <2>2 DEF n
        <5>2. QED BY <5>1 DEF ListInv, TriedInTurn
      <4>3. i \in DOMAIN list.servers /\ t + 1 \in DOMAIN list.servers /\ i < t + 1
        BY <1>3, <2>2
      <4>4. list.servers[i].addr # list.servers[t + 1].addr
        BY <1>2, <4>3 DEF InOrder
      <4>5. QED BY <4>1, <4>2, <4>4
    <3>5. step = 0
      BY <1>2, <3>3, <3>4, SkippedIsNat DEF step
    <3>6. next = list.servers[((t + 0) % n) + 1] /\ list'.idx = (t + (0 + 1)) % n
      BY <1>6, <1>8, <3>2, <3>5
    <3>7. t + 0 = t /\ t + (0 + 1) = t + 1
      BY <1>3
    <3>8. QED BY <3>1, <3>6, <3>7
  <2>3. TriedInTurn'
    <3> SUFFICES ASSUME NEW i \in 1 .. t + 1, i <= n PROVE tried'[i] = list.servers[i]
      BY <1>8, <2>1 DEF TriedInTurn, n
    <3>1. CASE i \in 1 .. t
      <4>1. tried[i] = list.servers[i]
        BY <2>1, <3>1 DEF ListInv, TriedInTurn, n
      <4>2. QED BY <2>1, <3>1, <4>1
    <3>2. CASE i = t + 1
      BY <1>3, <2>1, <2>2, <3>2
    <3>3. QED BY <1>3, <3>1, <3>2
  <2>4. ASSUME t + 1 <= n
        PROVE  /\ list'.idx = (t + 1) % n
               /\ list'.bad \subseteq {tried'[i].addr : i \in DOMAIN tried'}
    <3>1. t < n /\ t <= n
      BY <1>3, <2>4
    <3>2. list.bad \subseteq {tried[i].addr : i \in DOMAIN tried}
      BY <1>1, <1>12, <3>1 DEF ListInv, FirstRound, n, t
    <3>3. \A i \in DOMAIN tried : i \in DOMAIN tried' /\ tried'[i] = tried[i]
      BY <1>3, <2>1
    <3>4. list'.bad \subseteq {tried'[i].addr : i \in DOMAIN tried'}
      BY <1>8, <3>2, <3>3
    <3>5. QED BY <2>2, <3>1, <3>4
  <2>5. tried' # <<>> /\ srv' = tried'[Len(tried')]
    BY <1>1, <1>3, <2>1
  <2>6. FirstRound'
    <3>1. Len(tried') <= Len(list'.servers) =>
              /\ list'.idx = Len(tried') % Len(list'.servers)
              /\ list'.bad \subseteq {tried'[i].addr : i \in DOMAIN tried'}
      BY <1>8, <2>1, <2>4 DEF n
    <3>2. QED BY <2>5, <3>1 DEF FirstRound
  <2>7. QED BY <1>9, <1>10, <2>3, <2>6 DEF ListInv
<1>13. QED BY <1>11, <1>12

\* What is marked was tried.
LEMMA MarkedKeeps == ListInv /\ Marked => ListInv'
<1> SUFFICES ASSUME ListInv, Marked PROVE ListInv'
  OBVIOUS
<1>1. /\ pc = "fail" /\ pc' = "connect" /\ ret' = ret
      /\ srv' = srv /\ tried' = tried
      /\ list' = [list EXCEPT !.bad = list.bad \cup {srv.addr}]
  BY DEF Marked, LoginFailed, loginVars, List!MarkBad
<1>2. /\ list \in [servers : Seq(Server), bad : SUBSET Addrs, idx : Nat]
      /\ srv \in Server /\ tried \in Seq(Server) /\ list.bad \in SUBSET Addrs
  BY DEF ListInv, ListTypes
<1>3. srv.addr \in Addrs
  BY <1>2 DEF Server
<1>4. /\ list'.servers = list.servers /\ list'.idx = list.idx
      /\ list'.bad = list.bad \cup {srv.addr}
      /\ list' \in [servers : Seq(Server), bad : SUBSET Addrs, idx : Nat]
  BY <1>1, <1>2, <1>3
<1>5. ListTypes' /\ Filled' /\ TriedInTurn'
  BY <1>1, <1>4 DEF ListInv, ListTypes, Filled, TriedInTurn
<1>6. FirstRound'
  <2> SUFFICES ASSUME ret = "session" PROVE FirstRound'
    BY <1>1 DEF FirstRound
  <2>1. tried # <<>> /\ srv = tried[Len(tried)]
    BY <1>1 DEF ListInv, FirstRound
  <2>2. Len(tried) \in DOMAIN tried
    BY <1>2, <2>1
  <2>3. srv.addr \in {tried[i].addr : i \in DOMAIN tried}
    BY <2>1, <2>2
  <2>4. QED BY <1>1, <1>4, <2>1, <2>3 DEF ListInv, FirstRound
<1>7. QED BY <1>5, <1>6 DEF ListInv

\* Marks only go.
LEMMA ForgetKeeps == ListInv /\ Forget => ListInv'
<1> SUFFICES ASSUME ListInv, Forget PROVE ListInv'
  OBVIOUS
<1>1. PICK a \in list.bad : list' = [list EXCEPT !.bad = list.bad \ {a}]
  BY DEF Forget
<1>2. pc' = pc /\ ret' = ret /\ srv' = srv /\ tried' = tried
  BY DEF Forget, vars, callVars, loginVars
<1>3. /\ list \in [servers : Seq(Server), bad : SUBSET Addrs, idx : Nat]
      /\ list.bad \in SUBSET Addrs
  BY DEF ListInv, ListTypes
<1>4. /\ list'.servers = list.servers /\ list'.idx = list.idx
      /\ list'.bad = list.bad \ {a}
      /\ list' \in [servers : Seq(Server), bad : SUBSET Addrs, idx : Nat]
  BY <1>1, <1>3
<1>5. ListTypes' /\ TriedInTurn'
  BY <1>2, <1>4 DEF ListInv, ListTypes, TriedInTurn
<1>6. Filled'
  <2>1. pc # "new"
    BY <1>1 DEF ListInv, Filled, List!EmptyList
  <2>2. QED BY <1>2, <1>4, <2>1 DEF ListInv, Filled
<1>7. FirstRound'
  BY <1>2, <1>4 DEF ListInv, FirstRound
<1>8. QED BY <1>5, <1>6, <1>7 DEF ListInv

\* The other steps leave the list alone.
LEMMA OthersKeep ==
    ASSUME ListInv, UNCHANGED listVars, ret' = ret \/ ret' = "call",
           pc' = pc \/ (pc # "new" /\ pc' # "new"),
           pc \in {"connect", "closed"} /\ ret' = "session" =>
               pc' \in {"connect", "closed"}
    PROVE  ListInv'
<1>1. list' = list /\ srv' = srv /\ tried' = tried
  BY DEF listVars
<1>2. ListTypes' /\ TriedInTurn'
  BY <1>1 DEF ListInv, ListTypes, TriedInTurn
<1>3. Filled'
  BY <1>1 DEF ListInv, Filled
<1>4. FirstRound'
  BY <1>1 DEF ListInv, FirstRound
<1>5. QED BY <1>2, <1>3, <1>4 DEF ListInv

\* Where the other steps go.
LEMMA OthersGoOn ==
    ASSUME \/ \E t \in {"tcp", "wss"} : DialOK(t)
           \/ LoginGivesUp \/ DialFails \/ Adopt
           \/ GotEncReq \/ GotEncRes \/ GotLogon \/ StartHeartbeat
           \/ \E v \in {"soft", "hard"} : LoginRefused(v)
           \/ Exchange \/ StartUM \/ GetDepotKey \/ CloseSession
           \/ (\E k \in Conns : Reader(k)) \/ UNCHANGED vars
    PROVE  /\ ret' = ret \/ ret' = "call"
           /\ pc' = pc \/ (pc # "new" /\ pc' # "new")
           /\ pc \in {"connect", "closed"} /\ ret' = "session" =>
                 pc' \in {"connect", "closed"}
<1>1. CASE \E t \in {"tcp", "wss"} : DialOK(t)
  BY <1>1 DEF DialOK, loginVars
<1>2. CASE LoginGivesUp \/ DialFails \/ Adopt
  BY <1>2 DEF LoginGivesUp, DialFails, Adopt, loginVars
<1>3. CASE GotEncReq \/ GotEncRes \/ GotLogon \/ StartHeartbeat
  BY <1>3 DEF GotEncReq, GotEncRes, GotLogon, StartHeartbeat, Received, loginVars
<1>4. CASE \E v \in {"soft", "hard"} : LoginRefused(v)
  BY <1>4 DEF LoginRefused, Received
<1>5. CASE Attempt
  BY <1>5 DEF Attempt, loginVars
<1>6. CASE SendOK \/ SendFails \/ Register \/ WaitFails
  BY <1>6 DEF SendOK, SendFails, Register, WaitFails, Failed, loginVars
<1>7. CASE \E v \in {"ok", "soft", "hard"} : GotReply(v)
  BY <1>7 DEF GotReply, Received, loginVars
<1>8. CASE StartUM \/ GetDepotKey \/ CloseSession
  BY <1>8 DEF StartUM, GetDepotKey, CloseSession, loginVars
<1>9. CASE \E k \in Conns : Reader(k)
  BY <1>9 DEF Reader, Capture, ReadMsg, ReadFails, Decrypt, DecryptSkipped,
     DecryptFails, Lookup, Deliver, callVars, loginVars
<1>10. CASE UNCHANGED vars
  BY <1>10 DEF vars, callVars, loginVars
<1>11. QED BY <1>1, <1>2, <1>3, <1>4, <1>5, <1>6, <1>7, <1>8, <1>9, <1>10
       DEF Exchange

\* One step per action.
LEMMA ListStepKeeps == ListInv /\ [ListNext]_loginListVars => ListInv'
<1> SUFFICES ASSUME ListInv, [ListNext]_loginListVars PROVE ListInv'
  OBVIOUS
<1>1. CASE Bootstrap
  BY <1>1, BootstrapKeeps
<1>2. CASE Rotate
  BY <1>2, RotateKeeps
<1>3. CASE Marked
  BY <1>3, MarkedKeeps
<1>4. CASE Forget
  BY <1>4, ForgetKeeps
<1>5. ASSUME \/ Dial
             \/ Terminated /\ UNCHANGED listVars
             \/ /\ \/ LoginGivesUp \/ DialFails \/ Adopt
                   \/ GotEncReq \/ GotEncRes \/ GotLogon \/ StartHeartbeat
                   \/ \E v \in {"soft", "hard"} : LoginRefused(v)
                   \/ Exchange \/ StartUM \/ GetDepotKey \/ CloseSession
                   \/ \E k \in Conns : Reader(k)
                /\ UNCHANGED listVars
             \/ UNCHANGED loginListVars
      PROVE  ListInv'
  <2>1. UNCHANGED listVars
    BY <1>5 DEF Dial, loginListVars
  <2>2. \/ \E t \in {"tcp", "wss"} : DialOK(t)
        \/ LoginGivesUp \/ DialFails \/ Adopt
        \/ GotEncReq \/ GotEncRes \/ GotLogon \/ StartHeartbeat
        \/ \E v \in {"soft", "hard"} : LoginRefused(v)
        \/ Exchange \/ StartUM \/ GetDepotKey \/ CloseSession
        \/ (\E k \in Conns : Reader(k)) \/ UNCHANGED vars
    BY <1>5 DEF Dial, Terminated, loginListVars
  <2>3. QED BY <2>1, <2>2, OthersGoOn, OthersKeep
<1>6. CASE Progress
  <2>1. CASE Bootstrap \/ Rotate \/ Dial \/ Marked
    <3>1. CASE Dial
      BY <1>5, <3>1
    <3>2. CASE Bootstrap \/ Rotate \/ Marked
      BY <1>1, <1>2, <1>3, <3>2, Zenon
    <3>3. QED BY <2>1, <3>1, <3>2, Zenon
  <2>2. CASE ~ (Bootstrap \/ Rotate \/ Dial \/ Marked)
    <3>1. /\ \/ LoginGivesUp \/ DialFails \/ Adopt
             \/ GotEncReq \/ GotEncRes \/ GotLogon \/ StartHeartbeat
             \/ \E v \in {"soft", "hard"} : LoginRefused(v)
             \/ Exchange
          /\ UNCHANGED listVars
      BY <1>6, <2>2, Zenon DEF Progress
    <3>2. QED BY <1>5, <3>1
  <2>3. QED BY <2>1, <2>2
<1>7. CASE \/ ~ crashed /\ Forget
           \/ /\ \/ StartUM \/ GetDepotKey \/ CloseSession
                 \/ \E k \in Conns : Reader(k)
              /\ UNCHANGED listVars
           \/ Terminated /\ UNCHANGED listVars
  BY <1>4, <1>5, <1>7
<1>8. QED BY <1>5, <1>6, <1>7 DEF ListNext

(***************************************************************************)
(* The first login tries every server of the list, in its order, before it *)
(* tries one again, whatever the answer of the Web API, however many       *)
(* servers fail and are forgotten meanwhile (servers.go 61-88, 125-139;    *)
(* client.go 212-233).                                                     *)
(***************************************************************************)
THEOREM TriesEveryServer == ListSpec => []NewServerEachTry
<1>1. ListInit => ListInv
  BY ListStarts
<1>2. ListInv /\ [ListNext]_loginListVars => ListInv'
  BY ListStepKeeps
<1>3. ListInv => NewServerEachTry
  BY InTurnIsNew
<1>4. QED BY <1>1, <1>2, <1>3, PTL DEF ListSpec

(***************************************************************************)
(* The loop over the servers is a client: what is proved of CMClient holds *)
(* of it (client.go 196-293).                                              *)
(***************************************************************************)
THEOREM LoginImplementsClient == ListSpec => Spec
<1>1. ListInit => Init
  BY DEF ListInit
<1>2. [ListNext]_loginListVars => [Next]_vars
  <2> SUFFICES ASSUME [ListNext]_loginListVars PROVE [Next]_vars
    OBVIOUS
  <2>1. CASE /\ ~ crashed
             /\ Progress
    BY <2>1 DEF Progress, Bootstrap, Rotate, Dial, Marked, Next, Login
  <2>2. CASE Forget
    BY <2>2 DEF Forget
  <2>3. CASE \/ /\ ~ crashed
                /\ \/ StartUM \/ GetDepotKey \/ CloseSession
                   \/ \E k \in Conns : Reader(k)
             \/ Terminated
    BY <2>3 DEF Next
  <2>4. CASE UNCHANGED loginListVars
    BY <2>4 DEF loginListVars
  <2>5. QED BY <2>1, <2>2, <2>3, <2>4 DEF ListNext
<1>3. QED BY <1>1, <1>2, PTL DEF ListSpec, Spec

(***************************************************************************)
(* So a login over a list of servers loses no socket, beats while it is    *)
(* logged on, returns the right answers, and does not panic on its first   *)
(* connection.                                                             *)
(***************************************************************************)
COROLLARY LoginIsSafe ==
    ListSpec => []/\ Consistent
                  /\ BeatsWhileLoggedOn
                  /\ RightAnswer
                  /\ FirstConnectionSafe
<1>1. QED BY LoginImplementsClient, ConsistentTheorem, RightAnswerTheorem,
             FirstConnectionSafeTheorem, BeatsWhileLoggedOnTheorem, PTL

-----------------------------------------------------------------------------
(* THE LINK THROUGH A PROXY                                                *)

\* Where DialContext stands tells what is open and what was returned.
Progressed ==
    /\ result = "none" <=> stage # "returned"
    /\ stage \in {"resolve", "dial"} => proxyConn = "none"
    /\ stage \in {"request"} \cup Stages => proxyConn = "open"
    /\ stage \in {"method", "auth"} => proto = "socks5"

\* The bytes of the target in w are those behind the first k, and at most one.
Behind(w, k) ==
    Len(w) <= k + 1 /\ \A i \in 1 .. Len(w) : w[i] = "target" <=> i > k

\* What the dialer relies on in the bytes of an answer, however few came.
Shaped(w) ==
    /\ w \in Seq(Word)
    /\ stage \in {"method", "auth"} => Len(w) <= 2
    /\ stage = "reply" =>
          CASE proto = "socks5" ->
                 \A i \in 1 .. Len(w) : i <= 4 => w[i] # "target"
            [] proto = "socks4" -> Behind(w, 8)
            [] OTHER -> \A k \in 1 .. Len(w) : w[k] = "end" => Behind(w, k)

\* What was read and what was not are an answer or the beginning of one; before
\* it comes there is nothing to read.
AnswerWhole ==
    /\ stage \in {"resolve", "dial", "request"} => consumed = <<>> /\ net = <<>>
    /\ stage \in Stages =>
          IF answered THEN Shaped(consumed \o net)
                      ELSE consumed = <<>> /\ net = <<>>

\* Headers are read no further than the blank line.
NotBeyondEnd ==
    proto = "http" /\ stage = "reply" =>
        \A i \in 1 .. Len(consumed) - 1 : consumed[i] # "end"

DialInv ==
    DialTypeOK /\ Progressed /\ AnswerWhole /\ NotBeyondEnd /\ DialSafe

-----------------------------------------------------------------------------

PartType == [frame : 1 .. MaxFrames, kind : Wire!Kinds, says : Nat]

\* All sequences are sequences of parts.
WireTypes ==
    /\ framing \in {"wss", "tcp"}
    /\ stream \in Seq(PartType)
    /\ todo \in [Writers -> Seq(PartType)]
    /\ frames \in 0 .. MaxFrames
    /\ failed \in BOOLEAN
    /\ mixed \in BOOLEAN

FrameOf(f, n) ==
    IF framing = "wss" THEN Wire!WSSFrame(f, n) ELSE Wire!TCPFrame(f, n)

\* Each part is followed by the one that it asks for, of the same frame; the
\* last one is the payload.
IsRest(q) ==
    /\ q # <<>> => q[Len(q)].kind = "data"
    /\ \A i \in 1 .. Len(q) - 1 :
          /\ q[i + 1].kind = Wire!Follows(q[i])
          /\ q[i + 1].kind # "hdr"
          /\ q[i + 1].frame = q[i].frame

\* What a writer has still to write is the rest of a frame of its own.
OwnFrames ==
    /\ \A i \in DOMAIN stream : stream[i].frame <= frames
    /\ \A w \in Writers :
          /\ IsRest(todo[w])
          /\ \A i \in DOMAIN todo[w] : todo[w][i].frame <= frames
    /\ \A v, w \in Writers :
          v # w /\ todo[v] # <<>> /\ todo[w] # <<>>
             => todo[v][1].frame # todo[w][1].frame

\* p is a part of a frame for a payload of n bytes.
PartOf(p, n, how) ==
    \/ p.kind = "hdr" /\ p.says = IF how = "wss" THEN Wire!Announce(n) ELSE n
    \/ p.kind = "ext" /\ p.says = Wire!Extension(n) /\ Wire!Announce(n) >= 126
    \/ p.kind = "mask"
    \/ p.kind = "data" /\ p.says = n

\* All parts of a frame, written or not, are about a payload of one length.
OneLength ==
    \A f \in 1 .. frames : \E n \in Lengths :
        /\ \A i \in DOMAIN stream : stream[i].frame = f => PartOf(stream[i], n, framing)
        /\ \A w \in Writers : \A i \in DOMAIN todo[w] :
              todo[w][i].frame = f => PartOf(todo[w][i], n, framing)

\* While frames are kept apart and no write has failed, a writer goes on where
\* the stream ends or has not begun, and a frame that is not finished in the
\* stream is being written.
InTurn ==
    ~mixed /\ ~failed =>
        /\ \A w \in Writers :
              todo[w] # <<>> =>
                  IF Wire!Begun(w)
                    THEN /\ stream # <<>>
                         /\ todo[w][1].kind = Wire!Follows(stream[Len(stream)])
                         /\ todo[w][1].kind # "hdr"
                         /\ todo[w][1].frame = stream[Len(stream)].frame
                    ELSE todo[w][1].kind = "hdr"
        /\ stream # <<>> /\ stream[Len(stream)].kind # "data" =>
              \E w \in Writers : Wire!Begun(w)

WireInv == WireTypes /\ OwnFrames /\ OneLength /\ InTurn /\ WholeFrames

LinkInv == DialInv /\ WireInv

-----------------------------------------------------------------------------
(* The answers of a proxy. *)

\* A sequence behind another one.
LEMMA Joined ==
    ASSUME NEW S, NEW a \in Seq(S), NEW b \in Seq(S)
    PROVE  /\ a \o b \in Seq(S)
           /\ Len(a \o b) = Len(a) + Len(b)
           /\ \A i \in 1 .. Len(a) : (a \o b)[i] = a[i]
           /\ \A i \in 1 .. Len(b) : (a \o b)[Len(a) + i] = b[i]
  <1>1. a \o b \in Seq(S) /\ Len(a \o b) = Len(a) + Len(b)
    BY ConcatProperties
  <1>2. Len(a) \in Nat /\ Len(b) \in Nat
    OBVIOUS
  <1>3. \A i \in 1 .. Len(a) : i \in 1 .. Len(a) + Len(b) /\ i <= Len(a)
    BY <1>2
  <1>4. ASSUME NEW i \in 1 .. Len(b)
        PROVE  /\ Len(a) + i \in 1 .. Len(a) + Len(b)
               /\ ~(Len(a) + i <= Len(a))
               /\ Len(a) + i - Len(a) = i
    BY <1>2
  <1>5. \A i \in 1 .. Len(a) : (a \o b)[i] = a[i]
    BY <1>3, ConcatProperties
  <1>6. ASSUME NEW i \in 1 .. Len(b) PROVE (a \o b)[Len(a) + i] = b[i]
    <2> DEFINE k == Len(a) + i
    <2>1. k \in 1 .. Len(a) + Len(b) /\ ~(k <= Len(a)) /\ k - Len(a) = i
      BY <1>4
    <2> HIDE DEF k
    <2>2. (a \o b)[k] = b[k - Len(a)]
      BY <2>1, ConcatProperties
    <2> QED
      BY <2>1, <2>2 DEF k
  <1> QED
    BY <1>1, <1>5, <1>6

\* Reading moves bytes from the front of one sequence to the end of another.
LEMMA ReadKeepsAll ==
    \A c, n \in Seq(Word) : \A k \in 1 .. Len(n) :
        \E p, b \in Seq(Word) :
            /\ p = c \o SubSeq(n, 1, k)
            /\ b = SubSeq(n, k + 1, Len(n))
            /\ Len(p) = Len(c) + k
            /\ \A i \in 1 .. Len(c) : p[i] = c[i]
            /\ p \o b = c \o n
  <1> TAKE c, n \in Seq(Word)
  <1> TAKE k \in 1 .. Len(n)
  <1> DEFINE a == SubSeq(n, 1, k)
             b == SubSeq(n, k + 1, Len(n))
             p == c \o a
             d == p \o b
             e == c \o n
  <1>1. a \in Seq(Word) /\ \A i \in 1 .. k : a[i] = n[i]
    BY SubSeqProperties
  <1>2. b \in Seq(Word) /\ \A i \in 1 .. Len(n) - k : b[i] = n[k + i]
    BY SubSeqProperties
  <1>3. Len(a) = k /\ Len(b) = Len(n) - k
    BY SubSeqProperties
  <1> HIDE DEF a, b
  <1>4. /\ p \in Seq(Word)
        /\ Len(p) = Len(c) + Len(a)
        /\ \A i \in 1 .. Len(c) : p[i] = c[i]
        /\ \A i \in 1 .. Len(a) : p[Len(c) + i] = a[i]
    BY <1>1, Joined
  <1>5. p \in Seq(Word)
    BY <1>4
  <1> HIDE DEF p
  <1>6. /\ d \in Seq(Word)
        /\ Len(d) = Len(p) + Len(b)
        /\ \A i \in 1 .. Len(p) : d[i] = p[i]
        /\ \A i \in 1 .. Len(b) : d[Len(p) + i] = b[i]
    BY <1>2, <1>5, Joined
  <1>7. /\ e \in Seq(Word)
        /\ Len(e) = Len(c) + Len(n)
        /\ \A i \in 1 .. Len(c) : e[i] = c[i]
        /\ \A i \in 1 .. Len(n) : e[Len(c) + i] = n[i]
    BY Joined
  <1> HIDE DEF d, e
  <1>8. /\ Len(p) = Len(c) + k
        /\ Len(d) = Len(c) + Len(n)
    <2>1. Len(p) = Len(c) + Len(a) /\ Len(d) = Len(p) + Len(b)
      BY <1>4, <1>6
    <2> QED
      BY <1>3, <2>1
  <1>9. /\ \A i \in 1 .. Len(c) : d[i] = e[i]
        /\ \A i \in 1 .. k : d[Len(c) + i] = e[Len(c) + i]
        /\ \A i \in 1 .. Len(n) - k : d[Len(c) + k + i] = e[Len(c) + (k + i)]
    <2>1. ASSUME NEW i \in 1 .. Len(c) PROVE d[i] = e[i]
      <3>1. i \in 1 .. Len(p)
        BY <1>8
      <3> QED
        BY <1>4, <1>6, <1>7, <3>1
    <2>2. ASSUME NEW i \in 1 .. k PROVE d[Len(c) + i] = e[Len(c) + i]
      <3>1. Len(c) + i \in 1 .. Len(p) /\ i \in 1 .. Len(n) /\ i \in 1 .. Len(a)
        BY <1>3, <1>8
      <3>2. d[Len(c) + i] = p[Len(c) + i]
        BY <1>6, <3>1
      <3>3. p[Len(c) + i] = a[i]
        BY <1>4, <3>1
      <3>4. e[Len(c) + i] = n[i]
        BY <1>7, <3>1
      <3> QED
        BY <1>1, <3>2, <3>3, <3>4
    <2>3. ASSUME NEW i \in 1 .. Len(n) - k
          PROVE  d[Len(c) + k + i] = e[Len(c) + (k + i)]
      <3>1. i \in 1 .. Len(b) /\ k + i \in 1 .. Len(n)
        BY <1>3
      <3>2. d[Len(c) + k + i] = b[i]
        BY <1>6, <1>8, <3>1
      <3>3. e[Len(c) + (k + i)] = n[k + i]
        BY <1>7, <3>1
      <3> QED
        BY <1>2, <3>2, <3>3
    <2> QED
      BY <2>1, <2>2, <2>3
  <1>10. \A i \in 1 .. Len(d) : d[i] = e[i]
    <2> SUFFICES ASSUME NEW i \in 1 .. Len(d) PROVE d[i] = e[i]
      OBVIOUS
    <2>1. CASE i <= Len(c)
      BY <1>9, <2>1
    <2>2. CASE i > Len(c) /\ i <= Len(c) + k
      <3> DEFINE j == i - Len(c)
      <3>1. j \in 1 .. k /\ i = Len(c) + j
        BY <2>2
      <3> HIDE DEF j
      <3> QED
        BY <1>9, <3>1
    <2>3. CASE i > Len(c) + k
      <3> DEFINE j == i - (Len(c) + k)
      <3>1. j \in 1 .. Len(n) - k /\ i = Len(c) + k + j /\ i = Len(c) + (k + j)
        BY <1>8, <2>3
      <3> HIDE DEF j
      <3> QED
        BY <1>9, <3>1
    <2> QED
      BY <2>1, <2>2, <2>3
  <1>11. d = e
    BY <1>6, <1>7, <1>8, <1>10, SeqEqual
  <1>12. p = c \o SubSeq(n, 1, k) /\ b = SubSeq(n, k + 1, Len(n))
    BY DEF p, a, b
  <1>13. p \o b = c \o n
    BY <1>11 DEF d, e
  <1> QED
    BY <1>2, <1>4, <1>8, <1>12, <1>13

\* n bytes that the dialer does not look at.
LEMMA XsProperties ==
    ASSUME NEW n \in Nat
    PROVE  /\ Xs(n) \in Seq(Word)
           /\ Len(Xs(n)) = n
           /\ \A i \in 1 .. n : Xs(n)[i] = "x"
  BY DEF Xs, Word

\* What may follow an answer.
LEMMA ThenProperties ==
    /\ <<>> \in Then
    /\ \A t \in Then :
          /\ t \in Seq(Word) /\ Len(t) <= 1
          /\ \A i \in 1 .. Len(t) : t[i] = "target"
  BY DEF Then, Word

\* The byte of the target comes behind the bytes of the proxy.
LEMMA TargetBehind ==
    ASSUME NEW g \in Seq(Word), NEW t \in Then,
           \A i \in 1 .. Len(g) : g[i] # "target"
    PROVE  g \o t \in Seq(Word) /\ Behind(g \o t, Len(g))
  <1> DEFINE r == g \o t
  <1>1. t \in Seq(Word) /\ Len(t) <= 1 /\ \A i \in 1 .. Len(t) : t[i] = "target"
    BY ThenProperties
  <1>2. /\ r \in Seq(Word)
        /\ Len(r) = Len(g) + Len(t)
        /\ \A i \in 1 .. Len(g) : r[i] = g[i]
        /\ \A i \in 1 .. Len(t) : r[Len(g) + i] = t[i]
    BY <1>1, Joined
  <1> HIDE DEF r
  <1>3. ASSUME NEW i \in 1 .. Len(r) PROVE r[i] = "target" <=> i > Len(g)
    <2>1. CASE i <= Len(g)
      BY <1>2, <2>1
    <2>2. CASE i > Len(g)
      <3> DEFINE j == i - Len(g)
      <3>1. j \in 1 .. Len(t) /\ i = Len(g) + j
        BY <1>1, <1>2, <2>2
      <3> HIDE DEF j
      <3> QED
        BY <1>1, <1>2, <2>2, <3>1
    <2> QED
      BY <2>1, <2>2
  <1>4. Len(r) <= Len(g) + 1
    BY <1>1, <1>2
  <1> QED
    BY <1>2, <1>3, <1>4 DEF Behind, r

\* A reader that stops at that byte has taken none of the target.
LEMMA RestIsTarget ==
    ASSUME NEW c \in Seq(Word), NEW n \in Seq(Word), Behind(c \o n, Len(c))
    PROVE  (\A i \in 1 .. Len(c) : c[i] # "target") /\ n \in Then
  <1> DEFINE w == c \o n
  <1>1. /\ Len(w) = Len(c) + Len(n)
        /\ \A i \in 1 .. Len(c) : w[i] = c[i]
        /\ \A i \in 1 .. Len(n) : w[Len(c) + i] = n[i]
    BY Joined
  <1>2. /\ Len(w) <= Len(c) + 1
        /\ \A i \in 1 .. Len(w) : w[i] = "target" <=> i > Len(c)
    BY DEF Behind
  <1> HIDE DEF w
  <1>3. \A i \in 1 .. Len(c) : c[i] # "target"
    BY <1>1, <1>2
  <1>4. ASSUME NEW i \in 1 .. Len(n) PROVE n[i] = "target"
    <2>1. Len(c) + i \in 1 .. Len(w) /\ Len(c) + i > Len(c)
      BY <1>1
    <2> QED
      BY <1>1, <1>2, <2>1
  <1>5. CASE Len(n) = 0
    BY <1>3, <1>5, EmptySeq DEF Then
  <1>6. CASE Len(n) = 1
    <2>1. n[1] = "target"
      BY <1>4, <1>6
    <2>2. n = <<"target">>
      BY <1>6, <2>1
    <2> QED
      BY <1>3, <2>2 DEF Then
  <1>7. Len(n) \in {0, 1}
    <2>1. Len(c) \in Nat /\ Len(n) \in Nat
      OBVIOUS
    <2>2. Len(c) + Len(n) <= Len(c) + 1
      BY <1>1, <1>2
    <2>3. \A a, b \in Nat : a + b <= a + 1 => b \in {0, 1}
      OBVIOUS
    <2> QED
      BY <2>1, <2>2, <2>3
  <1> QED
    BY <1>5, <1>6, <1>7

\* Status, n bytes and a blank line.
LEMMA HeaderProperties ==
    ASSUME NEW s \in {OK, Bad}, NEW n \in Nat
    PROVE  /\ HTTPHeader(s, n) \in Seq(Word)
           /\ Len(HTTPHeader(s, n)) = n + 2
           /\ HTTPHeader(s, n)[1] = s
           /\ \A i \in 2 .. n + 1 : HTTPHeader(s, n)[i] = "x"
           /\ HTTPHeader(s, n)[n + 2] = "end"
  <1> DEFINE x == Xs(n)
             l == <<s>> \o x
             g == l \o <<"end">>
  <1>1. /\ <<s>> \in Seq(Word) /\ Len(<<s>>) = 1 /\ <<s>>[1] = s
        /\ <<"end">> \in Seq(Word) /\ Len(<<"end">>) = 1 /\ <<"end">>[1] = "end"
    BY DEF Word
  <1>2. x \in Seq(Word) /\ Len(x) = n /\ \A i \in 1 .. n : x[i] = "x"
    BY XsProperties
  <1> HIDE DEF x
  <1>3. /\ l \in Seq(Word)
        /\ Len(l) = 1 + n
        /\ l[1] = s
        /\ \A i \in 1 .. n : l[1 + i] = x[i]
    BY <1>1, <1>2, Joined
  <1> HIDE DEF l
  <1>4. ASSUME NEW i \in 2 .. n + 1 PROVE l[i] = "x"
    <2>1. i - 1 \in 1 .. n /\ 1 + (i - 1) = i
      OBVIOUS
    <2> QED
      BY <1>2, <1>3, <2>1
  <1>5. /\ g \in Seq(Word)
        /\ Len(g) = n + 2
        /\ \A i \in 1 .. n + 1 : g[i] = l[i]
        /\ g[n + 2] = "end"
    <2>1. /\ g \in Seq(Word) /\ Len(g) = Len(l) + 1
          /\ \A i \in 1 .. Len(l) : g[i] = l[i]
          /\ g[Len(l) + 1] = "end"
      BY <1>1, <1>3, Joined
    <2>2. Len(l) = n + 1 /\ Len(l) + 1 = n + 2 /\ n + 1 + 1 = n + 2
      BY <1>3
    <2> HIDE DEF g
    <2> QED
      BY <2>1, <2>2
  <1> QED
    BY <1>3, <1>4, <1>5 DEF x, l, g, HTTPHeader

\* A whole answer has the shape.
LEMMA WholeShapes ==
    ASSUME stage \in Stages, stage \in {"method", "auth"} => proto = "socks5",
           proto \in {"socks5", "socks4", "http"}, NEW r \in Replies
    PROVE  Shaped(r)
  <1>1. OK # "target" /\ Bad # "target" /\ OK # "end" /\ Bad # "end"
    BY DialAssumption
  <1>2. CASE stage \in {"method", "auth"}
    <2>1. \E a, b \in Word : r = <<a, b>>
      BY <1>2 DEF Replies, Methods, Versions, AuthReplies, Word
    <2>2. r \in Seq(Word) /\ Len(r) = 2
      BY <2>1
    <2> QED
      BY <1>2, <2>2 DEF Shaped
  <1>3. CASE stage = "reply" /\ proto = "socks5"
    <2>1. PICK v \in Versions, s \in {OK, Bad}, n \in BoundSizes, t \in Then :
              r = Socks5Answer(v, s, n) \o t
      <3>1. r \in Socks5Replies
        BY <1>3 DEF Replies
      <3> QED
        BY <3>1, SMT DEF Socks5Replies
    <2> DEFINE h == <<v, s, "x", "x">>
               b == Xs(n)
               a == h \o b
    <2>2. /\ h \in Seq(Word) /\ Len(h) = 4
          /\ \A i \in 1 .. 4 : h[i] # "target"
      <3>1. h \in Seq(Word) /\ Len(h) = 4
        BY DEF Versions, Word
      <3>2. /\ h[1] # "target" /\ h[2] # "target"
            /\ h[3] # "target" /\ h[4] # "target"
        BY <1>1 DEF Versions
      <3> HIDE DEF h
      <3>3. \A i \in 1 .. 4 : i = 1 \/ i = 2 \/ i = 3 \/ i = 4
        OBVIOUS
      <3> QED
        BY <3>1, <3>2, <3>3
    <2>3. b \in Seq(Word)
      <3>1. n \in Nat
        BY DialAssumption
      <3> QED
        BY <3>1, XsProperties
    <2>4. r = a \o t
      BY <2>1 DEF Socks5Answer
    <2> HIDE DEF h, b
    <2>5. /\ a \in Seq(Word)
          /\ Len(a) = Len(h) + Len(b)
          /\ \A i \in 1 .. Len(h) : a[i] = h[i]
      <3>1. h \in Seq(Word)
        BY <2>2
      <3> QED
        BY <2>3, <3>1, Joined
    <2> HIDE DEF a
    <2>6. r \in Seq(Word) /\ \A i \in 1 .. Len(a) : r[i] = a[i]
      <3>1. t \in Seq(Word) /\ a \in Seq(Word)
        BY <2>5, ThenProperties
      <3>2. a \o t \in Seq(Word) /\ \A i \in 1 .. Len(a) : (a \o t)[i] = a[i]
        BY <3>1, Joined
      <3> QED
        BY <2>4, <3>2
    <2>7. \A i \in 1 .. 4 : i \in 1 .. Len(h) /\ i \in 1 .. Len(a)
      <3>1. Len(b) \in Nat
        BY <2>3
      <3> QED
        BY <2>2, <2>5, <3>1
    <2>8. \A i \in 1 .. 4 : r[i] # "target"
      BY <2>2, <2>5, <2>6, <2>7
    <2> QED
      BY <1>3, <2>6, <2>8 DEF Shaped
  <1>4. CASE stage = "reply" /\ proto = "socks4"
    <2>1. PICK v \in Versions, s \in {OK, Bad}, t \in Then :
              r = Socks4Answer(v, s) \o t
      <3>1. r \in Socks4Replies
        BY <1>4 DEF Replies
      <3> QED
        BY <3>1, SMT DEF Socks4Replies
    <2> DEFINE a == <<v, s>>
               b == Xs(6)
               g == a \o b
    <2>2. /\ a \in Seq(Word) /\ Len(a) = 2
          /\ a[1] # "target" /\ a[2] # "target"
      BY <1>1 DEF Versions, Word
    <2>3. b \in Seq(Word) /\ Len(b) = 6 /\ \A i \in 1 .. 6 : b[i] = "x"
      BY XsProperties
    <2> HIDE DEF a, b
    <2>4. /\ g \in Seq(Word) /\ Len(g) = 8
          /\ \A i \in 1 .. 2 : g[i] = a[i]
          /\ \A i \in 1 .. 6 : g[2 + i] = b[i]
      <3>1. a \in Seq(Word) /\ b \in Seq(Word)
        BY <2>2, <2>3
      <3>2. /\ g \in Seq(Word)
            /\ Len(g) = Len(a) + Len(b)
            /\ \A i \in 1 .. Len(a) : g[i] = a[i]
            /\ \A i \in 1 .. Len(b) : g[Len(a) + i] = b[i]
        BY <3>1, Joined
      <3> HIDE DEF g
      <3> QED
        BY <2>2, <2>3, <3>2
    <2>5. r = g \o t
      BY <2>1 DEF a, b, Socks4Answer
    <2> HIDE DEF g
    <2>6. ASSUME NEW i \in 1 .. Len(g) PROVE g[i] # "target"
      <3>1. CASE i <= 2
        <4>1. i = 1 \/ i = 2
          BY <3>1
        <4> QED
          BY <2>2, <2>4, <4>1
      <3>2. CASE i > 2
        <4>1. i - 2 \in 1 .. 6 /\ 2 + (i - 2) = i
          BY <2>4, <3>2
        <4> QED
          BY <2>3, <2>4, <4>1
      <3> QED
        BY <3>1, <3>2
    <2>7. r \in Seq(Word) /\ Behind(r, 8)
      <3>1. g \o t \in Seq(Word) /\ Behind(g \o t, Len(g))
        BY <2>4, <2>6, TargetBehind
      <3> QED
        BY <2>4, <2>5, <3>1
    <2> QED
      BY <1>4, <2>7 DEF Shaped
  <1>5. CASE stage = "reply" /\ proto = "http"
    <2>1. /\ r \in Seq(Word)
          /\ \A k \in 1 .. Len(r) : r[k] = "end" => Behind(r, k)
      <3>1. CASE r = <<"end">>
        BY <3>1 DEF Behind, Word
      <3>2. CASE r # <<"end">>
        <4>1. PICK s \in {OK, Bad}, n \in HeaderSizes, t \in Then :
                  r = HTTPHeader(s, n) \o t
          <5>1. r \in HTTPReplies
            BY <1>5 DEF Replies
          <5> QED
            BY <3>2, <5>1, SMT DEF HTTPReplies
        <4> DEFINE g == HTTPHeader(s, n)
        <4>2. n \in Nat
          BY DialAssumption
        <4>3. /\ g \in Seq(Word)
              /\ Len(g) = n + 2
              /\ g[1] = s
              /\ \A i \in 2 .. n + 1 : g[i] = "x"
              /\ g[n + 2] = "end"
          BY <4>2, HeaderProperties
        <4>4. r = g \o t
          BY <4>1
        <4> HIDE DEF g
        <4>5. \A i \in 1 .. Len(g) : g[i] # "target"
          BY <1>1, <4>2, <4>3
        <4>6. r \in Seq(Word) /\ Behind(r, n + 2)
          <5>1. g \o t \in Seq(Word) /\ Behind(g \o t, Len(g))
            BY <4>3, <4>5, TargetBehind
          <5> QED
            BY <4>3, <4>4, <5>1
        <4>7. \A i \in 1 .. n + 2 : r[i] = g[i]
          BY <4>2, <4>3, <4>4, ThenProperties, Joined
        <4>8. ASSUME NEW k \in 1 .. Len(r), r[k] = "end"
              PROVE  k = n + 2
          <5>1. k <= n + 2
            BY <4>2, <4>6, <4>8 DEF Behind
          <5>2. r[k] = g[k]
            BY <4>2, <4>7, <5>1
          <5>3. k # 1
            BY <1>1, <4>3, <4>8, <5>2
          <5>4. k \notin 2 .. n + 1
            BY <4>2, <4>3, <4>8, <5>2
          <5> QED
            BY <4>2, <5>1, <5>3, <5>4
        <4> QED
          BY <4>6, <4>8
      <3> QED
        BY <3>1, <3>2
    <2> QED
      BY <1>5, <2>1 DEF Shaped
  <1> QED
    BY <1>2, <1>3, <1>4, <1>5 DEF Stages

\* And so has the beginning of one.
LEMMA CutShapes ==
    ASSUME NEW r, Shaped(r), NEW c \in Cuts(r)
    PROVE  Shaped(c)
  <1>1. r \in Seq(Word)
    BY DEF Shaped
  <1>2. PICK k \in 0 .. Len(r) : c = SubSeq(r, 1, k)
    BY DEF Cuts
  <1>3. /\ c \in Seq(Word)
        /\ Len(c) = k
        /\ \A i \in 1 .. k : c[i] = r[i]
    BY <1>1, <1>2, SubSeqProperties
  <1>4. /\ Len(c) <= Len(r)
        /\ \A i \in 1 .. Len(c) : i \in 1 .. Len(r) /\ c[i] = r[i]
    BY <1>1, <1>3
  <1>5. \A j \in Nat : Behind(r, j) => Behind(c, j)
    BY <1>1, <1>3, <1>4 DEF Behind
  <1>6. stage \in {"method", "auth"} => Len(c) <= 2
    BY <1>1, <1>3, <1>4 DEF Shaped
  <1>7. CASE stage = "reply" /\ proto = "socks5"
    BY <1>3, <1>4, <1>6, <1>7 DEF Shaped
  <1>8. CASE stage = "reply" /\ proto = "socks4"
    BY <1>3, <1>5, <1>6, <1>8 DEF Shaped
  <1>9. CASE stage = "reply" /\ proto # "socks5" /\ proto # "socks4"
    BY <1>3, <1>4, <1>5, <1>6, <1>9 DEF Shaped
  <1>10. CASE stage # "reply"
    BY <1>3, <1>6, <1>10 DEF Shaped
  <1> QED
    BY <1>7, <1>8, <1>9, <1>10

-----------------------------------------------------------------------------
(* The dialer: one lemma per action. *)

\* Nothing is open or read at the beginning.
LEMMA DialStarts == DialInit => DialInv
  <1> SUFFICES ASSUME DialInit PROVE DialInv
    OBVIOUS
  <1>1. DialTypeOK
    <2>1. /\ net = <<>> /\ consumed = <<>>
          /\ <<>> \in Seq(Word) /\ Len(<<>>) = 0
      BY DEF DialInit
    <2>2. proto = "http" => Len(consumed) <= MaxHeader + 1
      BY <2>1, DialAssumption
    <2>3. auth \in BOOLEAN
      BY DEF DialInit
    <2> QED
      BY <2>1, <2>2, <2>3 DEF DialInit, DialTypeOK
  <1>2. Progressed /\ AnswerWhole /\ NotBeyondEnd
    BY DEF DialInit, Progressed, AnswerWhole, NotBeyondEnd, Stages
  <1>3. DialSafe
    BY DEF DialInit, DialSafe, ClosedOrReturned, NothingOverread
  <1> QED
    BY <1>1, <1>2, <1>3 DEF DialInv

\* A dial that fails closes what it has opened.
LEMMA FailKeeps ==
    ASSUME DialInv, Fail
    PROVE  DialInv'
  <1>1. DialTypeOK'
    BY DEF DialInv, DialTypeOK, Fail, CloseConn
  <1>2. Progressed' /\ AnswerWhole' /\ NotBeyondEnd'
    BY DEF Fail, Progressed, AnswerWhole, NotBeyondEnd, Stages
  <1>3. proxyConn' # "open"
    BY DEF Fail, CloseConn
  <1>4. DialSafe'
    BY <1>3 DEF Fail, DialSafe, ClosedOrReturned, NothingOverread
  <1> QED
    BY <1>1, <1>2, <1>4 DEF DialInv

\* The next message is written when the last answer was read to its end.
LEMMA AskKeeps ==
    ASSUME DialInv, NEW next \in Stages, Ask(next), net = <<>>,
           stage \in {"request"} \cup Stages,
           next \in {"method", "auth"} => proto = "socks5"
    PROVE  DialInv'
  <1>1. DialTypeOK'
    <2>1. consumed' = <<>> /\ <<>> \in Seq(Word) /\ Len(<<>>) = 0
      BY DEF Ask
    <2>2. proto' = "http" => Len(consumed') <= MaxHeader + 1
      BY <2>1, DialAssumption
    <2> QED
      BY <2>1, <2>2 DEF DialInv, DialTypeOK, Ask
  <1>2. Progressed'
    BY DEF DialInv, Progressed, Ask, Stages
  <1>3. AnswerWhole'
    BY DEF AnswerWhole, Ask, Stages
  <1>4. NotBeyondEnd'
    <2>1. consumed' = <<>> /\ Len(<<>>) = 0
      BY DEF Ask
    <2> QED
      BY <2>1 DEF NotBeyondEnd
  <1>5. DialSafe'
    BY DEF DialInv, Progressed, Ask, DialSafe, ClosedOrReturned, NothingOverread,
           Stages
  <1> QED
    BY <1>1, <1>2, <1>3, <1>4, <1>5 DEF DialInv

\* An answer comes when none is being read.
LEMMA ProxyAnswersKeeps ==
    ASSUME DialInv, ProxyAnswers
    PROVE  DialInv'
  <1>1. PICK r \in Replies : \E d \in Cuts(r) : net' = net \o d
    BY DEF ProxyAnswers
  <1>2. PICK c \in Cuts(r) : net' = net \o c
    BY <1>1
  <1>3. Shaped(c) /\ c \in Seq(Word)
    <2>1. Shaped(r)
      BY WholeShapes, DialAssumption
         DEF ProxyAnswers, DialInv, DialTypeOK, Progressed
    <2> QED
      BY <2>1, CutShapes DEF Shaped
  <1>4. consumed = <<>> /\ net = <<>>
    BY DEF DialInv, AnswerWhole, ProxyAnswers
  <1>5. net' = c /\ consumed' \o net' = c
    BY <1>2, <1>3, <1>4, ConcatEmptySeq DEF ProxyAnswers
  <1>6. DialTypeOK'
    BY <1>3, <1>5 DEF DialInv, DialTypeOK, ProxyAnswers
  <1>7. Shaped(consumed \o net)'
    BY <1>3, <1>5 DEF Shaped, ProxyAnswers
  <1>8. AnswerWhole'
    BY <1>7 DEF AnswerWhole, ProxyAnswers, Stages
  <1>9. Progressed' /\ NotBeyondEnd'
    BY DEF DialInv, Progressed, NotBeyondEnd, ProxyAnswers
  <1>10. DialSafe'
    BY DEF DialInv, Progressed, ProxyAnswers, DialSafe, ClosedOrReturned,
           NothingOverread, Stages
  <1> QED
    BY <1>6, <1>8, <1>9, <1>10 DEF DialInv

\* The end of the stream and the deadline change nothing else.
LEMMA OutsideKeeps ==
    ASSUME DialInv, ProxyHangsUp \/ DeadlinePasses \/ UNCHANGED dialVars
    PROVE  DialInv'
  <1>1. /\ eof' \in BOOLEAN
        /\ expired' \in BOOLEAN
        /\ UNCHANGED <<proto, auth, stage, proxyConn, net, consumed, answered,
                       result>>
    BY DEF DialInv, DialTypeOK, ProxyHangsUp, DeadlinePasses, dialVars
  <1>2. DialTypeOK'
    BY <1>1 DEF DialInv, DialTypeOK
  <1>3. Shaped(consumed \o net)' = Shaped(consumed \o net)
    BY <1>1 DEF Shaped
  <1>4. Progressed' /\ AnswerWhole' /\ NotBeyondEnd'
    BY <1>1, <1>3 DEF DialInv, Progressed, AnswerWhole, NotBeyondEnd
  <1>5. DialSafe'
    BY <1>1 DEF DialInv, DialSafe, ClosedOrReturned, NothingOverread
  <1> QED
    BY <1>2, <1>4, <1>5 DEF DialInv

\* Before the first message there is nothing to read.
LEMMA OpeningKeeps ==
    ASSUME DialInv, Resolve \/ DialProxy \/ WriteRequest
    PROVE  DialInv'
  <1>1. CASE Fail
    BY <1>1, FailKeeps
  <1>2. CASE WriteRequest /\ ~Fail
    <2> DEFINE next == IF proto = "socks5" THEN "method" ELSE "reply"
    <2>1. Ask(next) /\ stage = "request" /\ net = <<>>
      BY <1>2 DEF WriteRequest, Send, DialInv, AnswerWhole
    <2>2. next \in Stages /\ (next \in {"method", "auth"} => proto = "socks5")
      BY DEF Stages
    <2> HIDE DEF next
    <2> QED
      BY <2>1, <2>2, AskKeeps
  <1>3. CASE /\ stage \in {"resolve", "dial"}
             /\ \/ stage' = "dial" /\ proxyConn' = proxyConn /\ stage = "resolve"
                \/ stage' = "request" /\ proxyConn' = "open"
             /\ UNCHANGED <<proto, auth, net, consumed, answered, eof, expired,
                            result>>
    <2>1. DialTypeOK'
      BY <1>3 DEF DialInv, DialTypeOK
    <2>2. Progressed'
      BY <1>3 DEF DialInv, Progressed, Stages
    <2>3. AnswerWhole'
      BY <1>3 DEF DialInv, AnswerWhole, Stages
    <2>4. NotBeyondEnd'
      BY <1>3 DEF NotBeyondEnd
    <2>5. DialSafe'
      BY <1>3 DEF DialInv, Progressed, DialSafe, ClosedOrReturned, NothingOverread
    <2> QED
      BY <2>1, <2>2, <2>3, <2>4, <2>5 DEF DialInv
  <1> QED
    BY <1>1, <1>2, <1>3 DEF Resolve, DialProxy

\* A Read takes a part of what has come.
LEMMA ReadSomeKeeps ==
    ASSUME DialInv, ReadSome
    PROVE  DialInv'
  <1>1. PICK k \in 1 .. Len(net) :
            /\ k <= Want - Len(consumed)
            /\ consumed' = consumed \o SubSeq(net, 1, k)
            /\ net' = SubSeq(net, k + 1, Len(net))
    BY DEF ReadSome
  <1>2. consumed \in Seq(Word) /\ net \in Seq(Word)
    BY DEF DialInv, DialTypeOK
  <1>3. /\ consumed' \in Seq(Word)
        /\ net' \in Seq(Word)
        /\ Len(consumed') = Len(consumed) + k
        /\ \A i \in 1 .. Len(consumed) : consumed'[i] = consumed[i]
        /\ consumed' \o net' = consumed \o net
    <2>1. PICK p, b \in Seq(Word) :
              /\ p = consumed \o SubSeq(net, 1, k)
              /\ b = SubSeq(net, k + 1, Len(net))
              /\ Len(p) = Len(consumed) + k
              /\ \A i \in 1 .. Len(consumed) : p[i] = consumed[i]
              /\ p \o b = consumed \o net
      BY <1>2, ReadKeepsAll, Zenon
    <2>2. consumed' = p /\ net' = b
      BY <1>1, <2>1
    <2> QED
      BY <2>1, <2>2
  <1>4. /\ stage \in Stages
        /\ UNCHANGED <<proto, auth, stage, proxyConn, answered, eof, expired,
                       result>>
    BY DEF ReadSome
  <1>5. ASSUME proto = "http"
        PROVE  /\ stage = "reply"
               /\ Len(consumed') = Len(consumed) + 1
               /\ Len(consumed) <= MaxHeader
               /\ consumed # <<>> => consumed[Len(consumed)] # "end"
    <2>1. stage = "reply"
      BY <1>4, <1>5 DEF DialInv, Progressed, Stages
    <2>2. Want = Len(consumed) + 1
      BY <1>5 DEF Want
    <2>3. k = 1
      BY <1>1, <1>2, <2>2
    <2>4. /\ consumed = <<>> \/ Len(consumed) <= MaxHeader
          /\ consumed # <<>> => consumed[Len(consumed)] # "end"
      BY <1>2, <1>5, DialAssumption DEF ReadSome, AllRead
    <2> QED
      BY <1>2, <1>3, <2>1, <2>3, <2>4, DialAssumption
  <1>6. DialTypeOK'
    <2>1. proto' = "http" => Len(consumed') <= MaxHeader + 1
      BY <1>2, <1>4, <1>5, DialAssumption
    <2> QED
      BY <1>3, <1>4, <2>1 DEF DialInv, DialTypeOK
  <1>7. Shaped(consumed' \o net') = Shaped(consumed \o net)
    BY <1>3
  <1>8. net # <<>>
    BY <1>1, <1>2
  <1>9. AnswerWhole'
    <2>1. answered /\ Shaped(consumed \o net)
      BY <1>4, <1>8 DEF DialInv, AnswerWhole
    <2>2. Shaped(consumed \o net)'
      BY <1>4, <1>7, <2>1 DEF Shaped
    <2> QED
      BY <1>4, <2>1, <2>2 DEF AnswerWhole, Stages
  <1>10. Progressed'
    BY <1>4 DEF DialInv, Progressed
  <1>11. NotBeyondEnd'
    <2> SUFFICES ASSUME proto = "http", stage = "reply",
                        NEW i \in 1 .. Len(consumed') - 1
                 PROVE  consumed'[i] # "end"
      BY <1>4 DEF NotBeyondEnd
    <2>1. i \in 1 .. Len(consumed) /\ consumed'[i] = consumed[i]
      BY <1>2, <1>3, <1>5
    <2>2. CASE i = Len(consumed)
      BY <1>2, <1>5, <2>1, <2>2
    <2>3. CASE i # Len(consumed)
      BY <1>2, <2>1, <2>3 DEF DialInv, NotBeyondEnd
    <2> QED
      BY <2>2, <2>3
  <1>12. DialSafe'
    BY <1>4 DEF DialInv, Progressed, DialSafe, ClosedOrReturned, NothingOverread,
                Stages
  <1> QED
    BY <1>6, <1>9, <1>10, <1>11, <1>12 DEF DialInv

\* A short answer that was read leaves nothing.
LEMMA ShortAnswerRead ==
    ASSUME DialInv, stage \in {"method", "auth"}, AllRead
    PROVE  net = <<>> /\ proto = "socks5"
  <1>1. proto = "socks5"
    BY DEF DialInv, Progressed
  <1>2. Len(consumed) = 2
    BY <1>1 DEF AllRead, Want
  <1>3. consumed \in Seq(Word) /\ net \in Seq(Word)
    BY DEF DialInv, DialTypeOK
  <1>4. consumed # <<>>
    BY <1>2
  <1>5. Shaped(consumed \o net)
    BY <1>4 DEF DialInv, AnswerWhole, Stages
  <1>6. Len(consumed \o net) <= 2
    BY <1>5 DEF Shaped
  <1>7. Len(consumed \o net) = Len(consumed) + Len(net)
    BY <1>3, Joined
  <1> QED
    BY <1>1, <1>2, <1>3, <1>6, <1>7

\* The method and the answer to user and password.
LEMMA GreetingKeeps ==
    ASSUME DialInv, MethodRead \/ AuthRead
    PROVE  DialInv'
  <1>1. stage \in {"method", "auth"} /\ net = <<>> /\ proto = "socks5"
    BY ShortAnswerRead DEF MethodRead, AuthRead
  <1>2. Fail \/ \E next \in Stages : Ask(next)
    BY DEF MethodRead, AuthRead, Send, Stages
  <1> QED
    BY <1>1, <1>2, FailKeeps, AskKeeps DEF Stages

\* An answer that grants the request was read no further than to its end, and
\* with SOCKS4 and HTTP as far.
LEMMA GrantReadExactly ==
    ASSUME DialInv, stage = "reply", AllRead, Granted
    PROVE  /\ \A i \in 1 .. Len(consumed) : consumed[i] # "target"
           /\ proto # "socks5" => net \in Then
           /\ OK \in {consumed[i] : i \in 1 .. Len(consumed)}
  <1> DEFINE k == Len(consumed)
             w == consumed \o net
  <1>1. /\ consumed \in Seq(Word)
        /\ net \in Seq(Word)
        /\ proto \in {"socks5", "socks4", "http"}
    BY DialAssumption DEF DialInv, DialTypeOK
  <1>2. /\ k \in Nat \ {0}
        /\ IF proto = "http" THEN consumed[1] = OK /\ consumed[k] = "end"
           ELSE /\ consumed[2] = OK
                /\ k = IF proto = "socks5" THEN 4 ELSE 8
    BY <1>1 DEF AllRead, Want, Granted
  <1>3. Shaped(w)
    <2>1. consumed # <<>>
      BY <1>2
    <2> QED
      BY <2>1 DEF DialInv, AnswerWhole, Stages
  <1>4. Len(w) = k + Len(net) /\ \A i \in 1 .. k : w[i] = consumed[i]
    BY <1>1, Joined
  <1>5. OK \in {consumed[i] : i \in 1 .. k}
    <2>1. 1 \in 1 .. k /\ (proto # "http" => 2 \in 1 .. k)
      BY <1>2
    <2> QED
      BY <1>2, <2>1
  <1>6. CASE proto = "socks5"
    <2>1. \A i \in 1 .. k : i \in 1 .. Len(w) /\ i <= 4
      BY <1>1, <1>2, <1>4, <1>6
    <2>2. \A i \in 1 .. k : w[i] # "target"
      BY <1>3, <1>6, <2>1 DEF Shaped
    <2> QED
      BY <1>4, <1>5, <1>6, <2>2
  <1>7. CASE proto # "socks5"
    <2>1. Behind(w, k)
      <3>1. CASE proto = "socks4"
        BY <1>2, <1>3, <3>1 DEF Shaped
      <3>2. CASE proto = "http"
        <4>1. k \in 1 .. Len(w) /\ w[k] = "end"
          BY <1>1, <1>2, <1>4, <3>2
        <4> HIDE DEF w, k
        <4> QED
          BY <1>3, <3>2, <4>1 DEF Shaped
      <3> QED
        BY <1>1, <1>7, <3>1, <3>2
    <2>2. (\A i \in 1 .. k : consumed[i] # "target") /\ net \in Then
      BY <1>1, <2>1, RestIsTarget
    <2> QED
      BY <1>5, <2>2
  <1> QED
    BY <1>6, <1>7

\* The answer to the request.
LEMMA ReplyReadKeeps ==
    ASSUME DialInv, ReplyRead
    PROVE  DialInv'
  <1>1. CASE Fail
    BY <1>1, FailKeeps
  <1>2. CASE Granted /\ ~Fail
    <2>1. /\ stage = "reply" /\ AllRead
          /\ stage' = "returned" /\ result' = "conn"
          /\ UNCHANGED <<proto, auth, proxyConn, net, consumed, answered, eof,
                         expired>>
      BY <1>2 DEF ReplyRead
    <2>2. DialTypeOK'
      BY <2>1 DEF DialInv, DialTypeOK
    <2>3. Progressed' /\ AnswerWhole' /\ NotBeyondEnd'
      BY <2>1 DEF Progressed, AnswerWhole, NotBeyondEnd, Stages
    <2>4. proxyConn = "open"
      BY <2>1 DEF DialInv, Progressed, Stages
    <2>5. /\ \A i \in 1 .. Len(consumed) : consumed[i] # "target"
          /\ proto # "socks5" => net \in Then
          /\ OK \in {consumed[i] : i \in 1 .. Len(consumed)}
      BY <1>2, <2>1, GrantReadExactly
    <2>6. NothingOverread'
      BY <2>1, <2>5 DEF NothingOverread
    <2>7. ClosedOrReturned'
      BY <2>1, <2>4, <2>5 DEF ClosedOrReturned
    <2> QED
      BY <2>2, <2>3, <2>6, <2>7 DEF DialInv, DialSafe
  <1> QED
    BY <1>1, <1>2 DEF ReplyRead

\* Every step of the dialer, of the proxy and of time.
LEMMA DialStepKeeps ==
    ASSUME DialInv, [DialNext]_dialVars
    PROVE  DialInv'
  <1>1. CASE Resolve \/ DialProxy \/ WriteRequest
    BY <1>1, OpeningKeeps
  <1>2. CASE ReadSome
    BY <1>2, ReadSomeKeeps
  <1>3. CASE ReadError
    BY <1>3, FailKeeps DEF ReadError
  <1>4. CASE MethodRead \/ AuthRead
    BY <1>4, GreetingKeeps
  <1>5. CASE ReplyRead
    BY <1>5, ReplyReadKeeps
  <1>6. CASE ProxyAnswers
    BY <1>6, ProxyAnswersKeeps
  <1>7. CASE ProxyHangsUp \/ DeadlinePasses \/ UNCHANGED dialVars
    BY <1>7, OutsideKeeps
  <1> QED
    BY <1>1, <1>2, <1>3, <1>4, <1>5, <1>6, <1>7
       DEF DialNext, DialContext, Returned

-----------------------------------------------------------------------------
(* The writers. *)

\* A frame is a rest, begins with a header, and is about one length.
LEMMA FramesAreRests ==
    ASSUME framing \in {"wss", "tcp"}, NEW f \in 1 .. MaxFrames, NEW n \in Lengths
    PROVE  LET q == FrameOf(f, n)
           IN  /\ q \in Seq(PartType) /\ q # <<>>
               /\ IsRest(q)
               /\ q[1].kind = "hdr"
               /\ \A i \in DOMAIN q : q[i].frame = f /\ PartOf(q[i], n, framing)
  <1> DEFINE h == Wire!Part(f, "hdr", Wire!Announce(n))
             x == Wire!Part(f, "ext", Wire!Extension(n))
             m == Wire!Part(f, "mask", 0)
             d == Wire!Part(f, "data", n)
             l == Wire!Part(f, "hdr", n)
             q == FrameOf(f, n)
  <1>1. n \in Nat /\ Wire!Announce(n) \in Nat /\ Wire!Extension(n) \in Nat
    <2>1. n \in Nat
      BY LinkAssumption
    <2>2. n % 65536 \in Nat
      BY <2>1
    <2> QED
      BY <2>1, <2>2 DEF Wire!Announce, Wire!Extension
  <1>2. /\ h \in PartType /\ h.kind = "hdr" /\ h.says = Wire!Announce(n) /\ h.frame = f
        /\ x \in PartType /\ x.kind = "ext" /\ x.says = Wire!Extension(n) /\ x.frame = f
        /\ m \in PartType /\ m.kind = "mask" /\ m.frame = f
        /\ d \in PartType /\ d.kind = "data" /\ d.says = n /\ d.frame = f
        /\ l \in PartType /\ l.kind = "hdr" /\ l.says = n /\ l.frame = f
    BY <1>1 DEF PartType, Wire!Part, Wire!Kinds
  <1>3. CASE framing = "wss" /\ Wire!Announce(n) < 126
    <2>1. q = <<h, m, d>>
      BY <1>3 DEF FrameOf, Wire!WSSFrame
    <2> HIDE DEF h, x, m, d, l, q
    <2>2. /\ Wire!Follows(h) = "mask" /\ Wire!Follows(m) = "data"
      BY <1>1, <1>2, <1>3 DEF Wire!Follows
    <2>3. PartOf(h, n, framing) /\ PartOf(m, n, framing) /\ PartOf(d, n, framing)
      BY <1>2, <1>3 DEF PartOf
    <2>4. q \in Seq(PartType) /\ Len(q) = 3
      BY <1>2, <2>1
    <2> QED
      BY <1>2, <2>1, <2>2, <2>3, <2>4 DEF IsRest, q
  <1>4. CASE framing = "wss" /\ ~(Wire!Announce(n) < 126)
    <2>1. q = <<h, x, m, d>>
      BY <1>4 DEF FrameOf, Wire!WSSFrame
    <2> HIDE DEF h, x, m, d, l, q
    <2>2. /\ Wire!Follows(h) = "ext" /\ Wire!Follows(x) = "mask"
          /\ Wire!Follows(m) = "data"
      BY <1>1, <1>2, <1>4 DEF Wire!Follows
    <2>3. PartOf(h, n, framing) /\ PartOf(x, n, framing) /\ PartOf(m, n, framing) /\ PartOf(d, n, framing)
      BY <1>1, <1>2, <1>4 DEF PartOf
    <2>4. q \in Seq(PartType) /\ Len(q) = 4
      BY <1>2, <2>1
    <2> QED
      BY <1>2, <2>1, <2>2, <2>3, <2>4 DEF IsRest, q
  <1>5. CASE framing = "tcp"
    <2>1. q = <<l, d>>
      BY <1>5 DEF FrameOf, Wire!TCPFrame
    <2> HIDE DEF h, x, m, d, l, q
    <2>2. Wire!Follows(l) = "data"
      BY <1>2, <1>5 DEF Wire!Follows
    <2>3. PartOf(l, n, framing) /\ PartOf(d, n, framing)
      BY <1>2, <1>5 DEF PartOf
    <2>4. q \in Seq(PartType) /\ Len(q) = 2
      BY <1>2, <2>1
    <2> QED
      BY <1>2, <2>1, <2>2, <2>3, <2>4 DEF IsRest, q
  <1> QED
    BY <1>3, <1>4, <1>5

\* What is left of a rest is a rest, of the same frame, whose first part is the
\* one that the part just written asks for.
LEMMA TailIsRest ==
    ASSUME NEW q \in Seq(PartType), q # <<>>, IsRest(q)
    PROVE  /\ Tail(q) \in Seq(PartType)
           /\ Len(Tail(q)) = Len(q) - 1
           /\ \A i \in 1 .. Len(q) - 1 : Tail(q)[i] = q[i + 1]
           /\ IsRest(Tail(q))
           /\ Tail(q) = <<>> <=> q[1].kind = "data"
           /\ Tail(q) # <<>> =>
                 /\ Tail(q)[1].kind = Wire!Follows(q[1])
                 /\ Tail(q)[1].kind # "hdr"
                 /\ Tail(q)[1].frame = q[1].frame
  <1> DEFINE t == Tail(q)
  <1>1. /\ t \in Seq(PartType)
        /\ Len(t) = Len(q) - 1
        /\ \A i \in 1 .. Len(q) - 1 : t[i] = q[i + 1]
    OBVIOUS
  <1> HIDE DEF t
  <1>2. Len(q) \in Nat /\ Len(q) # 0
    OBVIOUS
  <1>3. t # <<>> => t[Len(t)] = q[Len(q)] /\ Len(q) - 1 \in 1 .. Len(q) - 1
    BY <1>1, <1>2
  <1>4. ASSUME NEW i \in 1 .. Len(t) - 1
        PROVE  /\ t[i + 1].kind = Wire!Follows(t[i])
               /\ t[i + 1].kind # "hdr"
               /\ t[i + 1].frame = t[i].frame
    <2>1. i \in 1 .. Len(q) - 1 /\ i + 1 \in 1 .. Len(q) - 1
      BY <1>1, <1>2
    <2>2. t[i] = q[i + 1] /\ t[i + 1] = q[(i + 1) + 1]
      BY <1>1, <2>1
    <2> QED
      BY <2>1, <2>2 DEF IsRest
  <1>5. IsRest(t)
    BY <1>3, <1>4 DEF IsRest
  <1>6. ASSUME t = <<>> PROVE q[1].kind = "data"
    <2>1. Len(q) = 1
      BY <1>1, <1>2, <1>6
    <2> QED
      BY <2>1 DEF IsRest
  <1>7. ASSUME t # <<>>
        PROVE  /\ t[1].kind = Wire!Follows(q[1])
               /\ t[1].kind # "hdr"
               /\ t[1].frame = q[1].frame
               /\ q[1].kind # "data"
    <2>1. 1 \in 1 .. Len(q) - 1 /\ t[1] = q[1 + 1]
      BY <1>1, <1>2, <1>7
    <2>2. /\ t[1].kind = Wire!Follows(q[1])
          /\ t[1].kind # "hdr"
          /\ t[1].frame = q[1].frame
      BY <2>1 DEF IsRest
    <2>3. q[1].kind # "data"
      BY <2>2 DEF Wire!Follows
    <2> QED
      BY <2>2, <2>3
  <1> QED
    BY <1>1, <1>5, <1>6, <1>7 DEF t

\* What follows a part is settled by the framing.
LEMMA FramingDecides ==
    ASSUME framing' = framing
    PROVE  \A w : IsRest(todo[w])' <=> IsRest(todo'[w])
  BY DEF IsRest, Wire!Follows

\* Nothing is written at the beginning.
LEMMA WireStarts == Wire!Init => WireInv
  <1> SUFFICES ASSUME Wire!Init PROVE WireInv
    OBVIOUS
  <1>1. /\ stream = <<>> /\ frames = 0 /\ failed = FALSE /\ mixed = FALSE
        /\ todo = [w \in Writers |-> <<>>]
        /\ framing \in {"wss", "tcp"}
    BY DEF Wire!Init
  <1>2. /\ \A w \in Writers : todo[w] = <<>>
        /\ <<>> \in Seq(PartType) /\ Len(<<>>) = 0 /\ DOMAIN <<>> = {}
    BY <1>1
  <1>3. WireTypes
    <2>1. todo \in [Writers -> Seq(PartType)]
      BY <1>1, <1>2
    <2>2. failed \in BOOLEAN /\ mixed \in BOOLEAN
      BY <1>1
    <2>3. stream \in Seq(PartType) /\ frames \in 0 .. MaxFrames
      BY <1>1, LinkAssumption
    <2> QED
      BY <1>1, <2>1, <2>2, <2>3 DEF WireTypes
  <1>4. OwnFrames
    <2>1. IsRest(<<>>)
      BY <1>2 DEF IsRest
    <2> QED
      BY <1>1, <1>2, <2>1 DEF OwnFrames
  <1>5. OneLength
    BY <1>1 DEF OneLength
  <1>6. InTurn /\ WholeFrames
    BY <1>1, <1>2 DEF InTurn, WholeFrames, Wire!WholeFrames
  <1> QED
    BY <1>3, <1>4, <1>5, <1>6 DEF WireInv

\* A writer begins a frame: nothing of it is in the stream.
LEMMA WriteMsgKeeps ==
    ASSUME WireInv, NEW w \in Writers, NEW n \in Lengths, Wire!WriteMsg(w, n)
    PROVE  WireInv'
  <1> DEFINE f == frames + 1
             q == FrameOf(f, n)
  <1>1. /\ framing \in {"wss", "tcp"} /\ frames \in 0 .. MaxFrames
        /\ stream \in Seq(PartType) /\ todo \in [Writers -> Seq(PartType)]
    BY DEF WireInv, WireTypes
  <1>2. /\ todo[w] = <<>> /\ frames < MaxFrames /\ frames' = f
        /\ todo' = [todo EXCEPT ![w] = q]
        /\ UNCHANGED <<framing, stream, failed, mixed>>
    BY DEF Wire!WriteMsg, FrameOf
  <1>3. f \in 1 .. MaxFrames /\ f \in 0 .. MaxFrames /\ f > frames
    BY <1>1, <1>2, LinkAssumption
  <1>4. /\ q \in Seq(PartType) /\ q # <<>> /\ IsRest(q) /\ q[1].kind = "hdr"
        /\ \A i \in DOMAIN q : q[i].frame = f /\ PartOf(q[i], n, framing)
    BY <1>1, <1>3, FramesAreRests
  <1> HIDE DEF q, f
  <1>5. 1 \in DOMAIN q /\ q[1].frame = f
    BY <1>4
  <1>6. /\ todo'[w] = q
        /\ \A v \in Writers : v # w => todo'[v] = todo[v]
        /\ todo' \in [Writers -> Seq(PartType)]
    BY <1>1, <1>2, <1>4
  <1>7. /\ \A i \in DOMAIN stream : stream[i].frame <= frames /\ stream[i].frame \in Nat
        /\ \A v \in Writers : \A i \in DOMAIN todo[v] :
              todo[v][i].frame <= frames /\ todo[v][i].frame \in Nat
    <2>1. \A x \in PartType : x.frame \in Nat
      BY DEF PartType
    <2>2. ASSUME NEW v \in Writers, NEW i \in DOMAIN todo[v]
          PROVE  todo[v][i] \in PartType
      <3>1. todo[v] \in Seq(PartType)
        BY <1>1
      <3> QED
        BY <3>1
    <2>3. \A i \in DOMAIN stream : stream[i] \in PartType
      BY <1>1
    <2> QED
      BY <2>1, <2>2, <2>3 DEF WireInv, OwnFrames
  <1>8. WireTypes'
    <2>1. failed' \in BOOLEAN /\ mixed' \in BOOLEAN
      BY <1>2 DEF WireInv, WireTypes
    <2>2. framing' \in {"wss", "tcp"} /\ stream' \in Seq(PartType)
      BY <1>1, <1>2
    <2> QED
      BY <1>2, <1>3, <1>6, <2>1, <2>2 DEF WireTypes
  <1>9. OwnFrames'
    <2>1. \A i \in DOMAIN stream' : stream'[i].frame <= frames'
      BY <1>1, <1>2, <1>3, <1>7
    <2>2. ASSUME NEW v \in Writers
          PROVE  /\ IsRest(todo'[v])
                 /\ \A i \in DOMAIN todo'[v] : todo'[v][i].frame <= frames'
      <3>1. CASE v = w
        BY <1>2, <1>3, <1>4, <1>6, <3>1
      <3>2. CASE v # w
        BY <1>1, <1>2, <1>3, <1>6, <1>7, <3>2 DEF WireInv, OwnFrames
      <3> QED
        BY <3>1, <3>2
    <2>3. ASSUME NEW u \in Writers, NEW v \in Writers, u # v,
                 todo'[u] # <<>>, todo'[v] # <<>>
          PROVE  todo'[u][1].frame # todo'[v][1].frame
      <3>1. ASSUME NEW x \in Writers, x # w, todo'[x] # <<>>
            PROVE  todo'[x][1].frame # f
        <4>1. todo'[x] = todo[x] /\ todo[x] \in Seq(PartType)
          BY <1>1, <1>6, <3>1
        <4>2. 1 \in DOMAIN todo[x]
          BY <3>1, <4>1
        <4> QED
          BY <1>1, <1>3, <1>7, <4>1, <4>2
      <3>2. CASE u = w
        BY <1>5, <1>6, <2>3, <3>1, <3>2
      <3>3. CASE v = w
        BY <1>5, <1>6, <2>3, <3>1, <3>3
      <3>4. CASE u # w /\ v # w
        BY <1>6, <2>3, <3>4 DEF WireInv, OwnFrames
      <3> QED
        BY <3>2, <3>3, <3>4
    <2> QED
      BY <1>2, <2>1, <2>2, <2>3, FramingDecides DEF OwnFrames
  <1>10. OneLength'
    <2> SUFFICES ASSUME NEW g \in 1 .. f
                 PROVE  \E m \in Lengths :
                   /\ \A i \in DOMAIN stream' :
                         stream'[i].frame = g => PartOf(stream'[i], m, framing)
                   /\ \A v \in Writers : \A i \in DOMAIN todo'[v] :
                         todo'[v][i].frame = g => PartOf(todo'[v][i], m, framing)
      BY <1>2 DEF OneLength
    <2>1. CASE g = f
      <3>1. \A i \in DOMAIN stream' : stream'[i].frame # g
        BY <1>1, <1>2, <1>3, <1>7, <2>1
      <3>2. ASSUME NEW v \in Writers, NEW i \in DOMAIN todo'[v], todo'[v][i].frame = g
            PROVE  PartOf(todo'[v][i], n, framing)
        <4>1. CASE v = w
          BY <1>4, <1>6, <2>1, <4>1
        <4>2. CASE v # w
          BY <1>1, <1>3, <1>6, <1>7, <2>1, <3>2, <4>2
        <4> QED
          BY <4>1, <4>2
      <3> QED
        BY <3>1, <3>2
    <2>2. CASE g # f
      <3>1. g \in 1 .. frames
        BY <1>1, <2>2 DEF f
      <3>2. PICK m \in Lengths :
                /\ \A i \in DOMAIN stream :
                      stream[i].frame = g => PartOf(stream[i], m, framing)
                /\ \A v \in Writers : \A i \in DOMAIN todo[v] :
                      todo[v][i].frame = g => PartOf(todo[v][i], m, framing)
        BY <3>1 DEF WireInv, OneLength
      <3>3. ASSUME NEW v \in Writers, NEW i \in DOMAIN todo'[v], todo'[v][i].frame = g
            PROVE  PartOf(todo'[v][i], m, framing)
        <4>1. v # w
          BY <1>4, <1>6, <2>2, <3>3
        <4> QED
          BY <1>6, <3>2, <3>3, <4>1
      <3> QED
        BY <1>2, <3>2, <3>3
    <2> QED
      BY <2>1, <2>2
  <1>11. InTurn'
    <2> SUFFICES ASSUME ~mixed, ~failed PROVE InTurn'
      BY <1>2 DEF InTurn
    <2>1. \A v \in Writers : v # w => (Wire!Begun(v)' <=> Wire!Begun(v))
      BY <1>2, <1>6 DEF Wire!Begun
    <2>2. ~Wire!Begun(w)'
      <3>1. \A i \in DOMAIN stream : stream[i].frame # f
        BY <1>1, <1>3, <1>7
      <3>2. Head(q).frame = f
        BY <1>4, <1>5
      <3> QED
        BY <1>2, <1>6, <3>1, <3>2 DEF Wire!Begun
    <2>3. ~Wire!Begun(w)
      BY <1>2 DEF Wire!Begun
    <2>4. ASSUME NEW v \in Writers, todo'[v] # <<>>
          PROVE  IF Wire!Begun(v)'
                   THEN /\ stream' # <<>>
                        /\ todo'[v][1].kind = Wire!Follows(stream[Len(stream)])'
                        /\ todo'[v][1].kind # "hdr"
                        /\ todo'[v][1].frame = stream'[Len(stream')].frame
                   ELSE todo'[v][1].kind = "hdr"
      <3>1. CASE v = w
        BY <1>4, <1>6, <2>2, <3>1
      <3>2. CASE v # w
        <4>1. todo'[v] = todo[v] /\ (Wire!Begun(v)' <=> Wire!Begun(v))
          BY <1>6, <2>1, <3>2
        <4>2. Wire!Follows(stream[Len(stream)])' = Wire!Follows(stream[Len(stream)])
          BY <1>2 DEF Wire!Follows
        <4> QED
          BY <1>2, <2>4, <4>1, <4>2 DEF WireInv, InTurn
      <3> QED
        BY <3>1, <3>2
    <2>5. ASSUME stream' # <<>>, stream'[Len(stream')].kind # "data"
          PROVE  \E v \in Writers : Wire!Begun(v)'
      <3>1. PICK v \in Writers : Wire!Begun(v)
        BY <1>2, <2>5 DEF WireInv, InTurn
      <3> QED
        BY <2>1, <2>3, <3>1
    <2> QED
      BY <2>4, <2>5 DEF InTurn
  <1>12. WholeFrames'
    BY <1>2 DEF WireInv, WholeFrames, Wire!WholeFrames, Wire!Follows
  <1> QED
    BY <1>8, <1>9, <1>10, <1>11, <1>12 DEF WireInv

\* A write that fails: the writer gives its frame up.
LEMMA WriteFailsKeeps ==
    ASSUME WireInv, NEW w \in Writers,
           failed' = TRUE, todo' = [todo EXCEPT ![w] = <<>>],
           UNCHANGED <<framing, stream, frames, mixed>>
    PROVE  WireInv'
  <1>1. stream \in Seq(PartType) /\ todo \in [Writers -> Seq(PartType)]
    BY DEF WireInv, WireTypes
  <1>2. /\ <<>> \in Seq(PartType) /\ DOMAIN <<>> = {} /\ IsRest(<<>>)
    <2>1. <<>> \in Seq(PartType) /\ DOMAIN <<>> = {} /\ Len(<<>>) = 0
      OBVIOUS
    <2> QED
      BY <2>1 DEF IsRest
  <1>3. /\ todo'[w] = <<>>
        /\ \A v \in Writers : v # w => todo'[v] = todo[v]
        /\ todo' \in [Writers -> Seq(PartType)]
    BY <1>1, <1>2
  <1>4. WireTypes'
    <2>1. failed' \in BOOLEAN /\ mixed' \in BOOLEAN
      BY DEF WireInv, WireTypes
    <2> QED
      BY <1>1, <1>3, <2>1 DEF WireInv, WireTypes
  <1>5. OwnFrames'
    <2>1. ASSUME NEW v \in Writers
          PROVE  /\ IsRest(todo'[v])
                 /\ \A i \in DOMAIN todo'[v] : todo'[v][i].frame <= frames'
      BY <1>2, <1>3 DEF WireInv, OwnFrames
    <2>2. \A i \in DOMAIN stream' : stream'[i].frame <= frames'
      BY DEF WireInv, OwnFrames
    <2>3. ASSUME NEW u \in Writers, NEW v \in Writers, u # v,
                 todo'[u] # <<>>, todo'[v] # <<>>
          PROVE  todo'[u][1].frame # todo'[v][1].frame
      BY <1>3, <2>3 DEF WireInv, OwnFrames
    <2> QED
      BY <2>1, <2>2, <2>3, FramingDecides DEF OwnFrames
  <1>6. OneLength'
    <2> SUFFICES ASSUME NEW g \in 1 .. frames
                 PROVE  \E m \in Lengths :
                   /\ \A i \in DOMAIN stream' :
                         stream'[i].frame = g => PartOf(stream'[i], m, framing)
                   /\ \A v \in Writers : \A i \in DOMAIN todo'[v] :
                         todo'[v][i].frame = g => PartOf(todo'[v][i], m, framing)
      BY DEF OneLength
    <2>1. PICK m \in Lengths :
              /\ \A i \in DOMAIN stream :
                    stream[i].frame = g => PartOf(stream[i], m, framing)
              /\ \A v \in Writers : \A i \in DOMAIN todo[v] :
                    todo[v][i].frame = g => PartOf(todo[v][i], m, framing)
      BY DEF WireInv, OneLength
    <2>2. ASSUME NEW v \in Writers, NEW i \in DOMAIN todo'[v], todo'[v][i].frame = g
          PROVE  PartOf(todo'[v][i], m, framing)
      <3>1. v # w
        BY <1>2, <1>3
      <3> QED
        BY <1>3, <2>1, <2>2, <3>1
    <2> QED
      BY <2>1, <2>2
  <1>7. InTurn'
    BY DEF InTurn
  <1>8. WholeFrames'
    <2>1. framing # "tcp" => framing = "wss"
      BY DEF WireInv, WireTypes
    <2> QED
      BY <2>1 DEF WireInv, WholeFrames, Wire!WholeFrames, Wire!Follows
  <1> QED
    BY <1>4, <1>5, <1>6, <1>7, <1>8 DEF WireInv

\* A part goes into the stream.
LEMMA PartWrittenKeeps ==
    ASSUME WireInv, NEW w \in Writers, todo[w] # <<>>,
           ~(failed /\ framing = "wss"),
           stream' = Append(stream, Head(todo[w])),
           todo' = [todo EXCEPT ![w] = Tail(@)],
           mixed' = (mixed \/ \E v \in Writers \ {w} : Wire!Begun(v)),
           UNCHANGED <<framing, frames, failed>>
    PROVE  WireInv'
  <1> DEFINE q == todo[w]
             p == q[1]
             t == Tail(q)
             n == Len(stream)
  <1>1. stream \in Seq(PartType) /\ todo \in [Writers -> Seq(PartType)]
    BY DEF WireInv, WireTypes
  <1>2. /\ q \in Seq(PartType) /\ q # <<>> /\ IsRest(q)
        /\ 1 \in DOMAIN q /\ Head(q) = p /\ p \in PartType
    BY <1>1 DEF WireInv, OwnFrames
  <1>3. /\ t \in Seq(PartType)
        /\ Len(t) = Len(q) - 1
        /\ \A i \in 1 .. Len(q) - 1 : t[i] = q[i + 1]
        /\ IsRest(t)
        /\ t = <<>> <=> p.kind = "data"
        /\ t # <<>> =>
              /\ t[1].kind = Wire!Follows(p)
              /\ t[1].kind # "hdr"
              /\ t[1].frame = p.frame
    BY <1>2, TailIsRest
  <1> HIDE DEF t
  <1>4. /\ todo'[w] = t
        /\ \A v \in Writers : v # w => todo'[v] = todo[v]
        /\ todo' \in [Writers -> Seq(PartType)]
    BY <1>1, <1>3 DEF t
  <1>5. /\ n \in Nat
        /\ stream' \in Seq(PartType)
        /\ Len(stream') = n + 1
        /\ stream'[n + 1] = p
        /\ \A i \in 1 .. n : stream'[i] = stream[i]
    BY <1>1, <1>2
  <1>6. ASSUME NEW i \in DOMAIN t PROVE i + 1 \in DOMAIN q /\ t[i] = q[i + 1]
    <2>1. DOMAIN t = 1 .. Len(t) /\ DOMAIN q = 1 .. Len(q) /\ Len(q) \in Nat
      BY <1>2, <1>3
    <2>2. Len(t) = Len(q) - 1
      BY <1>3
    <2>3. i \in 1 .. Len(q) - 1 /\ i + 1 \in 1 .. Len(q)
      BY <2>1, <2>2
    <2>4. t[i] = q[i + 1]
      BY <1>3, <2>3
    <2> QED
      BY <2>1, <2>3, <2>4
  <1>7. \A i \in DOMAIN stream' : i = n + 1 \/ i \in DOMAIN stream
    BY <1>1, <1>5
  <1>8. \A i \in DOMAIN stream : i \in 1 .. n /\ i \in DOMAIN stream'
    BY <1>1, <1>5
  <1>9. WireTypes'
    <2>1. failed' \in BOOLEAN /\ mixed' \in BOOLEAN
      BY DEF WireInv, WireTypes
    <2> QED
      BY <1>4, <1>5, <2>1 DEF WireInv, WireTypes
  <1>10. OwnFrames'
    <2>1. ASSUME NEW i \in DOMAIN stream' PROVE stream'[i].frame <= frames'
      BY <1>2, <1>5, <1>7, <1>8 DEF WireInv, OwnFrames
    <2>2. ASSUME NEW v \in Writers
          PROVE  /\ IsRest(todo'[v])
                 /\ \A i \in DOMAIN todo'[v] : todo'[v][i].frame <= frames'
      <3>1. CASE v = w
        <4>1. \A i \in DOMAIN q : q[i].frame <= frames
          BY DEF WireInv, OwnFrames
        <4>2. \A i \in DOMAIN t : t[i].frame <= frames
          BY <1>6, <4>1
        <4> QED
          BY <1>3, <1>4, <3>1, <4>2
      <3>2. CASE v # w
        BY <1>4, <3>2 DEF WireInv, OwnFrames
      <3> QED
        BY <3>1, <3>2
    <2>3. ASSUME NEW u \in Writers, NEW v \in Writers, u # v,
                 todo'[u] # <<>>, todo'[v] # <<>>
          PROVE  todo'[u][1].frame # todo'[v][1].frame
      <3>1. \A x \in Writers : todo'[x] # <<>> =>
                todo[x] # <<>> /\ todo'[x][1].frame = todo[x][1].frame
        BY <1>2, <1>3, <1>4
      <3> QED
        BY <2>3, <3>1 DEF WireInv, OwnFrames
    <2> QED
      BY <2>1, <2>2, <2>3, FramingDecides DEF OwnFrames
  <1>11. OneLength'
    <2> SUFFICES ASSUME NEW g \in 1 .. frames
                 PROVE  \E m \in Lengths :
                   /\ \A i \in DOMAIN stream' :
                         stream'[i].frame = g => PartOf(stream'[i], m, framing)
                   /\ \A v \in Writers : \A i \in DOMAIN todo'[v] :
                         todo'[v][i].frame = g => PartOf(todo'[v][i], m, framing)
      BY DEF OneLength
    <2>1. PICK m \in Lengths :
              /\ \A i \in DOMAIN stream :
                    stream[i].frame = g => PartOf(stream[i], m, framing)
              /\ \A v \in Writers : \A i \in DOMAIN todo[v] :
                    todo[v][i].frame = g => PartOf(todo[v][i], m, framing)
      BY DEF WireInv, OneLength
    <2>2. ASSUME NEW v \in Writers, NEW i \in DOMAIN todo'[v], todo'[v][i].frame = g
          PROVE  PartOf(todo'[v][i], m, framing)
      <3>1. CASE v = w
        BY <1>4, <1>6, <2>1, <2>2, <3>1
      <3>2. CASE v # w
        BY <1>4, <2>1, <2>2, <3>2
      <3> QED
        BY <3>1, <3>2
    <2>3. ASSUME NEW i \in DOMAIN stream', stream'[i].frame = g
          PROVE  PartOf(stream'[i], m, framing)
      BY <1>2, <1>5, <1>7, <1>8, <2>1, <2>3
    <2> QED
      BY <2>2, <2>3
  <1>12. ASSUME ~mixed', ~failed
         PROVE  /\ \A v \in Writers : v # w => ~Wire!Begun(v)
                /\ Wire!Begun(w) =>
                      /\ stream # <<>>
                      /\ p.kind = Wire!Follows(stream[n])
                      /\ p.kind # "hdr"
                      /\ p.frame = stream[n].frame
                /\ ~Wire!Begun(w) =>
                      /\ p.kind = "hdr"
                      /\ stream # <<>> => stream[n].kind = "data"
                /\ \A v \in Writers :
                      v # w /\ todo[v] # <<>> => todo[v][1].kind = "hdr"
    <2>1. ~mixed /\ \A v \in Writers : v # w => ~Wire!Begun(v)
      BY <1>12
    <2> QED
      BY <1>2, <1>12, <2>1 DEF WireInv, InTurn
  <1>13. InTurn'
    <2> SUFFICES ASSUME ~mixed', ~failed PROVE InTurn'
      BY DEF InTurn
    <2>1. stream' # <<>> /\ stream'[Len(stream')] = p
      BY <1>5
    <2>2. t # <<>> => Wire!Begun(w)'
      <3> SUFFICES ASSUME t # <<>> PROVE Wire!Begun(w)'
        OBVIOUS
      <3>1. Head(t).frame = p.frame
        BY <1>3
      <3>2. n + 1 \in DOMAIN stream' /\ stream'[n + 1].frame = p.frame
        BY <1>5
      <3> QED
        BY <1>4, <3>1, <3>2 DEF Wire!Begun
    <2>3. ASSUME NEW v \in Writers, v # w, todo[v] # <<>>
          PROVE  ~Wire!Begun(v)'
      <3>1. Head(todo[v]) = todo[v][1]
        BY <1>1, <2>3
      <3>2. \A i \in DOMAIN stream : stream[i].frame # todo[v][1].frame
        BY <1>12, <2>3, <3>1 DEF Wire!Begun
      <3>3. p.frame # todo[v][1].frame
        BY <1>2, <2>3 DEF WireInv, OwnFrames
      <3>4. \A i \in DOMAIN stream' : stream'[i].frame # todo[v][1].frame
        BY <1>5, <1>7, <1>8, <3>2, <3>3
      <3> QED
        BY <1>4, <2>3, <3>1, <3>4 DEF Wire!Begun
    <2>4. ASSUME NEW v \in Writers, todo'[v] # <<>>
          PROVE  IF Wire!Begun(v)'
                   THEN /\ stream' # <<>>
                        /\ todo'[v][1].kind = Wire!Follows(stream[Len(stream)])'
                        /\ todo'[v][1].kind # "hdr"
                        /\ todo'[v][1].frame = stream'[Len(stream')].frame
                   ELSE todo'[v][1].kind = "hdr"
      <3>1. CASE v = w
        <4>1. Wire!Follows(stream[Len(stream)])' = Wire!Follows(p)
          BY <2>1 DEF Wire!Follows
        <4> QED
          BY <1>3, <1>4, <2>1, <2>2, <2>4, <3>1, <4>1
      <3>2. CASE v # w
        BY <1>4, <1>12, <2>3, <2>4, <3>2
      <3> QED
        BY <3>1, <3>2
    <2>5. p.kind # "data" => \E v \in Writers : Wire!Begun(v)'
      BY <1>3, <2>2
    <2> QED
      BY <2>1, <2>4, <2>5 DEF InTurn
  <1>14. WholeFrames'
    <2> SUFFICES ASSUME ~mixed', ~failed
                 PROVE  /\ stream'[1].kind = "hdr"
                        /\ \A i \in 1 .. Len(stream') - 1 :
                              /\ stream'[i + 1].kind = Wire!Follows(stream'[i])
                              /\ stream'[i + 1].kind # "hdr" =>
                                    stream'[i + 1].frame = stream'[i].frame
      <3>1. framing # "tcp" => framing = "wss"
        BY DEF WireInv, WireTypes
      <3> QED
        BY <3>1 DEF WholeFrames, Wire!WholeFrames, Wire!Follows
    <2>1. ~mixed
      OBVIOUS
    <2>2. /\ stream # <<>> => stream[1].kind = "hdr"
          /\ \A i \in 1 .. n - 1 :
                /\ stream[i + 1].kind = Wire!Follows(stream[i])
                /\ stream[i + 1].kind # "hdr" => stream[i + 1].frame = stream[i].frame
      BY <2>1 DEF WireInv, WholeFrames, Wire!WholeFrames
    <2>3. stream'[1].kind = "hdr"
      <3>1. CASE stream = <<>>
        <4>1. n = 0 /\ stream'[1] = p
          BY <1>5, <3>1
        <4> QED
          BY <1>12, <3>1, <4>1
      <3>2. CASE stream # <<>>
        <4>1. 1 \in 1 .. n
          BY <1>1, <3>2
        <4> QED
          BY <1>5, <2>2, <3>2, <4>1
      <3> QED
        BY <3>1, <3>2
    <2>4. ASSUME NEW i \in 1 .. Len(stream') - 1
          PROVE  /\ stream'[i + 1].kind = Wire!Follows(stream'[i])
                 /\ stream'[i + 1].kind # "hdr" =>
                       stream'[i + 1].frame = stream'[i].frame
      <3>1. CASE i = n
        <4>1. stream'[i] = stream[n] /\ stream'[i + 1] = p /\ stream # <<>>
          BY <1>1, <1>5, <3>1
        <4>2. stream[n].kind = "data" => Wire!Follows(stream[n]) = "hdr"
          BY DEF Wire!Follows
        <4> QED
          BY <1>12, <4>1, <4>2
      <3>2. CASE i # n
        <4>1. i \in 1 .. n - 1 /\ i \in 1 .. n /\ i + 1 \in 1 .. n
          BY <1>5, <3>2
        <4>2. stream'[i] = stream[i] /\ stream'[i + 1] = stream[i + 1]
          BY <1>5, <4>1
        <4> QED
          BY <2>2, <4>1, <4>2
      <3> QED
        BY <3>1, <3>2
    <2> QED
      BY <2>3, <2>4
  <1> QED
    BY <1>9, <1>10, <1>11, <1>13, <1>14 DEF WireInv

\* Every step of the writers.
LEMMA WireStepKeeps ==
    ASSUME WireInv, Wire!Next \/ UNCHANGED wireVars
    PROVE  WireInv'
  <1>1. CASE \E w \in Writers, n \in Lengths : Wire!WriteMsg(w, n)
    BY <1>1, WriteMsgKeeps
  <1>2. CASE \E w \in Writers : Wire!Write(w)
    <2>1. PICK w \in Writers : Wire!Write(w)
      BY <1>2
    <2>2. CASE failed' = TRUE /\ todo' = [todo EXCEPT ![w] = <<>>]
               /\ UNCHANGED <<framing, stream, frames, mixed>>
      BY <2>2, WriteFailsKeeps
    <2>3. CASE /\ todo[w] # <<>>
               /\ ~(failed /\ framing = "wss")
               /\ stream' = Append(stream, Head(todo[w]))
               /\ todo' = [todo EXCEPT ![w] = Tail(@)]
               /\ mixed' = (mixed \/ \E v \in Writers \ {w} : Wire!Begun(v))
               /\ UNCHANGED <<framing, frames, failed>>
      BY <2>3, PartWrittenKeeps
    <2> QED
      BY <2>1, <2>2, <2>3 DEF Wire!Write
  <1>3. CASE UNCHANGED wireVars
    <2>1. UNCHANGED <<framing, stream, todo, frames, failed, mixed>>
      BY <1>3 DEF wireVars
    <2>2. \A w \in Writers : Wire!Begun(w)' <=> Wire!Begun(w)
      BY <2>1 DEF Wire!Begun
    <2>3. WireTypes' /\ OwnFrames' /\ OneLength'
      BY <2>1, FramingDecides DEF WireInv, WireTypes, OwnFrames, OneLength
    <2>4. InTurn'
      BY <2>1, <2>2 DEF WireInv, InTurn, Wire!Follows
    <2>5. WholeFrames'
      BY <2>1 DEF WireInv, WholeFrames, Wire!WholeFrames, Wire!Follows
    <2> QED
      BY <2>3, <2>4, <2>5 DEF WireInv
  <1>4. CASE Wire!Finished
    BY <1>3, <1>4 DEF Wire!Finished, Wire!vars, wireVars
  <1> QED
    BY <1>1, <1>2, <1>3, <1>4 DEF Wire!Next

\* The lengths that a header announces are those of the payload: they are about
\* one length, and two bytes hold the lengths that are written in two bytes.
LEMMA LengthsFromInv == WireInv => LengthsAgree
  <1> SUFFICES ASSUME WireInv, NEW i \in DOMAIN stream, NEW j \in DOMAIN stream,
                      stream[i].frame = stream[j].frame, stream[j].kind = "data"
               PROVE  /\ stream[i].kind = "ext" => stream[i].says = stream[j].says
                      /\ stream[i].kind = "hdr"
                         /\ (framing = "tcp" \/ stream[i].says < 126)
                            => stream[i].says = stream[j].says
    BY DEF LengthsAgree, Wire!LengthsAgree
  <1>1. /\ stream[i] \in PartType /\ stream[j] \in PartType
        /\ stream[i].frame <= frames /\ frames \in Nat
        /\ framing \in {"wss", "tcp"}
    BY DEF WireInv, WireTypes, OwnFrames
  <1>2. stream[i].frame \in 1 .. frames
    BY <1>1 DEF PartType
  <1>3. PICK n \in Lengths :
            PartOf(stream[i], n, framing) /\ PartOf(stream[j], n, framing)
    BY <1>2 DEF WireInv, OneLength
  <1>4. n \in Nat /\ stream[j].says = n
    BY <1>3, LinkAssumption DEF PartOf
  <1>5. Wire!Announce(n) >= 126 => Wire!Extension(n) = n
    <2>1. n <= 65535 => n % 65536 = n
      BY <1>4
    <2>2. n > 65535 => Wire!Announce(n) = 127
      BY <1>4 DEF Wire!Announce
    <2> QED
      BY <1>4, <2>1, <2>2 DEF Wire!Extension
  <1>6. Wire!Announce(n) < 126 => Wire!Announce(n) = n
    BY <1>4 DEF Wire!Announce
  <1> QED
    BY <1>1, <1>3, <1>4, <1>5, <1>6 DEF PartOf

\* The types of the writers, as WireWrite states them.
LEMMA WireTypesFromInv == WireInv => Wire!TypeOK
  <1> SUFFICES ASSUME WireInv PROVE Wire!TypeOK
    OBVIOUS
  <1>1. ASSUME NEW x, x \in PartType, NEW n \in Lengths, PartOf(x, n, framing)
        PROVE  Wire!IsPart(x)
    <2>1. /\ x.frame \in 1 .. MaxFrames /\ x.kind \in Wire!Kinds /\ x.says \in Nat
      BY <1>1 DEF PartType
    <2>2. x.kind = "hdr" /\ framing = "wss" => x.says < 128
      BY <1>1, LinkAssumption DEF PartOf, Wire!Announce
    <2> QED
      BY <2>1, <2>2 DEF Wire!IsPart
  <1>2. ASSUME NEW i \in DOMAIN stream PROVE Wire!IsPart(stream[i])
    <2>1. stream[i] \in PartType /\ stream[i].frame \in 1 .. frames
      <3>1. stream[i] \in PartType /\ stream[i].frame <= frames
        BY DEF WireInv, WireTypes, OwnFrames
      <3> QED
        BY <3>1 DEF WireInv, WireTypes, PartType
    <2>2. PICK n \in Lengths : PartOf(stream[i], n, framing)
      BY <2>1 DEF WireInv, OneLength
    <2> QED
      BY <1>1, <2>1, <2>2
  <1>3. ASSUME NEW w \in Writers, NEW i \in DOMAIN todo[w]
        PROVE  Wire!IsPart(todo[w][i])
    <2>1. todo[w] \in Seq(PartType)
      BY DEF WireInv, WireTypes
    <2>2. todo[w][i] \in PartType /\ todo[w][i].frame <= frames
      BY <2>1 DEF WireInv, OwnFrames
    <2>3. todo[w][i].frame \in 1 .. frames
      BY <2>2 DEF WireInv, WireTypes, PartType
    <2>4. PICK n \in Lengths : PartOf(todo[w][i], n, framing)
      BY <2>3 DEF WireInv, OneLength
    <2> QED
      BY <1>1, <2>2, <2>4
  <1> QED
    BY <1>2, <1>3 DEF WireInv, WireTypes, Wire!TypeOK

-----------------------------------------------------------------------------
(* The link. *)

\* The dialer and the writers each keep their part of the invariant; nothing is
\* written before the dialer has returned the connection.
LEMMA LinkInvariant == LinkSpec => []LinkInv
  <1>1. LinkInit => LinkInv
    BY DialStarts, WireStarts DEF LinkInit, LinkInv
  <1>2. LinkInv /\ [LinkNext]_linkedVars => LinkInv'
    <2> SUFFICES ASSUME LinkInv, [LinkNext]_linkedVars PROVE LinkInv'
      OBVIOUS
    <2>1. [DialNext]_dialVars
      BY DEF LinkNext, Dialling, Writing, linkedVars
    <2>2. Wire!Next \/ UNCHANGED wireVars
      BY DEF LinkNext, Dialling, Writing, linkedVars
    <2> QED
      BY <2>1, <2>2, DialStepKeeps, WireStepKeeps DEF LinkInv
  <1> QED
    BY <1>1, <1>2, PTL DEF LinkSpec

\* For any lengths, writers and number of frames: both parts keep their types,
\* and no length in a header misleads the reader (wss.go 141-149, 199-212,
\* frame.go 13-42).
THEOREM LinkIsConsistent == LinkSpec => []LinkConsistent
  <1>1. LinkInv => LinkConsistent
    BY LengthsFromInv, WireTypesFromInv
       DEF LinkInv, DialInv, LinkConsistent, LinkTypeOK
  <1> QED
    BY <1>1, LinkInvariant, PTL

\* Whatever the status, however long the headers and the bound address, and
\* wherever the answer is cut off: the connection is closed or returned, one that
\* is returned was granted, no byte of the target is taken for the proxy's, and
\* with SOCKS4 and HTTP none of the proxy's is left before them (dialer.go
\* 168-192, 272-304, 319-366).
THEOREM DialIsSafe == LinkSpec => []DialSafe
  <1>1. LinkInv => DialSafe
    BY DEF LinkInv, DialInv
  <1> QED
    BY <1>1, LinkInvariant, PTL

\* As long as no goroutine writes into the frame of another and, over TCP, no
\* write has failed, the stream is one whole frame after the other (wss.go
\* 133-180, frame.go 13-42).
THEOREM FramesAreWhole == LinkSpec => []WholeFrames
  <1>1. LinkInv => WholeFrames
    BY DEF LinkInv, WireInv
  <1> QED
    BY <1>1, LinkInvariant, PTL
=============================================================================
