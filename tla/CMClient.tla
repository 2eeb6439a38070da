------------------------------ MODULE CMClient ------------------------------
(***************************************************************************)
(* internal/steam/cm/client.go: one client of Steam's connection managers. *)
(* One goroutine at a time uses it (the worker of SteamSession, or the     *)
(* command line): it logs in, sends unified messages and jobs, and waits   *)
(* for what the reader of the connection delivers.  Every connection       *)
(* starts a reader goroutine; readers share the fields of the client, the  *)
(* waiters included, and Disconnect when they fail.                        *)
(*                                                                         *)
(* The network is wire[k], the messages of connection k on their way to    *)
(* the client.  They may be delayed for ever, and a connection may fail at *)
(* any time.  Timeouts may fire at any time.  The rotation over servers is *)
(* left out; the bytes of a message are in WireWrite.                      *)
(***************************************************************************)
EXTENDS Naturals, FiniteSets

CONSTANTS
    LoginAttempts,  \* attempts of ConnectAndLogin in InitSession (5)
    Relogins,       \* attempts of ConnectAndLogin in SendUM (3)
    UMRetries,      \* umRetries (3)
    JobCycle,       \* job ids are 1..JobCycle, reused in turn (9999)
    MaxConns,       \* bound: connections opened
    MaxCalls        \* bound: calls of SendUM and GetDepotKey

ASSUME ClientAssumption ==
    /\ LoginAttempts \in Nat \ {0}
    /\ Relogins \in Nat \ {0}
    /\ UMRetries \in Nat \ {0}
    /\ MaxConns \in Nat
    /\ MaxCalls \in Nat
    /\ JobCycle \in Nat \ {0}

Conns == 1..MaxConns
MaxSends == MaxCalls * UMRetries
MaxWaits == 3 * MaxConns + MaxSends
WaitIds == 1..MaxWaits
LoginKinds == {"encReq", "encRes", "logon"}
Msgs == [kind : LoginKinds \cup {"reply", "none"},
         job  : 0..JobCycle,
         send : 0..MaxSends]
NoMsg == [kind |-> "none", job |-> 0, send |-> 0]

VARIABLES
    conn,       \* c.conn: the number of a connection, or 0
    nconns,     \* connections dialled so far
    transport,  \* transport[k]: "tcp" or "wss"
    sock,       \* sock[k]: "none", "open" or "closed" on this side
    wire,       \* wire[k]: messages from Steam not read yet
    key,        \* c.channelKey: the connection it was agreed for, or 0
    channelOK,  \* c.channelOK
    loggedOn,   \* c.loggedOn
    beat,       \* c.stopHeartbeat # nil: the heartbeat goroutine runs
    reg,        \* c.waiters and c.jobWaiters
    nwaits,     \* channels made by waitEMsg and WaitJob
    box,        \* box[w]: what channel w buffers, or NoMsg
    shut,       \* the channels Disconnect has closed
    reader,     \* reader[k]: the goroutine started for connection k
    rconn,      \* rconn[k]: the connection it captured
    rmsg,       \* rmsg[k]: the message it has in hand
    rref,       \* rref[k]: the channel dispatch found for it
    pc,         \* where the caller stands
    want,       \* the message it sends for or waits for
    left,       \* attempts of ConnectAndLogin left
    last,       \* the last login failure: "none", "soft" or "hard"
    ret,        \* who called ConnectAndLogin: "session" or "call"
    tries,      \* attempts of SendUM left
    nextJob,    \* c.nextJob
    job,        \* the id of the job sent last
    sends,      \* jobs sent so far
    ncalls,     \* calls so far
    answer,     \* how the last call ended
    got,        \* the send its reply answers
    crashed     \* a send on a closed channel has panicked

linkVars == <<nconns, transport>>
flagVars == <<key, channelOK, loggedOn, beat>>
boxVars == <<wire, nwaits, box>>
discVars == <<conn, sock, flagVars, reg, shut>>
readVars == <<reader, rconn, rmsg, rref>>
loginVars == <<left, last, ret>>
jobVars == <<nextJob, job, sends>>
askVars == <<tries, ncalls, answer, got>>
callVars == <<pc, want, loginVars, jobVars, askVars>>
netVars == <<linkVars, discVars, boxVars, readVars, crashed>>
idleVars == <<linkVars, boxVars, readVars, crashed>>
vars == <<netVars, callVars>>

TypeOK ==
    /\ conn \in 0..nconns
    /\ nconns \in 0..MaxConns
    /\ transport \in [Conns -> {"none", "tcp", "wss"}]
    /\ sock \in [Conns -> {"none", "open", "closed"}]
    /\ wire \in [Conns -> SUBSET Msgs]
    /\ key \in 0..nconns
    /\ channelOK \in BOOLEAN
    /\ loggedOn \in BOOLEAN
    /\ beat \in BOOLEAN
    /\ reg \subseteq [kind : LoginKinds \cup {"reply"}, job : 0..JobCycle,
                      id : WaitIds]
    /\ nwaits \in 0..MaxWaits
    /\ box \in [WaitIds -> Msgs]
    /\ shut \subseteq WaitIds
    /\ reader \in [Conns -> {"none", "start", "read", "decrypt", "lookup",
                             "deliver", "gone"}]
    /\ rconn \in [Conns -> 0..nconns]
    /\ rmsg \in [Conns -> Msgs]
    /\ rref \in [Conns -> 0..nwaits]
    /\ pc \in {"new", "ready", "closed", "attempt", "connect", "dial", "adopt",
               "send", "register", "wait", "beat", "fail"}
    /\ want \in LoginKinds \cup {"reply", "none"}
    /\ left \in Nat
    /\ last \in {"none", "soft", "hard"}
    /\ ret \in {"session", "call"}
    /\ tries \in 0..UMRetries
    /\ nextJob \in 1..JobCycle
    /\ job \in 0..JobCycle
    /\ sends \in 0..MaxSends
    /\ ncalls \in 0..MaxCalls
    /\ answer \in {"none", "ok", "error"}
    /\ got \in 0..sends
    /\ crashed \in BOOLEAN

(* New. *)
Init ==
    /\ conn = 0
    /\ nconns = 0
    /\ transport = [k \in Conns |-> "none"]
    /\ sock = [k \in Conns |-> "none"]
    /\ wire = [k \in Conns |-> {}]
    /\ key = 0
    /\ channelOK = FALSE
    /\ loggedOn = FALSE
    /\ beat = FALSE
    /\ reg = {}
    /\ nwaits = 0
    /\ box = [w \in WaitIds |-> NoMsg]
    /\ shut = {}
    /\ reader = [k \in Conns |-> "none"]
    /\ rconn = [k \in Conns |-> 0]
    /\ rmsg = [k \in Conns |-> NoMsg]
    /\ rref = [k \in Conns |-> 0]
    /\ pc = "new"
    /\ want = "none"
    /\ left = 0
    /\ last = "none"
    /\ ret = "session"
    /\ tries = 0
    /\ nextJob = 1
    /\ job = 0
    /\ sends = 0
    /\ ncalls = 0
    /\ answer = "none"
    /\ got = 0
    /\ crashed = FALSE

-----------------------------------------------------------------------------
\* Mutants: the socket is not closed; the login is not forgotten.
SocketsKept == sock
LoginKept == loggedOn

SocketsLeft == [k \in Conns |-> IF k = conn THEN "closed" ELSE sock[k]]
LoginLeft == FALSE

(***************************************************************************)
(* Disconnect, one step: the socket is closed just after c.mu is released, *)
(* when nobody else can find it any more.                                  *)
(***************************************************************************)
Disconnect ==
    /\ conn' = 0
    /\ sock' = SocketsLeft
    /\ key' = 0
    /\ channelOK' = FALSE
    /\ loggedOn' = LoginLeft
    /\ beat' = FALSE
    /\ shut' = shut \cup {r.id : r \in reg}
    /\ reg' = {}

-----------------------------------------------------------------------------
(* InitSession, SendUM, GetDepotKey and Session.Close. *)

StartSession ==
    /\ pc = "new"
    /\ pc' = "connect"
    /\ left' = LoginAttempts
    /\ ret' = "session"
    /\ UNCHANGED <<netVars, askVars, jobVars, want, last>>

StartUM ==
    /\ pc = "ready"
    /\ ncalls < MaxCalls
    /\ ncalls' = ncalls + 1
    /\ tries' = UMRetries
    /\ answer' = "none"
    /\ pc' = "attempt"
    /\ UNCHANGED <<netVars, loginVars, jobVars, want, got>>

\* SendJobAndWait without SendUM around it: one attempt, no login.
GetDepotKey ==
    /\ pc = "ready"
    /\ ncalls < MaxCalls
    /\ ncalls' = ncalls + 1
    /\ tries' = 0
    /\ answer' = "none"
    /\ want' = "reply"
    /\ pc' = "send"
    /\ UNCHANGED <<netVars, loginVars, jobVars, got>>

\* The head of the loop of SendUM.
Attempt ==
    /\ pc = "attempt"
    /\ IF tries = 0
         THEN /\ answer' = "error"
              /\ pc' = "ready"
              /\ UNCHANGED <<loginVars, want, tries>>
         ELSE /\ tries' = tries - 1
              /\ IF loggedOn
                   THEN /\ want' = "reply"
                        /\ pc' = "send"
                        /\ UNCHANGED loginVars
                   ELSE /\ left' = Relogins
                        /\ last' = "none"
                        /\ ret' = "call"
                        /\ pc' = "connect"
                        /\ UNCHANGED want
              /\ UNCHANGED answer
    /\ UNCHANGED <<netVars, jobVars, ncalls, got>>

CloseSession ==
    /\ pc = "ready"
    /\ Disconnect
    /\ pc' = "closed"
    /\ UNCHANGED <<idleVars, askVars, loginVars, jobVars, want>>

-----------------------------------------------------------------------------
(* ConnectAndLogin and connectOne. *)

AttemptCounted == left - 1

Connect ==
    /\ pc = "connect"
    /\ left > 0
    /\ left' = AttemptCounted
    /\ Disconnect
    /\ pc' = "dial"
    /\ UNCHANGED <<idleVars, askVars, jobVars, want, last, ret>>

\* No attempt is left.  The list of servers is never empty: there is always
\* the one of the DNS name.
LoginGivesUp ==
    /\ pc = "connect"
    /\ left = 0
    /\ pc' = IF ret = "session" THEN "closed" ELSE "attempt"
    /\ UNCHANGED <<netVars, askVars, loginVars, jobVars, want>>

DialFails ==
    /\ pc = "dial"
    /\ last' = "soft"
    /\ pc' = "fail"
    /\ UNCHANGED <<netVars, askVars, jobVars, want, left, ret>>

\* A TCP server asks for channel encryption at once.
DialOK(t) ==
    /\ pc = "dial"
    /\ nconns < MaxConns
    /\ LET k == nconns + 1
       IN  /\ nconns' = k
           /\ transport' = [transport EXCEPT ![k] = t]
           /\ sock' = [sock EXCEPT ![k] = "open"]
           /\ wire' = [wire EXCEPT ![k] = IF t = "tcp"
                        THEN {[kind |-> "encReq", job |-> 0, send |-> 0]}
                        ELSE {}]
    /\ pc' = "adopt"
    /\ UNCHANGED <<flagVars, readVars, askVars, loginVars, jobVars, conn,
                   reg, shut, nwaits, box, want, crashed>>

\* The connection becomes the client's and its reader is started.
Adopt ==
    /\ pc = "adopt"
    /\ conn' = nconns
    /\ key' = 0
    /\ loggedOn' = FALSE
    /\ channelOK' = (transport[nconns] = "wss")
    /\ reader' = [reader EXCEPT ![nconns] = "start"]
    /\ IF transport[nconns] = "wss"
         THEN want' = "logon" /\ pc' = "send"
         ELSE want' = "encReq" /\ pc' = "register"
    /\ UNCHANGED <<askVars, boxVars, loginVars, jobVars, linkVars, sock,
                   beat, reg, shut, rconn, rmsg, rref, crashed>>

\* MarkBad and Disconnect, whatever the failure was.
LoginFailed ==
    /\ pc = "fail"
    /\ Disconnect
    /\ pc' = "connect"
    /\ UNCHANGED <<idleVars, askVars, loginVars, jobVars, want>>

\* startHeartbeat, after loggedOn was set and c.mu released.
StartHeartbeat ==
    /\ pc = "beat"
    /\ beat' = TRUE
    /\ IF ret = "session"
         THEN pc' = "ready" /\ UNCHANGED want
         ELSE pc' = "send" /\ want' = "reply"
    /\ UNCHANGED <<idleVars, askVars, loginVars, jobVars, conn, sock, key,
                   channelOK, loggedOn, reg, shut>>

-----------------------------------------------------------------------------
(* sendRaw, waitEMsg, nextJobID, SendJob and WaitJob. *)

\* Where the caller goes when what it sent or waited for failed.
Failed ==
    IF want = "reply"
      THEN pc' = "attempt" /\ UNCHANGED last
      ELSE pc' = "fail" /\ last' = "soft"

\* Mutant: every job gets the same id.
NextIDStuck == nextJob

NextID == IF nextJob + 1 > JobCycle THEN 1 ELSE nextJob + 1

NextJobID ==
    IF want = "reply"
      THEN job' = nextJob /\ nextJob' = NextID /\ sends' = sends + 1
      ELSE UNCHANGED jobVars

\* Steam will answer what was written, sooner or later or never.
SendOK ==
    /\ pc = "send"
    /\ conn # 0
    /\ NextJobID
    /\ wire' = [wire EXCEPT ![conn] = @ \cup {
                  IF want = "reply"
                    THEN [kind |-> "reply", job |-> job', send |-> sends']
                    ELSE [kind |-> want, job |-> 0, send |-> 0]}]
    /\ pc' = "register"
    /\ UNCHANGED <<discVars, readVars, askVars, loginVars, linkVars, nwaits,
                   box, want, crashed>>

\* There is no connection, or the write fails.
SendFails ==
    /\ pc = "send"
    /\ NextJobID
    /\ Failed
    /\ UNCHANGED <<netVars, askVars, want, left, ret>>

WaitedJob == IF want = "reply" THEN job ELSE 0

\* The waiter is registered only now, after the send.
Register ==
    /\ pc = "register"
    /\ nwaits' = nwaits + 1
    /\ reg' = {r \in reg : r.kind # want \/ r.job # WaitedJob} \cup
                {[kind |-> want, job |-> WaitedJob, id |-> nwaits + 1]}
    /\ pc' = "wait"
    /\ UNCHANGED <<flagVars, readVars, askVars, loginVars, jobVars, linkVars,
                   conn, sock, shut, wire, box, want, crashed>>

\* Mutant: the waiter stays registered.
UnregisterForgotten == UNCHANGED reg

\* The deferred delete.
Unregister == reg' = {r \in reg : r.kind # want \/ r.job # WaitedJob}

\* The timeout, the end of the context, or the channel closed by Disconnect.
WaitFails ==
    /\ pc = "wait"
    /\ Unregister
    /\ Failed
    /\ UNCHANGED <<idleVars, flagVars, askVars, jobVars, conn, sock, shut,
                   want, left, ret>>

Received == pc = "wait" /\ box[nwaits] # NoMsg

\* secureChannel answers the request for encryption.
GotEncReq ==
    /\ Received
    /\ want = "encReq"
    /\ Unregister
    /\ want' = "encRes"
    /\ pc' = "send"
    /\ UNCHANGED <<idleVars, flagVars, askVars, loginVars, jobVars, conn,
                   sock, shut>>

\* The keys are installed, also when the connection is gone by now.
GotEncRes ==
    /\ Received
    /\ want = "encRes"
    /\ Unregister
    /\ key' = nconns
    /\ channelOK' = TRUE
    /\ want' = "logon"
    /\ pc' = "send"
    /\ UNCHANGED <<idleVars, askVars, loginVars, jobVars, conn, sock,
                   loggedOn, beat, shut>>

\* anonymousLogon trusts the response, also when the connection is gone.
GotLogon ==
    /\ Received
    /\ want = "logon"
    /\ Unregister
    /\ loggedOn' = TRUE
    /\ pc' = "beat"
    /\ UNCHANGED <<idleVars, askVars, loginVars, jobVars, conn, sock, key,
                   channelOK, beat, shut, want>>

\* A response that cannot be used, or that carries another EResult.
LoginRefused(v) ==
    /\ Received
    /\ want \in LoginKinds
    /\ want = "encReq" => v = "soft"
    /\ Unregister
    /\ last' = v
    /\ pc' = "fail"
    /\ UNCHANGED <<idleVars, flagVars, askVars, jobVars, conn, sock, shut,
                   want, left, ret>>

\* EResult OK, one that SendUM tries again on, or another one.
GotReply(v) ==
    /\ Received
    /\ want = "reply"
    /\ Unregister
    /\ IF v = "soft"
         THEN pc' = "attempt" /\ UNCHANGED <<answer, got>>
         ELSE /\ pc' = "ready"
              /\ answer' = IF v = "ok" THEN "ok" ELSE "error"
              /\ got' = box[nwaits].send
    /\ UNCHANGED <<idleVars, flagVars, loginVars, jobVars, conn, sock, shut,
                   want, tries, ncalls>>

-----------------------------------------------------------------------------
(* readLoop and dispatch. *)

Capture(k) ==
    /\ reader[k] = "start"
    /\ rconn' = [rconn EXCEPT ![k] = conn]
    /\ reader' = [reader EXCEPT ![k] = IF conn = 0 THEN "gone" ELSE "read"]
    /\ UNCHANGED <<callVars, discVars, boxVars, linkVars, rmsg, rref, crashed>>

ReadMsg(k) ==
    /\ reader[k] = "read"
    /\ sock[rconn[k]] = "open"
    /\ \E m \in wire[rconn[k]] :
          /\ wire' = [wire EXCEPT ![rconn[k]] = @ \ {m}]
          /\ rmsg' = [rmsg EXCEPT ![k] = m]
    /\ reader' = [reader EXCEPT ![k] = "decrypt"]
    /\ UNCHANGED <<callVars, discVars, linkVars, nwaits, box, rconn, rref,
                   crashed>>

\* The connection failed, was closed, or was silent for 120 seconds.  The
\* reader disconnects the client, whatever connection that has by now.
ReadFails(k) ==
    /\ reader[k] = "read"
    /\ Disconnect
    /\ reader' = [reader EXCEPT ![k] = "gone"]
    /\ UNCHANGED <<callVars, boxVars, linkVars, rconn, rmsg, rref, crashed>>

\* Over TCP, everything after the handshake is encrypted.
Sealed(k) == transport[rconn[k]] = "tcp" /\ rmsg[k].kind \in {"logon", "reply"}

Decrypt(k) ==
    /\ reader[k] = "decrypt"
    /\ key = IF Sealed(k) THEN rconn[k] ELSE 0
    /\ reader' = [reader EXCEPT ![k] = "lookup"]
    /\ UNCHANGED <<callVars, discVars, boxVars, linkVars, rconn, rmsg, rref,
                   crashed>>

\* Without a key, an encrypted message is parsed as it is, and means nothing.
DecryptSkipped(k) ==
    /\ reader[k] = "decrypt"
    /\ Sealed(k)
    /\ key = 0
    /\ reader' = [reader EXCEPT ![k] = "read"]
    /\ rmsg' = [rmsg EXCEPT ![k] = NoMsg]
    /\ UNCHANGED <<callVars, discVars, boxVars, linkVars, rconn, rref,
                   crashed>>

DecryptFails(k) ==
    /\ reader[k] = "decrypt"
    /\ key # 0
    /\ ~(Sealed(k) /\ key = rconn[k])
    /\ Disconnect
    /\ reader' = [reader EXCEPT ![k] = "gone"]
    /\ UNCHANGED <<callVars, boxVars, linkVars, rconn, rmsg, rref, crashed>>

\* The waiters a message is for; nobody waits for a reply by its EMsg.
WaitersFor(m) == {r \in reg : r.kind = m.kind /\ r.job = m.job}

\* The channel is looked up under c.mu; without one the message is dropped.
Lookup(k) ==
    /\ reader[k] = "lookup"
    /\ IF WaitersFor(rmsg[k]) = {}
         THEN /\ reader' = [reader EXCEPT ![k] = "read"]
              /\ rmsg' = [rmsg EXCEPT ![k] = NoMsg]
              /\ UNCHANGED rref
         ELSE /\ reader' = [reader EXCEPT ![k] = "deliver"]
              /\ \E r \in WaitersFor(rmsg[k]) : rref' = [rref EXCEPT ![k] = r.id]
              /\ UNCHANGED rmsg
    /\ UNCHANGED <<callVars, discVars, boxVars, linkVars, rconn, crashed>>

\* Mutant: the reader keeps trying until the waiter takes the message.
DeliverBlocking(k) ==
    /\ reader[k] = "deliver"
    /\ IF pc = "wait" /\ rref[k] = nwaits
         THEN /\ box' = [box EXCEPT ![rref[k]] = rmsg[k]]
              /\ reader' = [reader EXCEPT ![k] = "read"]
              /\ rmsg' = [rmsg EXCEPT ![k] = NoMsg]
              /\ rref' = [rref EXCEPT ![k] = 0]
         ELSE UNCHANGED <<box, reader, rmsg, rref>>
    /\ UNCHANGED <<callVars, discVars, linkVars, wire, nwaits, rconn, crashed>>

\* The send does not block: a full buffer drops the message.  It panics if
\* the channel was closed since the lookup.
Deliver(k) ==
    /\ reader[k] = "deliver"
    /\ IF rref[k] \in shut
         THEN crashed' = TRUE /\ UNCHANGED <<box, reader, rmsg, rref>>
         ELSE /\ box' = [box EXCEPT ![rref[k]] = IF @ = NoMsg THEN rmsg[k] ELSE @]
              /\ reader' = [reader EXCEPT ![k] = "read"]
              /\ rmsg' = [rmsg EXCEPT ![k] = NoMsg]
              /\ rref' = [rref EXCEPT ![k] = 0]
              /\ UNCHANGED crashed
    /\ UNCHANGED <<callVars, discVars, linkVars, wire, nwaits, rconn>>

-----------------------------------------------------------------------------

Login ==
    \/ StartSession \/ Connect \/ LoginGivesUp
    \/ DialFails \/ (\E t \in {"tcp", "wss"} : DialOK(t)) \/ Adopt
    \/ GotEncReq \/ GotEncRes \/ GotLogon \/ StartHeartbeat
    \/ (\E v \in {"soft", "hard"} : LoginRefused(v)) \/ LoginFailed

Exchange ==
    \/ Attempt \/ SendOK \/ SendFails \/ Register \/ WaitFails
    \/ \E v \in {"ok", "soft", "hard"} : GotReply(v)

Reader(k) ==
    \/ Capture(k) \/ ReadMsg(k) \/ ReadFails(k)
    \/ Decrypt(k) \/ DecryptSkipped(k) \/ DecryptFails(k)
    \/ Lookup(k) \/ Deliver(k)

Terminated ==
    /\ \/ crashed
       \/ pc = "closed" /\ \A k \in Conns : reader[k] \in {"none", "gone"}
    /\ UNCHANGED vars

Next ==
    \/ /\ ~crashed
       /\ \/ Login \/ Exchange
          \/ StartUM \/ GetDepotKey \/ CloseSession
          \/ \E k \in Conns : Reader(k)
    \/ Terminated

Spec == Init /\ [][Next]_vars

(***************************************************************************)
(* The caller's goroutine runs, and every wait of it has a timeout.  A     *)
(* reader runs, and a read ends by its deadline at the latest.  Nothing    *)
(* forces a call or the end of the session.                                *)
(***************************************************************************)
Fairness ==
    /\ WF_vars(~crashed /\ (Login \/ Exchange))
    /\ \A k \in Conns : WF_vars(~crashed /\ Reader(k))

FairSpec == Spec /\ Fairness

-----------------------------------------------------------------------------
(* Properties. *)

(***************************************************************************)
(* No socket is forgotten: one that is open is the client's, or was just   *)
(* dialled and is about to be, although readers disconnect the client      *)
(* between any two steps of connectOne (client.go 263-293, 477-503).       *)
(***************************************************************************)
SocketOwned ==
    \A k \in Conns :
        sock[k] = "open" => k = conn \/ (pc = "adopt" /\ k = nconns)

\* The types (job ids stay within their cycle, client.go 518-528), and no
\* socket forgotten.
Consistent == TypeOK /\ SocketOwned

(***************************************************************************)
(* A client that says it is logged on sends heartbeats, or is just about   *)
(* to (client.go 426-439).                                                 *)
(***************************************************************************)
BeatsWhileLoggedOn == loggedOn /\ pc # "beat" => beat

(***************************************************************************)
(* The reply a call returns answers the job it sent last, not an earlier   *)
(* attempt that timed out or went down with its connection (AGENT.md:      *)
(* replies are matched on jobid_target), as long as job ids have not been  *)
(* used again.                                                             *)
(***************************************************************************)
RightAnswer == answer = "ok" /\ sends <= JobCycle => got = sends

(***************************************************************************)
(* dispatch sends on a channel it looked up earlier, and Disconnect closes *)
(* channels (client.go 492-499, 742-763).  On the first connection of a    *)
(* client that never panics, whatever times out: only a reader left over   *)
(* from an earlier connection can close a channel in use.                  *)
(***************************************************************************)
FirstConnectionSafe == crashed => nconns > 1

(***************************************************************************)
(* ConnectAndLogin and SendUM end, however the network behaves: their      *)
(* nested retries are bounded and every wait has a timeout.                *)
(***************************************************************************)
CallEnds ==
    pc \notin {"new", "ready", "closed"} ~> pc \in {"ready", "closed"} \/ crashed

(***************************************************************************)
(* A reader goes when its connection is closed: it never blocks on a       *)
(* waiter that has given up.                                               *)
(***************************************************************************)
ReaderEnds ==
    \A k, r \in Conns :
        rconn[r] = k /\ sock[k] = "closed" ~> reader[r] = "gone" \/ crashed

-----------------------------------------------------------------------------
(* What the code says and does not do. *)

(***************************************************************************)
(* client.go 178: LoggedOn "reports successful anonymous (or user) logon"; *)
(* SendUM and SteamSession.ensure take it for a usable connection.  A      *)
(* connection lost while the response is on its way to anonymousLogon      *)
(* leaves a client that is logged on for ever, without a connection.       *)
(***************************************************************************)
LoggedOnMeansConnected == loggedOn /\ pc = "ready" => conn # 0

(***************************************************************************)
(* client.go 568: SendJobAndWait "sends a job and waits for the matching   *)
(* response".  While it waits on a healthy connection, that response is    *)
(* on its way or has been delivered: but the waiter is registered after    *)
(* the send, and a reply that comes in between is dropped.                 *)
(***************************************************************************)
ReplyReachesWaiter ==
    pc = "wait" /\ want = "reply" /\ conn = nconns /\ conn # 0 =>
        \/ \E m \in wire[conn] : m.send = sends
        \/ \E k \in Conns : rmsg[k].send = sends
        \/ box[nwaits].send = sends

(***************************************************************************)
(* client.go 229: "Only rotate on soft failures."  isRetryableLogin        *)
(* answers true for every failure, and its answer changes nothing.         *)
(***************************************************************************)
RotatesOnSoftOnly == pc = "dial" => last # "hard"
=============================================================================
