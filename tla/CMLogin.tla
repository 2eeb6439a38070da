------------------------------ MODULE CMLogin ------------------------------
(***************************************************************************)
(* The login loop over the list of servers (ConnectAndLogin of cm/client.go*)
(* with cm/servers.go): CMClient, each of whose attempts takes the next    *)
(* server of a ServerList, which decides the transport, and marks it bad   *)
(* when it fails.                                                          *)
(***************************************************************************)
EXTENDS CMClient, Integers, Sequences, SequencesExt

CONSTANTS
    Addrs,    \* addresses of servers
    Dns,      \* the one of the fallback server
    Answers   \* what GetCMList may answer: nothing usable, or servers

Tcp(a) == [addr |-> a, wss |-> FALSE]
Wss(a) == [addr |-> a, wss |-> TRUE]

ASSUME LoginAssumption ==
    /\ Dns \in Addrs
    /\ Answers \subseteq Seq([addr : Addrs, wss : BOOLEAN])

VARIABLES
    list,  \* c.Servers
    srv,   \* the server of the current attempt
    tried  \* the servers tried by the login of InitSession

List == INSTANCE ServerList

listVars == <<list, srv, tried>>
loginListVars == <<vars, listVars>>

ListInit ==
    /\ Init
    /\ list = List!EmptyList
    /\ srv = Tcp(Dns)
    /\ tried = <<>>

\* A list is filled once; a login that finds it filled starts where the
\* last one stopped.
Bootstrap ==
    /\ StartSession
    /\ \E a \in Answers : list' = List!Bootstrap(list, a, Tcp(Dns))
    /\ UNCHANGED <<srv, tried>>

Rotate ==
    /\ Connect
    /\ LET next == List!Next(list)
       IN  /\ srv' = next.server
           /\ list' = next.list
           /\ tried' = IF ret = "session" THEN Append(tried, next.server)
                       ELSE tried

Dial ==
    /\ \/ srv.wss /\ DialOK("wss")
       \/ ~srv.wss /\ DialOK("tcp")
    /\ UNCHANGED listVars

Marked ==
    /\ LoginFailed
    /\ list' = List!MarkBad(list, srv.addr)
    /\ UNCHANGED <<srv, tried>>

\* Five minutes after it was marked a server counts as good again.
Forget ==
    /\ pc \notin {"connect", "fail"}
    /\ \E a \in list.bad : list' = [list EXCEPT !.bad = @ \ {a}]
    /\ UNCHANGED <<vars, srv, tried>>

Progress ==
    \/ Bootstrap \/ Rotate \/ Dial \/ Marked
    \/ /\ \/ LoginGivesUp \/ DialFails \/ Adopt
          \/ GotEncReq \/ GotEncRes \/ GotLogon \/ StartHeartbeat
          \/ \E v \in {"soft", "hard"} : LoginRefused(v)
          \/ Exchange
       /\ UNCHANGED listVars

ListNext ==
    \/ /\ ~crashed
       /\ \/ Progress
          \/ Forget
          \/ /\ \/ StartUM \/ GetDepotKey \/ CloseSession
                \/ \E k \in Conns : Reader(k)
             /\ UNCHANGED listVars
    \/ Terminated /\ UNCHANGED listVars

\* As CMClient!Fairness.
ListSpec ==
    /\ ListInit
    /\ [][ListNext]_loginListVars
    /\ WF_loginListVars(~crashed /\ Progress)
    /\ \A k \in Conns :
          WF_loginListVars(~crashed /\ Reader(k) /\ UNCHANGED listVars)

-----------------------------------------------------------------------------

(***************************************************************************)
(* The first login tries a different server each time, those that speak    *)
(* WebSocket first, until all of the list were tried: marking, skipping and*)
(* rotating do not pass over one (servers.go 61-88, 125-139; client.go     *)
(* 212-233).                                                               *)
(***************************************************************************)
NewServerEachTry ==
    \A i, j \in DOMAIN tried :
        i < j /\ j <= Len(list.servers) =>
            tried[i] # tried[j] /\ (tried[j].wss => tried[i].wss)

-----------------------------------------------------------------------------
(* What is checked of the client.                                          *)

\* Calls and readers end, whatever the network does (see CMClient).
EverythingEnds == CallEnds /\ ReaderEnds
=============================================================================
