----------------------------- MODULE ProxyDial -----------------------------
(***************************************************************************)
(* internal/proxy/dialer.go: how a connection through a proxy is opened.   *)
(* Dial sends a request and reads the proxy's answer; when that is good it *)
(* returns the connection, and what is read from it next is taken for what *)
(* the target sent.                                                        *)
(*                                                                         *)
(* net is what the proxy has sent and Dial has not read, a sequence of     *)
(* bytes: the bytes Dial looks at, "x" for one it does not, "end" for the  *)
(* blank line after HTTP headers, and "target" for the first byte of the   *)
(* target, which may speak first (CM servers over TCP do).  A SOCKS5 proxy *)
(* answers CONNECT with 4 bytes, the address it is bound to and its port   *)
(* (RFC 1928), a SOCKS4 proxy with 8 bytes.  An answer may come cut off at *)
(* any byte.  socks5h is x/net's own dialer and not here.                  *)
(***************************************************************************)
EXTENDS Naturals, Sequences

CONSTANTS
    Protos,     \* subset of {"socks5", "socks4", "http"}
    MaxHeader,  \* header bytes of an HTTP proxy that are read (8192)
    HeaderSizes,\* bytes between status and blank line that a proxy may send
    BoundSizes, \* bytes of a bound address and port: 6 (IPv4), 18 (IPv6), ...
    OK,         \* SOCKS5 status 0, SOCKS4 status 0x5a, HTTP status 200
    Bad,        \* any other
    NoAuth,     \* methods of SOCKS5
    UserPass

ASSUME DialAssumption ==
    /\ Protos \subseteq {"socks5", "socks4", "http"}
    /\ MaxHeader \in Nat \ {0, 1}
    /\ HeaderSizes \subseteq Nat
    /\ BoundSizes \subseteq Nat
    /\ OK # Bad
    /\ {OK, Bad, NoAuth, UserPass} \cap {"ver", "x", "end", "target"} = {}

VARIABLES
    proto,     \* the kind of dialer
    auth,      \* NewDialer gave it a user name and password, empty ones too
    stage,     \* where DialContext stands
    proxyConn, \* the connection to the proxy: "none", "open" or "closed"
    net,       \* bytes sent by the proxy and not read yet
    consumed,  \* bytes read of the current answer
    answered,  \* the proxy has sent the current answer
    eof,       \* the proxy has hung up
    expired,   \* the deadline of the context has passed
    result     \* of DialContext: "none", "conn" or "error"

dialVars == <<proto, auth, stage, proxyConn, net, consumed, answered, eof,
              expired, result>>

Stages == {"method", "auth", "reply"}

Word == {"ver", OK, Bad, NoAuth, UserPass, "x", "end", "target"}

DialTypeOK ==
    /\ proto \in Protos
    /\ auth \in BOOLEAN
    /\ stage \in {"resolve", "dial", "request", "returned"} \cup Stages
    /\ proxyConn \in {"none", "open", "closed"}
    /\ net \in Seq(Word)
    /\ consumed \in Seq(Word)
    /\ proto = "http" => Len(consumed) <= MaxHeader + 1
    /\ answered \in BOOLEAN
    /\ eof \in BOOLEAN
    /\ expired \in BOOLEAN
    /\ result \in {"none", "conn", "error"}

DialInit ==
    /\ proto \in Protos
    /\ auth \in IF proto = "socks5" THEN BOOLEAN ELSE {FALSE}
    /\ stage = "resolve"
    /\ proxyConn = "none"
    /\ net = <<>>
    /\ consumed = <<>>
    /\ answered = FALSE
    /\ eof = FALSE
    /\ expired = FALSE
    /\ result = "none"

-----------------------------------------------------------------------------
(* The proxy, and the time. *)

Xs(n) == [i \in 1 .. n |-> "x"]

\* What may come behind an answer.
Then == {<<>>, <<"target">>}

\* The one that is expected, and another one.
Versions == {"ver", "x"}

Methods == {<<v, m>> : v \in Versions, m \in {NoAuth, UserPass, Bad}}

AuthReplies == {<<"x", s>> : s \in {OK, Bad}}

\* Version, status, reserved, type, the bound address and port.
Socks5Answer(v, s, n) == <<v, s, "x", "x">> \o Xs(n)

Socks5Replies ==
    {Socks5Answer(v, s, n) \o t :
        v \in Versions, s \in {OK, Bad}, n \in BoundSizes, t \in Then}

\* Version, status, address and port.
Socks4Answer(v, s) == <<v, s>> \o Xs(6)

Socks4Replies ==
    {Socks4Answer(v, s) \o t : v \in Versions, s \in {OK, Bad}, t \in Then}

HTTPHeader(s, n) == <<s>> \o Xs(n) \o <<"end">>

\* A status and headers, or nothing before the blank line.
HTTPReplies ==
    {HTTPHeader(s, n) \o t : s \in {OK, Bad}, n \in HeaderSizes, t \in Then}
        \cup {<<"end">>}

Replies ==
    CASE stage = "method" -> Methods
      [] stage = "auth" -> AuthReplies
      [] stage = "reply" /\ proto = "socks5" -> Socks5Replies
      [] stage = "reply" /\ proto = "socks4" -> Socks4Replies
      [] OTHER -> HTTPReplies

Cuts(r) == {SubSeq(r, 1, k) : k \in 0 .. Len(r)}

ProxyAnswers ==
    /\ stage \in Stages
    /\ ~answered
    /\ ~eof
    /\ \E r \in Replies : \E c \in Cuts(r) : net' = net \o c
    /\ answered' = TRUE
    /\ UNCHANGED <<proto, auth, stage, proxyConn, consumed, eof, expired,
                   result>>

\* From the return on a connection that breaks is a write that fails (WireWrite).
ProxyHangsUp ==
    /\ proxyConn = "open"
    /\ result = "none"
    /\ eof' = TRUE
    /\ UNCHANGED <<proto, auth, stage, proxyConn, net, consumed, answered,
                   expired, result>>

DeadlinePasses ==
    /\ result = "none"
    /\ expired' = TRUE
    /\ UNCHANGED <<proto, auth, stage, proxyConn, net, consumed, answered,
                   eof, result>>

-----------------------------------------------------------------------------
(* DialContext of the three dialers. *)

\* Mutant: the connection is left open.
LeftOpen == proxyConn

CloseConn == "closed"

Fail ==
    /\ stage' = "returned"
    /\ result' = "error"
    /\ proxyConn' = IF proxyConn = "open" THEN CloseConn ELSE proxyConn
    /\ UNCHANGED <<proto, auth, net, consumed, answered, eof, expired>>

\* The address is split and, for SOCKS5, resolved; LookupHost has the context.
\* An HTTP proxy is sent the address as it is.
Resolve ==
    /\ stage = "resolve"
    /\ \/ proto # "http" /\ Fail
       \/ /\ stage' = "dial"
          /\ UNCHANGED <<proto, auth, proxyConn, net, consumed, answered,
                         eof, expired, result>>

\* forward.DialContext, which has the context as well.
DialProxy ==
    /\ stage = "dial"
    /\ \/ Fail
       \/ /\ ~expired
          /\ proxyConn' = "open"
          /\ stage' = "request"
          /\ UNCHANGED <<proto, auth, net, consumed, answered, eof, expired,
                         result>>

\* A message is written, and its answer awaited.
Ask(next) ==
    /\ stage' = next
    /\ consumed' = <<>>
    /\ answered' = FALSE
    /\ UNCHANGED <<proto, auth, proxyConn, net, eof, expired, result>>

\* The write may fail, and so may building the message: a user name or a
\* password of more than 255 bytes is refused.
Send(next) == Ask(next) \/ Fail

WriteRequest ==
    /\ stage = "request"
    /\ Send(IF proto = "socks5" THEN "method" ELSE "reply")

\* Bytes of the current answer that are read: readFull fills a buffer, the
\* headers of an HTTP proxy are read one by one.
Want ==
    CASE proto = "socks5" -> IF stage = "reply" THEN 4 ELSE 2
      [] proto = "socks4" -> 8
      [] OTHER -> Len(consumed) + 1

AllRead ==
    IF proto = "http"
      THEN /\ consumed # <<>>
           /\ consumed[Len(consumed)] = "end" \/ Len(consumed) > MaxHeader
      ELSE Len(consumed) = Want

\* One Read: as much as has arrived, or a part of it.
ReadSome ==
    /\ stage \in Stages
    /\ ~AllRead
    /\ \E k \in 1 .. Len(net) :
          /\ k <= Want - Len(consumed)
          /\ consumed' = consumed \o SubSeq(net, 1, k)
          /\ net' = SubSeq(net, k + 1, Len(net))
    /\ UNCHANGED <<proto, auth, stage, proxyConn, answered, eof, expired,
                   result>>

\* Mutant: an error of Read is taken for no bytes yet.
NeverEnds == FALSE

\* Read ends when the stream does; a reset also loses what had arrived.
StreamEnds == eof

ReadError ==
    /\ stage \in Stages
    /\ ~AllRead
    /\ StreamEnds
    /\ Fail

\* writeSOCKS5Greeting offers both methods when there is a user name or a
\* password.  One who asks for them is answered even if both are empty.
MethodRead ==
    /\ stage = "method"
    /\ AllRead
    /\ CASE consumed = <<"ver", NoAuth>> -> Send("reply")
         [] consumed = <<"ver", UserPass>> /\ auth -> Send("auth")
         [] OTHER -> Fail

AuthRead ==
    /\ stage = "auth"
    /\ AllRead
    /\ IF consumed[2] = OK THEN Send("reply") ELSE Fail

Granted ==
    CASE proto = "http" -> consumed[1] = OK /\ consumed[Len(consumed)] = "end"
      [] OTHER -> consumed[1] = "ver" /\ consumed[2] = OK

ReplyRead ==
    /\ stage = "reply"
    /\ AllRead
    /\ IF Granted
         THEN /\ stage' = "returned"
              /\ result' = "conn"
              /\ UNCHANGED <<proto, auth, proxyConn, net, consumed, answered,
                             eof, expired>>
         ELSE Fail

-----------------------------------------------------------------------------

DialContext ==
    \/ Resolve \/ DialProxy \/ WriteRequest
    \/ ReadSome \/ ReadError \/ MethodRead \/ AuthRead \/ ReplyRead

Returned == stage = "returned" /\ UNCHANGED dialVars

DialNext ==
    DialContext \/ ProxyAnswers \/ ProxyHangsUp \/ DeadlinePasses \/ Returned

DialSpec == DialInit /\ [][DialNext]_dialVars

-----------------------------------------------------------------------------
(* The message that asks a SOCKS5 proxy to connect. *)

ConnectRequest(ip, port) == <<5, 1, 0>> \o ip \o port

\* How a proxy reads it (RFC 1928): version, command, reserved, the type of the
\* address, which is 1 for IPv4, the address and the port.
AskedFor(r) ==
    IF Len(r) = 10 /\ r[4] = 1
      THEN <<SubSeq(r, 5, 8), SubSeq(r, 9, 10)>>
      ELSE <<>>

\* Two bytes of an address or a port: the type IPv4, and another one.
Octets == {1, 104}

-----------------------------------------------------------------------------
(* Properties. *)

\* Whatever goes wrong between the connect and the last byte of the answer,
\* the connection is closed exactly when it is not returned, and one that
\* is returned was granted (dialer.go 168-192, 272-304, 319-366).
ClosedOrReturned ==
    result # "none" =>
        /\ proxyConn = "open" <=> result = "conn"
        /\ result = "conn" => OK \in {consumed[i] : i \in 1 .. Len(consumed)}

\* However the bytes were cut into packets, the dialer has taken none of the
\* target's, and with SOCKS4 and HTTP none of the proxy's is left before them
\* (dialer.go 183-192, 295-304, 336-366; TargetIsNext is about socks5://).
NothingOverread ==
    result = "conn" =>
        /\ \A i \in 1 .. Len(consumed) : consumed[i] # "target"
        /\ proto # "socks5" => net \in Then

\* What DialContext returns is a connection from which no byte of the target is
\* missing, or nothing but an error.
DialSafe == ClosedOrReturned /\ NothingOverread

\* A proxy that hangs up ends the dial, at any stage of it.  One that stays
\* silent need not: the deadline that dialer.go 89 says is honoured is read
\* and thrown away, and the reads have none.
HangUpEndsDial == eof ~> result # "none"

-----------------------------------------------------------------------------
(* What the code says and does not do. *)

\* dialer.go 127: "Mirrors x/net/proxy SOCKS5 framing", of an answer.  Behind
\* the four bytes that are read come the bound address and the port, which
\* x/net reads too: here they are left to the reader of the connection.
TargetIsNext == result = "conn" => net \in Then

\* dialer.go 176: "ATYP=1 IPv4.", of the request that is written when the
\* method was agreed on: a proxy that reads it finds the address and the port
\* of the target.  The type is missing in it, so the proxy takes the first byte
\* of the address for the type.
TargetIsAskedFor ==
    proto = "socks5" /\ stage = "reply" =>
        \A ip \in [1 .. 4 -> Octets], port \in [1 .. 2 -> Octets] :
            AskedFor(ConnectRequest(ip, port)) = <<ip, port>>
=============================================================================
