----------------------------- MODULE MCCMLogin ------------------------------
(***************************************************************************)
(* The login loop for TLC, and the conversions on the way of its messages  *)
(* over bounded arguments.  TLC evaluates these before the first login     *)
(* only: they do not depend on the state.                                  *)
(***************************************************************************)
EXTENDS CMLogin

\* Servers of both kinds, those that speak TCP first, one address twice.
FewAnswers == {<<>>, <<Tcp(1), Tcp(2), Wss(1)>>}

Wire == INSTANCE WireFormat WITH Bits <- 3, Width <- 7, Half <- 4, MaxBytes <- 3

Fields == [number : {1, 15}, wire : {0}, value : {0, 7, 8, 127}]
          \cup [number : {2}, wire : {1}, value : {0, 127}]
          \cup [number : {3}, wire : {5}, value : {15}]
          \cup [number : {4}, wire : {2}, value : {<<>>, <<8, 1>>}]

Headers == [steamID : {0, 5}, sessionID : {-8, 0, 7}, source : {0, 1, 127},
            target : {0, 9, 127}, eresult : {-1, 0, 1, 7}]

In == INSTANCE Inbound

Message(form, emsg, target) ==
    [form |-> form, emsg |-> emsg, target |-> target, parts |-> <<>>,
     whole |-> 0, zip |-> "none"]
Arrivals ==
    BoundedSeq({Message("plain", 1, 0), Message("plain", 2, 0),
                Message("plain", 2, 1), Message("plain", 1, 2),
                Message("garbled", 1, 1), Message("short", 0, 0)}, 3)

Frame(op, masked, msg) == [op |-> op, fin |-> TRUE, masked |-> masked, msg |-> msg]
Streams ==
    BoundedSeq({Frame("binary", FALSE, 1), Frame("binary", FALSE, 2),
                Frame("ping", FALSE, 0), Frame("text", FALSE, 3),
                Frame("close", FALSE, 0), Frame("binary", TRUE, 4)}, 3)

\* What is written is read back, from whole messages and from cut ones
\* (pb/wire.go, protocol/protobuf.go), and however the messages of a
\* connection are framed and packed, each reaches the waiter it would reach
\* alone, in the order of their sending (wss.go 83-129, client.go 709-852).
WireFits ==
    pc = "new" =>
        /\ Wire!VarintsFit
        /\ Wire!PrefixesFit(BoundedSeq(Fields, 2))
        /\ Wire!HeadersFit(Headers, <<3, 1>>)
        /\ In!FramesFit(Streams)
        /\ In!PackingFits(Arrivals)
        /\ In!AnswersFit(Arrivals)
=============================================================================
