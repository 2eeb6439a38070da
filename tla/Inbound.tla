------------------------------ MODULE Inbound ------------------------------
(***************************************************************************)
(* What comes in over a connection to a CM server, from frames to waiters: *)
(* ReadMsg and readFrame of cm/wss.go, dispatch and handleMulti of         *)
(* cm/client.go.                                                           *)
(*                                                                         *)
(* A frame is [op, fin, masked, msg].  A message is [form, emsg, target,   *)
(* parts, whole, zip]: form is "short" (no EMsg in it), "garbled" (its     *)
(* header cannot be parsed), "plain" or "multi"; a multi message holds     *)
(* others, the first "whole" of which are there to their last byte, and may*)
(* be compressed.  target is the job it answers, or 0.                     *)
(***************************************************************************)
EXTENDS Naturals, Sequences, SequencesExt, FiniteSets

Ops == {"binary", "text", "close", "ping", "pong", "other"}

\* What readLoop gets from the frames, one ReadMsg after the other, and how
\* the connection ended: not, by "close", or by a frame it does not take.
\* FIN is not looked at; pings are answered, the rest is thrown away.
RECURSIVE Received(_)
Received(frames) ==
    IF frames = <<>> THEN [msgs |-> <<>>, end |-> "none", pongs |-> 0]
    ELSE LET f == Head(frames)
             later == Received(Tail(frames))
         IN  CASE f.masked -> [msgs |-> <<>>, end |-> "error", pongs |-> 0]
               [] ~f.masked /\ f.op = "close" ->
                    [msgs |-> <<>>, end |-> "eof", pongs |-> 0]
               [] ~f.masked /\ f.op = "binary" ->
                    [later EXCEPT !.msgs = <<f.msg>> \o @]
               [] ~f.masked /\ f.op = "ping" -> [later EXCEPT !.pongs = @ + 1]
               [] OTHER -> later

Multi(parts, whole, zip) ==
    [form |-> "multi", emsg |-> 0, target |-> 0, parts |-> parts,
     whole |-> whole, zip |-> zip]

\* Mutant: the part that is cut off is taken for whole.
LengthTrusted(m) == m.parts

\* handleMulti stops at the first part that is not there as a whole; nothing
\* comes of a body that cannot be decompressed.
Unpacked(m) == IF m.zip = "broken" THEN <<>> ELSE SubSeq(m.parts, 1, m.whole)

\* dispatch: what is looked up among the waiters, in this order.
RECURSIVE Dispatched(_)
Dispatched(m) ==
    CASE m.form = "plain" -> <<m>>
      [] m.form = "multi" ->
           FlattenSeq([i \in DOMAIN Unpacked(m) |-> Dispatched(Unpacked(m)[i])])
      [] OTHER -> <<>>

\* The waiter a packet is for, among those that are registered: by the job
\* it answers if somebody waits for that, else by its EMsg.
Route(m, jobs, emsgs) ==
    CASE m.target \in jobs -> {<<"job", m.target>>}
      [] m.target \notin jobs /\ m.emsg \in emsgs -> {<<"emsg", m.emsg>>}
      [] OTHER -> {}

\* Every waiter has room for one packet; further ones are dropped.
Delivered(msgs, jobs, emsgs) ==
    LET packets == FlattenSeq([i \in DOMAIN msgs |-> Dispatched(msgs[i])])
        for(w) == {i \in DOMAIN packets : w \in Route(packets[i], jobs, emsgs)}
        waiters == {<<"job", j>> : j \in jobs} \cup {<<"emsg", e>> : e \in emsgs}
    IN  [w \in {v \in waiters : for(v) # {}} |->
            packets[CHOOSE i \in for(w) : \A j \in for(w) : i <= j]]

-----------------------------------------------------------------------------
(* Properties. *)

\* How messages are packed changes nothing: those that come one by one, in
\* one multi message or in nested ones reach the same waiters, and what a
\* multi message loses at its end are its last messages.
PackingFits(msgs) ==
    \A ms \in msgs, jobs \in SUBSET {1}, emsgs \in SUBSET {1, 2} :
        \A k \in 0 .. Len(ms) :
            LET cut == Multi(ms, k, "gzip")
                alone == Delivered(SubSeq(ms, 1, k), jobs, emsgs)
            IN  /\ Delivered(<<cut>>, jobs, emsgs) = alone
                /\ Delivered(<<Multi(<<cut>>, 1, "none")>>, jobs, emsgs) = alone
                /\ Delivered(<<Multi(ms, k, "broken"), cut>>, jobs, emsgs) = alone

\* Messages come in the order of their frames, up to the end of the connection,
\* and every ping before that is answered once.
FramesFit(frames) ==
    \A fs \in frames :
        LET last == {i \in DOMAIN fs : fs[i].masked \/ fs[i].op = "close"}
            seen == IF last = {} THEN fs
                    ELSE SubSeq(fs, 1, (CHOOSE i \in last : \A j \in last : i <= j) - 1)
            binary == SelectSeq(seen, LAMBDA f : f.op = "binary")
            r == Received(fs)
        IN  /\ r.msgs = [i \in DOMAIN binary |-> binary[i].msg]
            /\ r.pongs = Cardinality({i \in DOMAIN seen : seen[i].op = "ping"})
            /\ r.end = "none" <=> last = {}

\* A job that is waited for gets the first answer to it, and that answer is
\* taken from no waiter for its EMsg.
AnswersFit(msgs) ==
    \A ms \in msgs :
        LET d == Delivered(ms, {1}, {1, 2})
        IN  /\ <<"job", 1>> \in DOMAIN d => d[<<"job", 1>>].target = 1
            /\ \A w \in DOMAIN d : w[1] = "emsg" => d[w].target # 1

\* wss.go 200: Steam never fragments a packet, "but we must not rely on
\* that, so ignore FIN".  The first fragment is handed on as a whole message
\* and the others are thrown away.
FragmentsJoin(frames) ==
    \A fs \in frames :
        \A i \in DOMAIN fs :
            fs[i].op = "binary" /\ ~fs[i].fin =>
                ~ \E j \in DOMAIN Received(fs).msgs : Received(fs).msgs[j] = fs[i].msg
=============================================================================
