----------------------------- MODULE WireWrite -----------------------------
(***************************************************************************)
(* internal/steam/cm/wss.go and internal/steam/protocol/frame.go: how      *)
(* messages get into a connection to Steam.  A frame is written in several *)
(* calls of Write, each of them atomic; nothing keeps the frames of        *)
(* several goroutines apart.  The goroutines are the caller of the client, *)
(* its heartbeat (client.go 440-473) and, over wss, its reader, which      *)
(* answers pings.                                                          *)
(*                                                                         *)
(* stream is what has been written, by parts.  A part is of a frame and    *)
(* says what it is; a header also says what it announces.  A write may     *)
(* fail, at its deadline for instance; TLS then fails for good, TCP goes   *)
(* on.                                                                     *)
(***************************************************************************)
EXTENDS Naturals, Sequences

CONSTANTS
    Writers,    \* the goroutines
    Lengths,    \* of payloads
    MaxFrames   \* bound: frames begun

VARIABLES
    transport, \* "wss" or "tcp"
    stream,  \* what was written
    todo,    \* todo[w]: the parts w has still to write
    frames,  \* frames begun
    failed,  \* a write has failed
    mixed    \* history: a part was written while another frame was begun

vars == <<transport, stream, todo, frames, failed, mixed>>

Kinds == {"hdr", "ext", "mask", "data"}

IsPart(p) ==
    /\ p.frame \in 1 .. MaxFrames
    /\ p.kind \in Kinds
    /\ p.says \in Nat
    /\ p.kind = "hdr" /\ transport = "wss" => p.says < 128

TypeOK ==
    /\ transport \in {"wss", "tcp"}
    /\ \A i \in DOMAIN stream : IsPart(stream[i])
    /\ \A w \in Writers : \A i \in DOMAIN todo[w] : IsPart(todo[w][i])
    /\ frames \in 0 .. MaxFrames
    /\ failed \in BOOLEAN
    /\ mixed \in BOOLEAN

Init ==
    /\ transport \in {"wss", "tcp"}
    /\ stream = <<>>
    /\ todo = [w \in Writers |-> <<>>]
    /\ frames = 0
    /\ failed = FALSE
    /\ mixed = FALSE

-----------------------------------------------------------------------------

Part(f, k, s) == [frame |-> f, kind |-> k, says |-> s]

\* Mutant: two bytes for any length.
AnnounceShort(n) == IF n <= 125 THEN n ELSE 126

\* The low seven bits of the second byte.
Announce(n) == IF n <= 125 THEN n ELSE IF n <= 65535 THEN 126 ELSE 127

\* Two bytes, or eight.
Extension(n) ==
    CASE Announce(n) = 126 -> n % 65536
      [] OTHER -> n

\* Mutant: the extended length is not written.
WSSFrameNoExt(f, n) ==
    <<Part(f, "hdr", Announce(n)), Part(f, "mask", 0), Part(f, "data", n)>>

\* writeFrame: header, extended length, mask and payload.
WSSFrame(f, n) ==
    LET hdr == Part(f, "hdr", Announce(n))
        ext == Part(f, "ext", Extension(n))
        mask == Part(f, "mask", 0)
        data == Part(f, "data", n)
    IN  IF Announce(n) < 126 THEN <<hdr, mask, data>> ELSE <<hdr, ext, mask, data>>

\* WritePacket: length and magic, then the payload.
TCPFrame(f, n) == <<Part(f, "hdr", n), Part(f, "data", n)>>

\* SendMsgProto, or a pong.  TLS does not come back from a failed write.
WriteMsg(w, n) ==
    /\ todo[w] = <<>>
    /\ frames < MaxFrames
    /\ ~(failed /\ transport = "wss")
    /\ frames' = frames + 1
    /\ todo' = [todo EXCEPT ![w] = IF transport = "wss" THEN WSSFrame(frames', n)
                                                         ELSE TCPFrame(frames', n)]
    /\ UNCHANGED <<transport, stream, failed, mixed>>

\* A part of w's frame is in the stream, and not all of them are.
Begun(w) ==
    todo[w] # <<>> /\ \E i \in DOMAIN stream : stream[i].frame = Head(todo[w]).frame

Write(w) ==
    /\ todo[w] # <<>>
    /\ \/ /\ ~(failed /\ transport = "wss")
          /\ stream' = Append(stream, Head(todo[w]))
          /\ todo' = [todo EXCEPT ![w] = Tail(@)]
          /\ mixed' = (mixed \/ \E v \in Writers \ {w} : Begun(v))
          /\ UNCHANGED failed
       \/ /\ failed' = TRUE
          /\ todo' = [todo EXCEPT ![w] = <<>>]
          /\ UNCHANGED <<stream, mixed>>
    /\ UNCHANGED <<transport, frames>>

Finished ==
    /\ \A w \in Writers : todo[w] = <<>>
    /\ frames = MaxFrames \/ failed
    /\ UNCHANGED vars

Next ==
    \/ \E w \in Writers, n \in Lengths : WriteMsg(w, n)
    \/ \E w \in Writers : Write(w)
    \/ Finished

Spec == Init /\ [][Next]_vars

-----------------------------------------------------------------------------
(* Properties. *)

\* The part that has to follow p, according to p: what readFrame and
\* ReadPacket take from the stream next.
Follows(p) ==
    IF transport = "tcp" THEN IF p.kind = "hdr" THEN "data" ELSE "hdr"
    ELSE CASE p.kind = "hdr" -> IF p.says >= 126 THEN "ext" ELSE "mask"
           [] p.kind = "ext" -> "mask"
           [] p.kind = "mask" -> "data"
           [] OTHER -> "hdr"

\* The stream is one whole frame after the other, the last one perhaps not
\* finished, as wss.go 131 ("WriteMsg writes one binary message.") and
\* frame.go 32 say; but only if no other goroutine writes meanwhile, which
\* nothing prevents, and over TCP only until a write fails, after which
\* sendRaw keeps the connection.
WholeFrames ==
    ~mixed /\ ~(transport = "tcp" /\ failed) =>
        /\ stream # <<>> => stream[1].kind = "hdr"
        /\ \A i \in 1 .. Len(stream) - 1 :
              LET p == stream[i] q == stream[i + 1]
              IN  /\ q.kind = Follows(p)
                  /\ q.kind # "hdr" => q.frame = p.frame

\* The length a reader takes from the header is that of the payload, at
\* each of the limits between the three forms (wss.go 141-149, 199-212).
LengthsAgree ==
    \A i, j \in DOMAIN stream :
        stream[i].frame = stream[j].frame /\ stream[j].kind = "data" =>
            /\ stream[i].kind = "ext" => stream[i].says = stream[j].says
            /\ stream[i].kind = "hdr" /\ (transport = "tcp" \/ stream[i].says < 126)
                  => stream[i].says = stream[j].says
=============================================================================
