----------------------------- MODULE WireFormat -----------------------------
(***************************************************************************)
(* The protobuf wire format as steam/pb/wire.go, protocol/protobuf.go and  *)
(* handleMulti of cm/client.go write and read it, and the header of a      *)
(* message (protocol/protobuf.go).  Everything is scaled down: a byte has  *)
(* Bits bits and a flag, an integer Width bits (64), a varint at most      *)
(* MaxBytes bytes (10, which hold 70 bits), fixed64 and fixed32 have two   *)
(* bytes and one.  An int32 has Half bits.  What is read here was written  *)
(* here, whole or cut off: a length is then never so large that int() makes*)
(* it negative.                                                            *)
(***************************************************************************)
EXTENDS Integers, Sequences, SequencesExt

CONSTANTS Bits, Width, Half, MaxBytes

Flag == 2 ^ Bits
Max64 == 2 ^ Width - 1       \* JobIDNone
Byte == 0 .. 2 * Flag - 1

-----------------------------------------------------------------------------
(* Varints. *)

RECURSIVE AppendVarint(_)
AppendVarint(v) ==
    IF v < Flag THEN <<v>>
    ELSE <<(v % Flag) + Flag>> \o AppendVarint(v \div Flag)

\* Value and length of the varint b begins with; length 0 is an error.  What
\* does not fit in an integer is shifted out; protocol's reader refuses it in
\* the last byte (refuses), the other two do not.
ConsumeVarint(b, refuses) ==
    LET ends == {i \in 1 .. Len(b) : i <= MaxBytes /\ b[i] < Flag}
        n == IF ends = {} THEN 0 ELSE CHOOSE i \in ends : \A j \in ends : i <= j
        sum[i \in 0 .. n] ==
            IF i = 0 THEN 0 ELSE sum[i - 1] + (b[i] % Flag) * 2 ^ (Bits * (i - 1))
    IN  IF n = 0 \/ (refuses /\ n = MaxBytes /\ b[n] > 1)
          THEN [value |-> 0, n |-> 0]
          ELSE [value |-> sum[n] % (Max64 + 1), n |-> n]

-----------------------------------------------------------------------------
(* Fields.  A field is [number, wire, value]; the value of wire type 2 is a *)
(* sequence of bytes.                                                       *)

Varint == 0
Fixed64 == 1
Bytes == 2
Fixed32 == 5

Fixed(v, bytes) == [i \in 1 .. bytes |-> (v \div (2 * Flag) ^ (i - 1)) % (2 * Flag)]
Unfixed(b) == IF Len(b) = 1 THEN b[1] ELSE b[1] + b[2] * 2 * Flag

EncodeField(f) ==
    AppendVarint(f.number * 8 + f.wire) \o
    CASE f.wire = Varint -> AppendVarint(f.value)
      [] f.wire = Fixed64 -> Fixed(f.value, 2)
      [] f.wire = Fixed32 -> Fixed(f.value, 1)
      [] f.wire = Bytes -> AppendVarint(Len(f.value)) \o f.value

Encode(fields) == FlattenSeq([i \in DOMAIN fields |-> EncodeField(fields[i])])

Rest(b, n) == SubSeq(b, n + 1, Len(b))

Nothing == [ok |-> FALSE, value |-> 0, n |-> 0]

\* The value of a field of type w at the beginning of b.
DecodeValue(w, b, refuses) ==
    LET v == ConsumeVarint(b, refuses)
        fixed(k) == IF Len(b) < k THEN Nothing
                    ELSE [ok |-> TRUE, value |-> Unfixed(SubSeq(b, 1, k)), n |-> k]
    IN  CASE w = Varint ->
               IF v.n = 0 THEN Nothing
               ELSE [ok |-> TRUE, value |-> v.value, n |-> v.n]
          [] w = Fixed64 -> fixed(2)
          [] w = Fixed32 -> fixed(1)
          [] w = Bytes ->
               IF v.n = 0 \/ v.n + v.value > Len(b) THEN Nothing
               ELSE [ok |-> TRUE, value |-> SubSeq(b, v.n + 1, v.n + v.value),
                     n |-> v.n + v.value]
          [] OTHER -> Nothing

\* The fields up to the first that cannot be read, and whether all could.
RECURSIVE Decode(_, _)
Decode(b, refuses) ==
    LET key == ConsumeVarint(b, refuses)
        w == key.value % 8
        v == DecodeValue(w, Rest(b, key.n), refuses)
    IN  CASE b = <<>> -> [fields |-> <<>>, ok |-> TRUE]
          [] b # <<>> /\ (key.n = 0 \/ ~v.ok) -> [fields |-> <<>>, ok |-> FALSE]
          [] OTHER ->
               LET more == Decode(Rest(b, key.n + v.n), refuses)
               IN  [more EXCEPT !.fields =
                       <<[number |-> key.value \div 8, wire |-> w,
                          value |-> v.value]>> \o @]

-----------------------------------------------------------------------------
(* CMsgProtoBufHeader and the message around it. *)

\* Conversions between int32 and what is on the wire.
Uint32(x) == x % 2 ^ Half
Int32(v) == LET u == v % 2 ^ Half IN IF u < 2 ^ (Half - 1) THEN u ELSE u - 2 ^ Half

\* Zero fields are left out, and so is a job id that says "none".
Absent(f) == f.value = 0 \/ (f.number \in {10, 11} /\ f.value = Max64)

Serialize(h) ==
    LET field(n, w, v) == [number |-> n, wire |-> w, value |-> v]
    IN  Encode(SelectSeq(<<field(1, Fixed64, h.steamID),
                           field(2, Varint, Uint32(h.sessionID)),
                           field(10, Fixed64, h.source),
                           field(11, Fixed64, h.target),
                           field(13, Varint, Uint32(h.eresult))>>,
                         LAMBDA f : ~Absent(f)))

\* The last value of a field counts.
LastOf(fields, n, w) ==
    LET at == {i \in DOMAIN fields : fields[i].number = n /\ fields[i].wire = w}
    IN  IF at = {} THEN 0
        ELSE fields[CHOOSE i \in at : \A j \in at : j <= i].value

\* Fields not asked for are passed over.
HeaderOf(d) ==
    [ok |-> d.ok,
     header |-> [steamID |-> LastOf(d.fields, 1, Fixed64),
                 sessionID |-> Int32(LastOf(d.fields, 2, Varint)),
                 source |-> LastOf(d.fields, 10, Fixed64),
                 target |-> LastOf(d.fields, 11, Fixed64),
                 eresult |-> Int32(LastOf(d.fields, 13, Varint))]]

ParseHeader(b) == HeaderOf(Decode(b, TRUE))

\* <emsg, length of the header>, header, body; a length is one cell here.
SerializeMsg(emsg, h, body) ==
    LET hdr == Serialize(h) IN <<emsg, Len(hdr)>> \o hdr \o body

ParseMsg(b) ==
    IF Len(b) < 2 \/ 2 + b[2] > Len(b) THEN [ok |-> FALSE]
    ELSE LET p == ParseHeader(SubSeq(b, 3, 2 + b[2]))
         IN  IF ~p.ok THEN [ok |-> FALSE]
             ELSE [ok |-> TRUE, emsg |-> b[1], header |-> p.header,
                   body |-> Rest(b, 2 + b[2])]

-----------------------------------------------------------------------------
(* Properties, of all that is written and of every prefix of it. *)

\* A varint is read back whole, and no part of it is read as another.
VarintsFit ==
    \A v \in 0 .. Max64, refuses \in BOOLEAN :
        LET b == AppendVarint(v)
        IN  /\ Len(b) <= MaxBytes
            /\ ConsumeVarint(b \o <<Flag>>, refuses) = [value |-> v, n |-> Len(b)]
            /\ \A n \in 0 .. Len(b) - 1 :
                  ConsumeVarint(SubSeq(b, 1, n), refuses).n = 0

\* What is cut off is read as the fields before the cut, and as an error
\* unless the cut is between two fields.
PrefixesFit(messages) ==
    \A fields \in messages, refuses \in BOOLEAN :
        LET b == Encode(fields)
            ends == {Len(Encode(SubSeq(fields, 1, k))) : k \in 0 .. Len(fields)}
        IN  \A n \in 0 .. Len(b) :
                LET d == Decode(SubSeq(b, 1, n), refuses)
                IN  /\ d.ok <=> n \in ends
                    /\ IsPrefix(d.fields, fields)
                    /\ n = Len(b) => d.fields = fields

NoneIsZero(job) == IF job = Max64 THEN 0 ELSE job

\* A header is read back as it was written, negative results included, except
\* that "none" becomes 0, which dispatch treats alike; a message that is cut
\* off in its header is refused.
HeadersFit(headers, body) ==
    \A h \in headers :
        LET b == SerializeMsg(7, h, body)
        IN  \A n \in 0 .. Len(b) :
                LET p == ParseMsg(SubSeq(b, 1, n))
                IN  /\ p.ok <=> n >= Len(b) - Len(body)
                    /\ p.ok => /\ p.emsg = 7
                               /\ p.header = [h EXCEPT !.source = NoneIsZero(@),
                                                       !.target = NoneIsZero(@)]
                               /\ IsPrefix(p.body, body)
=============================================================================
