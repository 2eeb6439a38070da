---------------------------- MODULE FileContent ----------------------------
(***************************************************************************)
(* From the bytes of a manifest and of its chunks to the content of a      *)
(* file, as operators: manifest.Parse and DecryptFilenames                 *)
(* (manifest/parse.go), Decompress (chunkcodec/codec.go), the padding of   *)
(* SymmetricDecrypt (crypto.go) and ReadFile (cdn/client.go).              *)
(*                                                                         *)
(* A sequence of bytes is a sequence of small numbers.  What the archive   *)
(* formats, the ciphers and protobuf do inside is not modelled: a          *)
(* container says what its decoder makes of it, a mapping or a name        *)
(* whether it can be read.  A checksum is the content itself: collisions   *)
(* are left out.                                                           *)
(***************************************************************************)
EXTENDS Integers, Sequences, FiniteSets, SequencesExt

CONSTANT Block   \* bytes of a cipher block (16)

Fail == [ok |-> FALSE, v |-> <<>>]
Ok(v) == [ok |-> TRUE, v |-> v]

-----------------------------------------------------------------------------
(***************************************************************************)
(* Parse: four magics, three sections with their length before them.  A    *)
(* zip around them is opened when it can be.  What follows the end magic   *)
(* is not looked at.  pb.Decode fails for a section that is not one whole  *)
(* protobuf message: one that holds an Unreadable byte.                    *)
(***************************************************************************)
Payload == 91
Metadata == 92
Signature == 93
EndOfManifest == 94
Unreadable == 95

Unzipped(file) == IF file.zip = "opens" THEN file.entry ELSE file.bytes

ReadSection(data, magic) ==
    IF Len(data) >= 2 /\ data[1] = magic /\ Len(data) >= 2 + data[2]
      THEN [ok |-> TRUE, v |-> SubSeq(data, 3, 2 + data[2]),
            rest |-> SubSeq(data, 3 + data[2], Len(data))]
      ELSE [ok |-> FALSE, v |-> <<>>, rest |-> <<>>]

Decodes(section) == Unreadable \notin ToSet(section)

Parse(file) ==
    LET payload == ReadSection(Unzipped(file), Payload)
        meta == ReadSection(payload.rest, Metadata)
        signature == ReadSection(meta.rest, Signature)
    IN  IF /\ payload.ok /\ meta.ok /\ signature.ok
           /\ signature.rest # <<>> /\ Head(signature.rest) = EndOfManifest
           /\ Decodes(meta.v) /\ Decodes(payload.v)
          THEN Ok(<<payload.v, meta.v>>)
          ELSE Fail

(***************************************************************************)
(* parsePayload and parseFileMapping: what cannot be read is passed over,  *)
(* a mapping as well as a chunk, and so is a chunk without a SHA.          *)
(***************************************************************************)
Listed(chunks) == SelectSeq(chunks, LAMBDA c : c.readable /\ c.sha # 0)

ParsePayload(mappings) ==
    LET readable == SelectSeq(mappings, LAMBDA f : f.readable)
    IN  [k \in DOMAIN readable |->
            [readable[k] EXCEPT !.chunks = Listed(readable[k].chunks)]]

(***************************************************************************)
(* DecryptFilenames ends at the first name it cannot decrypt, with those   *)
(* before it decrypted.  A link target that cannot be stays as it is.      *)
(***************************************************************************)
Decrypted(f) ==
    [f EXCEPT !.name = "plain",
              !.link = IF @ = "encrypted" THEN "plain" ELSE @]

DecryptFilenames(m) ==
    IF ~m.encrypted THEN [ok |-> TRUE, m |-> m]
    ELSE LET bad == {k \in DOMAIN m.files : m.files[k].name # "encrypted"}
             done == {k \in DOMAIN m.files : \A b \in bad : k < b}
         IN  [ok |-> bad = {},
              m |-> [encrypted |-> bad # {},
                     files |-> [k \in DOMAIN m.files |->
                                  IF k \in done THEN Decrypted(m.files[k])
                                  ELSE m.files[k]]]]

-----------------------------------------------------------------------------
(* The padding of SymmetricEncrypt and SymmetricDecrypt. *)

Pad(data) ==
    LET n == Block - (Len(data) % Block)
    IN  data \o [k \in 1..n |-> n]

Unpad(data) ==
    IF data = <<>> THEN Fail
    ELSE LET n == Last(data)
         IN  IF /\ n # 0 /\ n <= Len(data) /\ n <= Block
                /\ \A k \in 0 .. n - 1 : data[Len(data) - k] = n
               THEN Ok(SubSeq(data, 1, Len(data) - n))
               ELSE Fail

\* A block for the IV, then the padded message; the bytes are what the
\* cipher makes of them with the right key.
SymmetricEncrypt(message, iv) == iv \o Pad(message)

SymmetricDecrypt(bytes) ==
    IF Len(bytes) > Block /\ Len(bytes) % Block = 0
      THEN Unpad(SubSeq(bytes, Block + 1, Len(bytes)))
      ELSE Fail

-----------------------------------------------------------------------------
(***************************************************************************)
(* Decompress.  A container begins and ends with some magic, or with other *)
(* bytes; size and crc are what it says of its content, inner is what the  *)
(* decoder makes of its payload, raw are its bytes; short: it is no longer *)
(* than its header and its footer.                                         *)
(***************************************************************************)
Formats == {"gzip", "VSZa", "zip", "LZMA", "VZa", "store"}

\* DecompressWithFormat: the first format that the bytes look like.
FormatOf(c) ==
    CASE c.begins \in {"gzip", "VSZa", "zip", "LZMA"} -> c.begins
      [] c.begins = "VZa" /\ c.ends = "zv" /\ ~c.short -> "VZa"
      [] OTHER -> "store"

\* decodeValveZstd wants the very size, zero included; VZa says nothing by 0.
SizeFits(c) ==
    CASE FormatOf(c) = "VSZa" -> Len(c.inner.v) = c.size
      [] FormatOf(c) = "VZa" -> c.size # 0 => Len(c.inner.v) = c.size
      [] OTHER -> TRUE

CrcFits(c) == FormatOf(c) \in {"VSZa", "VZa"} => c.inner.v = c.crc

FrameFits(c) == FormatOf(c) = "VSZa" => c.ends = "zsv" /\ ~c.short

Decompress(c) ==
    IF FormatOf(c) = "store"
      THEN IF c.raw # <<>> THEN Ok(c.raw) ELSE Fail
      ELSE IF FrameFits(c) /\ c.inner.ok /\ SizeFits(c) /\ CrcFits(c)
        THEN c.inner
        ELSE Fail

-----------------------------------------------------------------------------
(***************************************************************************)
(* ReadFile: the chunks in the order of their offsets, one after the       *)
(* other, each cut down to the size the manifest lists.  answer[s] is the  *)
(* container the CDN sends for the chunk with SHA s, decrypted.  The size  *)
(* of the whole is compared to warn only.                                  *)
(***************************************************************************)
\* Mutant: the chunks are taken as they are listed.
AsListed(chunks) == chunks

\* SortChunksByOffset.
ByOffset(chunks) == SortSeq(chunks, LAMBDA x, y : x.offset < y.offset)

CutTo(data, size) ==
    IF size > 0 /\ Len(data) > size THEN SubSeq(data, 1, size) ELSE data

ReadFile(chunks, answer) ==
    LET Add(out, c) ==
            IF out.ok /\ Decompress(answer[c.sha]).ok
              THEN Ok(out.v \o CutTo(Decompress(answer[c.sha]).v, c.size))
              ELSE Fail
    IN  FoldLeft(Add, Ok(<<>>), ByOffset(chunks))
=============================================================================
