--------------------------- MODULE MCDownloadItem ---------------------------
(***************************************************************************)
(* A small instance of DownloadItem for TLC, and the operators of Backoff  *)
(* and FileContent over bounded arguments.  TLC evaluates these where a    *)
(* run begins only: they do not depend on the state.                       *)
(***************************************************************************)
EXTENDS DownloadItem, FileContent

CONSTANT MaxArg   \* bound of the arguments

Args == -2 .. MaxArg

\* "exponential-ish retry delay in seconds: 1, 2, 4, 8, ... clamped at cap"
\* (backoff.go 6): the power of two, or the cap when that is smaller.
BackoffIsClampedPower ==
    phase = "manifest" =>
        \A try, cap \in Args :
            LET a == AtLeast(try, 1)
                c == AtLeast(cap, 1)
            IN  ComputeBackoff(try, cap) =
                    IF 2 ^ (a - 1) > c THEN c ELSE 2 ^ (a - 1)

\* "0/1 file -> 1; few files -> one worker each; many -> soft-cap at maxJobs"
\* (backoff.go 30): the largest number of workers that is neither more than
\* the files nor more than the cap, but for the one there always is.
JobsFit ==
    phase = "manifest" =>
        \A nFiles, maxJobs \in Args :
            LET Fits(n) == n <= AtLeast(nFiles, 1) /\ n <= AtLeast(maxJobs, 1)
                n == SuggestJobs(nFiles, maxJobs)
            IN  n >= 1 /\ Fits(n) /\ ~Fits(n + 1)

-----------------------------------------------------------------------------
(* What a manifest and its chunks are read as. *)

Small == 0 .. 2
UpTo(S, n) == UNION {[1 .. k -> S] : k \in 0 .. n}

Section(magic, v) == <<magic, Len(v)>> \o v
Manifest(payload, meta) ==
    Section(Payload, payload) \o Section(Metadata, meta)
        \o Section(Signature, <<1>>) \o <<EndOfManifest>>

InFile(zip, b) ==
    [zip |-> zip, entry |-> b, bytes |-> IF zip = "opens" THEN <<1>> ELSE b]

\* A manifest is read back as it was written, zipped or not, unless one of its
\* sections cannot be read; one that was cut off anywhere is refused (parse.go
\* 68-131).
ManifestReadsBack ==
    \A payload, meta \in UpTo({Payload, Metadata, Unreadable}, 2),
       zip \in {"none", "opens", "broken"} :
        LET whole == Manifest(payload, meta)
            read == IF Unreadable \in ToSet(payload \o meta) THEN Fail
                    ELSE Ok(<<payload, meta>>)
        IN  /\ Parse(InFile(zip, whole)) = read
            /\ \A n \in 0 .. Len(whole) - 1 : ~Parse(InFile(zip, SubSeq(whole, 1, n))).ok

\* After DecryptFilenames either every name is plain and the manifest says
\* so, or the call has failed and the manifest still says encrypted
\* (parse.go 235-264).
NamesDecrypted ==
    \A names \in UpTo({"encrypted", "bad"}, 3), link \in {"none", "encrypted", "bad"} :
        LET d == DecryptFilenames([encrypted |-> TRUE,
                    files |-> [k \in DOMAIN names |-> [name |-> names[k], link |-> link]]])
        IN  /\ d.ok = ~d.m.encrypted
            /\ d.ok <=> \A k \in DOMAIN names : d.m.files[k].name = "plain"

\* A message comes out as it went in, one that was cut inside a block is
\* refused, and what is taken for a padded message is the padding of some
\* message (crypto.go 84-260).
PaddingFits ==
    \A msg \in UpTo(0 .. Block + 1, Block + 1) :
        /\ LET sent == SymmetricEncrypt(msg, [k \in 1 .. Block |-> 0])
           IN  /\ SymmetricDecrypt(sent) = Ok(msg)
               /\ \A n \in 0 .. Len(sent) : n % Block # 0 =>
                    ~SymmetricDecrypt(SubSeq(sent, 1, n)).ok
        /\ Unpad(msg).ok /\ Len(msg) % Block = 0 => Pad(Unpad(msg).v) = msg

-----------------------------------------------------------------------------
(* Containers as the CDN sends them, and damaged ones. *)

Ending(f) == CASE f = "VSZa" -> "zsv" [] f = "VZa" -> "zv" [] OTHER -> "other"

Container(f, x) ==
    [begins |-> IF f = "store" THEN "other" ELSE f, ends |-> Ending(f),
     short |-> FALSE, size |-> Len(x), crc |-> x, inner |-> Ok(x),
     raw |-> IF f = "store" THEN x ELSE <<9, 9, 9>>]

Damages(c) ==
    {[c EXCEPT !.ends = "other"], [c EXCEPT !.short = TRUE],
     [c EXCEPT !.size = @ + 1], [c EXCEPT !.crc = Append(@, 9)],
     [c EXCEPT !.inner = Fail], [c EXCEPT !.inner = Ok(Append(@.v, 9))]}

\* Every format is decoded to its content, and any damage to a VSZa is seen
\* (codec.go 112-135); damage to a VZa is when its trailer is left alone.
FormatsFit ==
    \A f \in Formats, x \in UpTo(Small, 2) \ {<<>>} :
        /\ Decompress(Container(f, x)) = Ok(x)
        /\ \A c \in Damages(Container(f, x)) :
              f = "VSZa" \/ (f = "VZa" /\ c.ends = "zv" /\ ~c.short)
                  => ~Decompress(c).ok

-----------------------------------------------------------------------------
(* Files. *)

Content == <<1, 2, 3, 4>>

\* The chunks of Content when it is cut after the bytes of cuts.
ChunksAt(cuts) ==
    LET at == SetToSortSeq(cuts \cup {0, Len(Content)}, <)
    IN  [k \in 1 .. Len(at) - 1 |->
            [readable |-> TRUE, sha |-> k, offset |-> at[k],
             size |-> at[k + 1] - at[k]]]

Piece(c) == SubSeq(Content, c.offset + 1, c.offset + c.size)

\* A chunk sent whole, in a container that decodes to more, or not readable.
Sent(c) == {Container("VSZa", Piece(c)), Container("gzip", Append(Piece(c), 9)),
            [Container("gzip", Piece(c)) EXCEPT !.inner = Fail]}

\* ReadFile puts a file together whatever order its chunks are listed in,
\* never makes it longer than they are, and fails when one of them cannot be
\* decoded; a chunk the manifest lost makes it shorter (client.go 316-346).
FilesFit ==
    \A cuts \in SUBSET (1 .. 3), lost \in {0, 1, 2} :
        LET whole == ChunksAt(cuts)
            written == [k \in DOMAIN whole |->
                          [whole[k] EXCEPT !.sha = IF k = lost THEN 0 ELSE @]]
            mapping(p) == [readable |-> TRUE, chunks |-> [k \in DOMAIN p |-> written[p[k]]]]
            orders == {p \in [DOMAIN whole -> DOMAIN whole] : IsInjective(p)}
            answers == {s \in [DOMAIN whole -> UNION {Sent(whole[k]) : k \in DOMAIN whole}] :
                          \A k \in DOMAIN s : s[k] \in Sent(whole[k])}
        IN  \A p \in orders, answer \in answers :
                LET chunks == ParsePayload(<<mapping(p)>>)[1].chunks
                    got == ReadFile(chunks, answer)
                IN  /\ got.ok <=> \A c \in ToSet(chunks) : Decompress(answer[c.sha]).ok
                    /\ got.ok /\ lost \notin DOMAIN whole => got.v = Content
                    /\ got.ok /\ lost \in DOMAIN whole =>
                          Len(got.v) = Len(Content) - whole[lost].size

\* The operators of backoff.go, and those between the bytes and the files.
HelpersFit ==
    /\ BackoffIsClampedPower /\ JobsFit
    /\ phase = "manifest" /\ disk = [f \in Files |-> "none"] =>
          /\ ManifestReadsBack /\ NamesDecrypted /\ PaddingFits
          /\ FormatsFit /\ FilesFit

-----------------------------------------------------------------------------
(* False of the code. *)

\* "passthrough when nothing else matches and size fits" (codec.go 84): what
\* is taken for an uncompressed chunk was one.  No size is compared, and a
\* VZa whose trailer is damaged is passed through as it is.
StoreFits ==
    phase = "manifest" =>
        \A f \in Formats, x \in UpTo(Small, 2) \ {<<>>} :
            \A c \in Damages(Container(f, x)) :
                FormatOf(c) = "store" => f = "store"
=============================================================================
