------------------------- MODULE MCDownloadManager -------------------------
(***************************************************************************)
(* Small instances of DownloadManager for TLC: item a can be asked for by  *)
(* itself or through a collection that holds a and b, and what a           *)
(* resolution answers is what ResolveIDs computes, whichever of its calls  *)
(* fail.  ResolveIDs itself is evaluated, where a run begins, over small   *)
(* workshops: two collections at most that may hold each other, two items. *)
(***************************************************************************)
EXTENDS DownloadManager, TLC

CONSTANTS a, b, coll,
          MaxCalls   \* bound: calls Steam may answer in an expansion

Small == INSTANCE ResolveIDs WITH BatchSize <- 1
Pairs == INSTANCE ResolveIDs WITH BatchSize <- 2

Item(result) == [result |-> result, collection |-> FALSE, children |-> <<>>]
Collection(children) ==
    [result |-> "OK", collection |-> TRUE, children |-> children]

MCWants == {a, coll}

MCWorkshop == (a :> Item("OK")) @@ (b :> Item("OK")) @@ (coll :> Collection(<<a, b>>))

\* Written out for TLC; ResolveFits compares it with what ResolveIDs computes.
MCAnswers == (a :> {<<>>, <<a>>}) @@ (coll :> {<<>>, <<a>>, <<b>>, <<a, b>>})

ResolvedAnswers ==
    [w \in MCWants |->
        {Small!Resolve(<<w>>, MCWorkshop, answered).resolved :
            answered \in SUBSET (1..3)}]

-----------------------------------------------------------------------------
(* The workshops ResolveIDs is evaluated over, and what is asked of them. *)

Lists(S, n) == UNION {[1..k -> S] : k \in 0..n}

Workshops ==
    {<<Collection(top), x, y, Item("OK")>> :
        top \in Lists({0, 2, 3, 4}, 3),
        x \in {Item("zero"), Item("gone")} \cup {Collection(s) : s \in Lists({1, 3, 4}, 2)},
        y \in {Item("absent"), Item("gone")}}

Asked == {<<1>>, <<2, 1, 2>>, <<4, 3, 1>>}

\* A resolution is order-preserving and free of duplicates, and what a
\* failed call takes away is all that is missing (details.go 118-176).
ResolveFits ==
    (pc = [r \in Requests |-> "idle"] /\ ~closed) =>
        /\ Answers = ResolvedAnswers
        /\ \A asked \in Asked, answered \in SUBSET (1..MaxCalls) :
               \A workshop \in Workshops :
                   Pairs!ResolvesAll(asked, workshop, answered)

\* A run that checks this one fails.  "ResolveIDs expands collections
\* recursively and returns" (details.go 118): the expansion ends by itself
\* when Steam answers every call.  No collection is remembered, and one that
\* holds itself is expanded until a call fails.
ExpansionEnds ==
    (pc = [r \in Requests |-> "idle"] /\ ~closed) =>
        \A asked \in Asked, workshop \in Workshops :
            Pairs!Resolve(asked, workshop, 1..8).lost = {}
=============================================================================
