---------------------------- MODULE ResolveIDs ----------------------------
(***************************************************************************)
(* internal/steam/workshop: ResolveIDs (details.go) and the reading of a   *)
(* GetDetails answer (query.go), as operators.  Collections are expanded   *)
(* depth first; ids are asked for in batches of a hundred; a batch that    *)
(* fails is logged and left out, so that the expansion never fails itself. *)
(*                                                                         *)
(* workshop[i] is what Steam holds under id i: result as in the answer     *)
(* ("absent" when the field is), whether it is a collection, its children. *)
(* answered is the set of calls (counted from one) that Steam answers.     *)
(***************************************************************************)
EXTENDS Naturals, Sequences, FiniteSets, SequencesExt

CONSTANT BatchSize   \* ids in a call of GetDetails (100)

-----------------------------------------------------------------------------
(* The answer of Steam, as parseRichDetails reads it. *)

\* parseRichDetails: details without an id or with a bad result are dropped.
Readable(i, workshop) ==
    i \in DOMAIN workshop /\ workshop[i].result \in {"absent", "zero", "OK"}

\* parseChildID: a child whose id is zero or unreadable is dropped.
ChildrenOf(i, workshop) == SelectSeq(workshop[i].children, LAMBDA c : c # 0)

\* parseGetDetailsResponseRich: the readable ones, in the order of the answer.
Details(batch, workshop) == SelectSeq(batch, LAMBDA i : Readable(i, workshop))

-----------------------------------------------------------------------------
(***************************************************************************)
(* GetDetails.  st.calls counts the calls of the whole expansion, st.lost  *)
(* (history) is what the failed ones asked for.                            *)
(***************************************************************************)
Batches(ids) ==
    [k \in 1..((Len(ids) + BatchSize - 1) \div BatchSize) |->
        SubSeq(ids, (k - 1) * BatchSize + 1,
                    IF k * BatchSize > Len(ids) THEN Len(ids) ELSE k * BatchSize)]

Answered(st, batch, workshop) ==
    [st EXCEPT !.calls = @ + 1, !.items = @ \o Details(batch, workshop)]

Unanswered(st, batch) ==
    [st EXCEPT !.calls = @ + 1, !.lost = @ \cup ToSet(batch)]

\* Mutant: the batches after a failed one are not asked for.
GetDetailsUpToError(ids, st, workshop, answered) ==
    FoldLeft(LAMBDA acc, batch :
                IF acc.lost = st.lost /\ acc.calls + 1 \in answered
                  THEN Answered(acc, batch, workshop)
                  ELSE [acc EXCEPT !.lost = IF @ = st.lost THEN @ \cup ToSet(batch) ELSE @],
             [st EXCEPT !.items = <<>>], Batches(ids))

GetDetails(ids, st, workshop, answered) ==
    FoldLeft(LAMBDA acc, batch :
                IF acc.calls + 1 \in answered
                  THEN Answered(acc, batch, workshop)
                  ELSE Unanswered(acc, batch),
             [st EXCEPT !.items = <<>>], Batches(ids))

(***************************************************************************)
(* walk: the details of a batch are all fetched before the first of its    *)
(* collections is expanded.  st.resolved is seenOut as well: both grow     *)
(* together.  No collection is remembered, so one is expanded as often as  *)
(* it is met.                                                              *)
(***************************************************************************)
Take(i, st) ==
    IF i \in ToSet(st.resolved) THEN st ELSE [st EXCEPT !.resolved = Append(@, i)]

RECURSIVE Walk(_, _, _, _)
Walk(batch, st, workshop, answered) ==
    LET got == GetDetails(batch, st, workshop, answered)
        Visit(acc, i) ==
            IF ~workshop[i].collection THEN Take(i, acc)
            ELSE IF ChildrenOf(i, workshop) = <<>> THEN acc
            ELSE Walk(ChildrenOf(i, workshop), acc, workshop, answered)
    IN  FoldLeft(Visit, got, got.items)

\* The ids asked for, each once, in the order they were first given.
Unique(ids) ==
    FoldLeft(LAMBDA acc, i : IF i \in ToSet(acc) THEN acc ELSE Append(acc, i),
             <<>>, ids)

Resolve(ids, workshop, answered) ==
    Walk(Unique(ids),
         [calls |-> 0, items |-> <<>>, lost |-> {}, resolved |-> <<>>],
         workshop, answered)

-----------------------------------------------------------------------------
(* What is promised, by definitions that do not follow the walk. *)

\* What is met from ids, without going through an id of lost.
RECURSIVE Met(_, _, _)
Met(ids, lost, workshop) ==
    LET Next(S) == UNION {ToSet(ChildrenOf(i, workshop)) :
                            i \in {j \in S : workshop[j].collection}}
        Open(S) == {i \in S : i \notin lost /\ Readable(i, workshop)}
        more == ids \cup Open(Next(ids))
    IN  IF more = ids THEN ids ELSE Met(more, lost, workshop)

\* The items among them: what is to be downloaded.
ItemsMet(ids, lost, workshop) ==
    LET start == {i \in ToSet(ids) : i \notin lost /\ Readable(i, workshop)}
    IN  {i \in Met(start, lost, workshop) : ~workshop[i].collection}

\* A collection is only met below collections of smaller ids.
Acyclic(workshop) ==
    \A i \in DOMAIN workshop :
        workshop[i].collection => \A c \in ToSet(ChildrenOf(i, workshop)) : c > i

\* The collections of an acyclic workshop written out, repetitions included.
Unfolded(workshop) ==
    LET u[i \in DOMAIN workshop] ==
            IF ~Readable(i, workshop) THEN <<>>
            ELSE IF ~workshop[i].collection THEN <<i>>
            ELSE FlattenSeq([k \in DOMAIN ChildrenOf(i, workshop) |->
                                u[ChildrenOf(i, workshop)[k]]])
    IN  u

\* "returns downloadable item IDs (order-preserving, de-duplicated)"
\* (details.go 118): nothing twice, nothing that was not met, everything met
\* without a failed call; and in the order of the collections written out
\* when no call failed.
ResolvesAll(ids, workshop, answered) ==
    LET st == Resolve(ids, workshop, answered)
        written == FlattenSeq([k \in DOMAIN ids |-> Unfolded(workshop)[ids[k]]])
        First(i) == SelectInSeq(written, LAMBDA x : x = i)
    IN  /\ IsInjective(st.resolved)
        /\ ToSet(st.resolved) \subseteq ItemsMet(ids, {}, workshop)
        /\ ItemsMet(ids, st.lost, workshop) \subseteq ToSet(st.resolved)
        /\ st.lost = {} /\ Acyclic(workshop) =>
              \A j, k \in DOMAIN st.resolved :
                  j < k => First(st.resolved[j]) < First(st.resolved[k])
=============================================================================
