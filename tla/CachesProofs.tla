---------------------------- MODULE CachesProofs ----------------------------
(***************************************************************************)
(* The caches of the program: of chunks (CdnClient), of pages and of       *)
(* previews (WebCaches), for every number of goroutines and handlers and   *)
(* every capacity.                                                         *)
(*                                                                         *)
(* Chunks: the goroutines that download them never ask the CM connection   *)
(* for a depot key nor the Web API for servers (the connection has one     *)
(* goroutine that uses it because of that); a request that had the list of *)
(* servers for itself and gives up has asked all of them; and the counter  *)
(* of the cache is what the cache holds.  The first needs only IInv, the   *)
(* others FullInv.                                                         *)
(*                                                                         *)
(* Pages: by any way, from Steam or from a cache, page n is the n-th of the*)
(* list, in the language asked for and not too old, as long as nobody asks *)
(* for a page with the cursor of another one.  Previews: the counter of    *)
(* bytes is their sum, a token is held by a fetch, and what is shown is    *)
(* what was asked for and not too old.  Both rest on where every entry     *)
(* comes from: CachesInv.                                                  *)
(***************************************************************************)
EXTENDS CdnClient, WebCaches, FiniteSetTheorems, SequenceTheorems,
        WellFoundedInduction, TLAPS

\* At first nobody has called.
LEMMA InitInv == Init => IInv
  BY CdnAssumption
     DEF Init, IInv, ManifestFirst, WorkersFindAll, HasAll, Goroutines, Steps,
         Outcomes

(***************************************************************************)
(* DownloadItem.                                                           *)
(***************************************************************************)
LEMMA ItemInv == ASSUME IInv, Item PROVE IInv'
<1> USE CdnAssumption
    DEF IInv, ManifestFirst, WorkersFindAll, HasAll, Goroutines, Steps, Outcomes
<1>1. ASSUME NEW d \in Depots, StartItem(d) PROVE IInv'
  <2>1. /\ phase = "idle" /\ phase' = "manifest"
        /\ pc' = [pc EXCEPT ![Main] = "ensure"]
        /\ outcome' = [outcome EXCEPT ![Main] = "none"]
    BY <1>1 DEF StartItem, Goto
  <2>2. /\ pc'[Main] = "ensure" /\ outcome'[Main] = "none"
        /\ \A g \in Workers : pc'[g] = pc[g]
    BY <2>1
  <2>3. QED BY <2>1, <2>2
<1>2. CASE ManifestDone
  BY <1>2 DEF ManifestDone, listVars
<1>3. CASE EndItem
  BY <1>3 DEF EndItem, listVars
<1>4. QED BY <1>1, <1>2, <1>3 DEF Item

\* A worker asks for a chunk.
LEMMA GetChunkInv ==
    ASSUME IInv, NEW g \in Workers, NEW s \in Shas, GetChunk(g, s) PROVE IInv'
<1> USE CdnAssumption
    DEF IInv, ManifestFirst, WorkersFindAll, HasAll, Goroutines, Steps, Outcomes
<1>1. /\ phase = "files" /\ UNCHANGED <<servers, depotKeys, phase, depot>>
      /\ pc' = [pc EXCEPT ![g] = "cache"]
      /\ outcome' = [outcome EXCEPT ![g] = "none"]
  BY DEF GetChunk, Goto, listVars
<1>2. /\ pc'[g] = "cache" /\ pc'[Main] = pc[Main]
      /\ outcome'[Main] = outcome[Main]
      /\ \A h \in Workers \ {g} : pc'[h] = pc[h]
  BY <1>1
<1>3. QED BY <1>1, <1>2

(***************************************************************************)
(* A step of a call moves one goroutine from a step to the next, or ends   *)
(* the call; the item stays what it is, and servers and keys that were     *)
(* found stay.  What a step may do to a worker and to Main is all the      *)
(* invariant needs of it.                                                  *)
(***************************************************************************)
LEMMA MoveInv ==
    ASSUME IInv, NEW g \in Goroutines, NEW l \in Steps, NEW how \in Outcomes,
           pc[g] # "idle",
           pc' = [pc EXCEPT ![g] = l],
           outcome' = outcome \/ outcome' = [outcome EXCEPT ![g] = how],
           UNCHANGED <<phase, depot>>,
           servers # <<>> => servers' # <<>>,
           depotKeys \subseteq depotKeys',
           g # Main => l \notin {"ask", "fetch"},
           g = Main => /\ l \notin {"cache", "store"}
                       /\ l \in {"next", "wait", "key", "ask"} => servers' # <<>>
                       /\ outcome' # outcome /\ how = "data" => HasAll'
    PROVE  IInv'
<1> USE CdnAssumption
    DEF IInv, ManifestFirst, WorkersFindAll, HasAll, Goroutines, Steps, Outcomes
<1>1. /\ pc'[g] = l
      /\ \A h \in Goroutines \ {g} : pc'[h] = pc[h]
  OBVIOUS
<1>2. /\ outcome'[g] \in {outcome[g], how}
      /\ \A h \in Goroutines \ {g} : outcome'[h] = outcome[h]
  OBVIOUS
<1>3. pc' \in [Goroutines -> Steps] /\ outcome' \in [Goroutines -> Outcomes]
  OBVIOUS
<1>4. HasAll => HasAll'
  OBVIOUS
<1>5. CASE g = Main
  <2>1. outcome'[Main] = "data" => outcome[Main] = "data" \/ HasAll'
    BY <1>2, <1>5
  <2>2. QED BY <1>1, <1>2, <1>3, <1>4, <1>5, <2>1
<1>6. CASE g # Main
  BY <1>1, <1>2, <1>3, <1>4, <1>6
<1>7. QED BY <1>5, <1>6

(***************************************************************************)
(* The steps of a call.                                                    *)
(***************************************************************************)
LEMMA CallInv == ASSUME IInv, NEW g \in Goroutines, Call(g) PROVE IInv'
<1>1. g \in Workers /\ pc[g] # "idle" => HasAll
  BY DEF IInv, ManifestFirst
<1>2. g = Main \/ g \in Workers
  BY DEF Goroutines
<1>3. CASE LookInCache(g)
  <2>1. g # Main
    BY <1>3 DEF LookInCache, IInv, ManifestFirst
  <2>2. QED
    BY <1>3, <2>1, MoveInv
       DEF LookInCache, Return, Goto, Steps, Outcomes, listVars, itemVars
<1>4. CASE EnsureServers(g)
  BY <1>1, <1>2, <1>4, MoveInv
     DEF EnsureServers, Goto, Steps, Outcomes, listVars, itemVars, HasAll
<1>5. CASE FetchFromWebAPI(g)
  <2>1. g = Main
    BY <1>2, <1>5 DEF FetchFromWebAPI, IInv, WorkersFindAll
  <2>2. QED
    BY <1>5, <2>1, MoveInv
       DEF FetchFromWebAPI, Return, Goto, Steps, Outcomes, listVars, itemVars
<1>6. CASE NextServer(g)
  BY <1>2, <1>6, MoveInv
     DEF NextServer, Goto, Steps, Outcomes, itemVars, IInv, ManifestFirst
<1>7. CASE Reply200(g)
  BY <1>2, <1>7, MoveInv
     DEF Reply200, Goto, Steps, Outcomes, listVars, itemVars, IInv, ManifestFirst
<1>8. CASE ReplyRetry(g)
  BY <1>2, <1>8, MoveInv
     DEF ReplyRetry, Return, Goto, Steps, Outcomes, listVars, itemVars, IInv,
         ManifestFirst
<1>9. CASE ReplyRefused(g)
  BY <1>9, MoveInv
     DEF ReplyRefused, Return, Goto, Steps, Outcomes, listVars, itemVars
<1>10. CASE LookForKey(g)
  <2>1. servers # <<>>
    BY <1>1, <1>2, <1>10 DEF LookForKey, HasAll, IInv, ManifestFirst
  <2>2. g \in Workers => depot \in depotKeys
    BY <1>1, <1>10 DEF LookForKey, HasAll
  <2>3. QED
    BY <1>2, <1>10, <2>1, <2>2, MoveInv
       DEF LookForKey, Decode, Return, Goto, Steps, Outcomes, listVars, itemVars,
           HasAll
<1>11. CASE AskForKey(g)
  <2>1. g = Main /\ servers # <<>>
    BY <1>2, <1>11 DEF AskForKey, IInv, WorkersFindAll, ManifestFirst
  <2>2. QED
    BY <1>11, <2>1, MoveInv
       DEF AskForKey, Decode, Return, Goto, KeysWithDepot, Steps, Outcomes,
           listVars, itemVars, HasAll
<1>12. CASE Store(g)
  <2>1. g # Main
    BY <1>12 DEF Store, IInv, ManifestFirst
  <2>2. QED
    BY <1>12, <2>1, MoveInv
       DEF Store, Return, Goto, Steps, Outcomes, listVars, itemVars
<1>13. QED
  BY <1>3, <1>4, <1>5, <1>6, <1>7, <1>8, <1>9, <1>10, <1>11, <1>12 DEF Call

\* Every step keeps the invariant.
LEMMA NextInv == ASSUME IInv, [Next]_vars PROVE IInv'
<1>1. CASE UNCHANGED vars
  BY <1>1
     DEF vars, listVars, itemVars, IInv, ManifestFirst, WorkersFindAll, HasAll
<1>2. CASE Next
  BY <1>1, <1>2, ItemInv, GetChunkInv, CallInv DEF Next, Finished
<1>3. QED BY <1>1, <1>2

(***************************************************************************)
(* Every depot key and every list of servers is fetched by the goroutine   *)
(* that calls DownloadItem: the workers, which all call GetDepotKey and    *)
(* EnsureServers for each chunk, find them (client.go 55-78, 131-176).   *)
(***************************************************************************)
THEOREM WorkersNeverFetch == Spec => []WorkersFindAll
<1>1. Init => IInv
  BY InitInv
<1>2. IInv /\ [Next]_vars => IInv'
  BY NextInv
<1>3. IInv => WorkersFindAll
  BY DEF IInv
<1>4. QED BY <1>1, <1>2, <1>3, PTL DEF Spec

-----------------------------------------------------------------------------
(* The invariant of the attempts and of the cache. *)

\* What the place of a goroutine says of its call.
Calls ==
    /\ phase # "idle" => depot \in Depots
    /\ \A g \in Goroutines :
          /\ pc[g] # "idle" => outcome[g] = "none"
          /\ pc[g] # "idle" /\ g # Main => want[g] \in Chunks
          /\ pc[g] = "fetch" => servers = <<>>
          /\ IF InGET(g) THEN try[g] < Tries /\ servers # <<>> ELSE try[g] = 0
          /\ outcome[g] = "tries" => servers # <<>>

\* The place in the list that is k places before the index.
Before(k) == (IF k <= idx THEN idx - k ELSE idx + Len(servers) - k) + 1

\* The last n + 1 places that the index came by were asked.
AskedBack(g, n) ==
    \A k \in 0 .. n : k < Len(servers) => servers[Before(k)] \in tried[g]

\* A call that had the list for itself has asked as many places, back from
\* the index, as it has made attempts.
Covered ==
    \A g \in Goroutines : ~rivals[g] =>
        /\ pc[g] = "next" /\ try[g] > 0 => AskedBack(g, try[g] - 1)
        /\ pc[g] = "wait" => AskedBack(g, try[g])

Cached == IsFiniteSet(chunkCache) /\ CacheAccounted

FullInv == IInv /\ TypeOK /\ Calls /\ Covered /\ GivesUpAfterAll /\ Cached

(***************************************************************************)
(* What a cache holds is a fold over a set: a function defined by recursion*)
(* on the subsets.  What holds of every finite set is proved by taking a   *)
(* smallest set for which it does not hold.                                *)
(***************************************************************************)

\* One of the smallest sets of a collection of finite sets.
LEMMA Smallest ==
    ASSUME NEW S, IsFiniteSet(S), NEW X \in SUBSET (SUBSET S), X # {}
    PROVE  \E T \in X : \A U \in X : U \subseteq T => U = T
<1>1. IsWellFoundedOn(StrictSubsetOrdering(S), FiniteSubsetsOf(S))
  BY FS_StrictSubsetOrderingWellFounded
<1>2. FiniteSubsetsOf(S) = SUBSET S
  BY FS_FiniteSubsetsOfFinite
<1>3. PICK T \in X : \A U \in X : ~ (<<U, T>> \in StrictSubsetOrdering(S))
  BY <1>1, <1>2, WFMin
<1>4. \A U \in X : U \subseteq T => U = T
  BY <1>3 DEF StrictSubsetOrdering
<1> HIDE <1>3
<1>5. QED BY <1>4

\* The equation of the recursion, and a function that solves it.
Chosen(s) == CHOOSE c \in s : TRUE
Rec(w, g, S) ==
    [s \in SUBSET S |-> IF s = {} THEN 0 ELSE w[Chosen(s)] + g[s \ {Chosen(s)}]]
Sums(w, S) == CHOOSE g : g = Rec(w, g, S)

\* The sum of the weights w[x] of a finite set.
Total(w, S) == Sums(w, S)[S]

\* What is chosen is in the set.
LEMMA ChosenIn == ASSUME NEW s, s # {} PROVE Chosen(s) \in s
  BY DEF Chosen

\* Any two solutions agree.
LEMMA SumsUnique ==
    ASSUME NEW w, NEW S, NEW R, NEW g, NEW h, g = Rec(w, g, S), h = Rec(w, h, R),
           IsFiniteSet(S), NEW T \in SUBSET (S \cap R)
    PROVE  g[T] = h[T]
<1> DEFINE X == {U \in SUBSET S : U \subseteq R /\ g[U] # h[U]}
<1> SUFFICES ASSUME X # {} PROVE FALSE
  OBVIOUS
<1>1. PICK U \in X : \A V \in X : V \subseteq U => V = U
  <2>1. X \in SUBSET (SUBSET S)
    OBVIOUS
  <2> HIDE DEF X
  <2>2. QED BY <2>1, Smallest
<1>2. U \subseteq S /\ U \subseteq R /\ g[U] # h[U]
  OBVIOUS
<1>3. /\ g[U] = IF U = {} THEN 0 ELSE w[Chosen(U)] + g[U \ {Chosen(U)}]
      /\ h[U] = IF U = {} THEN 0 ELSE w[Chosen(U)] + h[U \ {Chosen(U)}]
  BY <1>2 DEF Rec
<1>4. CASE U # {}
  <2>1. U \ {Chosen(U)} # U
    BY <1>4, ChosenIn
  <2>2. U \ {Chosen(U)} \notin X
    BY <1>1, <2>1
  <2>3. g[U \ {Chosen(U)}] = h[U \ {Chosen(U)}]
    BY <1>2, <2>2
  <2>4. QED BY <1>2, <1>3, <2>3
<1>5. QED BY <1>2, <1>3, <1>4

\* There is a solution.
LEMMA SumsExist ==
    ASSUME NEW w, NEW S, IsFiniteSet(S) PROVE Sums(w, S) = Rec(w, Sums(w, S), S)
<1> DEFINE X == {U \in SUBSET S : Sums(w, U) # Rec(w, Sums(w, U), U)}
<1> SUFFICES ASSUME X # {} PROVE FALSE
  OBVIOUS
<1>1. PICK T \in X : \A U \in X : U \subseteq T => U = T
  <2>1. X \in SUBSET (SUBSET S)
    OBVIOUS
  <2> HIDE DEF X
  <2>2. QED BY <2>1, Smallest
<1>2. T \subseteq S /\ Sums(w, T) # Rec(w, Sums(w, T), T)
  OBVIOUS
<1>3. ASSUME NEW U \in SUBSET T, U # T PROVE Sums(w, U) = Rec(w, Sums(w, U), U)
  BY <1>1, <1>2, <1>3
<1> HIDE DEF X
<1> DEFINE Val(s) == IF s = {} THEN 0
                     ELSE w[Chosen(s)] + Sums(w, s \ {Chosen(s)})[s \ {Chosen(s)}]
           g == [s \in SUBSET T |-> Val(s)]
<1>4. ASSUME NEW s \in SUBSET T, s # T PROVE Sums(w, s)[s] = Val(s)
  <2>1. Sums(w, s) = Rec(w, Sums(w, s), s)
    BY <1>3, <1>4
  <2>2. Sums(w, s)[s] = IF s = {} THEN 0
                     ELSE w[Chosen(s)] + Sums(w, s)[s \ {Chosen(s)}]
    BY <2>1 DEF Rec
  <2>3. CASE s # {}
    <3>1. s \ {Chosen(s)} \in SUBSET T /\ s \ {Chosen(s)} # T
      BY <1>4
    <3>2. Sums(w, s \ {Chosen(s)}) = Rec(w, Sums(w, s \ {Chosen(s)}), s \ {Chosen(s)})
      BY <1>3, <3>1
    <3>3. IsFiniteSet(s) /\ s \ {Chosen(s)} \in SUBSET (s \cap (s \ {Chosen(s)}))
      BY <1>2, FS_Subset
    <3>4. Sums(w, s)[s \ {Chosen(s)}] = Sums(w, s \ {Chosen(s)})[s \ {Chosen(s)}]
      BY <2>1, <3>2, <3>3, SumsUnique
    <3>5. QED BY <2>2, <2>3, <3>4
  <2>4. QED BY <2>2, <2>3
<1>5. g = Rec(w, g, T)
  <2>1. ASSUME NEW s \in SUBSET T, s # {}
        PROVE  g[s \ {Chosen(s)}] = Sums(w, s \ {Chosen(s)})[s \ {Chosen(s)}]
    <3>1. s \ {Chosen(s)} \in SUBSET T /\ s \ {Chosen(s)} # T
      BY <2>1, ChosenIn
    <3>2. QED BY <1>4, <3>1
  <2>2. \A s \in SUBSET T : Val(s) = IF s = {} THEN 0 ELSE w[Chosen(s)] + g[s \ {Chosen(s)}]
    BY <2>1
  <2> HIDE DEF Val
  <2>3. QED BY <2>2 DEF Rec
<1>6. \E f : f = Rec(w, f, T)
  BY <1>5
<1>7. QED BY <1>2, <1>6 DEF Sums

\* The sum of nothing.
LEMMA TotalEmpty == ASSUME NEW w PROVE Total(w, {}) = 0
<1>1. Sums(w, {}) = Rec(w, Sums(w, {}), {})
  BY SumsExist, FS_EmptySet
<1>2. QED BY <1>1 DEF Total, Rec

\* The sum of a finite set is that of any one element and of the others.
LEMMA TotalRemove ==
    ASSUME NEW w, NEW S, IsFiniteSet(S), \A c \in S : w[c] \in Nat
    PROVE  /\ Total(w, S) \in Nat
           /\ \A c \in S : Total(w, S) = w[c] + Total(w, S \ {c})
<1> DEFINE Good(U) == /\ Total(w, U) \in Nat
                      /\ \A c \in U : Total(w, U) = w[c] + Total(w, U \ {c})
           X == {U \in SUBSET S : ~Good(U)}
<1> SUFFICES ASSUME X # {} PROVE FALSE
  OBVIOUS
<1>1. PICK T \in X : \A U \in X : U \subseteq T => U = T
  <2>1. X \in SUBSET (SUBSET S)
    OBVIOUS
  <2> HIDE DEF X
  <2>2. QED BY <2>1, Smallest
<1>2. T \subseteq S /\ ~Good(T) /\ \A U \in SUBSET T : U # T => Good(U)
  BY <1>1
<1>3. \A c \in T : w[c] \in Nat
  BY <1>2
<1> HIDE DEF X
<1>4. ASSUME NEW U \in SUBSET T, U # {}
      PROVE  Total(w, U) = w[Chosen(U)] + Total(w, U \ {Chosen(U)})
  <2>1. IsFiniteSet(U) /\ IsFiniteSet(U \ {Chosen(U)})
    BY <1>2, FS_Subset
  <2>2. /\ Sums(w, U) = Rec(w, Sums(w, U), U)
        /\ Sums(w, U \ {Chosen(U)}) = Rec(w, Sums(w, U \ {Chosen(U)}), U \ {Chosen(U)})
    BY <2>1, SumsExist
  <2>3. Sums(w, U)[U] = w[Chosen(U)] + Sums(w, U)[U \ {Chosen(U)}]
    BY <1>4, <2>2 DEF Rec
  <2>4. Sums(w, U)[U \ {Chosen(U)}] = Sums(w, U \ {Chosen(U)})[U \ {Chosen(U)}]
    BY <2>1, <2>2, SumsUnique
  <2>5. QED BY <2>3, <2>4 DEF Total
<1>5. CASE T = {}
  BY <1>2, <1>5, TotalEmpty
<1>6. CASE T # {}
  <2> DEFINE x == Chosen(T)
  <2>1. x \in T /\ T \ {x} \in SUBSET T /\ T \ {x} # T
    BY <1>2, <1>6, ChosenIn
  <2>2. Good(T \ {x}) /\ Total(w, T) = w[x] + Total(w, T \ {x})
    BY <1>2, <1>4, <1>6, <2>1
  <2> HIDE DEF x
  <2>3. Total(w, T) \in Nat
    BY <1>3, <2>1, <2>2
  <2>4. ASSUME NEW y \in T, y # x
        PROVE  Total(w, T) = w[y] + Total(w, T \ {y})
    <3>1. T \ {y} \in SUBSET T /\ T \ {y} # T /\ y \in T \ {x} /\ x \in T \ {y}
      BY <2>1, <2>4
    <3>2. Good(T \ {y})
      BY <1>2, <3>1
    <3>3. (T \ {x}) \ {y} = (T \ {y}) \ {x} /\ Good((T \ {y}) \ {x})
      <4> DEFINE U == (T \ {y}) \ {x}
      <4>1. U \in SUBSET T /\ (T \ {x}) \ {y} = U /\ x \notin U
        OBVIOUS
      <4> HIDE DEF U
      <4>2. Good(U)
        BY <1>2, <2>1, <4>1
      <4>3. QED BY <4>1, <4>2 DEF U
    <3>4. /\ Total(w, T \ {x}) = w[y] + Total(w, (T \ {y}) \ {x})
          /\ Total(w, T \ {y}) = w[x] + Total(w, (T \ {y}) \ {x})
      BY <2>2, <3>1, <3>2, <3>3
    <3>5. /\ w[x] \in Nat /\ w[y] \in Nat
          /\ Total(w, (T \ {y}) \ {x}) \in Nat
      BY <1>2, <1>3, <2>1, <2>4, <3>3
    <3> HIDE DEF Good
    <3>6. QED BY <2>2, <3>4, <3>5
  <2>5. QED BY <1>2, <2>2, <2>3, <2>4
<1>7. QED BY <1>5, <1>6

\* The sum of a set that is taken apart.
LEMMA TotalSplit ==
    ASSUME NEW w, NEW S, IsFiniteSet(S), \A c \in S : w[c] \in Nat,
           NEW D \in SUBSET S
    PROVE  Total(w, S) = Total(w, D) + Total(w, S \ D)
<1> DEFINE X == {E \in SUBSET S : Total(w, S) # Total(w, E) + Total(w, S \ E)}
<1>0. \A E \in SUBSET S : IsFiniteSet(E) /\ Total(w, E) \in Nat
  BY TotalRemove, FS_Subset
<1> SUFFICES ASSUME X # {} PROVE FALSE
  OBVIOUS
<1>1. PICK E \in X : \A U \in X : U \subseteq E => U = E
  <2>1. X \in SUBSET (SUBSET S)
    OBVIOUS
  <2> HIDE DEF X
  <2>2. QED BY <2>1, Smallest
<1>2. E \in SUBSET S /\ Total(w, S) # Total(w, E) + Total(w, S \ E)
  OBVIOUS
<1>3. PICK c \in E : TRUE
  <2>1. Total(w, {}) = 0 /\ S \ {} = S
    BY TotalEmpty
  <2>2. Total(w, S) \in Nat
    BY <1>0
  <2> HIDE DEF X
  <2>3. E # {}
    BY <1>2, <2>1, <2>2
  <2>4. QED BY <2>3
<1>4. Total(w, S) = Total(w, E \ {c}) + Total(w, S \ (E \ {c}))
  BY <1>1, <1>2, <1>3
<1>5. Total(w, E) = w[c] + Total(w, E \ {c})
  BY <1>0, <1>2, TotalRemove
<1>6. Total(w, S \ (E \ {c})) = w[c] + Total(w, S \ E)
  <2>1. c \in S \ (E \ {c}) /\ (S \ (E \ {c})) \ {c} = S \ E
    BY <1>2, <1>3
  <2>2. S \ (E \ {c}) \in SUBSET S /\ IsFiniteSet(S \ (E \ {c}))
    BY <1>0
  <2>3. QED BY <2>1, <2>2, TotalRemove
<1>7. /\ w[c] \in Nat /\ Total(w, E \ {c}) \in Nat /\ Total(w, S \ E) \in Nat
  <2>1. E \ {c} \in SUBSET S /\ S \ E \in SUBSET S
    BY <1>2
  <2>2. QED BY <1>0, <1>2, <2>1
<1> HIDE DEF X
<1>8. QED BY <1>2, <1>4, <1>5, <1>6, <1>7

-----------------------------------------------------------------------------
(* Bytes, the size of the chunk cache, is such a sum. *)

ChunkSize == [c \in Chunks |-> Size[c[2]]]

\* Bytes takes its value from a solution of the same equation.
LEMMA BytesIsTotal ==
    ASSUME NEW S \in SUBSET Chunks PROVE Bytes(S) = Total(ChunkSize, S)
<1> DEFINE R(g) == [s \in SUBSET S |-> IF s = {} THEN 0
                                       ELSE Size[Chosen(s)[2]] + g[s \ {Chosen(s)}]]
<1>1. Bytes(S) = (CHOOSE g : g = R(g))[S]
  BY DEF Bytes, MapThenSumSet, MapThenFoldSet, Chosen
<1>2. ASSUME NEW g PROVE R(g) = Rec(ChunkSize, g, S)
  <2>1. ASSUME NEW s \in SUBSET S, s # {} PROVE ChunkSize[Chosen(s)] = Size[Chosen(s)[2]]
    BY <2>1, ChosenIn DEF ChunkSize
  <2>2. QED BY <2>1 DEF Rec
<1> HIDE DEF R
<1>3. (CHOOSE g : g = R(g)) = (CHOOSE g : g = Rec(ChunkSize, g, S))
  BY <1>2
<1>4. QED BY <1>1, <1>3 DEF Total, Sums

\* The sum of no chunks.
LEMMA BytesEmpty == Bytes({}) = 0
  BY BytesIsTotal, TotalEmpty

\* The sum of any one chunk and of the others.
LEMMA BytesRemove ==
    ASSUME NEW S \in SUBSET Chunks, IsFiniteSet(S)
    PROVE  /\ Bytes(S) \in Nat
           /\ \A c \in S : Bytes(S) = Size[c[2]] + Bytes(S \ {c})
<1>1. \A c \in S : ChunkSize[c] \in Nat /\ ChunkSize[c] = Size[c[2]]
  BY CdnAssumption DEF ChunkSize, Chunks
<1>2. /\ Total(ChunkSize, S) \in Nat
      /\ \A c \in S : Total(ChunkSize, S) = ChunkSize[c] + Total(ChunkSize, S \ {c})
  BY <1>1, TotalRemove
<1>3. \A c \in S : S \ {c} \in SUBSET Chunks
  OBVIOUS
<1>4. QED BY <1>1, <1>2, <1>3, BytesIsTotal

\* The sum of chunks that are taken apart.
LEMMA BytesSplit ==
    ASSUME NEW S \in SUBSET Chunks, IsFiniteSet(S), NEW D \in SUBSET S
    PROVE  Bytes(S) = Bytes(D) + Bytes(S \ D)
<1>1. \A c \in S : ChunkSize[c] \in Nat
  BY CdnAssumption DEF ChunkSize, Chunks
<1>2. Total(ChunkSize, S) = Total(ChunkSize, D) + Total(ChunkSize, S \ D)
  BY <1>1, TotalSplit
<1>3. D \in SUBSET Chunks /\ S \ D \in SUBSET Chunks
  OBVIOUS
<1>4. QED BY <1>2, <1>3, BytesIsTotal

(***************************************************************************)
(* A chunk is stored: the counter stays the size of what is cached.        *)
(***************************************************************************)
LEMMA StoreCached ==
    ASSUME Cached, chunkCache \subseteq Chunks, NEW g \in Goroutines,
           want[g] \in Chunks, Store(g)
    PROVE  /\ Cached' /\ chunkCache' \subseteq Chunks /\ cacheBytes' \in Nat
<1>0. cacheBytes \in Nat /\ MaxBytes \in Nat
  BY CdnAssumption, BytesRemove DEF Cached, CacheAccounted
<1>1. CASE UNCHANGED cacheVars
  BY <1>0, <1>1 DEF cacheVars, Cached, CacheAccounted
<1>2. CASE ~ UNCHANGED cacheVars
  <2> DEFINE c == want[g]
  <2>1. PICK D \in Evictions(c) :
           LET kept == IF Fits(c, D) THEN {c} ELSE {}
           IN  /\ chunkCache' = (chunkCache \ D) \cup kept
               /\ cacheBytes' = cacheBytes - Bytes(D) + Bytes(kept)
    BY <1>2 DEF Store
  <2>2. c \in Chunks /\ c \notin chunkCache
    BY <1>2 DEF Store, Missing
  <2> HIDE DEF c
  <2>3. D \in SUBSET chunkCache
    BY <2>1 DEF Evictions
  <2>4. /\ IsFiniteSet(D) /\ IsFiniteSet(chunkCache \ D)
        /\ Bytes(D) \in Nat /\ Bytes(chunkCache \ D) \in Nat
    BY <2>3, BytesRemove, FS_Subset DEF Cached
  <2>5. cacheBytes = Bytes(D) + Bytes(chunkCache \ D) /\ cacheBytes <= MaxBytes
    BY <2>3, BytesSplit DEF Cached, CacheAccounted
  <2>6. Size[c[2]] \in Nat
    BY <2>2, CdnAssumption DEF Chunks
  <2>7. CASE Fits(c, D)
    <3> DEFINE K == (chunkCache \ D) \cup {c}
    <3>1. chunkCache' = K /\ cacheBytes' = cacheBytes - Bytes(D) + Bytes({c})
      BY <2>1, <2>7
    <3>2. K \ {c} = chunkCache \ D /\ c \in K /\ K \in SUBSET Chunks
      BY <2>2, <2>3
    <3>3. IsFiniteSet(K)
      BY <2>4, FS_AddElement
    <3> HIDE DEF K
    <3>4. Bytes(K) = Size[c[2]] + Bytes(chunkCache \ D)
      BY <3>2, <3>3, BytesRemove
    <3>5. Bytes({c}) = Size[c[2]]
      <4>1. IsFiniteSet({c}) /\ {c} \ {c} = {}
        BY FS_Singleton
      <4>2. Bytes({c}) = Size[c[2]] + Bytes({})
        BY <2>2, <4>1, BytesRemove
      <4>3. QED BY <2>6, <4>2, BytesEmpty
    <3>6. cacheBytes - Bytes(D) + Size[c[2]] <= MaxBytes
      BY <2>7 DEF Fits
    <3>7. cacheBytes' = Bytes(K) /\ cacheBytes' <= MaxBytes /\ cacheBytes' \in Nat
      BY <1>0, <2>4, <2>5, <2>6, <3>1, <3>4, <3>5, <3>6
    <3>8. QED BY <3>1, <3>2, <3>3, <3>7 DEF Cached, CacheAccounted
  <2>8. CASE ~Fits(c, D)
    <3>1. /\ chunkCache' = chunkCache \ D
          /\ cacheBytes' = cacheBytes - Bytes(D) + Bytes({})
      BY <2>1, <2>8
    <3>2. /\ cacheBytes' = Bytes(chunkCache \ D)
          /\ cacheBytes' <= MaxBytes /\ cacheBytes' \in Nat
      BY <1>0, <2>4, <2>5, <3>1, BytesEmpty
    <3>3. QED BY <2>4, <3>1, <3>2 DEF Cached, CacheAccounted
  <2>9. QED BY <2>7, <2>8
<1>3. QED BY <1>1, <1>2
-----------------------------------------------------------------------------
(* The steps of the calls, and the attempts they make. *)

(***************************************************************************)
(* A goroutine moves outside the loop of cdnGET, or leaves it with data or *)
(* an error.  Servers and what was asked stay; the cache is taken care of. *)
(***************************************************************************)
LEMMA OutsideInv ==
    ASSUME FullInv, NEW g \in Goroutines,
           NEW l \in Steps \ {"next", "wait", "fetch"},
           NEW how \in Outcomes \ {"tries"},
           pc' = [pc EXCEPT ![g] = l],
           \/ pc[g] # "idle" /\ outcome' = outcome
           \/ (how = "none" \/ l = "idle") /\ outcome' = [outcome EXCEPT ![g] = how],
           (~InGET(g) /\ try' = try) \/ try' = [try EXCEPT ![g] = 0],
           srv' = srv \/ srv' = [srv EXCEPT ![g] = 0],
           \/ (pc[g] # "idle" \/ g = Main) /\ want' = want
           \/ l = "idle" /\ want' = [want EXCEPT ![g] = Nothing]
           \/ \E w \in Chunks : want' = [want EXCEPT ![g] = w],
           phase' \in {"idle", "manifest", "files"}, depot' \in Depots \cup {Nothing},
           phase' # "idle" => depot' \in Depots,
           depotKeys' \subseteq Depots, calls' \in 0 .. MaxCalls,
           chunkCache' \subseteq Chunks, cacheBytes' \in Nat, Cached',
           UNCHANGED <<servers, idx, tried, rivals>>, IInv'
    PROVE  FullInv'
<1>1. /\ pc'[g] = l /\ \A h \in Goroutines \ {g} : pc'[h] = pc[h]
      /\ outcome'[g] \in {outcome[g], how}
      /\ \A h \in Goroutines \ {g} : outcome'[h] = outcome[h]
      /\ \A h \in Goroutines \ {g} : try'[h] = try[h] /\ want'[h] = want[h]
  BY DEF FullInv, IInv, TypeOK
<1>2. try'[g] = 0 /\ 0 \in 0 .. Tries
  BY CdnAssumption DEF FullInv, TypeOK, Calls
<1>3. TypeOK'
  <2>1. /\ try' \in [Goroutines -> 0 .. Tries]
        /\ srv' \in [Goroutines -> Nat]
    <3>1. /\ try \in [Goroutines -> 0 .. Tries]
          /\ srv \in [Goroutines -> Nat]
      BY DEF FullInv, TypeOK
    <3>2. try' \in [Goroutines -> 0 .. Tries]
      BY <1>2, <3>1
    <3>3. srv' \in [Goroutines -> Nat]
      BY <3>1
    <3>4. QED BY <3>2, <3>3
  <2>2. want' \in [Goroutines -> Chunks \cup {Nothing}]
    <3>1. want \in [Goroutines -> Chunks \cup {Nothing}]
      BY DEF FullInv, TypeOK
    <3>2. want' = want \/ \E w \in Chunks \cup {Nothing} : want' = [want EXCEPT ![g] = w]
      OBVIOUS
    <3>3. QED BY <3>1, <3>2
  <2>3. QED BY <2>1, <2>2 DEF FullInv, IInv, TypeOK
<1>4. l # "idle" => outcome'[g] = "none"
  BY <1>1 DEF FullInv, IInv, TypeOK, Calls
<1>5. l # "idle" /\ g # Main => want'[g] \in Chunks
  BY DEF FullInv, TypeOK, Calls
<1>6. outcome'[g] = "tries" => outcome[g] = "tries"
  BY <1>1
<1>7. Calls'
  BY <1>1, <1>2, <1>4, <1>5, <1>6 DEF FullInv, Calls, InGET
<1>8. Covered'
  BY <1>1 DEF FullInv, Covered, AskedBack, Before
<1>9. GivesUpAfterAll'
  BY <1>1, <1>6 DEF FullInv, GivesUpAfterAll
<1>10. QED BY <1>3, <1>7, <1>8, <1>9 DEF FullInv

\* The call goes on to cdnGET and has asked nobody yet.
LEMMA EnsureServersInv ==
    ASSUME FullInv, NEW g \in Goroutines, EnsureServers(g), IInv' PROVE FullInv'
<1>1. /\ pc[g] = "ensure"
      /\ pc' = [pc EXCEPT ![g] = IF servers # <<>> THEN "next" ELSE "fetch"]
      /\ tried' = [tried EXCEPT ![g] = {}]
      /\ rivals' = [rivals EXCEPT ![g] = FALSE]
      /\ UNCHANGED <<servers, idx, depotKeys, chunkCache, cacheBytes, phase,
                     depot, calls, want, try, srv, outcome>>
  BY DEF EnsureServers, Goto, listVars, cacheVars, itemVars
<1>2. /\ pc'[g] = IF servers # <<>> THEN "next" ELSE "fetch"
      /\ \A h \in Goroutines \ {g} : /\ pc'[h] = pc[h] /\ tried'[h] = tried[h]
                                     /\ rivals'[h] = rivals[h]
  BY <1>1 DEF FullInv, IInv, TypeOK
<1>3. try[g] = 0 /\ outcome[g] = "none" /\ (g # Main => want[g] \in Chunks)
  BY <1>1 DEF FullInv, Calls, InGET
<1>4. TypeOK'
  <2>1. tried' \in [Goroutines -> SUBSET Nat] /\ rivals' \in [Goroutines -> BOOLEAN]
    BY <1>1 DEF FullInv, TypeOK
  <2>2. QED BY <1>1, <2>1 DEF FullInv, IInv, TypeOK
<1>5. Calls'
  BY <1>1, <1>2, <1>3, CdnAssumption DEF FullInv, Calls, InGET
<1>6. Covered'
  BY <1>1, <1>2, <1>3 DEF FullInv, Covered, AskedBack, Before
<1>7. GivesUpAfterAll'
  BY <1>1, <1>2, <1>3 DEF FullInv, GivesUpAfterAll
<1>8. Cached'
  BY <1>1 DEF FullInv, Cached, CacheAccounted
<1>9. QED BY <1>4, <1>5, <1>6, <1>7, <1>8 DEF FullInv

\* There were no servers: whoever waits for the list is the only one.
LEMMA FetchedInv ==
    ASSUME FullInv, NEW g \in Goroutines, FetchFromWebAPI(g), pc'[g] = "next",
           IInv'
    PROVE  FullInv'
<1>1. /\ pc[g] = "fetch" /\ servers' \in Lists /\ servers' # <<>> /\ idx' = 0
      /\ pc' = [pc EXCEPT ![g] = "next"]
      /\ UNCHANGED <<depotKeys, chunkCache, cacheBytes, phase, depot, calls,
                     want, try, srv, tried, rivals, outcome>>
  BY DEF FetchFromWebAPI, Return, Goto, cacheVars, itemVars, getVars, FullInv,
         IInv
<1>2. /\ pc'[g] = "next"
      /\ \A h \in Goroutines \ {g} : pc'[h] = pc[h]
  BY <1>1 DEF FullInv, IInv
<1>3. g = Main /\ \A h \in Goroutines \ {g} : pc[h] # "fetch"
  BY <1>1 DEF FullInv, IInv, WorkersFindAll, Goroutines
<1>4. /\ servers = <<>> /\ try[g] = 0 /\ outcome[g] = "none"
      /\ \A h \in Goroutines : ~InGET(h) /\ outcome[h] # "tries"
  BY <1>1 DEF FullInv, Calls, InGET
<1>5. servers' \in Seq(Nat) /\ Len(servers') > 0
  BY <1>1, CdnAssumption
<1>6. TypeOK'
  BY <1>1, <1>5 DEF FullInv, IInv, TypeOK
<1>7. Calls'
  BY <1>1, <1>2, <1>3, <1>4, CdnAssumption DEF FullInv, Calls, InGET
<1>8. Covered' /\ GivesUpAfterAll'
  BY <1>1, <1>2, <1>4 DEF InGET, Covered, GivesUpAfterAll
<1>9. Cached'
  BY <1>1 DEF FullInv, Cached, CacheAccounted
<1>10. QED BY <1>6, <1>7, <1>8, <1>9 DEF FullInv

\* The index goes around a list of n.
LEMMA Around ==
    \A n, i \in Nat : i < n =>
        /\ i % n = i
        /\ (i + 1) % n = IF i + 1 = n THEN 0 ELSE i + 1
        /\ (i + 1) % n \in Nat /\ (i + 1) % n < n
  OBVIOUS

\* An index below n is a place.
LEMMA InList == \A n, i \in Nat : i < n => i + 1 \in 1 .. n
  OBVIOUS

\* The next attempt asks the server at the index, which it has moved on if it
\* is not the first; who else is between attempts has a rival.
LEMMA NextServerInv ==
    ASSUME FullInv, NEW g \in Goroutines, NextServer(g), IInv' PROVE FullInv'
<1> DEFINE n == Len(servers)
           s == servers[(idx' % n) + 1]
<1>1. /\ pc[g] = "next"
      /\ idx' = IF try[g] > 0 THEN (idx + 1) % n ELSE idx
      /\ srv' = [srv EXCEPT ![g] = s]
      /\ tried' = [tried EXCEPT ![g] = @ \cup {s}]
      /\ rivals' = [h \in Goroutines |->
                      rivals[h] \/ (try[g] > 0 /\ h # g /\ InGET(h))]
      /\ pc' = [pc EXCEPT ![g] = "wait"]
      /\ UNCHANGED <<servers, depotKeys, chunkCache, cacheBytes, phase, depot,
                     calls, want, try, outcome>>
  BY DEF NextServer, Goto, Rotate, IdxAfter, cacheVars, itemVars
<1>2. /\ pc'[g] = "wait" /\ \A h \in Goroutines \ {g} : pc'[h] = pc[h]
      /\ tried'[g] = tried[g] \cup {s}
      /\ \A h \in Goroutines \ {g} : tried'[h] = tried[h]
      /\ \A h \in Goroutines :
           rivals'[h] = (rivals[h] \/ (try[g] > 0 /\ h # g /\ InGET(h)))
  BY <1>1 DEF FullInv, IInv, TypeOK
<1>3. /\ servers # <<>> /\ try[g] < Tries /\ InGET(g) /\ try[g] \in Nat
      /\ servers \in Seq(Nat) /\ n \in Nat /\ n > 0 /\ idx \in Nat /\ idx < n
  BY <1>1, CdnAssumption DEF FullInv, TypeOK, Calls, InGET
<1> HIDE DEF n
<1>4. idx' \in Nat /\ idx' < n /\ idx' % n = idx'
  <2>1. idx' \in Nat /\ idx' < n
    BY <1>1, <1>3, Around
  <2>2. QED BY <1>3, <2>1, Around
<1>5. s = servers[idx' + 1] /\ s \in Nat
  <2>1. s = servers[idx' + 1]
    BY <1>4
  <2>2. idx' + 1 \in 1 .. n
    BY <1>3, <1>4, InList
  <2> HIDE DEF s
  <2>3. QED BY <1>3, <2>1, <2>2 DEF n
<1> HIDE DEF s
<1>6. TypeOK'
  <2>1. /\ srv' \in [Goroutines -> Nat]
        /\ tried' \in [Goroutines -> SUBSET Nat]
    BY <1>1, <1>5 DEF FullInv, TypeOK
  <2>2. rivals' \in [Goroutines -> BOOLEAN]
    BY <1>1 DEF FullInv, TypeOK
  <2>3. QED BY <1>1, <1>4, <2>1, <2>2 DEF FullInv, IInv, TypeOK, n
<1>7. Calls'
  BY <1>1, <1>2, <1>3 DEF FullInv, Calls, InGET
<1>8. Covered'
  <2>1. ASSUME NEW k \in 0 .. try[g], k < n, ~rivals[g]
        PROVE  servers[Before(k)'] \in tried'[g]
    <3>1. CASE k = 0
      BY <1>1, <1>2, <1>4, <1>5, <3>1 DEF Before
    <3>2. CASE k > 0
      <4>1. k - 1 \in 0 .. try[g] - 1 /\ k - 1 \in Nat /\ try[g] > 0
        BY <1>3, <2>1, <3>2
      <4>2. servers[Before(k - 1)] \in tried[g]
        <5>1. AskedBack(g, try[g] - 1) /\ k - 1 < Len(servers)
          BY <1>1, <1>3, <2>1, <4>1 DEF FullInv, Covered, n
        <5>2. QED BY <4>1, <5>1 DEF AskedBack
      <4>3. Before(k)' = Before(k - 1)
        <5>1. PICK j \in Nat : j = idx'
          BY <1>4
        <5>2. j = IF idx + 1 = n THEN 0 ELSE idx + 1
          BY <1>1, <1>3, <4>1, <5>1, Around
        <5>3. Before(k)' = (IF k <= j THEN j - k ELSE j + n - k) + 1
          BY <1>1, <5>1 DEF Before, n
        <5>4. k \in Nat /\ 0 < k /\ k < n /\ n \in Nat /\ idx \in Nat /\ idx < n
          BY <1>3, <2>1, <3>2
        <5>5. (IF k <= j THEN j - k ELSE j + n - k)
                = IF k - 1 <= idx THEN idx - (k - 1) ELSE idx + n - (k - 1)
          BY <5>2, <5>4
        <5>6. QED BY <5>3, <5>5 DEF Before, n
      <4>4. QED BY <1>2, <4>2, <4>3
    <3>3. QED BY <2>1, <3>1, <3>2
  <2>2. ASSUME NEW h \in Goroutines \ {g}, ~rivals'[h], pc'[h] \in {"next", "wait"}
        PROVE  ~rivals[h] /\ pc[h] = pc'[h] /\ idx' = idx
    BY <1>1, <1>2, <1>3, <2>2 DEF InGET
  <2>3. ~rivals'[g] => ~rivals[g]
    BY <1>2
  <2>4. \A h \in Goroutines \ {g} : ~rivals'[h] =>
          /\ pc'[h] = "next" /\ try'[h] > 0 => AskedBack(h, try[h] - 1)'
          /\ pc'[h] = "wait" => AskedBack(h, try[h])'
    <3> SUFFICES ASSUME NEW h \in Goroutines \ {g}, ~rivals'[h],
                        pc'[h] \in {"next", "wait"}
                 PROVE  /\ pc'[h] = "next" /\ try'[h] > 0
                             => AskedBack(h, try[h] - 1)'
                        /\ pc'[h] = "wait" => AskedBack(h, try[h])'
      OBVIOUS
    <3>1. /\ ~rivals[h] /\ pc[h] = pc'[h] /\ idx' = idx
          /\ servers' = servers /\ try' = try /\ tried'[h] = tried[h]
      BY <1>1, <1>2, <2>2
    <3>2. /\ pc[h] = "next" /\ try[h] > 0 => AskedBack(h, try[h] - 1)
          /\ pc[h] = "wait" => AskedBack(h, try[h])
      BY <3>1 DEF FullInv, Covered
    <3>3. QED BY <3>1, <3>2 DEF AskedBack, Before
  <2>5. ~rivals'[g] => AskedBack(g, try[g])'
    BY <1>1, <2>1, <2>3 DEF AskedBack, n
  <2>6. QED BY <1>1, <1>2, <2>4, <2>5 DEF Covered
<1>9. GivesUpAfterAll'
  <2>1. outcome[g] = "none"
    BY <1>1 DEF FullInv, Calls
  <2>2. QED BY <1>1, <1>2, <2>1 DEF FullInv, GivesUpAfterAll
<1>10. Cached'
  BY <1>1 DEF FullInv, Cached, CacheAccounted
<1>11. QED BY <1>6, <1>7, <1>8, <1>9, <1>10 DEF FullInv

\* The places back from the index are all places, when they are enough.
LEMMA AllPlaces ==
    ASSUME servers # <<>>, servers \in Seq(Nat), idx \in Nat, idx < Len(servers),
           NEW g \in Goroutines, AskedBack(g, Tries - 1), Len(servers) <= Tries
    PROVE  \A i \in 1 .. Len(servers) : servers[i] \in tried[g]
<1> SUFFICES ASSUME NEW i \in 1 .. Len(servers) PROVE servers[i] \in tried[g]
  OBVIOUS
<1> DEFINE k == IF i <= idx + 1 THEN idx + 1 - i ELSE idx + 1 + Len(servers) - i
<1>1. k \in 0 .. Tries - 1 /\ k < Len(servers) /\ Before(k) = i
  BY CdnAssumption DEF Before
<1> HIDE DEF k
<1>2. QED BY <1>1 DEF AskedBack

\* The attempt failed: the next one follows, or the call gives up.
LEMMA ReplyRetryInv ==
    ASSUME FullInv, NEW g \in Goroutines, ReplyRetry(g), IInv' PROVE FullInv'
<1>1. /\ pc[g] = "wait"
      /\ UNCHANGED <<servers, idx, depotKeys, chunkCache, cacheBytes, phase,
                     depot, calls, tried, rivals>>
  BY DEF ReplyRetry, listVars, cacheVars, itemVars
<1>2. /\ servers # <<>> /\ try[g] < Tries /\ try[g] \in Nat
      /\ servers \in Seq(Nat) /\ idx \in Nat /\ idx < Len(servers)
      /\ ~rivals[g] => AskedBack(g, try[g])
  BY <1>1, CdnAssumption DEF FullInv, TypeOK, Calls, Covered, InGET
<1>3. Cached'
  BY <1>1 DEF FullInv, Cached, CacheAccounted
<1>4. CASE try[g] + 1 < Tries
  <2>1. /\ pc' = [pc EXCEPT ![g] = "next"]
        /\ try' = [try EXCEPT ![g] = try[g] + 1]
        /\ UNCHANGED <<want, outcome, srv>>
    BY <1>4 DEF ReplyRetry, TryAfter, Goto
  <2>2. /\ pc'[g] = "next" /\ \A h \in Goroutines \ {g} : pc'[h] = pc[h]
        /\ try'[g] = try[g] + 1 /\ \A h \in Goroutines \ {g} : try'[h] = try[h]
    BY <2>1 DEF FullInv, IInv, TypeOK
  <2>3. TypeOK'
    <3>1. try[g] + 1 \in 0 .. Tries
      BY <1>2, <1>4, CdnAssumption
    <3>2. try' \in [Goroutines -> 0 .. Tries]
      BY <2>1, <3>1 DEF FullInv, TypeOK
    <3>3. QED BY <1>1, <2>1, <3>2 DEF FullInv, IInv, TypeOK
  <2>4. Calls'
    BY <1>1, <1>2, <1>4, <2>1, <2>2 DEF FullInv, Calls, InGET
  <2>5. Covered'
    <3>1. ~rivals[g] => AskedBack(g, try[g] - 1)'
      <4>1. try'[g] - 1 = try[g]
        BY <1>2, <2>2
      <4>2. QED BY <1>1, <1>2, <4>1 DEF AskedBack, Before
    <3>3. ASSUME NEW h \in Goroutines \ {g}, ~rivals[h]
          PROVE  /\ pc'[h] = "next" /\ try'[h] > 0 => AskedBack(h, try[h] - 1)'
                 /\ pc'[h] = "wait" => AskedBack(h, try[h])'
      BY <1>1, <2>2, <3>3 DEF FullInv, Covered, AskedBack, Before
    <3>4. QED BY <1>1, <2>2, <3>1, <3>3 DEF Covered
  <2>6. GivesUpAfterAll'
    BY <1>1, <2>1 DEF FullInv, GivesUpAfterAll
  <2>7. QED BY <1>3, <2>3, <2>4, <2>5, <2>6 DEF FullInv
<1>5. CASE ~(try[g] + 1 < Tries)
  <2>1. /\ pc' = [pc EXCEPT ![g] = "idle"]
        /\ outcome' = [outcome EXCEPT ![g] = "tries"]
        /\ want' = [want EXCEPT ![g] = Nothing]
        /\ try' = [try EXCEPT ![g] = 0] /\ srv' = [srv EXCEPT ![g] = 0]
    BY <1>5 DEF ReplyRetry, TryAfter, Return, Forget, Goto
  <2>2. /\ pc'[g] = "idle" /\ \A h \in Goroutines \ {g} : pc'[h] = pc[h]
        /\ try'[g] = 0 /\ \A h \in Goroutines \ {g} : try'[h] = try[h]
        /\ outcome'[g] = "tries"
        /\ \A h \in Goroutines \ {g} : outcome'[h] = outcome[h] /\ want'[h] = want[h]
    BY <2>1 DEF FullInv, IInv, TypeOK
  <2>3. TypeOK'
    <3>1. 0 \in 0 .. Tries
      BY CdnAssumption
    <3>2. try' \in [Goroutines -> 0 .. Tries]
      BY <2>1, <3>1 DEF FullInv, TypeOK
    <3>3. srv' \in [Goroutines -> Nat] /\ want' \in [Goroutines -> Chunks \cup {Nothing}]
      BY <2>1 DEF FullInv, TypeOK
    <3>4. QED BY <1>1, <3>2, <3>3 DEF FullInv, IInv, TypeOK
  <2>4. Calls'
    BY <1>1, <1>2, <2>2 DEF FullInv, Calls, InGET
  <2>5. Covered'
    BY <1>1, <2>2 DEF FullInv, Covered, AskedBack, Before
  <2>6. GivesUpAfterAll'
    <3>1. try[g] = Tries - 1
      <4>1. try[g] \in Nat /\ try[g] < Tries
        BY <1>2
      <4>2. Tries \in Nat /\ ~(try[g] + 1 < Tries)
        BY <1>5, CdnAssumption
      <4>3. QED BY <4>1, <4>2
    <3>2. ~rivals[g] /\ Len(servers) <= Tries
            => \A i \in 1 .. Len(servers) : servers[i] \in tried[g]
      BY <1>2, <3>1, AllPlaces
    <3>3. QED BY <1>1, <2>2, <3>2 DEF FullInv, GivesUpAfterAll
  <2>7. QED BY <1>3, <2>3, <2>4, <2>5, <2>6 DEF FullInv
<1>6. QED BY <1>4, <1>5

\* The steps of a call.
LEMMA FullCall == ASSUME FullInv, NEW g \in Goroutines, Call(g) PROVE FullInv'
<1>0. IInv'
  BY CallInv DEF FullInv
<1>1. /\ phase \in {"idle", "manifest", "files"}
      /\ depot \in Depots \cup {Nothing} /\ (phase # "idle" => depot \in Depots)
      /\ depotKeys \subseteq Depots /\ calls \in 0 .. MaxCalls
      /\ chunkCache \subseteq Chunks /\ cacheBytes \in Nat /\ Cached
  BY DEF FullInv, TypeOK, Calls
<1>2. /\ g # Main => g \in Workers
      /\ pc[g] # "idle" => phase # "idle"
      /\ pc[g] # "idle" /\ g # Main => want[g] \in Chunks
      /\ pc[Main] \notin {"cache", "store"}
  BY DEF FullInv, IInv, ManifestFirst, Calls, Goroutines
<1>3. ASSUME UNCHANGED <<chunkCache, cacheBytes>> PROVE Cached'
  BY <1>1, <1>3 DEF Cached, CacheAccounted
<1>4. ASSUME NEW l \in Steps \ {"next", "wait", "fetch"},
             NEW how \in Outcomes \ {"tries"},
             pc[g] # "idle",
             \/ Goto(g, l) /\ UNCHANGED <<want, outcome>>
             \/ Return(g, how),
             \/ ~InGET(g) /\ UNCHANGED <<try, srv>>
             \/ Forget(g),
             depotKeys' \subseteq Depots,
             chunkCache' \subseteq Chunks, cacheBytes' \in Nat, Cached',
             UNCHANGED <<phase, depot, calls, servers, idx, tried, rivals>>
      PROVE  FullInv'
  <2>1. "idle" \in Steps \ {"next", "wait", "fetch"}
    BY DEF Steps
  <2>2. CASE Goto(g, l) /\ UNCHANGED <<want, outcome>>
    BY <1>0, <1>1, <1>4, <2>2, OutsideInv DEF Goto, Forget
  <2>3. CASE Return(g, how)
    BY <1>0, <1>1, <1>4, <2>1, <2>3, OutsideInv DEF Goto, Return, Forget
  <2>4. QED BY <1>4, <2>2, <2>3
<1> USE DEF Steps, Outcomes, listVars, cacheVars, itemVars, getVars, InGET
<1>5. CASE LookInCache(g)
  BY <1>1, <1>3, <1>4, <1>5 DEF LookInCache
<1>6. CASE EnsureServers(g)
  BY <1>0, <1>6, EnsureServersInv
<1>7. CASE FetchFromWebAPI(g)
  <2>1. CASE Goto(g, "next")
    <3>1. pc'[g] = "next"
      BY <2>1 DEF Goto, FullInv, IInv
    <3>2. QED BY <1>0, <1>7, <3>1, FetchedInv
  <2>2. CASE Return(g, "error") /\ UNCHANGED listVars
    BY <1>1, <1>3, <1>4, <1>7, <2>2 DEF FetchFromWebAPI
  <2>3. QED BY <1>7, <2>1, <2>2 DEF FetchFromWebAPI
<1>8. CASE NextServer(g)
  BY <1>0, <1>8, NextServerInv
<1>9. CASE Reply200(g)
  BY <1>1, <1>3, <1>4, <1>9 DEF Reply200
<1>10. CASE ReplyRetry(g)
  BY <1>0, <1>10, ReplyRetryInv
<1>11. CASE ReplyRefused(g)
  BY <1>1, <1>3, <1>4, <1>11 DEF ReplyRefused
<1>12. CASE LookForKey(g)
  BY <1>1, <1>3, <1>4, <1>12 DEF LookForKey, Decode
<1>13. CASE AskForKey(g)
  <2>1. depotKeys' \subseteq Depots
    BY <1>1, <1>2, <1>13 DEF AskForKey, KeysWithDepot
  <2>2. QED BY <1>1, <1>3, <1>4, <1>13, <2>1 DEF AskForKey, Decode
<1>14. CASE Store(g)
  <2>1. want[g] \in Chunks
    BY <1>2, <1>14 DEF Store
  <2>2. Cached' /\ chunkCache' \subseteq Chunks /\ cacheBytes' \in Nat
    BY <1>1, <1>14, <2>1, StoreCached
  <2>3. QED BY <1>1, <1>4, <1>14, <2>2 DEF Store
<1>15. QED
  BY <1>5, <1>6, <1>7, <1>8, <1>9, <1>10, <1>11, <1>12, <1>13, <1>14 DEF Call

\* The steps of DownloadItem.
LEMMA FullItem ==
    ASSUME FullInv, Item \/ \E g \in Workers, s \in Shas : GetChunk(g, s)
    PROVE  FullInv'
<1>0. IInv'
  BY ItemInv, GetChunkInv DEF FullInv
<1>1. /\ phase \in {"idle", "manifest", "files"}
      /\ depot \in Depots \cup {Nothing} /\ (phase # "idle" => depot \in Depots)
      /\ depotKeys \subseteq Depots /\ calls \in 0 .. MaxCalls
      /\ chunkCache \subseteq Chunks /\ cacheBytes \in Nat /\ Cached
  BY DEF FullInv, TypeOK, Calls
<1>2. ASSUME UNCHANGED <<chunkCache, cacheBytes>> PROVE Cached'
  BY <1>1, <1>2 DEF Cached, CacheAccounted
<1>3. calls < MaxCalls => calls + 1 \in 0 .. MaxCalls
  BY <1>1, CdnAssumption
<1> USE DEF Steps, Outcomes, listVars, cacheVars, itemVars, getVars, InGET
<1>4. ASSUME NEW d \in Depots, StartItem(d) PROVE FullInv'
  <2>1. Main \in Goroutines /\ ~InGET(Main)
    BY <1>4 DEF StartItem, FullInv, IInv, ManifestFirst, Goroutines
  <2>2. QED
    BY <1>0, <1>1, <1>2, <1>3, <1>4, <2>1, OutsideInv DEF StartItem, Goto
<1>5. ASSUME NEW g \in Workers, NEW s \in Shas, GetChunk(g, s) PROVE FullInv'
  <2>1. g \in Goroutines /\ pc[g] = "idle" /\ <<depot, s>> \in Chunks
    BY <1>1, <1>5 DEF GetChunk, Goroutines, Chunks
  <2>2. /\ pc' = [pc EXCEPT ![g] = "cache"]
        /\ outcome' = [outcome EXCEPT ![g] = "none"]
        /\ \E w \in Chunks : want' = [want EXCEPT ![g] = w]
        /\ calls' \in 0 .. MaxCalls
        /\ UNCHANGED <<servers, idx, depotKeys, chunkCache, cacheBytes, phase,
                       depot, try, srv, tried, rivals>>
    BY <1>3, <1>5, <2>1 DEF GetChunk, Goto
  <2>3. Cached' /\ ~InGET(g)
    BY <1>2, <2>1, <2>2
  <2>4. /\ "cache" \in Steps \ {"next", "wait", "fetch"}
        /\ "none" \in Outcomes \ {"tries"}
    OBVIOUS
  <2>5. /\ phase' \in {"idle", "manifest", "files"}
        /\ depot' \in Depots \cup {Nothing} /\ (phase' # "idle" => depot' \in Depots)
        /\ depotKeys' \subseteq Depots
        /\ chunkCache' \subseteq Chunks /\ cacheBytes' \in Nat
    BY <1>1, <2>2
  <2> HIDE DEF Steps, Outcomes
  <2>6. QED BY <1>0, <2>1, <2>2, <2>3, <2>4, <2>5, OutsideInv
<1>6. CASE ManifestDone \/ EndItem
  <2>1. /\ UNCHANGED <<servers, idx, depotKeys, chunkCache, cacheBytes, depot,
                       calls, pc, want, try, srv, tried, rivals, outcome>>
        /\ phase' \in {"idle", "manifest", "files"}
        /\ phase # "idle"
    BY <1>6 DEF ManifestDone, EndItem
  <2>2. TypeOK' /\ Calls' /\ Covered' /\ GivesUpAfterAll'
    BY <1>1, <2>1 DEF FullInv, TypeOK, Calls, Covered, AskedBack, Before,
                      GivesUpAfterAll
  <2>3. QED BY <1>0, <1>2, <2>1, <2>2 DEF FullInv
<1>7. QED BY <1>4, <1>5, <1>6 DEF Item

\* The invariant holds in every state of the specification.
LEMMA FullInvariance == Spec => []FullInv
<1>1. Init => FullInv
  <2> SUFFICES ASSUME Init PROVE FullInv
    OBVIOUS
  <2>1. IInv
    BY InitInv
  <2>2. 0 \in 0 .. Tries /\ 0 \in 0 .. MaxCalls
    BY CdnAssumption
  <2>3. TypeOK
    BY <2>1, <2>2 DEF Init, IInv, TypeOK
  <2>4. Calls /\ Covered /\ GivesUpAfterAll
    BY DEF Init, Calls, Covered, GivesUpAfterAll, InGET
  <2>5. Cached
    BY FS_EmptySet, BytesEmpty, CdnAssumption DEF Init, Cached, CacheAccounted
  <2>6. QED BY <2>1, <2>3, <2>4, <2>5 DEF FullInv
<1>2. ASSUME FullInv, UNCHANGED vars PROVE FullInv'
  <2>1. UNCHANGED <<servers, idx, depotKeys, chunkCache, cacheBytes, phase,
                    depot, calls, pc, want, try, srv, tried, rivals, outcome>>
    BY <1>2 DEF vars, listVars, cacheVars, itemVars, getVars
  <2>2. IInv'
    BY <1>2, NextInv DEF FullInv
  <2>3. TypeOK' /\ Calls'
    BY <1>2, <2>1 DEF FullInv, TypeOK, Calls, InGET
  <2>4. Covered' /\ GivesUpAfterAll'
    BY <1>2, <2>1 DEF FullInv, Covered, AskedBack, Before, GivesUpAfterAll
  <2>5. Cached'
    BY <1>2, <2>1 DEF FullInv, Cached, CacheAccounted
  <2>6. QED BY <2>2, <2>3, <2>4, <2>5 DEF FullInv
<1>3. FullInv /\ [Next]_vars => FullInv'
  BY <1>2, FullItem, FullCall DEF Next, Finished
<1>4. QED BY <1>1, <1>3, PTL DEF Spec

-----------------------------------------------------------------------------

(***************************************************************************)
(* The types, and the cache accounted for: the counter is the sum of the   *)
(* sizes of the chunks in it and stays within the budget, for any number   *)
(* of workers that store what they downloaded one after the other          *)
(* (client.go 301-317).                                                    *)
(***************************************************************************)
THEOREM CacheStaysAccounted == Spec => []Consistent
<1>1. FullInv => Consistent
  BY DEF FullInv, Cached, Consistent
<1>2. QED BY <1>1, FullInvariance, PTL

(***************************************************************************)
(* A request whose goroutine had the list for itself and gave up after its *)
(* attempts has asked every server of the list, wherever in it the index   *)
(* was when it began (client.go 112, servers.go 81-83).                    *)
(***************************************************************************)
THEOREM EveryServerAsked == Spec => []GivesUpAfterAll
<1>1. FullInv => GivesUpAfterAll
  BY DEF FullInv
<1>2. QED BY <1>1, FullInvariance, PTL

-----------------------------------------------------------------------------
(* A cache is a sequence of entries with different keys. *)

Distinct(c) == \A i, j \in DOMAIN c : c[i].key = c[j].key => i = j

\* c without its i-th entry.
Cut(c, i) == SubSeq(c, 1, i - 1) \o SubSeq(c, i + 1, Len(c))

\* The others move up.
LEMMA CutAt ==
    ASSUME NEW S, NEW c \in Seq(S), NEW i \in 1 .. Len(c)
    PROVE  /\ Cut(c, i) \in Seq(S)
           /\ Len(Cut(c, i)) = Len(c) - 1
           /\ \A j \in 1 .. Len(c) - 1 :
                 Cut(c, i)[j] = IF j < i THEN c[j] ELSE c[j + 1]
<1> DEFINE a == SubSeq(c, 1, i - 1)
           b == SubSeq(c, i + 1, Len(c))
<1>1. /\ a \in Seq(S) /\ Len(a) = i - 1
      /\ \A j \in 1 .. i - 1 : a[j] = c[j]
  OBVIOUS
<1>2. /\ b \in Seq(S) /\ Len(b) = Len(c) - i
      /\ \A j \in 1 .. Len(c) - i : b[j] = c[i + j]
  OBVIOUS
<1> HIDE DEF a, b
<1>3. a \o b \in Seq(S) /\ Len(a \o b) = Len(c) - 1
  <2>1. a \o b \in Seq(S) /\ Len(a \o b) = Len(a) + Len(b)
    BY <1>1, <1>2, ConcatProperties
  <2>2. Len(c) \in Nat /\ i \in Nat
    OBVIOUS
  <2>3. QED BY <1>1, <1>2, <2>1, <2>2
<1>4. ASSUME NEW j \in 1 .. Len(c) - 1
      PROVE  (a \o b)[j] = IF j < i THEN c[j] ELSE c[j + 1]
  <2>1. CASE j < i
    BY <1>1, <1>2, <2>1
  <2>2. CASE ~(j < i)
    <3>1. j - (i - 1) \in 1 .. Len(c) - i /\ i + (j - (i - 1)) = j + 1
      BY <2>2
    <3>2. (a \o b)[j] = b[j - (i - 1)]
      BY <1>1, <1>2, <2>2
    <3>3. QED BY <1>2, <2>2, <3>1, <3>2
  <2>3. QED BY <2>1, <2>2
<1>5. QED BY <1>3, <1>4 DEF Cut, a, b

\* What is left has other keys.
LEMMA CutDistinct ==
    ASSUME NEW S, NEW c \in Seq(S), Distinct(c), NEW i \in 1 .. Len(c)
    PROVE  /\ Distinct(Cut(c, i))
           /\ \A j \in DOMAIN Cut(c, i) : Cut(c, i)[j].key # c[i].key
           /\ Range(Cut(c, i)) = Range(c) \ {c[i]}
<1>1. /\ Cut(c, i) \in Seq(S)
      /\ DOMAIN Cut(c, i) = 1 .. Len(c) - 1
      /\ \A j \in 1 .. Len(c) - 1 :
            Cut(c, i)[j] = IF j < i THEN c[j] ELSE c[j + 1]
  BY CutAt
<1>2. DOMAIN c = 1 .. Len(c)
  OBVIOUS
<1> DEFINE f(j) == IF j < i THEN j ELSE j + 1
<1>3. /\ \A j \in 1 .. Len(c) - 1 : f(j) \in 1 .. Len(c) /\ f(j) # i
      /\ \A j, l \in 1 .. Len(c) - 1 : f(j) = f(l) => j = l
      /\ \A j \in 1 .. Len(c) - 1 : Cut(c, i)[j] = c[f(j)]
  BY <1>1
<1>6. ASSUME NEW m \in 1 .. Len(c), m # i
      PROVE  \E j \in 1 .. Len(c) - 1 : Cut(c, i)[j] = c[m]
  <2>1. CASE m < i
    <3>1. m \in 1 .. Len(c) - 1 /\ f(m) = m
      BY <2>1
    <3>2. QED BY <1>3, <3>1
  <2>2. CASE m > i
    <3>1. m - 1 \in 1 .. Len(c) - 1 /\ f(m - 1) = m
      BY <2>2
    <3>2. QED BY <1>3, <3>1
  <2>3. QED BY <1>6, <2>1, <2>2
<1> HIDE DEF f
<1>4. Distinct(Cut(c, i))
  BY <1>1, <1>2, <1>3 DEF Distinct
<1>5. \A j \in DOMAIN Cut(c, i) : Cut(c, i)[j].key # c[i].key
  BY <1>1, <1>2, <1>3 DEF Distinct
<1>7. \A m \in 1 .. Len(c) : m # i => c[m] # c[i]
  BY <1>2 DEF Distinct
<1>8. Range(Cut(c, i)) = Range(c) \ {c[i]}
  <2>1. Range(Cut(c, i)) \subseteq Range(c) \ {c[i]}
    BY <1>1, <1>2, <1>3, <1>7 DEF Range
  <2>2. Range(c) \ {c[i]} \subseteq Range(Cut(c, i))
    <3> SUFFICES ASSUME NEW m \in 1 .. Len(c), c[m] # c[i]
                 PROVE  c[m] \in Range(Cut(c, i))
      BY <1>2 DEF Range
    <3>1. PICK j \in 1 .. Len(c) - 1 : Cut(c, i)[j] = c[m]
      BY <1>6
    <3>2. QED BY <1>1, <3>1 DEF Range
  <2>3. QED BY <2>1, <2>2
<1>9. QED BY <1>4, <1>5, <1>8

\* An entry with a new key comes last.
LEMMA AppendDistinct ==
    ASSUME NEW S, NEW c \in Seq(S), Distinct(c), NEW e \in S,
           \A j \in DOMAIN c : c[j].key # e.key
    PROVE  /\ Append(c, e) \in Seq(S) /\ Distinct(Append(c, e))
           /\ Len(Append(c, e)) = Len(c) + 1
           /\ Range(Append(c, e)) = Range(c) \cup {e}
<1>1. /\ Append(c, e) \in Seq(S) /\ Len(Append(c, e)) = Len(c) + 1
      /\ DOMAIN c = 1 .. Len(c) /\ DOMAIN Append(c, e) = 1 .. Len(c) + 1
      /\ \A j \in 1 .. Len(c) : Append(c, e)[j] = c[j]
      /\ Append(c, e)[Len(c) + 1] = e
  OBVIOUS
<1>2. Distinct(Append(c, e))
  BY <1>1 DEF Distinct
<1>3. Range(Append(c, e)) = Range(c) \cup {e}
  BY <1>1 DEF Range
<1>4. QED BY <1>1, <1>2, <1>3

-----------------------------------------------------------------------------
(* ttlCache. *)

\* Where an entry is.
LEMMA At ==
    ASSUME NEW S, NEW c \in Seq(S), NEW k, k \in Keys(c)
    PROVE  /\ Position(c, k) \in 1 .. Len(c)
           /\ c[Position(c, k)].key = k /\ c[Position(c, k)] \in S
<1>1. \E i \in DOMAIN c : c[i].key = k
  BY DEF Keys
<1>2. Position(c, k) \in DOMAIN c /\ c[Position(c, k)].key = k
  BY <1>1 DEF Position
<1>3. QED BY <1>2

\* c without what is under a key.
LEMMA WithoutIs ==
    ASSUME NEW S, NEW c \in Seq(S), Distinct(c), NEW k
    PROVE  /\ Without(c, k) \in Seq(S) /\ Distinct(Without(c, k))
           /\ \A j \in DOMAIN Without(c, k) : Without(c, k)[j].key # k
           /\ Len(Without(c, k)) <= Len(c)
           /\ k \in Keys(c) => Len(Without(c, k)) = Len(c) - 1
<1>1. CASE k \in Keys(c)
  <2>1. Position(c, k) \in 1 .. Len(c) /\ c[Position(c, k)].key = k
    BY <1>1, At
  <2>2. Without(c, k) = Cut(c, Position(c, k))
    BY <1>1 DEF Without, RemoveAt, Cut
  <2> DEFINE i == Position(c, k)
  <2> HIDE DEF i
  <2>3. i \in 1 .. Len(c) /\ c[i].key = k /\ Without(c, k) = Cut(c, i)
    BY <2>1, <2>2 DEF i
  <2>4. Cut(c, i) \in Seq(S) /\ Len(Cut(c, i)) = Len(c) - 1
    BY <2>3, CutAt
  <2>5. /\ Distinct(Cut(c, i))
        /\ \A j \in DOMAIN Cut(c, i) : Cut(c, i)[j].key # k
    BY <2>3, CutDistinct
  <2>6. QED BY <2>3, <2>4, <2>5
<1>2. CASE k \notin Keys(c)
  <2>1. Without(c, k) = c
    BY <1>2 DEF Without
  <2>2. QED BY <1>2, <2>1 DEF Keys
<1>3. QED BY <1>1, <1>2

\* What is found.
LEMMA HitIs ==
    ASSUME NEW S, NEW c \in Seq(S), Distinct(c), NEW k, Hit(c, k)
    PROVE  /\ k \in Keys(c)
           /\ c[Position(c, k)] \in S /\ c[Position(c, k)].key = k
           /\ c[Position(c, k)].expires > now
           /\ Value(c, k) = c[Position(c, k)].value
<1>1. PICK i \in DOMAIN c : c[i].key = k /\ c[i].expires > now
  BY DEF Hit
<1>2. k \in Keys(c)
  BY <1>1 DEF Keys
<1>3. Position(c, k) = i
  BY <1>1, <1>2, At DEF Distinct
<1>4. QED BY <1>1, <1>2, <1>3, At DEF Value

\* Looking moves an entry or removes it.
LEMMA AfterGetIs ==
    ASSUME NEW S, NEW c \in Seq(S), Distinct(c), NEW k
    PROVE  /\ AfterGet(c, k) \in Seq(S) /\ Distinct(AfterGet(c, k))
           /\ Len(AfterGet(c, k)) <= Len(c)
<1>1. CASE Hit(c, k)
  <2>1. /\ k \in Keys(c) /\ c[Position(c, k)] \in S
        /\ c[Position(c, k)].key = k
    BY <1>1, HitIs
  <2>2. /\ Without(c, k) \in Seq(S) /\ Distinct(Without(c, k))
        /\ \A j \in DOMAIN Without(c, k) : Without(c, k)[j].key # k
        /\ Len(Without(c, k)) = Len(c) - 1
    BY <2>1, WithoutIs
  <2>3. AfterGet(c, k) = Append(Without(c, k), c[Position(c, k)])
    BY <1>1 DEF AfterGet
  <2> HIDE DEF AfterGet
  <2>4. QED BY <2>1, <2>2, <2>3, AppendDistinct
<1>2. CASE ~Hit(c, k)
  <2>1. AfterGet(c, k) = Without(c, k)
    BY <1>2 DEF AfterGet
  <2>2. QED BY <2>1, WithoutIs
<1>3. QED BY <1>1, <1>2

\* What is stored comes last, and there is room for it.
LEMMA AfterPutIs ==
    ASSUME NEW S, NEW c \in Seq(S), Distinct(c), NEW k, NEW v, NEW ttl,
           NEW max \in Nat \ {0}, Len(c) <= max,
           [key |-> k, value |-> v, expires |-> now + ttl] \in S
    PROVE  /\ AfterPut(c, k, v, ttl, max) \in Seq(S)
           /\ Distinct(AfterPut(c, k, v, ttl, max))
           /\ Len(AfterPut(c, k, v, ttl, max)) <= max
<1> DEFINE e == [key |-> k, value |-> v, expires |-> now + ttl]
           q == Append(Without(c, k), e)
<1>1. /\ Without(c, k) \in Seq(S) /\ Distinct(Without(c, k))
      /\ \A j \in DOMAIN Without(c, k) : Without(c, k)[j].key # e.key
      /\ Len(Without(c, k)) <= Len(c)
  BY WithoutIs
<1>2. e \in S
  OBVIOUS
<1> HIDE DEF e
<1>3. q \in Seq(S) /\ Distinct(q) /\ Len(q) = Len(Without(c, k)) + 1
  BY <1>1, <1>2, AppendDistinct
<1>4. AfterPut(c, k, v, ttl, max) = IF Len(q) > max THEN Tail(q) ELSE q
  BY DEF AfterPut, Evicted, e
<1> HIDE DEF q
<1>5. Len(q) \in Nat /\ Len(q) <= max + 1
  BY <1>1, <1>3
<1>6. CASE Len(q) > max
  <2>1. /\ Tail(q) \in Seq(S) /\ Len(Tail(q)) = Len(q) - 1
        /\ \A j \in 1 .. Len(q) - 1 : Tail(q)[j] = q[j + 1]
    BY <1>3, <1>6
  <2>2. Distinct(Tail(q))
    <3>0. DOMAIN Tail(q) = 1 .. Len(q) - 1
      BY <2>1
    <3> SUFFICES ASSUME NEW i \in 1 .. Len(q) - 1, NEW j \in 1 .. Len(q) - 1,
                        Tail(q)[i].key = Tail(q)[j].key
                 PROVE  i = j
      BY <3>0 DEF Distinct
    <3>1. q[i + 1].key = q[j + 1].key /\ i + 1 \in DOMAIN q /\ j + 1 \in DOMAIN q
      BY <1>3, <2>1
    <3>2. i + 1 = j + 1
      BY <1>3, <3>1 DEF Distinct
    <3>3. QED BY <3>2
  <2>3. QED BY <1>4, <1>5, <1>6, <2>1, <2>2
<1>7. CASE ~(Len(q) > max)
  BY <1>3, <1>4, <1>5, <1>7
<1>8. QED BY <1>6, <1>7
-----------------------------------------------------------------------------
(* The invariant of the pages: where every value comes from. *)

\* What a browser may ask for: a page without a cursor or with its own, an item;
\* or anything, when a page up to this one has been asked for like that.
Belongs(l, p, c) == c = p \/ Misled(l, p)
Requests == {r \in Langs \X Pages \X Cursors : r[3] # 0 => Belongs(r[1], r[2], r[3])}

\* Pages that are in the list where they say, unless somebody misled them.
ListPages == {ListPage(r[1], r[2], Place(r), t) : r \in Requests, t \in 0 .. MaxTime}
ItemPages == {ItemPage(l, id, t) : l \in Langs, id \in Pages, t \in 0 .. MaxTime}

\* Entries of the three caches: each under its own key, and with a lifetime
\* that began when Steam answered.
Filed(k, v, t, ttl) == [key |-> k, value |-> v, expires |-> t + ttl]

QueryEntries == {Filed(r, ListPage(r[1], r[2], Place(r), t), t, QueryTTL) :
                    r \in Requests, t \in 0 .. MaxTime}
ItemEntries == {Filed(<<l, id>>, ItemPage(l, id, t), t, ItemTTL) :
                    l \in Langs, id \in Pages, t \in 0 .. MaxTime}
Links == {r \in Langs \X Pages \X Pages : Belongs(r[1], r[2], r[3] - 1)}
NextEntries == {Filed(<<r[1], r[2]>>, r[3], t, QueryTTL) :
                    r \in Links, t \in 0 .. MaxTime}

CacheOK(c, S, max) == c \in Seq(S) /\ Distinct(c) /\ Len(c) <= max

CachesOK ==
    /\ CacheOK(queries, QueryEntries, MaxQueries)
    /\ CacheOK(items, ItemEntries, MaxItems)
    /\ CacheOK(pageNext, NextEntries, MaxNext)

\* What the place of a handler says of what it has in hand.
PlaceOK(h) ==
    /\ shown[h] \in ListPages \cup ItemPages \cup {None}
    /\ step[h] # "idle" => ask[h] \in Requests
    /\ step[h] \in {"look", "query", "put", "seed", "chain"} =>
          key[h] \in Requests /\ key[h][1] = Lang(h) /\ key[h][2] = Number(h)
    /\ step[h] \in {"put", "seed", "chain"} =>
          val[h] = ListPage(Lang(h), Number(h), Place(key[h]), now)
    /\ step[h] = "putItem" => val[h] = ItemPage(Lang(h), Number(h), now)

StepNames == {"idle", "cursor", "look", "query", "put", "seed", "chain",
              "lookItem", "details", "putItem"}

HandlerTypes ==
    /\ step \in [Handlers -> StepNames]
    /\ ask \in [Handlers -> (Langs \X Pages \X Cursors) \cup {None}]
    /\ key \in [Handlers -> (Langs \X Pages \X Cursors) \cup {None}]
    /\ val \in [Handlers -> Contents \cup {None}]
    /\ shown \in [Handlers -> Contents \cup {None}]

PagesInv ==
    /\ now \in 0 .. MaxTime /\ asks \in 0 .. MaxAsks
    /\ strays \subseteq Langs \X Pages
    /\ CachesOK
    /\ HandlerTypes
    /\ \A h \in Handlers : PlaceOK(h)
-----------------------------------------------------------------------------
(* The pages: a step of a handler leaves the others where they are. *)

\* Pages of the list and items are contents.
LEMMA Shapes ==
    /\ ListPages \subseteq Contents /\ ItemPages \subseteq Contents
    /\ Requests \subseteq Langs \X Pages \X Cursors
    /\ \A r \in Requests : /\ r[1] \in Langs /\ r[2] \in Pages /\ r[3] \in Cursors
                           /\ r = <<r[1], r[2], r[3]>> /\ Place(r) \in Pages
    /\ \A l \in Langs, p \in Pages : <<l, p, 0>> \in Requests
    /\ \A p \in Pages : p \in Nat /\ p > 0 /\ p <= NumPages
<1>1. NumPages \in Nat \ {0}
  BY CacheAssumption
<1>2. \A p \in Pages : p \in Nat /\ p > 0 /\ p <= NumPages /\ 0 \in Cursors
  BY <1>1 DEF Pages, Cursors
<1>3. Requests \subseteq Langs \X Pages \X Cursors
  BY DEF Requests
<1>4. \A r \in Requests : /\ r[1] \in Langs /\ r[2] \in Pages /\ r[3] \in Cursors
                          /\ r = <<r[1], r[2], r[3]>>
  BY DEF Requests
<1>5. \A c \in Cursors : c # 0 => c \in Pages
  BY <1>1 DEF Pages, Cursors
<1>6. \A r \in Requests : Place(r) \in Pages
  BY <1>4, <1>5 DEF Place
<1>7. \A l \in Langs, p \in Pages : <<l, p, 0>> \in Requests
  BY <1>2 DEF Requests
<1>8. ListPages \subseteq Contents
  BY <1>4, <1>6 DEF ListPages, Contents
<1>9. ItemPages \subseteq Contents
  BY DEF ItemPages, Contents
<1>10. QED BY <1>2, <1>3, <1>4, <1>6, <1>7, <1>8, <1>9

\* How an entry of a cache is made.
LEMMA EntryOf ==
    /\ \A e \in QueryEntries : \E r \in Requests, t \in 0 .. MaxTime :
          e = Filed(r, ListPage(r[1], r[2], Place(r), t), t, QueryTTL)
    /\ \A e \in ItemEntries : \E l \in Langs, id \in Pages, t \in 0 .. MaxTime :
          e = Filed(<<l, id>>, ItemPage(l, id, t), t, ItemTTL)
    /\ \A e \in NextEntries : \E r \in Links, t \in 0 .. MaxTime :
          e = Filed(<<r[1], r[2]>>, r[3], t, QueryTTL)
<1>1. \A e \in QueryEntries : \E r \in Requests, t \in 0 .. MaxTime :
         e = Filed(r, ListPage(r[1], r[2], Place(r), t), t, QueryTTL)
  BY DEF QueryEntries
<1>2. \A e \in ItemEntries : \E l \in Langs, id \in Pages, t \in 0 .. MaxTime :
         e = Filed(<<l, id>>, ItemPage(l, id, t), t, ItemTTL)
  BY DEF ItemEntries
<1>3. \A e \in NextEntries : \E r \in Links, t \in 0 .. MaxTime :
         e = Filed(<<r[1], r[2]>>, r[3], t, QueryTTL)
  BY DEF NextEntries
<1>4. QED BY <1>1, <1>2, <1>3

\* Whoever asks for a page with the cursor of another one makes more possible,
\* and nothing less.
LEMMA Grows ==
    ASSUME strays \subseteq strays'
    PROVE  /\ Requests \subseteq Requests' /\ ListPages \subseteq ListPages'
           /\ QueryEntries \subseteq QueryEntries' /\ NextEntries \subseteq NextEntries'
<1>1. \A l, p, c : Belongs(l, p, c) => Belongs(l, p, c)'
  BY DEF Belongs, Misled
<1>2. Requests \subseteq Requests'
  BY <1>1 DEF Requests
<1>3. ListPages \subseteq ListPages'
  BY <1>2 DEF ListPages
<1>4. QueryEntries \subseteq QueryEntries'
  BY <1>2 DEF QueryEntries
<1>5. Links \subseteq Links'
  BY <1>1 DEF Links
<1>6. NextEntries \subseteq NextEntries'
  BY <1>5 DEF NextEntries
<1>7. QED BY <1>2, <1>3, <1>4, <1>6

\* What a cache may hold may grow.
LEMMA CacheWider ==
    ASSUME NEW S, NEW T, S \subseteq T, NEW c, NEW max, CacheOK(c, S, max)
    PROVE  CacheOK(c, T, max)
  BY DEF CacheOK

\* The caches after a step hold what they might hold before it.
LEMMA CachesKept ==
    ASSUME strays \subseteq strays',
           CacheOK(queries', QueryEntries, MaxQueries),
           CacheOK(items', ItemEntries, MaxItems),
           CacheOK(pageNext', NextEntries, MaxNext)
    PROVE  CachesOK'
<1>1. QueryEntries \subseteq QueryEntries' /\ NextEntries \subseteq NextEntries'
  BY Grows
<1>2. CacheOK(queries', QueryEntries', MaxQueries) /\ CacheOK(pageNext', NextEntries', MaxNext)
  BY <1>1, CacheWider
<1>3. QED BY <1>2 DEF CachesOK, CacheOK

\* Who takes no step is where it was.
LEMMA OthersStay ==
    ASSUME \A g \in Handlers : PlaceOK(g), now' = now, strays \subseteq strays',
           NEW h \in Handlers, PlaceOK(h)',
           \A g \in Handlers \ {h} :
              /\ step'[g] = step[g] /\ ask'[g] = ask[g] /\ key'[g] = key[g]
              /\ val'[g] = val[g] /\ shown'[g] = shown[g]
    PROVE  \A g \in Handlers : PlaceOK(g)'
<1> SUFFICES ASSUME NEW g \in Handlers, g # h
             PROVE  PlaceOK(g)'
  OBVIOUS
<1>1. PlaceOK(g)
  OBVIOUS
<1>2. QED BY <1>1, Grows DEF PlaceOK, Lang, Number

\* An answer to the browser, of a page or an error.
LEMMA ShowKeeps ==
    ASSUME PagesInv, now' = now, strays' = strays, NEW h \in Handlers,
           NEW v \in ListPages \cup ItemPages \cup {None}, Show(h, v)
    PROVE  HandlerTypes' /\ \A g \in Handlers : PlaceOK(g)'
<1>1. HandlerTypes'
  BY Shapes DEF PagesInv, HandlerTypes, Show, StepNames
<1>2. PlaceOK(h)'
  BY Grows DEF PagesInv, HandlerTypes, PlaceOK, Show
<1>3. \A g \in Handlers \ {h} :
         /\ step'[g] = step[g] /\ ask'[g] = ask[g] /\ key'[g] = key[g]
         /\ val'[g] = val[g] /\ shown'[g] = shown[g]
  BY DEF PagesInv, HandlerTypes, Show
<1>4. QED BY <1>1, <1>2, <1>3, OthersStay DEF PagesInv

\* A handler that only goes on.
LEMMA GoKeeps ==
    ASSUME PagesInv, now' = now, strays' = strays, NEW h \in Handlers, NEW s \in StepNames,
           step' = [step EXCEPT ![h] = s], UNCHANGED <<ask, key, val, shown>>,
           PlaceOK(h)'
    PROVE  HandlerTypes' /\ \A g \in Handlers : PlaceOK(g)'
<1>1. HandlerTypes'
  BY DEF PagesInv, HandlerTypes
<1>2. \A g \in Handlers \ {h} :
         /\ step'[g] = step[g] /\ ask'[g] = ask[g] /\ key'[g] = key[g]
         /\ val'[g] = val[g] /\ shown'[g] = shown[g]
  BY DEF PagesInv, HandlerTypes
<1>3. QED BY <1>1, <1>2, OthersStay DEF PagesInv

\* A request.  One with the cursor of another page is recorded as such.
LEMMA StartKeeps ==
    ASSUME PagesInv, NEW h \in Handlers, NEW s \in {"cursor", "lookItem"},
           NEW a \in Langs \X Pages \X Cursors, Start(h, s, a)
    PROVE  PagesInv'
<1>1. HandlerTypes'
  BY DEF PagesInv, HandlerTypes, Start, StepNames
<1>2. strays \subseteq strays' /\ strays' \subseteq Langs \X Pages
  BY DEF PagesInv, Start
<1>3. a \in Requests'
  <2>1. a[3] \notin {0, a[2]} => Misled(a[1], a[2])'
    <3> SUFFICES ASSUME a[3] \notin {0, a[2]}
                 PROVE  \E q \in 1 .. a[2] : <<a[1], q>> \in strays'
      BY DEF Misled
    <3>1. <<a[1], a[2]>> \in strays'
      BY DEF Start
    <3>2. a[2] \in 1 .. a[2]
      BY Shapes
    <3>3. QED BY <3>1, <3>2
  <2>2. QED BY <2>1 DEF Requests, Belongs
<1>4. PlaceOK(h)'
  BY <1>3 DEF PagesInv, HandlerTypes, PlaceOK, Start
<1>5. \A g \in Handlers \ {h} :
         /\ step'[g] = step[g] /\ ask'[g] = ask[g] /\ key'[g] = key[g]
         /\ val'[g] = val[g] /\ shown'[g] = shown[g]
  BY DEF PagesInv, HandlerTypes, Start
<1>6. now' = now /\ now \in 0 .. MaxTime /\ asks' \in 0 .. MaxAsks
  BY CacheAssumption DEF PagesInv, Start
<1>7. CachesOK'
  BY <1>2, CachesKept DEF PagesInv, Start, CachesOK, caches
<1>8. \A g \in Handlers : PlaceOK(g)'
  BY <1>2, <1>4, <1>5, <1>6, OthersStay DEF PagesInv
<1>9. QED BY <1>1, <1>2, <1>6, <1>7, <1>8 DEF PagesInv

\* The requests there are.
LEMMA AsksKeep ==
    ASSUME PagesInv, NEW h \in Handlers,
           \/ \E l \in Langs, p \in Pages, c \in Cursors : OpenPage(h, l, p, c)
           \/ \E l \in Langs, id \in Pages : OpenItem(h, l, id)
    PROVE  PagesInv'
<1>1. ASSUME NEW l \in Langs, NEW p \in Pages, NEW c \in Cursors, OpenPage(h, l, p, c)
      PROVE  PagesInv'
  BY <1>1, StartKeeps DEF OpenPage
<1>2. ASSUME NEW l \in Langs, NEW id \in Pages, OpenItem(h, l, id)
      PROVE  PagesInv'
  <2>1. <<l, id, 0>> \in Langs \X Pages \X Cursors
    BY Shapes
  <2>2. QED BY <1>2, <2>1, StartKeeps DEF OpenItem
<1>3. QED BY <1>1, <1>2

\* Looking in a cache keeps it, and so does storing.
LEMMA CacheGet ==
    ASSUME NEW S, NEW max \in Nat, NEW c, CacheOK(c, S, max), NEW k
    PROVE  CacheOK(AfterGet(c, k), S, max)
<1>1. /\ AfterGet(c, k) \in Seq(S) /\ Distinct(AfterGet(c, k))
      /\ Len(AfterGet(c, k)) <= Len(c)
  BY AfterGetIs DEF CacheOK
<1>2. Len(AfterGet(c, k)) \in Nat /\ Len(c) \in Nat /\ Len(c) <= max
  BY <1>1 DEF CacheOK
<1>3. QED BY <1>1, <1>2 DEF CacheOK

\* What is stored at a time of the clock.
LEMMA CachePut ==
    ASSUME NEW S, NEW max \in Nat \ {0}, NEW c, CacheOK(c, S, max), NEW k,
           NEW v, NEW ttl, Filed(k, v, now, ttl) \in S
    PROVE  CacheOK(AfterPut(c, k, v, ttl, max), S, max)
<1>1. [key |-> k, value |-> v, expires |-> now + ttl] \in S
  BY DEF Filed
<1>2. QED BY <1>1, AfterPutIs DEF CacheOK

\* The cursor of the chain leads to the page, unless a page before it was asked
\* for with the cursor of another one.
LEMMA CursorForPageKeeps ==
    ASSUME PagesInv, NEW h \in Handlers, CursorForPage(h)
    PROVE  PagesInv'
<1> DEFINE k == ChainKey(h)
           look == ask[h][3] = 0 /\ Number(h) > 1
           cursor == IF look /\ Hit(pageNext, k) THEN Value(pageNext, k) ELSE ask[h][3]
<1>1. /\ step[h] = "cursor" /\ step' = [step EXCEPT ![h] = "look"]
      /\ key' = [key EXCEPT ![h] = <<Lang(h), Number(h), cursor>>]
      /\ pageNext' = IF look THEN AfterGet(pageNext, k) ELSE pageNext
      /\ UNCHANGED <<now, queries, items, ask, val, shown, asks, strays>>
  BY DEF CursorForPage
<1>2. /\ ask[h] \in Requests /\ Lang(h) \in Langs /\ Number(h) \in Pages
      /\ <<Lang(h), Number(h), ask[h][3]>> \in Requests
  BY <1>1, Shapes DEF PagesInv, PlaceOK, Lang, Number
<1>3. <<Lang(h), Number(h), cursor>> \in Requests
  <2>1. CASE look /\ Hit(pageNext, k)
    <3>1. pageNext \in Seq(NextEntries) /\ Distinct(pageNext)
      BY DEF PagesInv, CachesOK, CacheOK
    <3> DEFINE e == pageNext[Position(pageNext, k)]
    <3>2. e \in NextEntries /\ e.key = k /\ cursor = e.value
      BY <2>1, <3>1, HitIs
    <3> HIDE DEF e, cursor
    <3>3. PICK r \in Links, t \in 0 .. MaxTime :
                e = Filed(<<r[1], r[2]>>, r[3], t, QueryTTL)
      BY <3>2, EntryOf
    <3>4. e.key = <<r[1], r[2]>> /\ e.value = r[3]
      BY <3>3 DEF Filed
    <3>5. r[1] = Lang(h) /\ r[2] = Number(h) - 1 /\ cursor = r[3]
      BY <3>2, <3>4 DEF ChainKey, k
    <3>6. /\ r[3] \in Pages /\ r[3] \in Cursors
          /\ r[3] - 1 = r[2] \/ Misled(r[1], r[2])
      BY CacheAssumption DEF Links, Belongs, Pages, Cursors
    <3>7. Number(h) \in Nat /\ r[3] \in Nat
      BY <1>2, <3>6, Shapes
    <3>8. CASE r[3] - 1 = r[2]
      <4>1. cursor = Number(h)
        BY <3>5, <3>7, <3>8
      <4>2. QED BY <1>2, <3>5, <3>6, <4>1 DEF Requests, Belongs
    <3>9. CASE Misled(r[1], r[2])
      <4>1. Misled(Lang(h), Number(h))
        BY <3>5, <3>7, <3>9 DEF Misled
      <4>2. QED BY <1>2, <3>5, <3>6, <4>1 DEF Requests, Belongs
    <3>10. QED BY <3>6, <3>8, <3>9
  <2>2. CASE ~(look /\ Hit(pageNext, k))
    BY <1>2, <2>2
  <2>3. QED BY <2>1, <2>2
<1> HIDE DEF k, look, cursor
<1>4. Requests \subseteq Requests' /\ ListPages \subseteq ListPages'
  BY <1>1, Grows
<1>5. CachesOK'
  <2>1. CacheOK(pageNext', NextEntries, MaxNext)
    BY <1>1, CacheGet, CacheAssumption DEF PagesInv, CachesOK
  <2>2. QED BY <1>1, <2>1, CachesKept DEF PagesInv, CachesOK
<1>6. HandlerTypes'
  BY <1>1, <1>3, Shapes DEF PagesInv, HandlerTypes, StepNames
<1>7. PlaceOK(h)'
  <2>1. /\ key'[h] = <<Lang(h), Number(h), cursor>> /\ step'[h] = "look"
        /\ ask'[h] = ask[h] /\ shown'[h] = shown[h]
    BY <1>1 DEF PagesInv, HandlerTypes
  <2>2. key'[h] \in Requests' /\ key'[h][1] = ask'[h][1] /\ key'[h][2] = ask'[h][2]
    BY <1>3, <1>4, <2>1 DEF Lang, Number
  <2>3. shown'[h] \in ListPages' \cup ItemPages \cup {None} /\ ask'[h] \in Requests'
    BY <1>2, <1>4, <2>1 DEF PagesInv, PlaceOK
  <2>4. QED BY <2>1, <2>2, <2>3 DEF PlaceOK, Lang, Number
<1>8. \A g \in Handlers \ {h} :
         /\ step'[g] = step[g] /\ ask'[g] = ask[g] /\ key'[g] = key[g]
         /\ val'[g] = val[g] /\ shown'[g] = shown[g]
  BY <1>1 DEF PagesInv, HandlerTypes
<1>9. \A g \in Handlers : PlaceOK(g)'
  BY <1>1, <1>7, <1>8, OthersStay DEF PagesInv
<1>10. QED BY <1>1, <1>5, <1>6, <1>9 DEF PagesInv

\* What a handler finds in the cache of pages.
LEMMA QueryFound ==
    ASSUME PagesInv, NEW k, Hit(queries, k)
    PROVE  /\ Value(queries, k) \in ListPages
           /\ Value(queries, k).lang = k[1] /\ Value(queries, k).page = k[2]
           /\ Value(queries, k).pos = Place(k)
           /\ now < Value(queries, k).at + QueryTTL
<1> DEFINE e == queries[Position(queries, k)]
<1>1. queries \in Seq(QueryEntries) /\ Distinct(queries)
  BY DEF PagesInv, CachesOK, CacheOK
<1>2. /\ e \in QueryEntries /\ e.key = k /\ e.expires > now
      /\ Value(queries, k) = e.value
  BY <1>1, HitIs
<1> HIDE DEF e
<1>3. PICK r \in Requests, t \in 0 .. MaxTime :
            e = Filed(r, ListPage(r[1], r[2], Place(r), t), t, QueryTTL)
  BY <1>2, EntryOf
<1>4. /\ e.key = r /\ e.value = ListPage(r[1], r[2], Place(r), t)
      /\ e.expires = t + QueryTTL
  BY <1>3 DEF Filed
<1>5. ListPage(r[1], r[2], Place(r), t) \in ListPages
  BY DEF ListPages
<1>6. now \in Nat /\ t + QueryTTL \in Nat
  BY CacheAssumption DEF PagesInv
<1>7. QED BY <1>2, <1>4, <1>5, <1>6 DEF ListPage

\* And in the cache of items.
LEMMA ItemFound ==
    ASSUME PagesInv, NEW l, NEW id, Hit(items, ItemKey(l, id))
    PROVE  /\ Value(items, ItemKey(l, id)) \in ItemPages
           /\ Value(items, ItemKey(l, id)).lang = l
           /\ Value(items, ItemKey(l, id)).pos = id
           /\ now < Value(items, ItemKey(l, id)).at + ItemTTL
<1> DEFINE k == ItemKey(l, id)
           e == items[Position(items, k)]
<1>1. items \in Seq(ItemEntries) /\ Distinct(items)
  BY DEF PagesInv, CachesOK, CacheOK
<1>2. /\ e \in ItemEntries /\ e.key = k /\ e.expires > now
      /\ Value(items, k) = e.value
  BY <1>1, HitIs
<1> HIDE DEF e
<1>3. PICK m \in Langs, n \in Pages, t \in 0 .. MaxTime :
            e = Filed(<<m, n>>, ItemPage(m, n, t), t, ItemTTL)
  BY <1>2, EntryOf
<1>4. e.key = <<m, n>> /\ e.value = ItemPage(m, n, t) /\ e.expires = t + ItemTTL
  BY <1>3 DEF Filed
<1>5. m = l /\ n = id
  BY <1>2, <1>4 DEF ItemKey
<1>6. ItemPage(m, n, t) \in ItemPages
  BY DEF ItemPages
<1>7. now \in Nat /\ t + ItemTTL \in Nat
  BY CacheAssumption DEF PagesInv
<1>8. QED BY <1>2, <1>4, <1>5, <1>6, <1>7 DEF ItemPage

\* A page from the cache, or none.
LEMMA GetQueryKeeps ==
    ASSUME PagesInv, NEW h \in Handlers, GetQuery(h)
    PROVE  PagesInv'
<1>1. /\ step[h] = "look" /\ key[h] \in Requests
      /\ key[h][1] = Lang(h) /\ key[h][2] = Number(h) /\ ask[h] \in Requests
  BY DEF GetQuery, PagesInv, PlaceOK
<1>2. now' = now /\ asks' = asks /\ strays' = strays
  BY DEF GetQuery
<1>3. CachesOK'
  <2>1. CacheOK(queries', QueryEntries, MaxQueries)
    BY CacheGet, CacheAssumption DEF GetQuery, PagesInv, CachesOK
  <2>2. QED BY <1>2, <2>1, CachesKept DEF GetQuery, PagesInv, CachesOK
<1>4. HandlerTypes' /\ \A g \in Handlers : PlaceOK(g)'
  <2>1. CASE Hit(queries, key[h])
    <3>1. Value(queries, key[h]) \in ListPages
      BY <2>1, QueryFound
    <3>2. Show(h, Value(queries, key[h]))
      BY <2>1 DEF GetQuery
    <3>3. QED BY <1>2, <3>1, <3>2, ShowKeeps
  <2>2. CASE ~Hit(queries, key[h])
    <3>1. step' = [step EXCEPT ![h] = "query"] /\ UNCHANGED <<ask, key, val, shown>>
      BY <2>2 DEF GetQuery
    <3>2. step'[h] = "query" /\ "query" \in StepNames
      BY <3>1 DEF PagesInv, HandlerTypes, StepNames
    <3>3. PlaceOK(h)'
      BY <1>1, <1>2, <3>1, <3>2, Grows DEF PagesInv, PlaceOK, Lang, Number
    <3>4. QED BY <1>2, <3>1, <3>2, <3>3, GoKeeps
  <2>3. QED BY <2>1, <2>2
<1>5. QED BY <1>2, <1>3, <1>4 DEF PagesInv

\* Steam's answer is the page that the cursor leads to, or the one asked for.
LEMMA QueryFilesKeeps ==
    ASSUME PagesInv, NEW h \in Handlers, QueryFiles(h)
    PROVE  PagesInv'
<1> DEFINE v == ListPage(Lang(h), Number(h), Place(key[h]), now)
<1>1. /\ step[h] = "query" /\ key[h] \in Requests
      /\ key[h][1] = Lang(h) /\ key[h][2] = Number(h) /\ ask[h] \in Requests
      /\ shown[h] \in ListPages \cup ItemPages \cup {None}
  BY DEF QueryFiles, PagesInv, PlaceOK
<1>2. v \in Contents
  <2>1. Lang(h) \in Langs /\ Number(h) \in Pages /\ Place(key[h]) \in Pages
    BY <1>1, Shapes
  <2>2. QED BY <2>1 DEF Contents, PagesInv
<1>3. /\ val' = [val EXCEPT ![h] = v] /\ step' = [step EXCEPT ![h] = "put"]
      /\ UNCHANGED <<now, caches, ask, key, shown, asks, strays>>
  BY DEF QueryFiles, Answer
<1>4. PlaceOK(h)'
  <2>1. step'[h] = "put" /\ val'[h] = v /\ ask'[h] = ask[h] /\ key'[h] = key[h]
        /\ shown'[h] = shown[h] /\ now' = now
    BY <1>3 DEF PagesInv, HandlerTypes
  <2>2. Requests \subseteq Requests' /\ ListPages \subseteq ListPages'
    BY <1>3, Grows
  <2>3. QED BY <1>1, <2>1, <2>2 DEF PlaceOK, Lang, Number, Place
<1> HIDE DEF v
<1>5. HandlerTypes'
  BY <1>2, <1>3 DEF PagesInv, HandlerTypes, StepNames
<1>6. CachesOK'
  BY <1>3, CachesKept DEF PagesInv, CachesOK, caches
<1>7. \A g \in Handlers \ {h} :
         /\ step'[g] = step[g] /\ ask'[g] = ask[g] /\ key'[g] = key[g]
         /\ val'[g] = val[g] /\ shown'[g] = shown[g]
  BY <1>3 DEF PagesInv, HandlerTypes
<1>8. \A g \in Handlers : PlaceOK(g)'
  BY <1>3, <1>4, <1>7, OthersStay DEF PagesInv
<1>9. QED BY <1>3, <1>5, <1>6, <1>8 DEF PagesInv

\* The answer is filed under the key that was computed before it was asked for.
LEMMA PutQueryKeeps ==
    ASSUME PagesInv, NEW h \in Handlers, PutQuery(h)
    PROVE  PagesInv'
<1>1. /\ step[h] = "put" /\ key[h] \in Requests
      /\ key[h][1] = Lang(h) /\ key[h][2] = Number(h) /\ ask[h] \in Requests
      /\ val[h] = ListPage(Lang(h), Number(h), Place(key[h]), now)
  BY DEF PutQuery, PagesInv, PlaceOK
<1>2. Filed(key[h], val[h], now, QueryTTL) \in QueryEntries
  <2>1. val[h] = ListPage(key[h][1], key[h][2], Place(key[h]), now)
    BY <1>1
  <2>2. now \in 0 .. MaxTime
    BY DEF PagesInv
  <2>3. QED BY <1>1, <2>1, <2>2 DEF QueryEntries
<1>3. CacheOK(queries', QueryEntries, MaxQueries)
  BY <1>2, CachePut, CacheAssumption DEF PutQuery, PagesInv, CachesOK
<1>4. /\ now' = now /\ asks' = asks /\ step' = [step EXCEPT ![h] = "seed"]
      /\ UNCHANGED <<items, pageNext, ask, key, val, shown, strays>>
  BY DEF PutQuery
<1>5. CachesOK'
  BY <1>3, <1>4, CachesKept DEF PagesInv, CachesOK
<1>6. step'[h] = "seed" /\ "seed" \in StepNames
  BY <1>4 DEF PagesInv, HandlerTypes, StepNames
<1>7. PlaceOK(h)'
  BY <1>1, <1>4, <1>6, Grows DEF PagesInv, PlaceOK, Lang, Number, Place
<1>8. HandlerTypes' /\ \A g \in Handlers : PlaceOK(g)'
  BY <1>4, <1>6, <1>7, GoKeeps
<1>9. QED BY <1>4, <1>5, <1>8 DEF PagesInv

\* The items of a page are filed with its language and its age.
LEMMA SeedItemsKeeps ==
    ASSUME PagesInv, NEW h \in Handlers, SeedItems(h)
    PROVE  PagesInv'
<1>1. /\ step[h] = "seed" /\ key[h] \in Requests
      /\ key[h][1] = Lang(h) /\ key[h][2] = Number(h) /\ ask[h] \in Requests
      /\ val[h] = ListPage(Lang(h), Number(h), Place(key[h]), now)
  BY DEF SeedItems, PagesInv, PlaceOK
<1>2. val[h].pos = Place(key[h]) /\ val[h].at = now
  BY <1>1 DEF ListPage
<1>3. Lang(h) \in Langs /\ val[h].pos \in Pages /\ now \in 0 .. MaxTime
  BY <1>1, <1>2, Shapes DEF PagesInv
<1> DEFINE k == ItemKey(Lang(h), val[h].pos)
           v == ItemPage(Lang(h), val[h].pos, val[h].at)
<1>4. Filed(k, v, now, ItemTTL) \in ItemEntries
  BY <1>2, <1>3 DEF ItemEntries, ItemKey
<1>5. items' = AfterPut(items, k, v, ItemTTL, MaxItems)
  BY DEF SeedItems
<1> HIDE DEF k, v
<1>6. CacheOK(items', ItemEntries, MaxItems)
  BY <1>4, <1>5, CachePut, CacheAssumption DEF PagesInv, CachesOK
<1>7. /\ now' = now /\ asks' = asks /\ step' = [step EXCEPT ![h] = "chain"]
      /\ UNCHANGED <<queries, pageNext, ask, key, val, shown, strays>>
  BY DEF SeedItems
<1>8. CachesOK'
  BY <1>6, <1>7, CachesKept DEF PagesInv, CachesOK
<1>9. step'[h] = "chain" /\ "chain" \in StepNames
  BY <1>7 DEF PagesInv, HandlerTypes, StepNames
<1>10. PlaceOK(h)'
  BY <1>1, <1>7, <1>9, Grows DEF PagesInv, PlaceOK, Lang, Number, Place
<1>11. HandlerTypes' /\ \A g \in Handlers : PlaceOK(g)'
  BY <1>7, <1>9, <1>10, GoKeeps
<1>12. QED BY <1>7, <1>8, <1>11 DEF PagesInv

\* The cursor that is filed behind a page leads to the next, unless that page, or
\* one before it, was asked for with the cursor of another one.
LEMMA PutNextKeeps ==
    ASSUME PagesInv, NEW h \in Handlers, PutNext(h)
    PROVE  PagesInv'
<1>1. /\ step[h] = "chain" /\ key[h] \in Requests
      /\ key[h][1] = Lang(h) /\ key[h][2] = Number(h)
      /\ val[h] = ListPage(Lang(h), Number(h), Place(key[h]), now)
  BY DEF PutNext, PagesInv, PlaceOK
<1>2. /\ Lang(h) \in Langs /\ Number(h) \in Pages /\ now \in 0 .. MaxTime
      /\ Place(key[h]) \in Pages
  BY <1>1, Shapes DEF PagesInv
<1>3. val[h].pos = Place(key[h]) /\ val[h] \in ListPages
  <2>1. val[h].pos = Place(key[h])
    BY <1>1 DEF ListPage
  <2>2. val[h] = ListPage(key[h][1], key[h][2], Place(key[h]), now)
    BY <1>1
  <2>3. QED BY <1>1, <1>2, <2>1, <2>2 DEF ListPages
<1>4. now' = now /\ asks' = asks /\ strays' = strays /\ Show(h, val[h])
  BY DEF PutNext
<1>5. HandlerTypes' /\ \A g \in Handlers : PlaceOK(g)'
  BY <1>3, <1>4, ShowKeeps
<1>6. CacheOK(pageNext', NextEntries, MaxNext)
  <2>1. CASE val[h].pos < NumPages
    <3> DEFINE r == <<Lang(h), Number(h), Place(key[h]) + 1>>
    <3>1. Place(key[h]) + 1 \in Pages /\ (Place(key[h]) + 1) - 1 = Place(key[h])
      BY <1>2, <1>3, <2>1, CacheAssumption DEF Pages
    <3>2. Belongs(Lang(h), Number(h), Place(key[h]))
      BY <1>1 DEF Requests, Place, Belongs
    <3>3. r \in Links /\ r[1] = Lang(h) /\ r[2] = Number(h) /\ r[3] = Place(key[h]) + 1
      BY <1>2, <3>1, <3>2 DEF Links
    <3> HIDE DEF r
    <3>4. Filed(<<r[1], r[2]>>, r[3], now, QueryTTL) \in NextEntries
      BY <1>2, <3>3 DEF NextEntries
    <3>5. Filed(<<Lang(h), Number(h)>>, val[h].pos + 1, now, QueryTTL) \in NextEntries
      BY <1>3, <3>3, <3>4
    <3>6. pageNext' = AfterPut(pageNext, <<Lang(h), Number(h)>>, val[h].pos + 1,
                               QueryTTL, MaxNext)
      BY <2>1 DEF PutNext
    <3>7. QED BY <3>5, <3>6, CachePut, CacheAssumption DEF PagesInv, CachesOK
  <2>2. CASE ~(val[h].pos < NumPages)
    BY <2>2 DEF PutNext, PagesInv, CachesOK, CacheOK
  <2>3. QED BY <2>1, <2>2
<1>7. CachesOK'
  BY <1>4, <1>6, CachesKept DEF PutNext, PagesInv, CachesOK
<1>8. QED BY <1>4, <1>5, <1>7 DEF PagesInv

\* An item from the cache, or none.
LEMMA GetItemKeeps ==
    ASSUME PagesInv, NEW h \in Handlers, GetItem(h)
    PROVE  PagesInv'
<1> DEFINE k == ItemKey(Lang(h), Number(h))
<1>1. step[h] = "lookItem" /\ ask[h] \in Requests
  BY DEF GetItem, PagesInv, PlaceOK
<1>2. /\ now' = now /\ asks' = asks /\ strays' = strays
      /\ items' = AfterGet(items, k) /\ UNCHANGED <<queries, pageNext>>
  BY DEF GetItem
<1>3. CachesOK'
  <2>1. CacheOK(items', ItemEntries, MaxItems)
    BY <1>2, CacheGet, CacheAssumption DEF PagesInv, CachesOK
  <2>2. QED BY <1>2, <2>1, CachesKept DEF PagesInv, CachesOK
<1>4. HandlerTypes' /\ \A g \in Handlers : PlaceOK(g)'
  <2>1. CASE Hit(items, k)
    <3>1. Value(items, k) \in ItemPages
      BY <2>1, ItemFound
    <3>2. Show(h, Value(items, k))
      BY <2>1 DEF GetItem
    <3>3. QED BY <1>2, <3>1, <3>2, ShowKeeps
  <2>2. CASE ~Hit(items, k)
    <3>1. step' = [step EXCEPT ![h] = "details"] /\ UNCHANGED <<ask, key, val, shown>>
      BY <2>2 DEF GetItem
    <3>2. step'[h] = "details" /\ "details" \in StepNames
      BY <3>1 DEF PagesInv, HandlerTypes, StepNames
    <3>3. PlaceOK(h)'
      BY <1>1, <1>2, <3>1, <3>2, Grows DEF PagesInv, PlaceOK, Lang, Number
    <3>4. QED BY <1>2, <3>1, <3>2, <3>3, GoKeeps
  <2>3. QED BY <2>1, <2>2
<1>5. QED BY <1>2, <1>3, <1>4 DEF PagesInv

\* Steam's answer is the item asked for.
LEMMA GetItemDetailsKeeps ==
    ASSUME PagesInv, NEW h \in Handlers, GetItemDetails(h)
    PROVE  PagesInv'
<1> DEFINE v == ItemPage(Lang(h), Number(h), now)
<1>1. /\ step[h] = "details" /\ ask[h] \in Requests
      /\ shown[h] \in ListPages \cup ItemPages \cup {None}
  BY DEF GetItemDetails, PagesInv, PlaceOK
<1>2. Lang(h) \in Langs /\ Number(h) \in Pages
  BY <1>1, Shapes DEF Lang, Number
<1>3. v \in ItemPages /\ v \in Contents
  BY <1>2, Shapes DEF ItemPages, PagesInv
<1>4. /\ val' = [val EXCEPT ![h] = v] /\ step' = [step EXCEPT ![h] = "putItem"]
      /\ UNCHANGED <<now, caches, ask, key, shown, asks, strays>>
  BY DEF GetItemDetails, Answer
<1>5. PlaceOK(h)'
  <2>1. /\ step'[h] = "putItem" /\ val'[h] = v /\ ask'[h] = ask[h]
        /\ shown'[h] = shown[h] /\ now' = now
    BY <1>4 DEF PagesInv, HandlerTypes
  <2>2. Requests \subseteq Requests' /\ ListPages \subseteq ListPages'
    BY <1>4, Grows
  <2>3. QED BY <1>1, <2>1, <2>2 DEF PlaceOK, Lang, Number
<1> HIDE DEF v
<1>6. HandlerTypes'
  BY <1>3, <1>4 DEF PagesInv, HandlerTypes, StepNames
<1>7. CachesOK'
  BY <1>4, CachesKept DEF PagesInv, CachesOK, caches
<1>8. \A g \in Handlers \ {h} :
         /\ step'[g] = step[g] /\ ask'[g] = ask[g] /\ key'[g] = key[g]
         /\ val'[g] = val[g] /\ shown'[g] = shown[g]
  BY <1>4 DEF PagesInv, HandlerTypes
<1>9. \A g \in Handlers : PlaceOK(g)'
  BY <1>4, <1>5, <1>8, OthersStay DEF PagesInv
<1>10. QED BY <1>4, <1>6, <1>7, <1>9 DEF PagesInv

\* The item is filed and shown.
LEMMA PutItemKeeps ==
    ASSUME PagesInv, NEW h \in Handlers, PutItem(h)
    PROVE  PagesInv'
<1>1. /\ step[h] = "putItem" /\ ask[h] \in Requests
      /\ val[h] = ItemPage(Lang(h), Number(h), now)
  BY DEF PutItem, PagesInv, PlaceOK
<1>2. Lang(h) \in Langs /\ Number(h) \in Pages /\ now \in 0 .. MaxTime
  BY <1>1, Shapes DEF PagesInv, Lang, Number
<1>3. Filed(ItemKey(Lang(h), Number(h)), val[h], now, ItemTTL) \in ItemEntries
  BY <1>1, <1>2 DEF ItemEntries, ItemKey
<1>4. CacheOK(items', ItemEntries, MaxItems)
  BY <1>3, CachePut, CacheAssumption DEF PutItem, PagesInv, CachesOK
<1>5. CachesOK'
  BY <1>4, CachesKept DEF PutItem, PagesInv, CachesOK
<1>6. val[h] \in ItemPages
  BY <1>1, <1>2 DEF ItemPages
<1>7. now' = now /\ asks' = asks /\ strays' = strays /\ Show(h, val[h])
  BY DEF PutItem
<1>8. HandlerTypes' /\ \A g \in Handlers : PlaceOK(g)'
  BY <1>6, <1>7, ShowKeeps
<1>9. QED BY <1>5, <1>7, <1>8 DEF PagesInv

\* An error.
LEMMA CallFailsKeeps ==
    ASSUME PagesInv, NEW h \in Handlers, CallFails(h)
    PROVE  PagesInv'
<1>1. now' = now /\ asks' = asks /\ strays' = strays /\ Show(h, None) /\ UNCHANGED caches
  BY DEF CallFails
<1>2. HandlerTypes' /\ \A g \in Handlers : PlaceOK(g)'
  BY <1>1, ShowKeeps
<1>3. CachesOK'
  BY <1>1, CachesKept DEF PagesInv, CachesOK, caches
<1>4. QED BY <1>1, <1>2, <1>3 DEF PagesInv

\* The clock waits for what is being stored.
LEMMA TickKeeps ==
    ASSUME PagesInv, Tick
    PROVE  PagesInv'
<1>1. now' \in 0 .. MaxTime /\ asks' = asks /\ strays' = strays
  BY CacheAssumption DEF PagesInv, Tick
<1>2. CachesOK'
  BY CachesKept DEF PagesInv, CachesOK, caches, Tick
<1>3. HandlerTypes'
  BY DEF PagesInv, HandlerTypes, Tick
<1>4. ASSUME NEW g \in Handlers
      PROVE  PlaceOK(g)'
  BY <1>1, Grows DEF PagesInv, PlaceOK, Tick, Storing, Lang, Number
<1>5. QED BY <1>1, <1>2, <1>3, <1>4 DEF PagesInv

\* Nothing of the pages changes.
LEMMA PagesRest ==
    ASSUME PagesInv, UNCHANGED browseVars
    PROVE  PagesInv'
<1>1. now' = now /\ asks' = asks /\ strays' = strays
  BY DEF browseVars
<1>2. CachesOK'
  BY CachesKept DEF PagesInv, CachesOK, caches, browseVars
<1>3. HandlerTypes'
  BY DEF PagesInv, HandlerTypes, browseVars
<1>4. \A g \in Handlers : PlaceOK(g)'
  BY <1>1, Grows DEF PagesInv, PlaceOK, browseVars, Lang, Number, Place
<1>5. QED BY <1>1, <1>2, <1>3, <1>4 DEF PagesInv

\* The start.
LEMMA PagesStart == PagesInit => PagesInv
<1> SUFFICES ASSUME PagesInit
             PROVE  PagesInv
  OBVIOUS
<1>1. now \in 0 .. MaxTime /\ asks \in 0 .. MaxAsks /\ strays \subseteq Langs \X Pages
  BY CacheAssumption DEF PagesInit
<1>2. \A S : CacheOK(<<>>, S, MaxQueries) /\ CacheOK(<<>>, S, MaxItems) /\ CacheOK(<<>>, S, MaxNext)
  BY CacheAssumption DEF CacheOK, Distinct
<1>3. CachesOK
  BY <1>2 DEF PagesInit, CachesOK
<1>4. HandlerTypes
  BY DEF PagesInit, HandlerTypes, StepNames
<1>5. \A h \in Handlers : PlaceOK(h)
  BY DEF PagesInit, PlaceOK
<1>6. QED BY <1>1, <1>3, <1>4, <1>5 DEF PagesInv

\* Every step.
LEMMA PagesStep ==
    ASSUME PagesInv, PagesNext
    PROVE  PagesInv'
<1>1. ASSUME NEW h \in Handlers, Handler(h)
      PROVE  PagesInv'
  BY <1>1, CursorForPageKeeps, GetQueryKeeps, QueryFilesKeeps, CallFailsKeeps,
     PutQueryKeeps, SeedItemsKeeps, PutNextKeeps, GetItemKeeps,
     GetItemDetailsKeeps, PutItemKeeps DEF Handler
<1>2. ASSUME NEW h \in Handlers,
         \/ \E l \in Langs, p \in Pages, c \in Cursors : OpenPage(h, l, p, c)
         \/ \E l \in Langs, id \in Pages : OpenItem(h, l, id)
      PROVE  PagesInv'
  BY <1>2, AsksKeep
<1>3. CASE Tick
  BY <1>3, TickKeeps
<1>4. CASE PagesFinished
  BY <1>4, PagesRest DEF PagesFinished
<1>5. QED BY <1>1, <1>2, <1>3, <1>4 DEF PagesNext

-----------------------------------------------------------------------------
(* What the invariant says. *)

\* The types.
LEMMA PagesTyped == PagesInv => PagesTypeOK
<1> SUFFICES ASSUME PagesInv
             PROVE  PagesTypeOK
  OBVIOUS
<1>1. /\ Sound(queries, MaxQueries) /\ Sound(items, MaxItems)
      /\ Sound(pageNext, MaxNext)
  BY DEF PagesInv, CachesOK, CacheOK, Sound, Distinct
<1>2. Keys(queries) \subseteq Langs \X Pages \X Cursors
  <2>1. \A e \in QueryEntries : e.key \in Requests
    BY DEF QueryEntries, Filed
  <2>2. \A i \in DOMAIN queries : queries[i] \in QueryEntries
    BY DEF PagesInv, CachesOK, CacheOK
  <2>3. QED BY <2>1, <2>2, Shapes DEF Keys
<1>3. Keys(items) \subseteq Langs \X Pages
  <2>1. \A e \in ItemEntries : e.key \in Langs \X Pages
    BY DEF ItemEntries, Filed
  <2>2. \A i \in DOMAIN items : items[i] \in ItemEntries
    BY DEF PagesInv, CachesOK, CacheOK
  <2>3. QED BY <2>1, <2>2 DEF Keys
<1>4. Keys(pageNext) \subseteq Langs \X Pages
  <2>1. \A e \in NextEntries : e.key \in Langs \X Pages
    BY DEF NextEntries, Links, Filed
  <2>2. \A i \in DOMAIN pageNext : pageNext[i] \in NextEntries
    BY DEF PagesInv, CachesOK, CacheOK
  <2>3. QED BY <2>1, <2>2 DEF Keys
<1>5. QED BY <1>1, <1>2, <1>3, <1>4 DEF PagesInv, HandlerTypes, PagesTypeOK, StepNames

\* Every entry is of the page and in the language of its key, and what Steam sends
\* for the cursor of its key.
LEMMA PagesFiled == PagesInv => FiledRight
<1> SUFFICES ASSUME PagesInv, NEW h \in Handlers
             PROVE  /\ step[h] = "look" /\ Hit(queries, key[h]) =>
                         LET v == Value(queries, key[h])
                         IN  /\ v.lang = Lang(h) /\ v.page = Number(h)
                             /\ v.pos = Place(key[h])
                    /\ step[h] = "lookItem" /\ Hit(items, ItemKey(Lang(h), Number(h))) =>
                         LET v == Value(items, ItemKey(Lang(h), Number(h)))
                         IN  v.lang = Lang(h) /\ v.pos = Number(h)
  BY DEF FiledRight
<1>1. ASSUME step[h] = "look", Hit(queries, key[h])
      PROVE  /\ Value(queries, key[h]).lang = Lang(h)
             /\ Value(queries, key[h]).page = Number(h)
             /\ Value(queries, key[h]).pos = Place(key[h])
  BY <1>1, QueryFound DEF PagesInv, PlaceOK
<1>2. ASSUME step[h] = "lookItem", Hit(items, ItemKey(Lang(h), Number(h)))
      PROVE  /\ Value(items, ItemKey(Lang(h), Number(h))).lang = Lang(h)
             /\ Value(items, ItemKey(Lang(h), Number(h))).pos = Number(h)
  BY <1>2, ItemFound
<1>3. QED BY <1>1, <1>2

\* The page is the one asked for, unless it was asked for with a cursor that does
\* not lead there.
LEMMA PagesRight == PagesInv => RightPage
<1>1. \A x \in ListPages : x.pos = x.page \/ Misled(x.lang, x.page)
  <2> SUFFICES ASSUME NEW r \in Requests, NEW t \in 0 .. MaxTime
               PROVE  LET x == ListPage(r[1], r[2], Place(r), t)
                      IN  x.pos = x.page \/ Misled(x.lang, x.page)
    BY DEF ListPages
  <2>1. Place(r) = r[2] \/ Misled(r[1], r[2])
    BY DEF Requests, Belongs, Place
  <2>2. QED BY <2>1 DEF ListPage
<1>2. \A x \in ItemPages : x.pos = x.page
  BY DEF ItemPages, ItemPage
<1>3. QED BY <1>1, <1>2 DEF PagesInv, PlaceOK, RightPage

\* What a look in the cache shows is younger than its lifetime.
LEMMA PagesFresh ==
    ASSUME PagesInv, PagesNext, NEW h \in Handlers
    PROVE  /\ step[h] = "look" /\ step'[h] = "idle" => now - shown'[h].at < QueryTTL
           /\ step[h] = "lookItem" /\ step'[h] = "idle" => now - shown'[h].at < ItemTTL
<1>1. CASE GetQuery(h)
  <2>1. step[h] = "look"
    BY <1>1 DEF GetQuery
  <2>2. CASE Hit(queries, key[h])
    <3>1. shown'[h] = Value(queries, key[h])
      BY <1>1, <2>2 DEF GetQuery, Show, PagesInv, HandlerTypes
    <3>2. Value(queries, key[h]) \in ListPages /\ now < Value(queries, key[h]).at + QueryTTL
      BY <2>2, QueryFound
    <3>3. \A x \in ListPages : x.at \in Nat
      BY CacheAssumption DEF ListPages, ListPage
    <3>4. QED BY <2>1, <3>1, <3>2, <3>3, CacheAssumption DEF PagesInv
  <2>3. CASE ~Hit(queries, key[h])
    BY <1>1, <2>1, <2>3 DEF GetQuery, PagesInv, HandlerTypes
  <2>4. QED BY <2>2, <2>3
<1>2. CASE GetItem(h)
  <2> DEFINE k == ItemKey(Lang(h), Number(h))
  <2>1. step[h] = "lookItem"
    BY <1>2 DEF GetItem
  <2>2. CASE Hit(items, k)
    <3>1. shown'[h] = Value(items, k)
      BY <1>2, <2>2 DEF GetItem, Show, PagesInv, HandlerTypes
    <3>2. Value(items, k) \in ItemPages /\ now < Value(items, k).at + ItemTTL
      BY <2>2, ItemFound
    <3>3. \A x \in ItemPages : x.at \in Nat
      BY CacheAssumption DEF ItemPages, ItemPage
    <3> HIDE DEF k
    <3>4. QED BY <2>1, <3>1, <3>2, <3>3, CacheAssumption DEF PagesInv
  <2>3. CASE ~Hit(items, k)
    BY <1>2, <2>1, <2>3 DEF GetItem, PagesInv, HandlerTypes
  <2>4. QED BY <2>2, <2>3
<1>3. ASSUME ~GetQuery(h), ~GetItem(h), step[h] \in {"look", "lookItem"}
      PROVE  step'[h] = step[h]
  <2>1. ASSUME NEW g \in Handlers, NEW s, NEW a, Start(g, s, a)
        PROVE  step'[h] = step[h]
    BY <1>3, <2>1 DEF Start, PagesInv, HandlerTypes
  <2>2. ASSUME NEW g \in Handlers, Handler(g)
        PROVE  step'[h] = step[h]
    <3>1. g = h => FALSE
      BY <1>3, <2>2 DEF Handler, CursorForPage, QueryFiles, CallFails,
         PutQuery, SeedItems, PutNext, GetItemDetails, PutItem
    <3>2. step' = [step EXCEPT ![g] = step'[g]]
      BY <2>2 DEF Handler, CursorForPage, GetQuery, QueryFiles, CallFails,
         PutQuery, SeedItems, PutNext, GetItem, GetItemDetails, PutItem, Show,
         Answer, PagesInv, HandlerTypes
    <3>3. QED BY <3>1, <3>2 DEF PagesInv, HandlerTypes
  <2>3. CASE Tick \/ PagesFinished
    BY <2>3 DEF Tick, PagesFinished, browseVars
  <2>4. QED BY <2>1, <2>2, <2>3 DEF PagesNext, OpenPage, OpenItem
<1>4. QED BY <1>1, <1>2, <1>3
-----------------------------------------------------------------------------
(* The invariant of the previews. *)

\* An entry is filed under the URL of its bytes, and outlives the time at which
\* they were read by no more than a fetch may take.
MediaEntries ==
    {e \in [key : Media!Keys, body : Media!Bodies, expires : 0 .. MaxTime + MediaTTL] :
        /\ e.body.url = e.key
        /\ e.expires <= e.body.at + Timeout + MediaTTL}

\* Who has a token.
Holders == {v \in Viewers : place[v] \in Media!Holding}

\* What the place of a viewer says of what it has in hand.
FetchOK(v) ==
    /\ place[v] # "idle" => preview[v] \in Media!Keys
    /\ place[v] \in {"fetch", "read", "put"} => now <= deadline[v]
    /\ place[v] = "fetch" => deadline[v] <= now + Timeout
    /\ place[v] \in {"read", "put"} =>
          /\ body[v] \in Media!Bodies /\ body[v].url = preview[v]
          /\ deadline[v] <= body[v].at + Timeout

PlaceNames == {"idle", "look", "wait"} \cup Media!Holding

ViewerTypes ==
    /\ place \in [Viewers -> PlaceNames]
    /\ preview \in [Viewers -> Media!Keys \cup {None}]
    /\ body \in [Viewers -> Media!Bodies \cup {None}]
    /\ deadline \in [Viewers -> 0 .. MaxTime + Timeout]
    /\ image \in [Viewers -> Media!Bodies \cup {None}]

Kept ==
    /\ order \in Seq(MediaEntries) /\ Distinct(order)
    /\ bytes = Media!Size(order) /\ bytes <= MediaBudget
    /\ Len(order) <= MaxPreviews

Tokens ==
    /\ slots \in Slots /\ sem \in 0 .. slots
    /\ IsFiniteSet(Holders) /\ sem = Cardinality(Holders)

MediaInv ==
    /\ now \in 0 .. MaxTime /\ fetches \in 0 .. MaxFetches
    /\ Kept /\ Tokens /\ ViewerTypes
    /\ \A v \in Viewers : FetchOK(v)

\* One of the two has the traffic.
CachesInv ==
    /\ PagesInv /\ MediaInv
    /\ traffic \in {"pages", "previews"}
    /\ traffic = "pages" => \A v \in Viewers : place[v] = "idle"
    /\ traffic = "previews" => \A h \in Handlers : step[h] = "idle"
-----------------------------------------------------------------------------
(* The bytes of the previews: a sum over the set of the entries. *)

Weight == [e \in MediaEntries |-> e.body.size]

\* The constants, and what is in an entry.
LEMMA MediaFacts ==
    /\ MaxTime \in Nat /\ MediaTTL \in Nat \ {0} /\ Timeout \in Nat \ {0}
    /\ MediaBudget \in Nat /\ MaxPreviews \in Nat \ {0} /\ MaxFetches \in Nat
    /\ Slots \subseteq Nat \ {0}
    /\ \A b \in Media!Bodies : /\ b.url \in Media!Keys /\ b.size \in Nat
                               /\ b.at \in Nat /\ b.at <= MaxTime
    /\ \A e \in MediaEntries : /\ e.key \in Media!Keys /\ e.body \in Media!Bodies
                               /\ e.expires \in Nat /\ e.body.url = e.key
                               /\ e.expires <= e.body.at + Timeout + MediaTTL
                               /\ Weight[e] = e.body.size /\ Weight[e] \in Nat
<1>1. /\ MaxTime \in Nat /\ MediaTTL \in Nat \ {0} /\ Timeout \in Nat \ {0}
      /\ MediaBudget \in Nat /\ MaxPreviews \in Nat \ {0} /\ MaxFetches \in Nat
      /\ Slots \subseteq Nat \ {0} /\ Sizes \subseteq Nat
  BY MediaAssumption DEF Media!MediaConstants
<1>2. \A b \in Media!Bodies : /\ b.url \in Media!Keys /\ b.size \in Nat
                              /\ b.at \in Nat /\ b.at <= MaxTime
  <2>1. \A b \in Media!Bodies : b.url \in Media!Keys /\ b.size \in Sizes /\ b.at \in 0 .. MaxTime
    BY DEF Media!Bodies
  <2>2. \A t \in 0 .. MaxTime : t \in Nat /\ t <= MaxTime
    BY <1>1
  <2>3. QED BY <1>1, <2>1, <2>2
<1>3. \A e \in MediaEntries : /\ e.key \in Media!Keys /\ e.body \in Media!Bodies
                              /\ e.expires \in Nat /\ e.body.url = e.key
                              /\ e.expires <= e.body.at + Timeout + MediaTTL
  BY <1>1 DEF MediaEntries
<1>4. \A e \in MediaEntries : Weight[e] = e.body.size /\ Weight[e] \in Nat
  BY <1>2, <1>3 DEF Weight
<1>5. QED BY <1>1, <1>2, <1>3, <1>4

\* The elements of a sequence are a finite set.
LEMMA RangeFinite ==
    ASSUME NEW S, NEW q \in Seq(S)
    PROVE  Range(q) \in SUBSET S /\ IsFiniteSet(Range(q))
<1>1. q \in [1 .. Len(q) -> S] /\ Range(q) = {q[i] : i \in 1 .. Len(q)}
  BY DEF Range
<1>2. IsFiniteSet(1 .. Len(q))
  BY FS_Interval
<1>3. q \in Surjection(1 .. Len(q), Range(q))
  BY <1>1 DEF Surjection
<1>4. IsFiniteSet(Range(q))
  BY <1>2, <1>3, FS_Surjection
<1>5. QED BY <1>1, <1>4

\* The size of a cache is the sum of the weights of its entries.
LEMMA SizeIsTotal ==
    ASSUME NEW q \in Seq(MediaEntries)
    PROVE  Media!Size(q) = Total(Weight, Range(q))
<1> DEFINE S == Range(q)
           R(g) == [s \in SUBSET S |-> IF s = {} THEN 0
                                       ELSE Chosen(s).body.size + g[s \ {Chosen(s)}]]
<1>0. S \subseteq MediaEntries /\ Media!Range(q) = S
  BY RangeFinite DEF Media!Range, Range
<1> HIDE DEF S
<1>1. Media!Size(q) = (CHOOSE g : g = R(g))[S]
  BY <1>0 DEF Media!Size, Media!MapThenSumSet, Media!MapThenFoldSet, Chosen
<1>2. ASSUME NEW g PROVE R(g) = Rec(Weight, g, S)
  <2>1. ASSUME NEW s \in SUBSET S, s # {} PROVE Weight[Chosen(s)] = Chosen(s).body.size
    BY <1>0, <2>1, ChosenIn DEF Weight
  <2>2. QED BY <2>1 DEF Rec
<1> HIDE DEF R
<1>3. (CHOOSE g : g = R(g)) = (CHOOSE g : g = Rec(Weight, g, S))
  BY <1>2
<1>4. QED BY <1>1, <1>3 DEF Total, Sums, S

\* Of nothing.
LEMMA SizeEmpty == Media!Size(<<>>) = 0
<1>1. <<>> \in Seq(MediaEntries) /\ Range(<<>>) = {}
  BY DEF Range
<1>2. QED BY <1>1, SizeIsTotal, TotalEmpty

\* Without an entry, and with another.
LEMMA SizeChanges ==
    ASSUME NEW q \in Seq(MediaEntries), Distinct(q)
    PROVE  /\ Media!Size(q) \in Nat
           /\ \A i \in 1 .. Len(q) : Media!Size(q) = Media!Size(Cut(q, i)) + q[i].body.size
           /\ \A e \in MediaEntries : (\A j \in DOMAIN q : q[j].key # e.key) =>
                 Media!Size(Append(q, e)) = Media!Size(q) + e.body.size
<1>1. /\ Range(q) \subseteq MediaEntries /\ IsFiniteSet(Range(q))
      /\ \A e \in Range(q) : Weight[e] \in Nat
  BY RangeFinite, MediaFacts
<1>2. /\ Total(Weight, Range(q)) \in Nat
      /\ \A e \in Range(q) :
            Total(Weight, Range(q)) = Weight[e] + Total(Weight, Range(q) \ {e})
  BY <1>1, TotalRemove
<1>3. Media!Size(q) \in Nat
  BY <1>2, SizeIsTotal
<1>4. ASSUME NEW i \in 1 .. Len(q)
      PROVE  Media!Size(q) = Media!Size(Cut(q, i)) + q[i].body.size
  <2>1. Cut(q, i) \in Seq(MediaEntries)
    BY CutAt
  <2>2. Range(Cut(q, i)) = Range(q) \ {q[i]}
    BY CutDistinct
  <2>3. q[i] \in Range(q) /\ q[i] \in MediaEntries
    BY DEF Range
  <2>4. Media!Size(q) = Weight[q[i]] + Media!Size(Cut(q, i))
    BY <1>2, <2>1, <2>2, <2>3, SizeIsTotal
  <2>5. Range(Cut(q, i)) \subseteq MediaEntries /\ IsFiniteSet(Range(Cut(q, i)))
    BY <2>1, RangeFinite
  <2>6. Media!Size(Cut(q, i)) \in Nat
    BY <2>1, <2>5, MediaFacts, TotalRemove, SizeIsTotal
  <2>7. QED BY <2>3, <2>4, <2>6, MediaFacts
<1>5. ASSUME NEW e \in MediaEntries, \A j \in DOMAIN q : q[j].key # e.key
      PROVE  Media!Size(Append(q, e)) = Media!Size(q) + e.body.size
  <2>1. /\ Append(q, e) \in Seq(MediaEntries)
        /\ Range(Append(q, e)) = Range(q) \cup {e}
    BY <1>5, AppendDistinct
  <2>2. e \notin Range(q)
    BY <1>5 DEF Range
  <2>3. IsFiniteSet(Range(q) \cup {e}) /\ (Range(q) \cup {e}) \ {e} = Range(q)
    BY <1>1, <2>2, FS_AddElement
  <2>4. \A d \in Range(q) \cup {e} : Weight[d] \in Nat
    BY <1>1, MediaFacts
  <2>5. Total(Weight, Range(q) \cup {e}) = Weight[e] + Total(Weight, Range(q))
    BY <2>3, <2>4, TotalRemove
  <2>6. Media!Size(Append(q, e)) = Weight[e] + Media!Size(q)
    BY <2>1, <2>5, SizeIsTotal
  <2>7. QED BY <1>3, <2>6, MediaFacts
<1>6. QED BY <1>3, <1>4, <1>5

\* Taken apart.
LEMMA SizeSplit ==
    ASSUME NEW q \in Seq(MediaEntries), Distinct(q), NEW n \in 0 .. Len(q)
    PROVE  /\ Media!Rest(q, n) \in Seq(MediaEntries) /\ Distinct(Media!Rest(q, n))
           /\ Len(Media!Rest(q, n)) = Len(q) - n
           /\ Media!Size(Media!Rest(q, n)) = Media!Size(q) - Media!Size(Media!FirstOf(q, n))
           /\ Media!Size(Media!Rest(q, n)) \in Nat
<1> DEFINE a == SubSeq(q, 1, n)
           b == SubSeq(q, n + 1, Len(q))
<1>1. /\ a \in Seq(MediaEntries) /\ Len(a) = n
      /\ \A j \in 1 .. n : a[j] = q[j]
  OBVIOUS
<1>2. /\ b \in Seq(MediaEntries) /\ Len(b) = Len(q) - n
      /\ \A j \in 1 .. Len(q) - n : b[j] = q[n + j]
  OBVIOUS
<1>3. Media!FirstOf(q, n) = a /\ Media!Rest(q, n) = b
  BY DEF Media!FirstOf, Media!Rest
<1> HIDE DEF a, b
<1>4. Len(q) \in Nat /\ n \in Nat /\ n <= Len(q) /\ Len(q) - n \in Nat
      /\ DOMAIN q = 1 .. Len(q)
  OBVIOUS
<1>5. DOMAIN a = 1 .. n /\ DOMAIN b = 1 .. Len(q) - n
  BY <1>1, <1>2, <1>4
<1>6. Distinct(b)
  <2> SUFFICES ASSUME NEW i \in 1 .. Len(q) - n, NEW j \in 1 .. Len(q) - n,
                      b[i].key = b[j].key
               PROVE  i = j
    BY <1>5 DEF Distinct
  <2>1. n + i \in 1 .. Len(q) /\ n + j \in 1 .. Len(q)
    BY <1>4
  <2>2. q[n + i].key = q[n + j].key
    BY <1>2
  <2>3. n + i = n + j
    BY <1>4, <2>1, <2>2 DEF Distinct
  <2>4. QED BY <1>4, <2>3
<1>7. Range(a) \subseteq Range(q) /\ Range(b) = Range(q) \ Range(a)
  <2>1. \A j \in 1 .. n : j \in 1 .. Len(q)
    BY <1>4
  <2>2. \A j \in 1 .. Len(q) - n : n + j \in 1 .. Len(q) /\ n + j \notin 1 .. n
    BY <1>4
  <2>3. Range(a) \subseteq Range(q)
    BY <1>1, <1>4, <1>5, <2>1 DEF Range
  <2>4. Range(b) \subseteq Range(q)
    BY <1>2, <1>4, <1>5, <2>2 DEF Range
  <2>5. ASSUME NEW x \in Range(b), x \in Range(a)
        PROVE  FALSE
    <3>1. PICK i \in 1 .. n : x = q[i]
      BY <1>1, <1>5, <2>5 DEF Range
    <3>2. PICK j \in 1 .. Len(q) - n : x = q[n + j]
      BY <1>2, <1>5 DEF Range
    <3>3. i = n + j
      BY <1>4, <2>1, <2>2, <3>1, <3>2 DEF Distinct
    <3>4. QED BY <2>2, <3>3
  <2>6. ASSUME NEW m \in 1 .. Len(q), q[m] \notin Range(a)
        PROVE  q[m] \in Range(b)
    <3>1. ~(m <= n)
      BY <1>1, <1>4, <1>5, <2>6 DEF Range
    <3>2. m - n \in 1 .. Len(q) - n /\ n + (m - n) = m
      BY <1>4, <3>1
    <3>3. QED BY <1>2, <1>5, <3>2 DEF Range
  <2>7. QED BY <1>4, <2>3, <2>4, <2>5, <2>6 DEF Range
<1>8. /\ Range(q) \subseteq MediaEntries /\ IsFiniteSet(Range(q))
      /\ \A e \in Range(q) : Weight[e] \in Nat
  BY RangeFinite, MediaFacts
<1>9. Total(Weight, Range(q)) = Total(Weight, Range(a)) + Total(Weight, Range(b))
  BY <1>7, <1>8, TotalSplit
<1>10. IsFiniteSet(Range(a)) /\ IsFiniteSet(Range(b))
  BY <1>1, <1>2, RangeFinite
<1>11. Total(Weight, Range(a)) \in Nat /\ Total(Weight, Range(b)) \in Nat
  BY <1>7, <1>8, <1>10, TotalRemove
<1>12. Media!Size(b) = Media!Size(q) - Media!Size(a) /\ Media!Size(b) \in Nat
  BY <1>1, <1>2, <1>9, <1>11, SizeIsTotal
<1>13. QED BY <1>2, <1>3, <1>4, <1>6, <1>12

\* Eviction ends, within both limits.
LEMMA EvictedIs ==
    ASSUME NEW q \in Seq(MediaEntries), NEW total
    PROVE  LET n == Media!Evicted(q, total)
           IN  /\ n \in 0 .. Len(q)
               /\ \/ n = Len(q)
                  \/ /\ Len(q) - n <= MaxPreviews
                     /\ total - Media!Size(Media!FirstOf(q, n)) <= MediaBudget
<1> DEFINE Stops(m) == \/ m = Len(q)
                       \/ /\ Len(q) - m <= MaxPreviews
                          /\ total - Media!Size(Media!FirstOf(q, m)) <= MediaBudget
           Least(n) == Stops(n) /\ \A m \in 0 .. n - 1 : ~Stops(m)
<1>1. Media!Evicted(q, total) = CHOOSE n \in 0 .. Len(q) : Least(n)
  BY DEF Media!Evicted
<1>2. Len(q) \in Nat /\ Stops(Len(q))
  OBVIOUS
<1> HIDE DEF Stops
<1> DEFINE X == {0 .. m : m \in {i \in 0 .. Len(q) : Stops(i)}}
<1>3. PICK T \in X : \A U \in X : U \subseteq T => U = T
  <2> DEFINE D == 0 .. Len(q)
  <2>1. X \in SUBSET (SUBSET D) /\ X # {}
    <3>1. \A m \in 0 .. Len(q) : 0 .. m \subseteq 0 .. Len(q)
      BY <1>2
    <3>2. 0 .. Len(q) \in X
      BY <1>2
    <3>3. QED BY <3>1, <3>2
  <2>2. IsFiniteSet(D)
    BY <1>2, FS_Interval
  <2> HIDE DEF X, D
  <2>3. QED BY <2>1, <2>2, Smallest
<1>4. PICK n \in 0 .. Len(q) : T = 0 .. n /\ Stops(n)
  OBVIOUS
<1>5. ASSUME NEW m \in 0 .. n - 1, Stops(m)
      PROVE  FALSE
  <2>1. m \in 0 .. Len(q) /\ 0 .. m \subseteq 0 .. n /\ n \in 0 .. n /\ n \notin 0 .. m
    BY <1>2
  <2>2. 0 .. m \in X
    BY <1>5, <2>1
  <2>3. 0 .. m = 0 .. n
    BY <1>3, <1>4, <2>1, <2>2
  <2>4. QED BY <2>1, <2>3
<1>6. \E i \in 0 .. Len(q) : Least(i)
  BY <1>4, <1>5
<1>7. Media!Evicted(q, total) \in 0 .. Len(q) /\ Stops(Media!Evicted(q, total))
  BY <1>1, <1>6
<1>8. QED BY <1>7 DEF Stops
-----------------------------------------------------------------------------
(* get and put: what is kept stays within its bounds and counted. *)

\* The cache without what it has of a URL.
LEMMA RemovedIs ==
    ASSUME Kept, NEW k
    PROVE  /\ Media!Removed(k) \in Seq(MediaEntries) /\ Distinct(Media!Removed(k))
           /\ \A j \in DOMAIN Media!Removed(k) : Media!Removed(k)[j].key # k
           /\ Media!Size(Media!Removed(k)) = bytes - Media!Replaced(k)
           /\ Media!Size(Media!Removed(k)) \in Nat /\ bytes \in Nat
           /\ Media!Size(Media!Removed(k)) <= MediaBudget
           /\ Len(Media!Removed(k)) <= MaxPreviews
           /\ Media!Find(k) # {} => /\ Media!Entry(k) \in MediaEntries
                                    /\ Media!Entry(k).key = k
                                    /\ Media!Replaced(k) = Media!Entry(k).body.size
                                    /\ Len(Media!Removed(k)) = Len(order) - 1
<1>1. /\ order \in Seq(MediaEntries) /\ Distinct(order)
      /\ bytes = Media!Size(order) /\ bytes <= MediaBudget
      /\ Len(order) <= MaxPreviews /\ Len(order) \in Nat
  BY DEF Kept
<1>2. bytes \in Nat
  BY <1>1, SizeChanges
<1>3. CASE Media!Find(k) = {}
  <2>1. Media!Removed(k) = order /\ Media!Replaced(k) = 0
    BY <1>3 DEF Media!Removed, Media!Replaced
  <2>2. \A j \in DOMAIN order : order[j].key # k
    BY <1>3 DEF Media!Find
  <2>3. QED BY <1>1, <1>2, <1>3, <2>1, <2>2
<1>4. CASE Media!Find(k) # {}
  <2> DEFINE i == Media!Place(k)
  <2>1. i \in Media!Find(k)
    BY <1>4 DEF Media!Place
  <2>2. i \in 1 .. Len(order) /\ order[i].key = k
    BY <1>1, <2>1 DEF Media!Find
  <2>3. /\ Media!Removed(k) = Cut(order, i) /\ Media!Entry(k) = order[i]
        /\ Media!Replaced(k) = Media!Entry(k).body.size
    BY <1>4 DEF Media!Removed, Media!RemoveAt, Media!Entry, Media!Replaced, Cut
  <2> HIDE DEF i
  <2>4. Cut(order, i) \in Seq(MediaEntries) /\ Len(Cut(order, i)) = Len(order) - 1
    BY <1>1, <2>2, CutAt
  <2>5. /\ Distinct(Cut(order, i))
        /\ \A j \in DOMAIN Cut(order, i) : Cut(order, i)[j].key # k
    BY <1>1, <2>2, CutDistinct
  <2>6. bytes = Media!Size(Cut(order, i)) + order[i].body.size
    BY <1>1, <2>2, SizeChanges
  <2>7. Media!Size(Cut(order, i)) \in Nat
    BY <2>4, <2>5, SizeChanges
  <2>8. order[i] \in MediaEntries /\ order[i].body.size \in Nat
    BY <1>1, <2>2, MediaFacts
  <2>9. Media!Size(Cut(order, i)) = bytes - order[i].body.size
    BY <2>6, <2>7, <2>8
  <2>10. /\ Media!Size(Cut(order, i)) <= MediaBudget
         /\ Len(Cut(order, i)) <= MaxPreviews
    <3>1. MediaBudget \in Nat /\ MaxPreviews \in Nat
      BY MediaFacts
    <3>2. Media!Size(Cut(order, i)) <= bytes
      BY <1>2, <2>6, <2>7, <2>8
    <3>3. Media!Size(Cut(order, i)) <= MediaBudget
      BY <1>1, <1>2, <2>7, <3>1, <3>2
    <3>4. Len(Cut(order, i)) <= MaxPreviews
      BY <1>1, <2>4, <3>1
    <3>5. QED BY <3>3, <3>4
  <2>11. QED BY <1>2, <1>4, <2>2, <2>3, <2>4, <2>5, <2>7, <2>8, <2>9, <2>10
<1>5. QED BY <1>3, <1>4

\* A look moves an entry or removes it.
LEMMA LookKeeps ==
    ASSUME Kept, NEW k, Media!Get(k)
    PROVE  Kept'
<1> DEFINE q == Media!Removed(k)
<1>1. /\ q \in Seq(MediaEntries) /\ Distinct(q)
      /\ \A j \in DOMAIN q : q[j].key # k
      /\ Media!Size(q) = bytes - Media!Replaced(k) /\ Media!Size(q) \in Nat
      /\ bytes \in Nat /\ Media!Size(q) <= MediaBudget /\ Len(q) <= MaxPreviews
  BY RemovedIs
<1>2. CASE Media!Find(k) # {}
  <2> DEFINE e == Media!Entry(k)
  <2>1. e \in MediaEntries /\ e.key = k /\ Media!Replaced(k) = e.body.size
        /\ Len(q) = Len(order) - 1
    BY <1>2, RemovedIs
  <2>2. e.body.size \in Nat
    BY <2>1, MediaFacts
  <2>3. CASE Media!Hit(k)
    <3>1. order' = Append(q, e) /\ bytes' = bytes
      BY <1>2, <2>3 DEF Media!Get, Media!Touch
    <3> HIDE DEF q, e
    <3>2. /\ Append(q, e) \in Seq(MediaEntries) /\ Distinct(Append(q, e))
          /\ Len(Append(q, e)) = Len(q) + 1
      BY <1>1, <2>1, AppendDistinct
    <3>3. Media!Size(Append(q, e)) = Media!Size(q) + e.body.size
      BY <1>1, <2>1, SizeChanges
    <3>4. Media!Size(Append(q, e)) = bytes
      BY <1>1, <2>1, <2>2, <3>3
    <3>5. Len(Append(q, e)) <= MaxPreviews /\ bytes <= MediaBudget
      BY <2>1, <3>2 DEF Kept
    <3>6. QED BY <3>1, <3>2, <3>4, <3>5 DEF Kept
  <2>4. CASE ~Media!Hit(k)
    <3>1. order' = q /\ bytes' = bytes - e.body.size
      BY <1>2, <2>4 DEF Media!Get
    <3> HIDE DEF q, e
    <3>2. bytes' = Media!Size(q)
      BY <1>1, <2>1, <3>1
    <3>3. QED BY <1>1, <3>1, <3>2 DEF Kept
  <2>5. QED BY <2>3, <2>4
<1>3. CASE Media!Find(k) = {}
  BY <1>3 DEF Media!Get, Media!Hit, Kept
<1>4. QED BY <1>2, <1>3

\* What is stored comes last, and as many go from the front as there is no
\* room for.
LEMMA StoreKeeps ==
    ASSUME Kept, NEW k, NEW b, Media!Put(k, b),
           [key |-> k, body |-> b, expires |-> now + MediaTTL] \in MediaEntries
    PROVE  Kept'
<1> DEFINE e == [key |-> k, body |-> b, expires |-> now + MediaTTL]
           p == Media!Removed(k)
           q == Append(p, e)
           total == bytes - Media!Replaced(k) + b.size
           n == Media!Evicted(q, total)
<1>1. order' = Media!Rest(q, n) /\ bytes' = total - Media!Size(Media!FirstOf(q, n))
  BY DEF Media!Put
<1>2. /\ p \in Seq(MediaEntries) /\ Distinct(p)
      /\ \A j \in DOMAIN p : p[j].key # k
      /\ Media!Size(p) = bytes - Media!Replaced(k) /\ Media!Size(p) \in Nat
  BY RemovedIs
<1>3. e \in MediaEntries /\ e.key = k /\ e.body = b
  OBVIOUS
<1> HIDE DEF p, e
<1>4. q \in Seq(MediaEntries) /\ Distinct(q)
  BY <1>2, <1>3, AppendDistinct
<1>5. Media!Size(q) = Media!Size(p) + e.body.size
  BY <1>2, <1>3, SizeChanges
<1>6. Media!Size(q) = total
  BY <1>2, <1>3, <1>5
<1> HIDE DEF q, total
<1>7. /\ n \in 0 .. Len(q)
      /\ \/ n = Len(q)
         \/ /\ Len(q) - n <= MaxPreviews
            /\ total - Media!Size(Media!FirstOf(q, n)) <= MediaBudget
  BY <1>4, EvictedIs
<1> HIDE DEF n
<1> DEFINE r == Media!Rest(q, n)
<1>8. /\ r \in Seq(MediaEntries) /\ Distinct(r) /\ Len(r) = Len(q) - n
      /\ Media!Size(r) = Media!Size(q) - Media!Size(Media!FirstOf(q, n))
      /\ Media!Size(r) \in Nat
  BY <1>4, <1>7, SizeSplit
<1> HIDE DEF r
<1>9. bytes' = Media!Size(r) /\ order' = r
  BY <1>1, <1>6, <1>8 DEF r
<1>10. Media!Size(r) <= MediaBudget /\ Len(r) <= MaxPreviews
  <2>1. CASE n = Len(q)
    <3>1. Len(r) = 0
      BY <1>4, <1>8, <2>1
    <3>2. r = <<>>
      BY <1>8, <3>1
    <3>3. QED BY <3>1, <3>2, SizeEmpty, MediaFacts
  <2>2. CASE n # Len(q)
    BY <1>6, <1>7, <1>8, <2>2
  <2>3. QED BY <2>1, <2>2
<1>11. QED BY <1>8, <1>9, <1>10 DEF Kept

-----------------------------------------------------------------------------
(* The viewers and their tokens. *)

\* Who takes no step is where it was.
LEMMA ViewersStay ==
    ASSUME \A u \in Viewers : FetchOK(u), now' = now, NEW v \in Viewers,
           FetchOK(v)',
           \A u \in Viewers \ {v} :
              /\ place'[u] = place[u] /\ preview'[u] = preview[u]
              /\ body'[u] = body[u] /\ deadline'[u] = deadline[u]
    PROVE  \A u \in Viewers : FetchOK(u)'
<1> SUFFICES ASSUME NEW u \in Viewers, u # v
             PROVE  FetchOK(u)'
  OBVIOUS
<1>1. FetchOK(u)
  OBVIOUS
<1>2. QED BY <1>1 DEF FetchOK

\* An answer gives back the token, if there is one.
LEMMA RespondKeeps ==
    ASSUME MediaInv, now' = now, slots' = slots, NEW v \in Viewers,
           NEW b \in Media!Bodies \cup {None}, Media!Respond(v, b)
    PROVE  Tokens' /\ ViewerTypes' /\ \A u \in Viewers : FetchOK(u)'
<1>1. /\ place' = [place EXCEPT ![v] = "idle"]
      /\ preview' = [preview EXCEPT ![v] = None]
      /\ body' = [body EXCEPT ![v] = None]
      /\ deadline' = [deadline EXCEPT ![v] = 0]
      /\ image' = [image EXCEPT ![v] = b]
      /\ sem' = IF place[v] \in Media!Holding THEN sem - 1 ELSE sem
  BY DEF Media!Respond, Media!SlotsLeft
<1>2. ViewerTypes'
  <2>1. 0 \in 0 .. MaxTime + Timeout
    BY MediaFacts
  <2>2. place' \in [Viewers -> PlaceNames]
    BY <1>1 DEF MediaInv, ViewerTypes, PlaceNames
  <2>3. preview' \in [Viewers -> Media!Keys \cup {None}]
    BY <1>1 DEF MediaInv, ViewerTypes
  <2>4. body' \in [Viewers -> Media!Bodies \cup {None}]
    BY <1>1 DEF MediaInv, ViewerTypes
  <2>5. deadline' \in [Viewers -> 0 .. MaxTime + Timeout]
    BY <1>1, <2>1 DEF MediaInv, ViewerTypes
  <2>6. image' \in [Viewers -> Media!Bodies \cup {None}]
    BY <1>1 DEF MediaInv, ViewerTypes
  <2>7. QED BY <2>2, <2>3, <2>4, <2>5, <2>6 DEF ViewerTypes
<1>3. place'[v] = "idle" /\ \A u \in Viewers \ {v} : place'[u] = place[u]
  BY <1>1 DEF MediaInv, ViewerTypes
<1>4. Holders' = Holders \ {v}
  BY <1>3 DEF Holders, Media!Holding
<1>5. Tokens'
  <2>1. /\ slots \in Slots /\ sem \in 0 .. slots /\ slots \in Nat
        /\ IsFiniteSet(Holders) /\ sem = Cardinality(Holders)
    BY MediaFacts DEF MediaInv, Tokens
  <2>2. /\ IsFiniteSet(Holders \ {v})
        /\ Cardinality(Holders \ {v}) = IF v \in Holders THEN sem - 1 ELSE sem
    BY <2>1, FS_RemoveElement
  <2>3. sem' = Cardinality(Holders \ {v})
    BY <1>1, <2>2 DEF Holders
  <2>4. Cardinality(Holders \ {v}) \in Nat
    BY <2>2, FS_CardinalityType
  <2>5. sem' \in 0 .. slots
    BY <2>1, <2>2, <2>3, <2>4
  <2>6. QED BY <1>4, <2>1, <2>2, <2>3, <2>5 DEF Tokens
<1>6. FetchOK(v)'
  BY <1>3 DEF FetchOK
<1>7. \A u \in Viewers \ {v} :
         /\ place'[u] = place[u] /\ preview'[u] = preview[u]
         /\ body'[u] = body[u] /\ deadline'[u] = deadline[u]
  BY <1>1 DEF MediaInv, ViewerTypes
<1>8. \A u \in Viewers : FetchOK(u)'
  BY <1>6, <1>7, ViewersStay DEF MediaInv
<1>9. QED BY <1>2, <1>5, <1>8

\* A viewer that goes on with what it has.
LEMMA MoveKeeps ==
    ASSUME MediaInv, now' = now, NEW v \in Viewers, NEW s \in PlaceNames,
           place' = [place EXCEPT ![v] = s],
           UNCHANGED <<sem, slots>>,
           s \in Media!Holding <=> place[v] \in Media!Holding,
           FetchOK(v)',
           \A u \in Viewers \ {v} :
              /\ preview'[u] = preview[u] /\ body'[u] = body[u]
              /\ deadline'[u] = deadline[u]
    PROVE  Tokens' /\ \A u \in Viewers : FetchOK(u)'
<1>1. place'[v] = s /\ \A u \in Viewers \ {v} : place'[u] = place[u]
  BY DEF MediaInv, ViewerTypes
<1>2. Holders' = Holders
  BY <1>1 DEF Holders
<1>3. Tokens'
  BY <1>2 DEF MediaInv, Tokens
<1>4. \A u \in Viewers : FetchOK(u)'
  BY <1>1, ViewersStay DEF MediaInv
<1>5. QED BY <1>3, <1>4
\* A request.
LEMMA AskKeeps ==
    ASSUME MediaInv, NEW v \in Viewers, NEW u \in Urls, Media!Ask(v, u)
    PROVE  MediaInv'
<1> DEFINE k == Media!ValidateMediaURL(u)
<1>1. /\ place[v] = "idle" /\ fetches' = fetches + 1 /\ fetches < MaxFetches
      /\ UNCHANGED <<now, order, bytes, slots>>
  BY DEF Media!Ask
<1>2. fetches' \in 0 .. MaxFetches /\ Kept'
  BY <1>1, MediaFacts DEF MediaInv, Kept
<1>3. CASE k = None
  <2>1. Media!Respond(v, None)
    BY <1>3 DEF Media!Ask
  <2>2. QED BY <1>1, <1>2, <2>1, RespondKeeps DEF MediaInv
<1>4. CASE k # None
  <2>1. k \in Media!Keys
    BY <1>4 DEF Media!Keys
  <2>2. /\ preview' = [preview EXCEPT ![v] = k]
        /\ place' = [place EXCEPT ![v] = "look"]
        /\ image' = [image EXCEPT ![v] = None]
        /\ UNCHANGED <<sem, body, deadline>>
    BY <1>4 DEF Media!Ask, Media!Go
  <2> HIDE DEF k
  <2>3. place'[v] = "look" /\ preview'[v] = k
    BY <2>2 DEF MediaInv, ViewerTypes
  <2>4. FetchOK(v)'
    BY <2>1, <2>3 DEF FetchOK
  <2>5. \A w \in Viewers \ {v} : /\ preview'[w] = preview[w] /\ body'[w] = body[w]
                                 /\ deadline'[w] = deadline[w]
    BY <2>2 DEF MediaInv, ViewerTypes
  <2>6. "look" \in PlaceNames /\ ("look" \in Media!Holding <=> place[v] \in Media!Holding)
    BY <1>1 DEF PlaceNames, Media!Holding
  <2>7. Tokens' /\ \A w \in Viewers : FetchOK(w)'
    BY <1>1, <2>2, <2>4, <2>5, <2>6, MoveKeeps
  <2>8. ViewerTypes'
    BY <2>1, <2>2, <2>6 DEF MediaInv, ViewerTypes
  <2>9. QED BY <1>1, <1>2, <2>7, <2>8 DEF MediaInv
<1>5. QED BY <1>3, <1>4

\* The bytes of an entry, or on to a token or to Steam.
LEMMA MediaLookKeeps ==
    ASSUME MediaInv, NEW v \in Viewers, Media!Look(v)
    PROVE  MediaInv'
<1>1. /\ place[v] \in {"look", "again"} /\ Media!Get(preview[v])
      /\ UNCHANGED <<now, slots, fetches>>
  BY DEF Media!Look
<1>2. Kept'
  BY <1>1, LookKeeps DEF MediaInv
<1>3. preview[v] \in Media!Keys
  BY <1>1 DEF MediaInv, FetchOK
<1>4. CASE Media!Hit(preview[v])
  <2>1. Media!Respond(v, Media!Entry(preview[v]).body)
    BY <1>4 DEF Media!Look
  <2>2. Media!Entry(preview[v]) \in MediaEntries
    BY <1>4, RemovedIs DEF Media!Hit, MediaInv
  <2>3. Media!Entry(preview[v]).body \in Media!Bodies
    BY <2>2, MediaFacts
  <2>4. QED BY <1>1, <1>2, <2>1, <2>3, RespondKeeps DEF MediaInv
<1>5. CASE ~Media!Hit(preview[v])
  <2> DEFINE s == IF place[v] = "look" THEN "wait" ELSE "fetch"
             d == IF place[v] = "again" THEN now + Timeout ELSE 0
  <2>1. /\ place' = [place EXCEPT ![v] = s]
        /\ deadline' = [deadline EXCEPT ![v] = d]
        /\ UNCHANGED <<sem, preview, body, image>>
    BY <1>5 DEF Media!Look, Media!Go
  <2>2. s \in PlaceNames /\ (s \in Media!Holding <=> place[v] \in Media!Holding)
    BY <1>1 DEF PlaceNames, Media!Holding
  <2>3. /\ s \in {"wait", "fetch"}
        /\ s = "fetch" => d = now + Timeout
        /\ now \in Nat /\ now <= MaxTime /\ Timeout \in Nat /\ d \in 0 .. MaxTime + Timeout
    BY <1>1, MediaFacts DEF MediaInv
  <2> HIDE DEF s, d
  <2>4. place'[v] = s /\ deadline'[v] = d /\ preview'[v] = preview[v] /\ now' = now
    BY <1>1, <2>1 DEF MediaInv, ViewerTypes
  <2>5. FetchOK(v)'
    BY <1>3, <2>3, <2>4 DEF FetchOK
  <2>6. \A w \in Viewers \ {v} : /\ preview'[w] = preview[w] /\ body'[w] = body[w]
                                 /\ deadline'[w] = deadline[w]
    BY <2>1 DEF MediaInv, ViewerTypes
  <2>7. Tokens' /\ \A w \in Viewers : FetchOK(w)'
    BY <1>1, <2>1, <2>2, <2>5, <2>6, MoveKeeps
  <2>8. ViewerTypes'
    BY <2>1, <2>2, <2>3 DEF MediaInv, ViewerTypes
  <2>9. QED BY <1>1, <1>2, <2>7, <2>8 DEF MediaInv
<1>6. QED BY <1>4, <1>5

\* A token is taken.
LEMMA AcquireKeeps ==
    ASSUME MediaInv, NEW v \in Viewers, Media!Acquire(v)
    PROVE  MediaInv'
<1>1. /\ place[v] = "wait" /\ sem < slots /\ sem' = sem + 1
      /\ place' = [place EXCEPT ![v] = "again"]
      /\ UNCHANGED <<now, order, bytes, slots, preview, body, deadline, image, fetches>>
  BY DEF Media!Acquire, Media!Go
<1>2. Kept'
  BY <1>1 DEF MediaInv, Kept
<1>3. ViewerTypes'
  BY <1>1 DEF MediaInv, ViewerTypes, PlaceNames, Media!Holding
<1>4. place'[v] = "again" /\ \A u \in Viewers \ {v} : place'[u] = place[u]
  BY <1>1 DEF MediaInv, ViewerTypes
<1>5. Holders' = Holders \cup {v} /\ v \notin Holders
  BY <1>1, <1>4 DEF Holders, Media!Holding
<1>6. Tokens'
  <2>1. /\ slots \in Slots /\ sem \in 0 .. slots /\ slots \in Nat
        /\ IsFiniteSet(Holders) /\ sem = Cardinality(Holders)
    BY MediaFacts DEF MediaInv, Tokens
  <2>2. /\ IsFiniteSet(Holders \cup {v})
        /\ Cardinality(Holders \cup {v}) = sem + 1
    BY <1>5, <2>1, FS_AddElement
  <2>3. sem' \in 0 .. slots
    BY <1>1, <2>1
  <2>4. QED BY <1>1, <1>5, <2>1, <2>2, <2>3 DEF Tokens
<1>7. FetchOK(v)'
  BY <1>1, <1>4 DEF MediaInv, FetchOK
<1>8. \A u \in Viewers : FetchOK(u)'
  BY <1>1, <1>4, <1>7, ViewersStay DEF MediaInv
<1>9. QED BY <1>1, <1>2, <1>3, <1>6, <1>8 DEF MediaInv

\* Steam answers with the bytes of what was asked for.
LEMMA AnswersKeeps ==
    ASSUME MediaInv, NEW v \in Viewers, NEW z \in Sizes, Media!Answers(v, z)
    PROVE  MediaInv'
<1> DEFINE b == [url |-> preview[v], size |-> z, at |-> now]
<1>1. /\ place[v] = "fetch"
      /\ body' = [body EXCEPT ![v] = b] /\ place' = [place EXCEPT ![v] = "read"]
      /\ UNCHANGED <<now, order, bytes, slots, sem, preview, deadline, image, fetches>>
  BY DEF Media!Answers, Media!Go
<1>2. Kept'
  BY <1>1 DEF MediaInv, Kept
<1>3. /\ preview[v] \in Media!Keys /\ now <= deadline[v] /\ deadline[v] <= now + Timeout
      /\ now \in 0 .. MaxTime
  BY <1>1 DEF MediaInv, FetchOK
<1>4. b \in Media!Bodies /\ b.url = preview[v] /\ b.at = now
  BY <1>3 DEF Media!Bodies
<1> HIDE DEF b
<1>5. "read" \in PlaceNames /\ ("read" \in Media!Holding <=> place[v] \in Media!Holding)
  BY <1>1 DEF PlaceNames, Media!Holding
<1>6. ViewerTypes'
  BY <1>1, <1>4, <1>5 DEF MediaInv, ViewerTypes
<1>7. /\ place'[v] = "read" /\ body'[v] = b /\ deadline'[v] = deadline[v]
      /\ preview'[v] = preview[v] /\ now' = now
  BY <1>1 DEF MediaInv, ViewerTypes
<1>8. FetchOK(v)'
  BY <1>3, <1>4, <1>7 DEF FetchOK
<1>9. \A w \in Viewers \ {v} : /\ preview'[w] = preview[w] /\ body'[w] = body[w]
                               /\ deadline'[w] = deadline[w]
  BY <1>1 DEF MediaInv, ViewerTypes
<1>10. Tokens' /\ \A w \in Viewers : FetchOK(w)'
  BY <1>1, <1>5, <1>8, <1>9, MoveKeeps
<1>11. QED BY <1>1, <1>2, <1>6, <1>10 DEF MediaInv

\* The body is read to its end.
LEMMA BodyReadKeeps ==
    ASSUME MediaInv, NEW v \in Viewers, Media!BodyRead(v)
    PROVE  MediaInv'
<1>1. /\ place[v] = "read" /\ place' = [place EXCEPT ![v] = "put"]
      /\ UNCHANGED <<now, order, bytes, slots, sem, preview, body, deadline, image, fetches>>
  BY DEF Media!BodyRead, Media!Go
<1>2. Kept'
  BY <1>1 DEF MediaInv, Kept
<1>3. "put" \in PlaceNames /\ ("put" \in Media!Holding <=> place[v] \in Media!Holding)
  BY <1>1 DEF PlaceNames, Media!Holding
<1>4. ViewerTypes'
  BY <1>1, <1>3 DEF MediaInv, ViewerTypes
<1>5. FetchOK(v)'
  BY <1>1 DEF MediaInv, ViewerTypes, FetchOK
<1>6. Tokens' /\ \A w \in Viewers : FetchOK(w)'
  BY <1>1, <1>3, <1>5, MoveKeeps
<1>7. QED BY <1>1, <1>2, <1>4, <1>6 DEF MediaInv

\* A fetch is given up.
LEMMA FetchFailsKeeps ==
    ASSUME MediaInv, NEW v \in Viewers, Media!FetchFails(v)
    PROVE  MediaInv'
<1>1. Media!Respond(v, None) /\ UNCHANGED <<now, order, bytes, slots, fetches>>
  BY DEF Media!FetchFails
<1>2. Kept'
  BY <1>1 DEF MediaInv, Kept
<1>3. QED BY <1>1, <1>2, RespondKeeps DEF MediaInv

\* The bytes are kept and shown.
LEMMA MediaStoreKeeps ==
    ASSUME MediaInv, NEW v \in Viewers, Media!Store(v)
    PROVE  MediaInv'
<1>1. /\ place[v] = "put" /\ Media!Put(preview[v], body[v])
      /\ Media!Respond(v, body[v]) /\ UNCHANGED <<now, slots, fetches>>
  BY DEF Media!Store
<1>2. /\ preview[v] \in Media!Keys /\ body[v] \in Media!Bodies
      /\ body[v].url = preview[v] /\ now <= deadline[v]
      /\ deadline[v] <= body[v].at + Timeout
  BY <1>1 DEF MediaInv, FetchOK
<1>3. /\ now \in Nat /\ now <= MaxTime /\ deadline[v] \in Nat /\ body[v].at \in Nat
      /\ Timeout \in Nat /\ MediaTTL \in Nat /\ MaxTime \in Nat
  BY <1>2, MediaFacts DEF MediaInv, ViewerTypes
<1> DEFINE e == [key |-> preview[v], body |-> body[v], expires |-> now + MediaTTL]
<1>4. now + MediaTTL \in 0 .. MaxTime + MediaTTL /\ now + MediaTTL <= body[v].at + Timeout + MediaTTL
  BY <1>2, <1>3
<1>5. e \in MediaEntries
  BY <1>2, <1>4 DEF MediaEntries
<1>6. Kept'
  BY <1>1, <1>5, StoreKeeps DEF MediaInv
<1>7. QED BY <1>1, <1>2, <1>6, RespondKeeps DEF MediaInv

\* The clock does not pass a deadline.
LEMMA MediaTickKeeps ==
    ASSUME MediaInv, Media!Tick
    PROVE  MediaInv'
<1>1. /\ now < MaxTime /\ now' = now + 1
      /\ \A v \in Viewers : place[v] # "put" /\ ~Media!Expired(v)
      /\ UNCHANGED <<order, bytes, slots, sem, place, preview, body, deadline, image, fetches>>
  BY DEF Media!Tick, Media!handler
<1>2. now \in Nat /\ now' \in 0 .. MaxTime /\ MaxTime \in Nat /\ Timeout \in Nat
  BY <1>1, MediaFacts DEF MediaInv
<1>3. Kept' /\ ViewerTypes'
  BY <1>1 DEF MediaInv, Kept, ViewerTypes
<1>4. Tokens'
  <2>1. Holders' = Holders
    BY <1>1 DEF Holders
  <2>2. QED BY <1>1, <2>1 DEF MediaInv, Tokens
<1>5. ASSUME NEW v \in Viewers
      PROVE  FetchOK(v)'
  <2>1. FetchOK(v) /\ deadline[v] \in Nat
    BY MediaFacts DEF MediaInv, ViewerTypes
  <2>2. place[v] \in {"fetch", "read"} => deadline[v] # now
    BY <1>1 DEF Media!Expired
  <2>3. place[v] \in {"fetch", "read"} => now + 1 <= deadline[v]
    BY <1>2, <2>1, <2>2 DEF FetchOK
  <2>4. place[v] = "fetch" => deadline[v] <= (now + 1) + Timeout
    BY <1>2, <2>1 DEF FetchOK
  <2>5. QED BY <1>1, <2>1, <2>3, <2>4 DEF FetchOK
<1>6. QED BY <1>1, <1>2, <1>3, <1>4, <1>5 DEF MediaInv

\* Nothing of the previews changes.
LEMMA MediaRest ==
    ASSUME MediaInv, UNCHANGED Media!vars
    PROVE  MediaInv'
<1>1. UNCHANGED <<now, order, bytes, slots, sem, place, preview, body, deadline, image, fetches>>
  BY DEF Media!vars
<1>2. Kept' /\ ViewerTypes'
  BY <1>1 DEF MediaInv, Kept, ViewerTypes
<1>3. Holders' = Holders
  BY <1>1 DEF Holders
<1>4. Tokens'
  BY <1>1, <1>3 DEF MediaInv, Tokens
<1>5. \A v \in Viewers : FetchOK(v)'
  BY <1>1 DEF MediaInv, FetchOK
<1>6. QED BY <1>1, <1>2, <1>4, <1>5 DEF MediaInv

\* The start.
LEMMA MediaStart == Media!Init => MediaInv
<1> SUFFICES ASSUME Media!Init
             PROVE  MediaInv
  OBVIOUS
<1>1. now \in 0 .. MaxTime /\ fetches \in 0 .. MaxFetches /\ 0 \in 0 .. MaxTime + Timeout
  BY MediaFacts DEF Media!Init
<1>2. Kept
  BY SizeEmpty, MediaFacts DEF Media!Init, Kept, Distinct
<1>3. Tokens
  <2>1. Holders = {}
    BY DEF Media!Init, Holders, Media!Holding
  <2>2. sem = 0 /\ slots \in Slots /\ 0 \in 0 .. slots
    BY MediaFacts DEF Media!Init
  <2>3. QED BY <2>1, <2>2, FS_EmptySet DEF Tokens
<1>4. ViewerTypes
  BY <1>1 DEF Media!Init, ViewerTypes, PlaceNames
<1>5. \A v \in Viewers : FetchOK(v)
  BY DEF Media!Init, FetchOK
<1>6. QED BY <1>1, <1>2, <1>3, <1>4, <1>5 DEF MediaInv

\* Every step.
LEMMA MediaStep ==
    ASSUME MediaInv, Media!Next
    PROVE  MediaInv'
<1>1. ASSUME NEW v \in Viewers, Media!Run(v)
      PROVE  MediaInv'
  BY <1>1, MediaLookKeeps, FetchFailsKeeps, MediaStoreKeeps DEF Media!Run, Media!TimesOut
<1>2. ASSUME NEW v \in Viewers, Media!Handler(v)
      PROVE  MediaInv'
  BY <1>1, <1>2, AcquireKeeps, BodyReadKeeps, FetchFailsKeeps, AnswersKeeps
     DEF Media!Handler
<1>3. ASSUME NEW v \in Viewers, NEW u \in Urls, Media!Ask(v, u)
      PROVE  MediaInv'
  BY <1>3, AskKeeps
<1>4. CASE Media!Tick
  BY <1>4, MediaTickKeeps
<1>5. CASE Media!Finished
  BY <1>5, MediaRest DEF Media!Finished
<1>6. QED BY <1>2, <1>3, <1>4, <1>5 DEF Media!Next
\* What a viewer is shown is what it asked for, and not too old.
LEMMA MediaFresh ==
    ASSUME MediaInv, Media!Next, NEW v \in Viewers,
           place[v] # "idle", place'[v] = "idle", image'[v] # None
    PROVE  image'[v].url = preview[v] /\ now - image'[v].at < MediaTTL + Timeout
<1>0. /\ now \in Nat /\ Timeout \in Nat /\ MediaTTL \in Nat \ {0}
      /\ place \in [Viewers -> PlaceNames]
  BY MediaFacts DEF MediaInv, ViewerTypes
<1>1. CASE Media!Look(v)
  <2>1. Media!Hit(preview[v])
    <3>1. ~Media!Hit(preview[v]) =>
             place' = [place EXCEPT ![v] = IF place[v] = "look" THEN "wait" ELSE "fetch"]
      BY <1>1 DEF Media!Look, Media!Go
    <3>2. QED BY <1>0, <3>1
  <2>2. image'[v] = Media!Entry(preview[v]).body
    BY <1>1, <2>1 DEF Media!Look, Media!Respond, MediaInv, ViewerTypes
  <2> DEFINE e == Media!Entry(preview[v])
  <2>3. e \in MediaEntries /\ e.key = preview[v] /\ e.expires > now
    BY <2>1, RemovedIs DEF Media!Hit, MediaInv
  <2> HIDE DEF e
  <2>4. /\ e.body.url = e.key /\ e.body.at \in Nat /\ e.expires \in Nat
        /\ e.expires <= e.body.at + Timeout + MediaTTL
    BY <2>3, MediaFacts
  <2>5. now - e.body.at < MediaTTL + Timeout
    BY <1>0, <2>3, <2>4
  <2>6. QED BY <2>2, <2>3, <2>4, <2>5 DEF e
<1>2. CASE Media!FetchFails(v)
  BY <1>2 DEF Media!FetchFails, Media!Respond, MediaInv, ViewerTypes
<1>3. CASE Media!Store(v)
  <2>1. image'[v] = body[v] /\ place[v] = "put"
    BY <1>3 DEF Media!Store, Media!Respond, MediaInv, ViewerTypes
  <2>2. /\ body[v] \in Media!Bodies /\ body[v].url = preview[v]
        /\ now <= deadline[v] /\ deadline[v] <= body[v].at + Timeout
    BY <2>1 DEF MediaInv, FetchOK
  <2>3. body[v].at \in Nat /\ deadline[v] \in Nat
    BY <2>2, MediaFacts DEF MediaInv, ViewerTypes
  <2>4. now - body[v].at < MediaTTL + Timeout
    BY <1>0, <2>2, <2>3
  <2>5. QED BY <2>1, <2>2, <2>4
<1>4. CASE Media!Acquire(v) \/ Media!BodyRead(v) \/ \E z \in Sizes : Media!Answers(v, z)
  BY <1>0, <1>4 DEF Media!Acquire, Media!BodyRead, Media!Answers, Media!Go
<1>5. ASSUME NEW u \in Viewers, u # v, Media!Handler(u) \/ \E x \in Urls : Media!Ask(u, x)
      PROVE  FALSE
  <2>1. place' = [place EXCEPT ![u] = place'[u]]
    BY <1>0, <1>5 DEF Media!Handler, Media!Run, Media!TimesOut, Media!Look, Media!Store,
       Media!FetchFails, Media!Acquire, Media!BodyRead, Media!Answers,
       Media!Ask, Media!Respond, Media!Go
  <2>2. QED BY <1>0, <1>5, <2>1
<1>6. ASSUME NEW x \in Urls, Media!Ask(v, x)
      PROVE  FALSE
  BY <1>6 DEF Media!Ask
<1>7. CASE Media!Tick \/ Media!Finished
  BY <1>7 DEF Media!Tick, Media!Finished, Media!vars, Media!handler
<1>8. QED
  <2>1. Media!Handler(v) => \/ Media!Look(v) \/ Media!FetchFails(v) \/ Media!Store(v)
                            \/ Media!Acquire(v) \/ Media!BodyRead(v)
                            \/ \E z \in Sizes : Media!Answers(v, z)
    BY DEF Media!Handler, Media!Run, Media!TimesOut
  <2>2. \/ Media!Handler(v) \/ \E x \in Urls : Media!Ask(v, x)
        \/ \E u \in Viewers \ {v} : Media!Handler(u) \/ \E x \in Urls : Media!Ask(u, x)
        \/ Media!Tick \/ Media!Finished
    BY DEF Media!Next
  <2>3. QED BY <1>1, <1>2, <1>3, <1>4, <1>5, <1>6, <1>7, <2>1, <2>2

-----------------------------------------------------------------------------
(* Both: a step of one is no step of the other's, but the clock is shared. *)

\* While the previews have the traffic a step of theirs is at most a tick for
\* the pages.
LEMMA PreviewsForPages ==
    ASSUME CachesInv, ViewPreviews
    PROVE  PagesInv' /\ [PagesNext]_browseVars
<1>1. /\ traffic = "previews" /\ Media!Next
      /\ UNCHANGED <<caches, step, ask, key, val, shown, asks, strays>>
  BY DEF ViewPreviews, pageVars
<1>2. \A h \in Handlers : step[h] = "idle"
  BY <1>1 DEF CachesInv
<1>3. CASE Media!Tick
  <2>1. Tick
    BY <1>1, <1>2, <1>3 DEF Tick, Media!Tick, Storing
  <2>2. QED BY <2>1, TickKeeps DEF CachesInv, PagesNext
<1>4. CASE ~Media!Tick
  <2>1. now' = now
    BY <1>1, <1>4 DEF Media!Next, Media!Handler, Media!Run, Media!TimesOut,
       Media!Look, Media!Store, Media!FetchFails, Media!Acquire,
       Media!BodyRead, Media!Answers, Media!Ask, Media!Finished, Media!vars
  <2>2. UNCHANGED browseVars
    BY <1>1, <2>1 DEF browseVars
  <2>3. QED BY <2>2, PagesRest DEF CachesInv
<1>5. QED BY <1>3, <1>4

\* And the other way round.
LEMMA PagesForPreviews ==
    ASSUME CachesInv, BrowsePages
    PROVE  MediaInv' /\ [Media!Next]_(Media!vars)
<1>1. /\ traffic = "pages" /\ PagesNext
      /\ UNCHANGED <<order, bytes, slots, sem, place, preview, body, deadline, image, fetches>>
  BY DEF BrowsePages, mediaVars
<1>2. \A v \in Viewers : place[v] = "idle"
  BY <1>1 DEF CachesInv
<1>3. CASE Tick
  <2>1. Media!Tick
    BY <1>1, <1>2, <1>3 DEF Tick, Media!Tick, Media!Expired, Media!handler
  <2>2. QED BY <2>1, MediaTickKeeps DEF CachesInv, Media!Next
<1>4. CASE ~Tick
  <2>1. now' = now
    BY <1>1, <1>4 DEF PagesNext, Handler, CursorForPage, GetQuery, QueryFiles,
       CallFails, PutQuery, SeedItems, PutNext, GetItem, GetItemDetails, PutItem,
       Answer, OpenPage, OpenItem, Start, PagesFinished, browseVars
  <2>2. UNCHANGED Media!vars
    BY <1>1, <2>1 DEF Media!vars
  <2>3. QED BY <2>2, MediaRest DEF CachesInv
<1>5. QED BY <1>3, <1>4

\* The invariant of both.
LEMMA CachesStep ==
    ASSUME CachesInv, [CachesNext]_allVars
    PROVE  CachesInv' /\ [PagesNext]_browseVars /\ [Media!Next]_(Media!vars)
<1>1. CASE BrowsePages
  <2>1. PagesNext /\ PagesInv'
    BY <1>1, PagesStep DEF BrowsePages, CachesInv
  <2>2. MediaInv' /\ [Media!Next]_(Media!vars)
    BY <1>1, PagesForPreviews
  <2>3. traffic' = traffic /\ traffic = "pages" /\ place' = place
    BY <1>1 DEF BrowsePages, mediaVars
  <2>4. QED BY <2>1, <2>2, <2>3 DEF CachesInv
<1>2. CASE ViewPreviews
  <2>1. Media!Next /\ MediaInv'
    BY <1>2, MediaStep DEF ViewPreviews, CachesInv
  <2>2. PagesInv' /\ [PagesNext]_browseVars
    BY <1>2, PreviewsForPages
  <2>3. traffic' = traffic /\ traffic = "previews" /\ step' = step
    BY <1>2 DEF ViewPreviews, pageVars
  <2>4. QED BY <2>1, <2>2, <2>3 DEF CachesInv
<1>3. CASE UNCHANGED allVars
  <2>1. UNCHANGED browseVars /\ UNCHANGED Media!vars /\ traffic' = traffic
        /\ place' = place /\ step' = step
    BY <1>3 DEF allVars, pageVars, mediaVars, browseVars, Media!vars
  <2>2. QED BY <2>1, PagesRest, MediaRest DEF CachesInv
<1>4. QED BY <1>1, <1>2, <1>3 DEF CachesNext

\* The invariant holds.
LEMMA CachesInvariant == CachesSpec => []CachesInv
<1>1. CachesInit => CachesInv
  <2> SUFFICES ASSUME CachesInit
               PROVE  CachesInv
    OBVIOUS
  <2>1. PagesInv /\ MediaInv
    BY PagesStart, MediaStart DEF CachesInit
  <2>2. /\ \A v \in Viewers : place[v] = "idle"
        /\ \A h \in Handlers : step[h] = "idle"
    BY DEF CachesInit, PagesInit, Media!Init
  <2>3. QED BY <2>1, <2>2 DEF CachesInit, CachesInv
<1>2. CachesInv /\ [CachesNext]_allVars => CachesInv'
  BY CachesStep
<1>3. QED BY <1>1, <1>2, PTL DEF CachesSpec

-----------------------------------------------------------------------------
(* The properties. *)

\* The caches of pages stay within their capacities with one entry for a key,
\* and what is found under a key is of its page and in its language.
THEOREM PagesAreConsistent == CachesSpec => []PagesConsistent
<1>1. CachesInv => PagesConsistent
  BY PagesTyped, PagesFiled DEF CachesInv, PagesConsistent
<1>2. QED BY <1>1, CachesInvariant, PTL

\* Asked for by number or with any cursor, from Steam or from a cache: page n is
\* the n-th of the list, unless somebody asked in this language for it or for a
\* page before it with the cursor of another page (cache.go 119-148, server.go
\* 206-260).
THEOREM PagesAreRight == CachesSpec => []RightPage
<1>1. CachesInv => RightPage
  BY PagesRight DEF CachesInv
<1>2. QED BY <1>1, CachesInvariant, PTL

\* The types, the bytes and the tokens of the previews.
LEMMA MediaSays == MediaInv => MediaConsistent
<1> SUFFICES ASSUME MediaInv
             PROVE  MediaConsistent
  OBVIOUS
<1>1. Media!Accounted
  <2>1. \A i \in DOMAIN order : order[i] \in MediaEntries
    BY DEF MediaInv, Kept
  <2>2. \A i \in DOMAIN order : order[i].body.url = order[i].key
    BY <2>1, MediaFacts
  <2>3. QED BY <2>2 DEF MediaInv, Kept, Distinct, Media!Accounted
<1>2. Media!SlotsOwned
  <2>1. Media!Cardinality(Holders) = Cardinality(Holders)
    BY DEF Media!Cardinality, Cardinality
  <2>2. QED BY <2>1 DEF MediaInv, Tokens, Holders, Media!SlotsOwned
<1>3. bytes \in Nat
  BY SizeChanges DEF MediaInv, Kept
<1>4. Media!Range(order) \subseteq
         [key : Media!Keys, body : Media!Bodies, expires : 0 .. MaxTime + MediaTTL]
  BY DEF MediaInv, Kept, Media!Range, MediaEntries
<1>5. Media!TypeOK
  BY <1>3, <1>4 DEF MediaInv, Tokens, ViewerTypes, PlaceNames, Media!TypeOK
<1>6. QED BY <1>1, <1>2, <1>5 DEF MediaConsistent

\* The counter of bytes is the sum of what is kept and within its budget, and
\* a token is held by a fetch and by nobody else.
THEOREM MediaIsConsistent == CachesSpec => []MediaConsistent
<1>1. CachesInv => MediaConsistent
  BY MediaSays DEF CachesInv
<1>2. QED BY <1>1, CachesInvariant, PTL

\* No page is shown that is older than its entry may be, and no preview that is
\* older than its entry and its fetch may be.
THEOREM NothingIsStale == CachesSpec => NothingStale
<1> DEFINE Pages1 == \A h \in Handlers :
              /\ step[h] = "look" /\ step'[h] = "idle" => now - shown'[h].at < QueryTTL
              /\ step[h] = "lookItem" /\ step'[h] = "idle" => now - shown'[h].at < ItemTTL
           Previews == \A v \in Viewers :
              place[v] # "idle" /\ place'[v] = "idle" /\ image'[v] # None =>
                 /\ image'[v].url = preview[v]
                 /\ now - image'[v].at < MediaTTL + Timeout
<1>1. CachesInv /\ [CachesNext]_allVars => [Pages1]_browseVars
  BY CachesStep, PagesFresh DEF CachesInv
<1>2. CachesInv /\ [CachesNext]_allVars => [Previews]_(Media!vars)
  BY CachesStep, MediaFresh DEF CachesInv
<1>3. CachesSpec => [][Pages1]_browseVars /\ [][Previews]_(Media!vars)
  BY <1>1, <1>2, CachesInvariant, PTL DEF CachesSpec
<1>4. QED BY <1>3 DEF NothingStale, ServedFresh, Media!ServedFresh

\* Each of the two caches by itself is as its module says, though they share
\* the clock.
THEOREM CachesImplementTheirParts ==
    CachesSpec => PagesSpec /\ Media!Init /\ [][Media!Next]_(Media!vars)
<1>1. CachesInit => PagesInit /\ Media!Init
  BY DEF CachesInit
<1>2. CachesInv /\ [CachesNext]_allVars =>
         [PagesNext]_browseVars /\ [Media!Next]_(Media!vars)
  BY CachesStep
<1>3. QED BY <1>1, <1>2, CachesInvariant, PTL DEF CachesSpec, PagesSpec
=============================================================================
