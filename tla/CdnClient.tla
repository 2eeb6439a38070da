----------------------------- MODULE CdnClient -----------------------------
(***************************************************************************)
(* internal/steam/cdn: the client of the content servers that one          *)
(* DownloadItem shares between its goroutines.  The caller of DownloadItem *)
(* (Main) downloads the manifest of an item; then its workers download     *)
(* chunks until all of them have finished, and the next item begins.       *)
(* Depot keys, the rotating list of servers and the cache of chunks outlive*)
(* the item.                                                               *)
(*                                                                         *)
(* A server answers a request as it likes, except that a server outside    *)
(* Accepts refuses this client with 403 (client.go 110-112).  The context  *)
(* only adds failures of the transport.  In a list a server is a number;   *)
(* "OpenCache" servers are not in it.                                      *)
(***************************************************************************)
EXTENDS Naturals, Sequences, FiniteSets, FiniteSetsExt

CONSTANTS
    Main,      \* the goroutine that calls DownloadItem
    Workers,   \* the goroutines it starts
    Depots,
    Shas,      \* chunks are <<depot, sha>>
    Size,      \* Size[s]: bytes of the chunk s, decompressed
    MaxBytes,  \* maxChunkCacheBytes (64 MiB)
    Tries,     \* attempts of cdnGET (8)
    Lists,     \* what GetServersForSteamPipe may return (up to 20 servers)
    Accepts,   \* the servers that serve this client
    MaxCalls,  \* bound: calls of GetManifest and GetChunk
    Nothing

ASSUME CdnAssumption ==
    /\ Size \in [Shas -> Nat]
    /\ MaxBytes \in Nat
    /\ Tries \in Nat \ {0}
    /\ Lists \subseteq Seq(Nat)
    /\ MaxCalls \in Nat
    /\ Main \notin Workers

Goroutines == Workers \cup {Main}
Chunks == Depots \X Shas

VARIABLES
    servers,    \* ServerList.servers
    idx,        \* ServerList.idx
    depotKeys,  \* the depots whose key is cached
    chunkCache, \* the chunks that are cached
    cacheBytes,
    phase,      \* of DownloadItem: "idle", "manifest" or "files"
    depot,      \* the depot of the item
    pc,         \* pc[g]: where g stands in GetManifest or GetChunk
    want,       \* want[g]: the chunk it asked for, or Nothing
    try,        \* try[g]: the loop variable of cdnGET
    srv,        \* srv[g]: the server of this attempt, or 0
    tried,      \* history: the servers this call of cdnGET has asked, and
    rivals,     \* whether another goroutine rotated the list meanwhile
    outcome,    \* outcome[g]: how its last call ended
    calls       \* calls so far

listVars == <<servers, idx>>
cacheVars == <<chunkCache, cacheBytes>>
itemVars == <<phase, depot, calls>>
getVars == <<try, srv, tried, rivals>>
vars == <<listVars, depotKeys, cacheVars, itemVars, pc, want, getVars, outcome>>

\* Where a goroutine stands, and how its last call ended.
Steps == {"idle", "cache", "ensure", "fetch", "next", "wait", "key", "ask",
          "store"}
Outcomes == {"none", "data", "tries", "error"}

TypeOK ==
    /\ servers \in Lists \cup {<<>>}
    /\ idx \in Nat
    /\ servers # <<>> => idx < Len(servers)
    /\ depotKeys \subseteq Depots
    /\ chunkCache \subseteq Chunks
    /\ cacheBytes \in Nat
    /\ phase \in {"idle", "manifest", "files"}
    /\ depot \in Depots \cup {Nothing}
    /\ pc \in [Goroutines -> Steps]
    /\ want \in [Goroutines -> Chunks \cup {Nothing}]
    /\ try \in [Goroutines -> 0 .. Tries]
    /\ srv \in [Goroutines -> Nat]
    /\ tried \in [Goroutines -> SUBSET Nat]
    /\ rivals \in [Goroutines -> BOOLEAN]
    /\ outcome \in [Goroutines -> Outcomes]
    /\ calls \in 0 .. MaxCalls

Init ==
    /\ servers = <<>>
    /\ idx = 0
    /\ depotKeys = {}
    /\ chunkCache = {}
    /\ cacheBytes = 0
    /\ phase = "idle"
    /\ depot = Nothing
    /\ pc = [g \in Goroutines |-> "idle"]
    /\ want = [g \in Goroutines |-> Nothing]
    /\ try = [g \in Goroutines |-> 0]
    /\ srv = [g \in Goroutines |-> 0]
    /\ tried = [g \in Goroutines |-> {}]
    /\ rivals = [g \in Goroutines |-> FALSE]
    /\ outcome = [g \in Goroutines |-> "none"]
    /\ calls = 0

-----------------------------------------------------------------------------
(* DownloadItem, as far as it orders the calls. *)

Goto(g, l) == pc' = [pc EXCEPT ![g] = l]

\* GetManifest of the next item; the calls of the CM before it succeeded.
StartItem(d) ==
    /\ phase = "idle"
    /\ calls < MaxCalls
    /\ calls' = calls + 1
    /\ phase' = "manifest"
    /\ depot' = d
    /\ Goto(Main, "ensure")
    /\ outcome' = [outcome EXCEPT ![Main] = "none"]
    /\ UNCHANGED <<listVars, depotKeys, cacheVars, want, getVars>>

\* Without a manifest no worker is started.
ManifestDone ==
    /\ phase = "manifest"
    /\ pc[Main] = "idle"
    /\ phase' = IF outcome[Main] = "data" THEN "files" ELSE "idle"
    /\ UNCHANGED <<listVars, depotKeys, cacheVars, depot, calls, pc, want,
                   getVars, outcome>>

GetChunk(g, s) ==
    /\ phase = "files"
    /\ pc[g] = "idle"
    /\ calls < MaxCalls
    /\ calls' = calls + 1
    /\ Goto(g, "cache")
    /\ want' = [want EXCEPT ![g] = <<depot, s>>]
    /\ outcome' = [outcome EXCEPT ![g] = "none"]
    /\ UNCHANGED <<listVars, depotKeys, cacheVars, phase, depot, getVars>>

\* wg.Wait
EndItem ==
    /\ phase = "files"
    /\ \A g \in Workers : pc[g] = "idle"
    /\ phase' = "idle"
    /\ UNCHANGED <<listVars, depotKeys, cacheVars, depot, calls, pc, want,
                   getVars, outcome>>

Return(g, how) ==
    /\ Goto(g, "idle")
    /\ outcome' = [outcome EXCEPT ![g] = how]
    /\ want' = [want EXCEPT ![g] = Nothing]

\* What a call of cdnGET leaves behind is of no use after it.
Forget(g) ==
    /\ try' = [try EXCEPT ![g] = 0]
    /\ srv' = [srv EXCEPT ![g] = 0]

-----------------------------------------------------------------------------
(* GetChunk, cdnGET and EnsureServers. *)

LookInCache(g) ==
    /\ pc[g] = "cache"
    /\ IF want[g] \in chunkCache
         THEN Return(g, "data")
         ELSE Goto(g, "ensure") /\ UNCHANGED <<want, outcome>>
    /\ UNCHANGED <<listVars, depotKeys, cacheVars, itemVars, getVars>>

EnsureServers(g) ==
    /\ pc[g] = "ensure"
    /\ Goto(g, IF servers # <<>> THEN "next" ELSE "fetch")
    /\ tried' = [tried EXCEPT ![g] = {}]
    /\ rivals' = [rivals EXCEPT ![g] = FALSE]
    /\ UNCHANGED <<listVars, depotKeys, cacheVars, itemVars, want, try, srv,
                   outcome>>

FetchFromWebAPI(g) ==
    /\ pc[g] = "fetch"
    /\ \/ /\ \E ss \in Lists \ {<<>>} : servers' = ss
          /\ idx' = 0
          /\ Goto(g, "next")
          /\ UNCHANGED <<want, outcome>>
       \/ Return(g, "error") /\ UNCHANGED listVars
    /\ UNCHANGED <<depotKeys, cacheVars, itemVars, getVars>>

\* Mutant: the first retry goes to the same server again.
RotateLate(g) == try[g] > 1

Rotate(g) == try[g] > 0

IdxAfter == (idx + 1) % Len(servers)

InGET(g) == pc[g] \in {"next", "wait"}

\* ServerList.Next at the head of the loop.
NextServer(g) ==
    /\ pc[g] = "next"
    /\ idx' = IF Rotate(g) THEN IdxAfter ELSE idx
    /\ LET s == servers[(idx' % Len(servers)) + 1]
       IN  /\ srv' = [srv EXCEPT ![g] = s]
           /\ tried' = [tried EXCEPT ![g] = @ \cup {s}]
    /\ rivals' = [h \in Goroutines |-> rivals[h] \/ (Rotate(g) /\ h # g /\ InGET(h))]
    /\ Goto(g, "wait")
    /\ UNCHANGED <<servers, depotKeys, cacheVars, itemVars, want, try, outcome>>

Reply200(g) ==
    /\ pc[g] = "wait"
    /\ srv[g] \in Accepts
    /\ Goto(g, "key")
    /\ Forget(g)
    /\ UNCHANGED <<listVars, depotKeys, cacheVars, itemVars, want, tried, rivals,
                   outcome>>

TryAfter(g) == try[g] + 1

\* The transport, a 5xx or a 403: the next attempt, if there is one.
ReplyRetry(g) ==
    /\ pc[g] = "wait"
    /\ IF TryAfter(g) < Tries
         THEN /\ try' = [try EXCEPT ![g] = TryAfter(g)]
              /\ Goto(g, "next")
              /\ UNCHANGED <<want, outcome, srv>>
         ELSE Return(g, "tries") /\ Forget(g)
    /\ UNCHANGED <<listVars, depotKeys, cacheVars, itemVars, tried, rivals>>

\* Any other 4xx.
ReplyRefused(g) ==
    /\ pc[g] = "wait"
    /\ srv[g] \in Accepts
    /\ Return(g, "error")
    /\ Forget(g)
    /\ UNCHANGED <<listVars, depotKeys, cacheVars, itemVars, tried, rivals>>

-----------------------------------------------------------------------------
(* GetDepotKey, decryption and the cache. *)

\* Mutant: a key is not kept.
KeysUnchanged == depotKeys

KeysWithDepot == depotKeys \cup {depot}

\* With the key the manifest or the chunk is decoded, or cannot be.
Decode(g) ==
    \/ Return(g, "error")
    \/ g = Main /\ Return(g, "data")
    \/ g # Main /\ Goto(g, "store") /\ UNCHANGED <<want, outcome>>

LookForKey(g) ==
    /\ pc[g] = "key"
    /\ IF depot \in depotKeys
         THEN Decode(g)
         ELSE Goto(g, "ask") /\ UNCHANGED <<want, outcome>>
    /\ UNCHANGED <<listVars, depotKeys, cacheVars, itemVars, getVars>>

AskForKey(g) ==
    /\ pc[g] = "ask"
    /\ \/ depotKeys' = KeysWithDepot /\ Decode(g)
       \/ Return(g, "error") /\ UNCHANGED depotKeys
    /\ UNCHANGED <<listVars, cacheVars, itemVars, getVars>>

Bytes(S) == MapThenSumSet(LAMBDA c : Size[c[2]], S)

Fits(c, dropped) == cacheBytes - Bytes(dropped) + Size[c[2]] <= MaxBytes

\* What may be dropped for c: entries go one by one, in any order, until c
\* fits or nothing is left.
Evictions(c) ==
    IF Fits(c, {}) THEN {{}}
    ELSE {D \in SUBSET chunkCache :
            /\ Fits(c, D) \/ D = chunkCache
            /\ D # {} => \E last \in D : ~Fits(c, D \ {last})}

\* Mutant: nobody looks whether another worker has stored the chunk meanwhile.
MissingAlways(g) == TRUE

Missing(g) == want[g] \notin chunkCache

Store(g) ==
    /\ pc[g] = "store"
    /\ IF Missing(g)
         THEN \E D \in Evictions(want[g]) :
                 LET c == want[g]
                     kept == IF Fits(c, D) THEN {c} ELSE {}
                 IN  /\ chunkCache' = (chunkCache \ D) \cup kept
                     /\ cacheBytes' = cacheBytes - Bytes(D) + Bytes(kept)
         ELSE UNCHANGED cacheVars
    /\ Return(g, "data")
    /\ UNCHANGED <<listVars, depotKeys, itemVars, getVars>>

-----------------------------------------------------------------------------

Call(g) ==
    \/ LookInCache(g)
    \/ EnsureServers(g)
    \/ FetchFromWebAPI(g)
    \/ NextServer(g)
    \/ Reply200(g)
    \/ ReplyRetry(g)
    \/ ReplyRefused(g)
    \/ LookForKey(g)
    \/ AskForKey(g)
    \/ Store(g)

Item ==
    \/ \E d \in Depots : StartItem(d)
    \/ ManifestDone
    \/ EndItem

\* Every call of the bound has been made.
Finished == phase = "idle" /\ calls = MaxCalls /\ UNCHANGED vars

Next ==
    \/ Item
    \/ \E g \in Workers, s \in Shas : GetChunk(g, s)
    \/ \E g \in Goroutines : Call(g)
    \/ Finished

Spec == Init /\ [][Next]_vars

-----------------------------------------------------------------------------
(* Properties. *)

\* The counter of the cache is the size of what it holds and stays within
\* the budget, although several workers may download one chunk at a time
\* and store it one after the other (client.go 301-317).
CacheAccounted == cacheBytes = Bytes(chunkCache) /\ cacheBytes <= MaxBytes

\* The types (the index stays within the list, servers.go 81-83, attempts
\* within Tries), and the cache accounted for.
Consistent == TypeOK /\ CacheAccounted

\* Only Main ever reaches for the CM connection or for the list of servers.
\* CMClient relies on it: one goroutine at a time uses that client, and the
\* workers call GetDepotKey and EnsureServers for every chunk.
WorkersFindAll == \A g \in Workers : pc[g] \notin {"ask", "fetch"}

\* Why: GetManifest returns data only after it has found a server and the key
\* of the depot, which stay, and no worker runs before that.
HasAll == servers # <<>> /\ depot \in depotKeys

ManifestFirst ==
    /\ pc[Main] # "idle" => phase = "manifest"
    /\ \A g \in Workers : pc[g] # "idle" => phase = "files"
    /\ phase = "files" => HasAll
    /\ phase = "manifest" /\ outcome[Main] = "data" => HasAll
    /\ pc[Main] \in {"next", "wait", "key", "ask"} => servers # <<>>
    /\ pc[Main] \notin {"cache", "store"}

IInv ==
    /\ pc \in [Goroutines -> Steps]
    /\ outcome \in [Goroutines -> Outcomes]
    /\ ManifestFirst
    /\ WorkersFindAll

\* When cdnGET gives up after its attempts it has asked every server, as
\* client.go 112 says ("only give up after exhausting the list"), but only if
\* the list is no longer than its attempts and nobody else rotated it
\* meanwhile: the index belongs to the list, not to the request.
GivesUpAfterAll ==
    \A g \in Goroutines :
        /\ outcome[g] = "tries"
        /\ Len(servers) <= Tries
        /\ ~rivals[g]
        => \A i \in 1 .. Len(servers) : servers[i] \in tried[g]
=============================================================================
