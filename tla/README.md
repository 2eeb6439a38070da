# Verification of swd, the Steam Workshop downloader

swd logs in anonymously to Steam's connection managers (CM), resolves Workshop
items, downloads them from Steam's CDN, keeps subscriptions up to date, and
serves a web page from which all of this can be asked for. This directory
holds TLA+ modules of its concurrent and failure-prone parts, TLC
configurations that check them on small instances, and TLAPS proofs of the
properties that matter most.

    tlc -config SteamSession.cfg SteamSession.tla      # one run
    tlapm SteamSessionProofs.tla                       # one proof module

1. [The system](#1-the-system)
2. [Modules](#2-modules)
3. [Runs: what is checked, and the bounds](#3-runs)
4. [Fairness](#4-fairness)
5. [Theorems](#5-theorems)
6. [Where the comments promise more than the code does](#6-where-the-comments-promise-more-than-the-code-does)
7. [What is not modelled](#7-what-is-not-modelled)
8. [Plan](#8-plan)

## 1. The system

The process is `swd web` (a server that lives for weeks) or one `swd` command.
Paths are relative to `src/`.

| component | state | operations | correct when |
|---|---|---|---|
| Steam worker session, `internal/web/session.go` | channel of jobs, `closed`, the CM session and its HTTP client | `CallCtx` by any goroutine; `loop`/`runJob`/`ensure` by one worker; `Close` | jobs are served once and in order, by one goroutine; a call gets its own result or gives up; Close drains |
| Download queue, `internal/web/downloads.go` | `jobsMap`, `order`, `queue`, `closed`, `idSeq` under `m.mu`; `Status` under `job.mu` | `Enqueue` by handlers, with a goroutine per job that finds the channel full; `loop`/`runOne`; `Close` | an item is not downloaded twice at a time; an accepted job is run once |
| Web server, `internal/web/server.go`, `internal/cli/web.go` | the listener, two Steam sessions (browse, download), the queue | handlers, `Warmup`, a signal, `Shutdown` | accepted requests are answered; Shutdown ends and leaves nobody waiting |
| Metadata cache, `internal/web/cache.go` | three TTL caches: list pages, items, the cursor from a page to the next | `get`, `put`, `PutQuery`, `CursorForPage` by handlers | the page asked for is shown, unless a request gave the cursor of another page; in the right language, no older than its TTL |
| CM client, `internal/steam/cm/client.go` | connection, channel key, `loggedOn`, heartbeat, waiters by message and by job id | login, `SendUM`, `GetDepotKey` by one caller; a reader per connection; `Disconnect` by both | replies reach the call they answer; no socket is forgotten; everything ends |
| CM server list, `internal/steam/cm/servers.go` | servers, an index, marks with their time | `Bootstrap`, `Next`, `MarkBad` by the login loop | a login tries another server each time, WebSocket first |
| Media cache, `internal/web/media.go` | LRU entries with a lifetime and a budget of bytes, four tokens | `Fetch` by handlers: look, take a token, fetch, store | bytes and tokens add up; nothing older than its entry is shown; every request ends |
| Wire formats, `internal/steam/pb/wire.go`, `internal/steam/protocol/protobuf.go` | none | varints, fields, headers, written and read | what is written is read back, what is cut off is refused |
| Workshop queries, `internal/steam/workshop/*.go` | none | `ResolveIDs`, `GetDetails`, the queries of a page | an expansion is in order, without duplicates, and loses only what failed calls asked for |
| Manifests and chunks, `manifest/parse.go`, `chunkcodec/codec.go`, `crypto.go` | none | `Parse`, `DecryptFilenames`, `Decompress`, `SymmetricDecrypt`, `ReadFile` | a file is put together as the manifest lists it, or fails |
| CM transport, `internal/steam/cm/wss.go`, `internal/steam/protocol/frame.go` | a byte stream | `WriteMsg`, `WritePacket` by caller, heartbeat, reader | the stream is a sequence of whole frames |
| Proxy dialer, `internal/proxy/dialer.go` | the connection to the proxy | three handshakes | the connection is returned at the target's first byte, or closed |
| CDN client, `internal/steam/cdn/*.go` | list of servers with an index, depot keys, chunk cache | `GetManifest` by the caller of `DownloadItem`; `GetChunk` by its workers | the cache stays in its budget; workers never use the CM connection; all servers are tried |
| Item downloader, `internal/download/item.go`, `internal/util/backoff.go` | the item's directory, three counters, a channel of files | `DownloadItem` and its workers | the counts tell what is on the disk; nothing cut off stays under a file's name |
| Subscription store, `internal/subscription/store.go` | the list in memory, `subscriptions.json`, its `.tmp` | `Load`, `Add`, `Remove`, `MarkSynced`, each saving the whole list | the file parses and holds what was acknowledged |
| Subscription sync, `internal/subscription/sync.go`, `internal/web/handlers_subs.go` | the entries, the files of each item | `Sync`, `CheckUpdates`, subscribe, unsubscribe | what is recorded as synced is what is on the disk |

How they interact. A handler that shows pages or adds subscriptions calls the
browse session, with the context of its request. One that queues a download calls
the download session to resolve the item (`Enqueue`, with a timeout of its own),
and one that updates subscriptions calls it for `Sync`; so does the queue's loop,
for one job after the other, and the warm-up calls both. A session's worker is the one
goroutine that uses its CM client and calls `DownloadItem`, which starts its own
workers over one CDN client. The store is shared with
other processes through its file only. Everything is shared memory guarded by
mutexes that are released between steps, channels, or fields that are read
without any guard.

What is hard: steps between an unlock and the use of what was read under the
lock (`CallCtx`, `dispatch`, the overflow goroutine, `CheckUpdates`, `Sync`);
timeouts that race with late answers; readers left over from an earlier
connection; Close and Shutdown in the middle of anything; processes killed in
the middle of a save or a download; queues, histories and caches at their
limits. `PROJECT.json` lists the places with their lines ("hazards").

## 2. Modules

Each module begins with a comment on what it stands for; names are the code's.
An operator marked "Mutant" is a plausible bug: a variant of the definition
after it, with which a property must fail.

| module | of | how state and actions correspond |
|---|---|---|
| `SteamSession` | session.go | `jobs`/`jobsClosed` is the channel, `pc[c]` the step of `CallCtx` of call `c` (the test of `closed` under `s.mu`, the first and the second `select`), `loop`/`cur` the worker and the job it has in hand. `Receive` and `StopWaiting` are the cases of the second `select`: any that is ready may be taken. |
| `WorkerContract` | what SteamSession promises | a serial service: requests are accepted in order, served one at a time, each told its verdict or given up on. `SteamSession!KeepsContract` is the refinement. |
| `DownloadManager` | downloads.go | `mu` is `m.mu`, held by an `Enqueue` across its insertions; `pusher[j]` the goroutine of a job that found the channel full. A status read without `job.mu` while `runOne` writes it may come out wrong (`torn`, recorded in `misread`). |
| `JobLifecycle` | what the queue promises | queued, run once and alone, ended for good. `DownloadManager!LifecycleKept` is the refinement. |
| `WebServer` | server.go, web.go | composes two instances of `SteamSession`, one for browsing and one for downloads, with the signal and `Shutdown`. Callers of the first are the handlers in `Pages`, whose browser may leave; of the second those in `Enqueues` (timed) and `Syncs`, neither cancelled with its request, and the queue's loop (`JobCalls`); of both the warm-up. A panic in a handler is recovered by net/http; any other ends the process (`Crashed`). |
| `BrowseCache` | cache.go, `runQuery`, `runDetail` | a cache is the sequence of its entries, least recently used first; a handler leaves the caches between any two operations. A request may name any page and any cursor, or none; `strays` records the pages that were asked for with the cursor of another one. |
| `MediaCache` | media.go, `mediaImage` | `place[v]` is the step of handler `v` in `Fetch`; `sem` are the tokens given out. What Steam sends is marked with the time it was sent, so that its age can be told. |
| `WebCaches` | both caches | composes `BrowseCache` and `MediaCache` over one clock. They share no state, so a behaviour has traffic for one of them (`traffic`). |
| `CMClient` | cm/client.go, steam/session.go | `reader[k]` is the goroutine of connection `k` with the connection it captured (`rconn`), the message (`rmsg`) and the waiter (`rref`) it has in hand; `box[w]` is the buffer of a waiter's channel; `wire[k]` what Steam has sent. |
| `ServerList`, `CMLogin` | cm/servers.go, `ConnectAndLogin` | `ServerList` has the operators on the list; `CMLogin` is `CMClient` with the list beside it: each attempt takes the next server, which decides the transport, and marks it when it fails. A mark is forgotten at any time after that. `Answers` is what the Web API may answer: any set of sequences of servers. |
| `WireFormat`, `Inbound` | pb/wire.go, protocol/protobuf.go, `ReadMsg`, `dispatch`, `handleMulti` | operators. Bytes have three bits and a flag, integers seven bits, so that a varint of the longest form and its overflow occur. A message is what `dispatch` tells apart. |
| `WireWrite` | wss.go, frame.go | a frame is written in parts, one `Write` each; a header is told apart by what it announces. |
| `ProxyDial` | proxy/dialer.go | `net` is what the proxy has sent and nobody has read; a `Read` takes any part of it. An answer has a bound address of any of the lengths in `BoundSizes` and may be cut off anywhere; every write may fail. |
| `ProxiedLink` | `dialTransported`, `connectOne` | composes `ProxyDial` and `WireWrite`: frames are written to the connection the dialer returned. |
| `CdnClient` | cdn/client.go, cdn/servers.go | `pc[g]` is where goroutine `g` stands in `GetManifest` or `GetChunk`; `servers`, `idx`, `depotKeys`, `chunkCache` are shared. |
| `ResolveIDs` | workshop/details.go, query.go | operators; `answered` are the calls that Steam answers, in the order they are made; `BatchSize` is 1 or 2. |
| `FileContent` | manifest/parse.go, chunkcodec/codec.go, crypto.go, `ReadFile` | operators from the bytes of a manifest and of its chunks to a file. A container says what its decoder makes of it. |
| `DownloadItem`, `Backoff` | download/item.go, util/backoff.go | `disk[f]` is what the file holds; each worker goes file by file, attempt by attempt; runs begin again over what earlier ones left. |
| `SubscriptionStore` | subscription/store.go | each step of `saveLocked` (truncate, write, rename) of each process; a process may be killed between any two and in the middle of a write. |
| `SubscriptionSync` | subscription/sync.go, handlers_subs.go | `Sync` and `CheckUpdates` work on copies (`snap`, `checking`) while entries change and manifests are published. |
| `MC...` | | values for the constants of a small instance, and the comparisons of operators without state. |
| `...Proofs` | | theorems about the module of that name, and their proofs. `CMProofs` is about CMClient, about the login over the list (CMLogin, ServerList) and about the connection below it (ProxiedLink with ProxyDial and WireWrite); `CachesProofs` about CdnClient and about WebCaches with BrowseCache and MediaCache. |

What a module takes from another one is stated where it is used:
`SubscriptionSync` saves atomically because `SubscriptionStore` shows that one
process may (section 3); `CMClient` has one caller because `SteamSession` has
one worker and because `CdnClient` shows that no download worker reaches for
the CM connection; `WebServer` keeps of `DownloadManager` only that its loop
calls the download session for one job after the other; what a resolution in
`DownloadManager` may answer (`Answers`) is what `ResolveIDs` computes when any
of its calls fail, which `ResolveFits` compares; `DownloadItem` keeps of
`FileContent` that what `ReadFile` returns may be right, wrong or an error.

Operators without state (`WireFormat`, `Inbound`, `ResolveIDs`, `FileContent`,
`Backoff`) are evaluated over all of a small domain in the initial states of the
run of the component that calls them: `WireFits` in `cm` (it is in MCCMLogin),
`ResolveFits` in `downloads`, `HelpersFit` in `item`.

## 3. Runs

`CHECK_DEADLOCK` is on everywhere: a state in which nobody can move is an error
unless the system has finished. Some type invariants are checked together with
a property of the same state (`Consistent`); the others are theorems only.

| run | module, cfg | states | what it shows |
|---|---|---|---|
| `session` | SteamSession | 50 k | Three calls (no timeout; a timeout; a browser that may go away), Close, a CM session that may die, a channel of two. `DrainedClean`: when the worker has gone, no accepted job is without a result. `PanicHasNoJob`: only a call that read `closed` too early panics, and it has no job with the worker. `KeepsContract`: refinement of WorkerContract. `CallsEnd`: liveness, of the callers and of the accepted jobs. |
| `downloads` | MCDownloadManager, DownloadManager.cfg | 8 k | Two requests for an item or a collection that shares it, of which a resolution may find a part; channel and history of two. `OneActivePerItem`, `QueuedHasTicket` (a queued job is on its way, unless its goroutine gave up), `StartsInOrder`, `LifecycleKept`, `QueuedEnds`. `ResolveFits`: expansions of 2550 small workshops (two collections, also cyclic ones, ids without details, children without an id), with any of four calls failing. |
| `web` | WebServer | 1.6 M | A request of any of the three kinds (it shows a page to a browser that may leave; it queues downloads; it updates subscriptions), the downloads it queues, at most two, and the warm-up, over channels of one, against a signal at any time. `AcceptedIsServed`; `NobodyLeftWaiting` (in `Consistent`). |
| `web_live` | WebServer, WebServerLive.cfg | 117 k | A request that updates subscriptions, and the warm-up. `ServerEnds`: Shutdown comes to its end and requests are answered. |
| `cm` | MCCMLogin, CMLogin.cfg | 223 k | A login of two attempts, then a call of two attempts that may log in again; two connections with their readers, over a list of one server or of two. `SocketOwned` (in `Consistent`), `BeatsWhileLoggedOn`, `RightAnswer`, `FirstConnectionSafe`, `NewServerEachTry`, `EverythingEnds`. `WireFits`: varints of every value, headers and messages cut at every byte, streams of three frames and of three messages in any packing. |
| `cm_zombie` | CMClient, CMClientZombie.cfg | | TLC finds `LoggedOnMeansConnected` violated, see section 6. |
| `item` | MCDownloadItem, DownloadItem.cfg | 245 k | Three files, one of them without a SHA-1, over a directory in any state, two workers, two attempts, any number of runs. `StatsAddUp` (in `Consistent`), `OutcomeMatchesDisk`, `RunEnds`; `HelpersFit`: the operators of backoff.go for all arguments up to 12; manifests cut off anywhere, with sections that cannot be read; padded messages of up to four bytes in blocks of three; all formats of containers with any one damage; files of four bytes cut into chunks, listed, sent and lost in every way. |
| `store` | MCSubscriptionStore, SubscriptionStore.cfg | 986 k | Two processes, two ids. `OnlyRacesTear`: the file parses unless two saves overlapped. `OnlyStaleListsLose`: what an operation acknowledged is in the file unless a process changed the list while another had it loaded. |
| `sync` | MCSubscriptionSync, SubscriptionSync.cfg | 11 k | One item, three manifests of two files (one changes, one is dropped and comes back). `MismatchIsPending` (in `Consistent`): after a clean download the files are those of the manifest that is recorded, or there is an update the next sync downloads. `GidNeverGoesBack`. |
| `cdn` | MCCdnClient, CdnClient.cfg | 275 k | Two workers, two depots, three chunks of which two fill the cache, two servers of which one refuses. `CacheAccounted` (in `Consistent`), `WorkersFindAll`, `GivesUpAfterAll`. |
| `link` | ProxiedLink | 1.8 M | Three kinds of proxy that grant, refuse, answer nonsense, are bound to an IPv4 address or to a name of one byte, and may break off at any byte; headers of no byte, of three and of too many; two goroutines write payloads of 125, 126, 200, 65535 and 65536 bytes. `DialSafe` (`ClosedOrReturned` and `NothingOverread`), `HangUpEndsDial`; `WholeFrames`, `LengthsAgree` (in `LinkConsistent`). |
| `cache` | WebCaches | 328 k | Pages: two handlers, two languages, three pages, each asked for with any cursor or none, caches of one entry, two requests, a clock. `RightPage`, `FiledRight` (in `PagesConsistent`). Previews: two handlers, two images under three URLs and a host that is not allowed, one or two tokens, room for two images or three bytes. `MediaConsistent` (bytes and tokens add up), `PreviewEnds`. `NothingStale` is about both. |

Why these bounds are enough to be worth something:

- Channels, histories and caches hold one or two entries, so that "full",
  "evicted" and "one behind the other" all occur. `StartsInOrder` needs two
  entries in the channel to say anything.
- Two actors of a kind (workers, handlers, processes, connections) are what a
  race of the code needs: no guard of it counts further than "another one".
- Counters of retries are two: a first attempt, a last one, and the step from
  one to the other. `JobCycle` is two in `cm`, so that a job id comes round
  again; `RightAnswer` is about the calls before that.
- `store` is cut off by the constraint `FewUnsure`: states with more than one
  (id, value) left by operations that did not end well are not continued.
  These only add to what the file may hold. Processes and ids are
  interchangeable (`SYMMETRY`); the run has no liveness property.
- `sync` has one item. `Sync` treats items one after the other and an item's
  files and record are its own; the interleavings that matter are with the
  handlers, `CheckUpdates` and restarts, on that item.
- In `cache` the sizes are one to three bytes, with a limit of two for an image
  and of three for the cache: an image that is refused, two that fit, two of
  which one is evicted. Two viewers race for one image and for one token.
- What the Web API answers in `cm` is nothing (the server of the DNS name is
  taken) or two servers that speak TCP and one that speaks WebSocket under the
  address of one of them: the list is reordered and loses one. A third
  attempt, by the call that logs in again, wraps around.
- `web` lets one request in, of any kind: it races with the queue's loop and the
  warm-up for the channel that is drained last. A second one multiplies the states
  by more than four; the theorems are for any number.
- The pages of `cache` are asked for twice, which is enough for a page to be filed
  and found, for a cursor to be filed and followed, and for two handlers to overtake
  each other. A third request is needed for a chain of three pages: that is the proof's.
- `MaxRequests`, `MaxJobs`, `MaxAsks`, `MaxTime`, `MaxCalls`, `MaxFetches`, `MaxConns`, `MaxGid`,
  `MaxQueued`, `MaxFrames` bound counters that grow for ever; they stop new
  work from coming, never work that has begun. `MaxJobs = 4` is twice what a
  request creates at most.

## 4. Fairness

Weak fairness of a goroutine's next step: Go schedules a goroutine that can
run. Beyond that:

- `SteamSession`: strong fairness of each call's send. Senders on a Go channel
  are queued first-in first-out, so a blocked one gets its turn as the worker
  takes jobs. The worker's own jobs end: calls of the CM and the CDN have
  timeouts (60 s per request, counted attempts), which `cm` and `item` show.
  Nobody has to call, to cancel or to close.
- `DownloadManager`: strong fairness of the loop's `Lookup`, which needs `m.mu`: a
  `sync.Mutex` that is waited for longer than a millisecond goes to the waiter.
  Nobody has to ask or to close.
- `WebServer`: the handlers, both workers, the warm-up and `Shutdown` run;
  signals are free.
- `CMClient`: the caller and the readers run, every wait has a timeout (30 or
  60 s) and every read a deadline. Steam need not answer.
  `CMLogin` is fair as `CMClient` is: its steps are those of the caller with the
  list beside them.
- `WebCaches`: the handlers of previews run and the clock ticks, so that a fetch
  is given up at its deadline (12 s); strong fairness of taking a token, which
  is a receive from a channel. Steam need not answer, browsers need not ask.
- `DownloadItem`: the run and its workers; failing writes, cancellation and
  death are free.
- `ProxiedLink`: the dialer; the proxy need neither answer nor hang up.

## 5. Theorems

All of them are proved for every value of the constants that the named
assumptions admit. None of the proofs uses fairness, also where the
specification has it (`ListSpec`, `LinkSpec`, `CachesSpec`).

| module | theorem | statement |
|---|---|---|
| SteamSessionProofs | `TypeCorrect` | types; at most `QueueCap` jobs are buffered |
| | `ServedAtMostOnce` | a job is buffered at most once, and neither a buffered job nor the one in hand has a result |
| | `PanicLeavesNoJob` | `PanicHasNoJob` |
| | `DrainIsClean` | `DrainedClean` |
| | `ImplementsContract` | `Spec => KeepsContract`, step simulation |
| DownloadManagerProofs | `TypeCorrect`, `DedupHolds`, `TicketsUnique`, `NoLostJob`, `ListedKnown`, `NoPushOnClosedQueue` | the invariants of DownloadManager |
| | `NothingAfterClose` | no job is created once `closed` is set |
| | `StartsInOrderTheorem` | `StartsInOrder`, an action property, for any number of requests and places |
| | `ImplementsLifecycle` | `Spec => LifecycleKept`, step simulation |
| WebServerProofs | `AcceptedIsServedTheorem` | `AcceptedIsServed` for any number of requests, jobs and places in the channels |
| | `ConsistentTheorem` | types and `NobodyLeftWaiting` |
| | `SessionsTheorem` | `Spec => Browse!Spec /\ Download!Spec`: each session of the server is a `SteamSession` |
| CMProofs | `ConsistentTheorem` | types and `SocketOwned`, for any number of attempts, connections and calls |
| | `RightAnswerTheorem` | `RightAnswer`: a call gets the answer to its own job |
| | `FirstConnectionSafeTheorem` | `FirstConnectionSafe`: `dispatch` does not panic on the first connection |
| | `BeatsWhileLoggedOnTheorem` | `BeatsWhileLoggedOn` |
| | `TriesEveryServer` | `NewServerEachTry`: the first login tries every server once, in the order of the list, before it tries one again; whatever list Steam answers, whichever fail and whenever their marks are forgotten |
| | `LoginImplementsClient` | `ListSpec => Spec`: the login over the list is a client of CMClient |
| | `LoginIsSafe` | hence the four properties above, of the login over the list |
| | `LinkIsConsistent` | types and `LengthsAgree` for payloads of any length: what a reader takes from the header is the length of the payload, at each limit between the three forms |
| | `DialIsSafe` | `DialSafe` (`ClosedOrReturned` and `NothingOverread`): all three handshakes with every write and read that may fail, against answers with headers and bound addresses of any length, cut off anywhere and in any pieces |
| | `FramesAreWhole` | `WholeFrames`, for any number of writers and frames of any length, over both transports |
| DownloadItemProofs | `OutcomeMatchesDiskTheorem`, `ConsistentTheorem` | `OutcomeMatchesDisk`; types and `StatsAddUp`, for any number of files, workers and attempts |
| | `SuggestJobsLargest`, `WorkersFit` | what `SuggestJobs` computes for all integers; the workers of a run are as many as it says |
| SubscriptionStoreProofs | `TypeCorrect`, `OnlyRacesTearFile` | types; `OnlyRacesTear` for any number of processes |
| | `OnlyStaleListsLoseEntries` | `OnlyStaleListsLose` for any number of processes and items |
| SubscriptionSyncProofs | `ConsistentTheorem` | types and `MismatchIsPending`, for all manifests |
| | `GidNeverGoesBackTheorem` | `GidNeverGoesBack`, an action property |
| CachesProofs | `WorkersNeverFetch` | `WorkersFindAll` for any number of workers, depots, servers |
| | `CacheStaysAccounted` | types and `CacheAccounted`, for any chunks of any sizes and whatever is evicted |
| | `EveryServerAsked` | `GivesUpAfterAll`, for any list of servers and number of attempts |
| | `PagesAreConsistent` | types, the capacities of the three caches, and `FiledRight`: what is found under a key is of its page and language, and what Steam sends for its cursor |
| | `PagesAreRight` | `RightPage`: page n is the n-th of the list, by whatever cursors it was reached, unless somebody asked in that language for it or for a page before it with the cursor of another page |
| | `MediaIsConsistent` | `MediaConsistent`: the byte counter is the sum over the images kept, within the budget; the tokens out are those of the fetches under way |
| | `NothingIsStale` | `NothingStale`, an action property of both caches |
| | `CachesImplementTheirParts` | `CachesSpec` implies the steps of BrowseCache and of MediaCache: each is as its module says beside the other |

Assumptions: capacities and bounds are naturals (`QueueCap`, `MaxHistory`, the
attempts and `MaxGid` of a sync positive; `Jobs` of an item is any integer),
the marks (`Nobody`, `Free`, `None`, `Down`, ...) are none of the values they
are told from, the `Answers` of DownloadManager are lists of items, those of
CMLogin sequences of servers (empty, with duplicates and of any length),
`Lists` are lists of servers, headers of a proxy are read up to two bytes or
more, what it sends has natural lengths (`DialAssumption`), lengths of payloads are naturals (`LinkAssumption`),
lifetimes and capacities of caches are positive, and the callers of the web
server (requests of the three kinds, jobs, the warm-up) are
different goroutines. They are the `ASSUME`s of the modules, named
`...Assumption`; TLC evaluates them in every run.

How the proofs go. Each module has an inductive invariant (`IInv`; also
`FreshInv` and `FullInv` where a second property needs more; `ListInv`, `LinkInv`
and `CachesInv` for the compositions), proved by a lemma
per action or per kind of action; the theorems follow from it. Each was given to
TLC as the invariant of the module's run before it was proved.

- *SteamSession.* `ServedOnce` is not inductive: nothing in it says that a call
  that has not sent has no job in the channel. `Placement` adds where the job
  of a call can be given how far the call got (before the send: nowhere; while
  it waits: buffered, in hand or with its result), `WorkerPlace` what the
  worker's place says (it has a job in hand exactly while it works on one;
  it has left only after the channel was closed and empty). Refinement: a job
  buffered is *accepted*, the one in hand is *serving*; `SendJob`, `TakeJob`,
  `Deliver`, `Receive` and the refusals are the contract's steps, everything
  else stutters. That an accepted job is not accepted again is where
  `Placement` is needed.
- *DownloadManager.* `KnownIds` (ids in use are 1..idSeq, `order` has no
  duplicates), `LoopPlace` (what the loop has in hand is queued until it is
  marked, then the only one running) and `LockPlace` (who is inserting holds
  `m.mu`, and then the manager is open). Dedupe rests on the lock: between the look
  at the active jobs and the insertion nobody else inserts. The hard case is
  `CreateJob`, where the history is cut: lemma `HistorySplit` says that what is
  kept and what is cut off are together the old list. For `StartsInOrder`,
  `InOrder`: of the jobs that found room, those in the channel are in the order of
  their ids and behind the one in the loop's hands; a job still queued has to be in
  one of the two (`QueuedHasTicket`), so none is overtaken.
- *WebServer.* `AcceptedIsServed` says nothing of where Shutdown is. `Quiet` adds
  that once the main goroutine has waited for the handlers none is active and
  the listener is shut, so that no handler begins again; `BrowseOpen` and
  `DownloadOpen` that a session is untouched until the main goroutine comes to it.
  A handler calls a session only while it is active (`ActiveInTime`), hence before
  that. For `NobodyLeftWaiting`, `InTurn` says that the sessions are closed one
  after the other, and `BrowseServed`, `DownloadServed` where the job of a waiting
  call is. The prover cannot use a lemma about SteamSession for the two instances
  of it, which is why a little of SteamSessionProofs comes back here, for each of
  them; `SessionsTheorem` is what carries the rest over.
- *CMClient.* `Sockets`: between `Connect` and the adoption the client has no
  connection. `Waiters`: there is one waiter at most, and what its channel holds,
  or what any reader is about to put into it, is what it waits for; this is where
  left-over readers of earlier connections come in, and it gives `RightAnswer`
  with `Jobs` (job ids come round only after `JobCycle` of them). `Budget`: the
  waits and sends a login or a call may still need stay within the bounds of the
  model, so that no step is lost for the bound. `FirstReader`: what the reader of
  the first connection has in hand. Lemma `StepKinds` says of each action what it
  changes; the parts are then proved from the kinds.
- *CMLogin and ServerList.* `Filled`: once filled, the list has no address twice.
  `FirstRound`: during the first login the index counts the attempts, and only servers
  that were tried are marked; so `Skipped` is 0 until the list is through, which is why
  each attempt takes the next one (`TriedInTurn`). That no two entries share an
  address (`InOrder`), that the WebSocket servers come first (`WSSAhead`) and that the
  list is never empty is proved of `Bootstrap` for every answer (`BootstrapInOrder`).
  `FoldLeft` is a fold over the indices of a sequence; that such a function exists is
  shown by the smallest set and the shortest prefix for which it does not
  exist (`Smallest`, `FoldExists`), and `AddedInTurn`, `PartedInTurn` then say what the
  fold over one more element is. Refinement: each step of the login is one of
  CMClient or leaves it alone (`Forget`), with CMClient's variables as they are.
- *ProxiedLink.* `AnswerWhole`: what was read of an answer and what was not are
  together an answer or the beginning of one (`Shaped`: where in it the target's first byte
  may stand), so a read cannot get beyond it; `NotBeyondEnd`: the headers of an HTTP
  proxy are read no further than the blank line. Lemma `WholeShapes` says that every answer
  has that shape, whatever its length, `CutShapes` that its beginnings have it, and
  `RestIsTarget` that who stops where the answer ends has left the target's bytes alone and
  nothing else. For the frames,
  `IsRest`: what a writer still has to write is the rest of a frame, in which
  each part asks for the next; `OneLength`: all parts of a frame, written or not,
  are about one payload; `InTurn`: while frames are kept apart, a writer goes
  on where the stream ends. Without `OneLength` the parts that are not written yet
  could contradict the header that is.
- *DownloadItem.* The counts are cardinalities: `Counts` ties them to the set of
  files with that result, `OneWorker` says that a file has one worker or a result
  and not both, which is why a count is never raised twice for a file;
  `NoneForgotten` that a file taken from the channel has one of them, and with it
  the counts add up to all files when the run was not cancelled. `OnDisk` is
  `OutcomeMatchesDisk` with what each worker is about to write.
- *SubscriptionStore.* `Calm`: as long as no two saves have overlapped, the
  state is `Alone`: who saves is alone, has the temporary file open until its
  list is in it, and the file parses. `Fresh`, while no process has changed a list
  another one has loaded: every loaded list and the file hold of each item the
  value recorded last, or one of an operation that did not end well.
- *SubscriptionSync.* `InOrder`: the manifest on record, the first that `Sync`
  fetched and the second come one after the other, whatever handlers did to the
  entry meanwhile; `Published`: what was saved is no newer than the workshop's.
  `Downloaded`: every file of the second manifest is to come, good or bad, and the
  good ones are as it says unless the first, older manifest prunes.
- *CdnClient.* `ManifestFirst`: no worker runs before a manifest was
  downloaded, which found a list of servers and the depot's key, and neither
  is ever dropped. This is why `GetChunk` may call `GetDepotKey` from several
  goroutines although the CM client has one caller. `Covered`: a call that has
  the index for itself has asked the servers of as many places, back from the
  index, as it has made attempts; after `Tries` of them that is the whole list
  (`AllPlaces`). `Cached`: the byte counter is the sum over the cached chunks, a fold
  over a finite set. What such a fold does when an element comes or goes is
  proved by the smallest set for which it does not hold (`Smallest`, from the
  well-foundedness of inclusion among finite sets): `SumsUnique`, `SumsExist`,
  and from them `BytesRemove` and `BytesSplit`.
- *WebCaches.* Pages: the invariant says where everything in a cache came from.
  `CachesOK`: a list page is filed under a request for it, with the time it was sent
  (`QueryEntries`), an item likewise (`ItemEntries`), a cursor under the page before the one
  it leads to (`NextEntries`), no key twice; `PlaceOK`: what a handler has in hand belongs to
  its own request. In both, a cursor belongs to its page unless that page or one before it
  is among the `strays` (`Belongs`). `RightPage` is then a chain: a cursor from a
  cache leads to the page it says, which is filed as that page, which is what is shown; one
  stray request breaks it from its page on. Lemma `Grows`: what may be filed only grows with
  the strays, so that what was filed before one stays where it may be.
  Previews: `Kept` has the byte counter as the sum over the entries, each counted once
  since no key is there twice (`Distinct`), by the sums of CdnClient; evictions cut
  the list (`Cut`) until it fits. `Tokens`: the tokens out are as many as there are
  viewers between taking one and returning it (`Holders`). Freshness: `FetchOK`
  and `MediaEntries` carry the age of the bytes from the deadline of the fetch to the
  expiry of the entry. Each part is left alone by the other's steps; only the clock is
  common, and it does not tick past a deadline.

Only model-checked:

- Liveness under fairness (`CallsEnd`, `QueuedEnds`, `ServerEnds`,
  `EverythingEnds`, `RunEnds`, `HangUpEndsDial`, `PreviewEnds`) and `ENABLED`: out of
  the prover's reach.
- `ResolveFits`, `WireFits` and `HelpersFit` compare functions that recurse over
  data with reference definitions, over bounded inputs. For all inputs this
  is induction over data, which the provers cannot be given (and `ResolveFits`
  and `WireFits` use RECURSIVE operators, which take the SMT backend away).

Every other safety property that a run checks is a theorem.

## 6. Where the comments promise more than the code does

`cm_zombie` shows one of these as a run of its own: `anonymousLogon` sets
`loggedOn` after its response was delivered, also when `readLoop` has
disconnected the client meanwhile (client.go 426-429). The client then says that
it is logged on, has no connection, and neither `SendUM` nor `ensure` logs in
again.

The others are stated as definitions at the end of their module and are false of
the code. Put one in place of the INVARIANTS and PROPERTIES of the cfg named, and
TLC prints a behaviour that shows it.

| definition | cfg | what is said | what happens |
|---|---|---|---|
| `InFlightFinishes` | SteamSession | session.go 86: a cancelled wait leaves the call in flight alone | `runJob` hands the request's context to the call, which ends with it |
| `ProxyAwareHTTP` | SteamSession | session.go 142: `HTTP()` is proxy-aware after login | while a dead session is replaced it is `http.DefaultClient` |
| `HistoryBounded` | DownloadManager | downloads.go 259: the history does not grow for ever | an active job cut off `order` stays in `jobsMap` after it has ended |
| `ExpansionEnds` | MCDownloadManager, DownloadManager.cfg | details.go 118: collections are expanded recursively and the items returned | a collection that holds itself is expanded until a call fails |
| `ExpandsCollections` | DownloadManager | downloads.go 213: collections are expanded | when the worker does not answer in time the collection itself is queued |
| `CloseLetsInFlightFinish` | DownloadManager | downloads.go 353: after Close what is in flight may finish | the goroutine blocked on the full channel panics and ends the process |
| `ShutdownIsGraceful` | WebServer | server.go 138 | the warm-up or the queue's loop may send on a channel that Shutdown closes |
| `TargetIsNext` | ProxiedLink | dialer.go 127: mirrors the SOCKS5 framing of x/net/proxy | the bound address and port of the answer are not read, and the caller of `DialContext` takes them for the target's first bytes |
| `TargetIsAskedFor` | ProxiedLink | dialer.go 176: "ATYP=1 IPv4." | the request to connect has no address type: the address follows the reserved byte |
| `CursorOfPage` | WebCaches | cache.go 135: the cursor for this page request | a next cursor is filed under the page that was asked for, also when that page (1, if none is named) was asked for with the cursor of another one |
| `ReplyReachesWaiter` | CMLogin | client.go 568: waits for the matching response | the waiter is registered after the send; a reply in between is dropped |
| `RotatesOnSoftOnly` | CMLogin | client.go 229: only soft failures rotate | hard ones do as well |
| `DownloadedIsRight` | DownloadItem | cdn/client.go 340: a SHA check at a higher layer may catch it | nobody checks what was downloaded |
| `FullyFailedIsNothingDone` | DownloadItem | item.go 32: true when nothing was downloaded or skipped | false for a run that was cancelled before its first file |
| `StoreFits` | MCDownloadItem, DownloadItem.cfg | codec.go 84: bytes are passed through when nothing else matches and the size fits | no size is compared; a VZa with a damaged trailer is passed through as it is |
| `AllDownloaded` | DownloadItem | cli/download.go 185: "All items downloaded." | said and reported as success when some files of an item have failed |
| `FileParses`, `AckedInFile` | SubscriptionStore | store.go 5: one file, shared by command line and web UI | overlapping saves share one temporary file; a process saves its own, older copy of the list |
| `RecordedFilesPresent` | SubscriptionSync | store.go 34: paths present after the last successful sync | after a partly failed or cancelled download the whole manifest is recorded |
| `NoOrphans` | SubscriptionSync | sync.go 78: files absent from the new manifest are deleted | only those of the recorded sync are |
| `RemovedStaysRemoved` | SubscriptionSync | store.go 138: Remove deletes a subscription | an update check that began earlier adds it again to store its title |

`FragmentsJoin(frames)` of Inbound is one more, over sequences of frames: wss.go
200 ignores FIN because one must not rely on Steam not to fragment; a first
fragment is handed on as a message and its continuation is thrown away.

`ResolveFits` and `HelpersFit` state what holds in spite of losses: a failed batch
of `GetDetails` is left out without an error (details.go 67), and a chunk without
a SHA is dropped from its file (parse.go 237).

Some checked properties carry such a difference as a condition: `WholeFrames`
holds while no other goroutine writes in the middle of a frame and, over TCP,
until a write has failed (wss.go 131, frame.go 32); `GivesUpAfterAll` while no
other worker rotates the list and the list is no longer than the attempts
(cdn/client.go 112); `NothingOverread` says that nothing of the proxy's is left of
SOCKS4 and HTTP only, and of socks5:// that nothing of the target's is taken
(`TargetIsNext` is the rest); `RightPage` excepts pages that somebody asked for with the
cursor of another page, and those behind them; `FirstConnectionSafe` says that
`dispatch` can panic only when a reader is left over from an earlier connection.

## 7. What is not modelled

- What archive formats, ciphers, TLS and protobuf libraries do inside; checksum
  collisions; which bytes of an uncompressed chunk look like another format.
- The bodies of single messages (logon, heartbeat, depot key), the old message
  header (protocol/msg.go), the upgrade to WebSocket, the key exchange.
- Strings: URLs of proxies, names of files (`CleanName`), fields of queries.
- The subcommands of `swd sub` beyond the calls of the store and of `Sync`
  (cli/subscribe.go): flags, tables and JSON.
- The test oracle for the Windows DLL (internal/dll).
- Pages, templates, flags, logging, terminal output: layout.
- Loss of power (there is no fsync): what a file system does to unsynced data
  is not in the program. Processes die; the machine does not.
- The content of messages, except for job ids and what decides a branch; the
  content of files, except for right, wrong, cut off or missing.
- Data races are modelled where they change a decision (`torn` in
  `DownloadManager`, `http` in `WebServer`, the connection a reader captures in
  `CMClient`).

## 8. Plan

Done, in this order: SteamSession with its contract and proofs;
DownloadManager, likewise; WebServer over both; CMClient; DownloadItem;
SubscriptionStore and SubscriptionSync; CdnClient; BrowseCache; ProxyDial,
WireWrite and their composition; proofs of SubscriptionStore and CdnClient;
MediaCache with WebCaches; ServerList under CMLogin; WireFormat and Inbound;
ResolveIDs; FileContent; proofs of CMClient, DownloadItem, SubscriptionSync,
WebServer, of the rest of SubscriptionStore and CdnClient,
and of `StartsInOrder` of DownloadManager; proofs of both caches through WebCaches, of
CMLogin with ServerList, and of ProxiedLink with both its parts.

What could come next:

1. A contract of the subscription store (one list, atomic operations) that the
   store of one process implements, with the refinement proved.
2. The chunk cache of CdnClient under the runs of DownloadItem: a chunk that was
   decoded wrongly is cached, and a later run of the same process meets it again.
3. Composition by proof where section 2 says in words what a module takes from
   another: CMClient's one caller from SteamSession, `WebServer`'s queue from
   DownloadManager, as `SessionsTheorem` and `LoginImplementsClient` do for theirs.
