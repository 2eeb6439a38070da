-------------------------- MODULE SubscriptionSync --------------------------
(***************************************************************************)
(* internal/subscription/sync.go in one process: Sync (one at a time, on   *)
(* the download worker, over a copy of the entries it takes when it        *)
(* starts), CheckUpdates (on the browse worker, over a copy of its own)    *)
(* and the operations of the store (handlers_subs.go) go on at the same    *)
(* time, while the workshop publishes new manifests.                       *)
(*                                                                         *)
(* A save of the store either happens as a whole or fails and leaves the   *)
(* change in memory (SubscriptionStore shows why that is enough for one    *)
(* process).  A file is the content the manifests give it, or missing; the *)
(* steps of one file's download are DownloadItem's.                        *)
(***************************************************************************)
EXTENDS Naturals, FiniteSets

CONSTANTS Ids,       \* workshop ids
          Paths,     \* file names
          Content,   \* what a manifest can list for a path
          MaxGid,    \* bound: the newest manifest
          Manifest,  \* Manifest[g][f]: what manifest g lists for path f
          None       \* not listed, not on the disk, not subscribed

ASSUME SyncAssumption ==
    /\ MaxGid \in Nat \ {0}
    /\ None \notin Content
    /\ Manifest \in [1 .. MaxGid -> [Paths -> Content \cup {None}]]

VARIABLES
    entries,   \* Store.entries: the subscription of each id
    saved,     \* what subscriptions.json holds
    remote,    \* remote[i]: the manifest the workshop has for i
    disk,      \* disk[i][f]: the content of file f of item i
    phase,     \* what Sync is doing
    snap,      \* snap[i]: the copy of i's entry; None if i is no target (left)
    cur,       \* the item being synced
    m1, m2,    \* the manifests fetched by Sync and by DownloadItem
    todo,      \* paths of m2 not downloaded yet
    good, bad, \* paths downloaded or skipped; paths that failed
    checking   \* items CheckUpdates has yet to look at

syncVars == <<phase, snap, cur, m1, m2, todo, good, bad>>
storeVars == <<entries, saved>>
vars == <<storeVars, remote, disk, syncVars, checking>>

Gids == 1 .. MaxGid
Entry == [gid : 0 .. MaxGid, files : SUBSET Paths]
FilesOf(g) == {f \in Paths : Manifest[g][f] # None}

TypeOK ==
    /\ {entries, saved, snap} \subseteq [Ids -> Entry \cup {None}]
    /\ remote \in [Ids -> Gids]
    /\ disk \in [Ids -> [Paths -> Content \cup {None}]]
    /\ phase \in {"idle", "manifest", "fetch", "files", "prune", "mark"}
    /\ cur \in Ids \cup {None}
    /\ {m1, m2} \subseteq 0 .. MaxGid
    /\ {todo, good, bad} \subseteq SUBSET Paths
    /\ checking \subseteq Ids

NoEntries == [i \in Ids |-> None]

Init ==
    /\ entries = NoEntries
    /\ saved = NoEntries
    /\ remote = [i \in Ids |-> 1]
    /\ disk = [i \in Ids |-> [f \in Paths |-> None]]
    /\ phase = "idle" /\ snap = NoEntries /\ cur = None
    /\ m1 = 0 /\ m2 = 0
    /\ todo = {} /\ good = {} /\ bad = {}
    /\ checking = {}

-----------------------------------------------------------------------------
(* The store and the workshop. *)

Save(new) ==
    /\ entries' = new
    /\ saved' \in {new, saved}

NewEntry == [gid |-> 0, files |-> {}]

\* Mutant: the new entry replaces the old one.
AddedAfresh(i) == NewEntry

\* An entry that exists keeps what was downloaded.
Added(i) == IF entries[i] = None THEN NewEntry ELSE entries[i]

Add(i) == Save([entries EXCEPT ![i] = Added(i)])

Subscribe(i) ==
    /\ Add(i)
    /\ UNCHANGED <<remote, disk, syncVars, checking>>

Remove(i) ==
    /\ Save([entries EXCEPT ![i] = None])
    /\ UNCHANGED <<remote, disk, syncVars, checking>>

Publish(i) ==
    /\ remote[i] < MaxGid
    /\ remote' = [remote EXCEPT ![i] = @ + 1]
    /\ UNCHANGED <<storeVars, disk, syncVars, checking>>

Crash ==
    /\ entries' = saved
    /\ phase' = "idle" /\ snap' = NoEntries /\ cur' = None
    /\ m1' = 0 /\ m2' = 0
    /\ todo' = {} /\ good' = {} /\ bad' = {}
    /\ checking' = {}
    /\ UNCHANGED <<saved, remote, disk>>

-----------------------------------------------------------------------------
(* CheckUpdates. *)

CheckUpdates ==
    /\ checking = {}
    /\ checking' = {i \in Ids : entries[i] # None}
    /\ UNCHANGED <<storeVars, remote, disk, syncVars>>

\* The details came without the item, or with the title it has.
CheckItem(i) ==
    /\ i \in checking
    /\ checking' = checking \ {i}
    /\ UNCHANGED <<storeVars, remote, disk, syncVars>>

\* A new title is stored by adding the entry again.
RefreshTitle(i) ==
    /\ i \in checking
    /\ checking' = checking \ {i}
    /\ Add(i)
    /\ UNCHANGED <<remote, disk, syncVars>>

-----------------------------------------------------------------------------
(* Sync. *)

\* Get for the ids that were asked for, List for all of them.
StartSync(S) ==
    /\ phase = "idle"
    /\ snap' = [i \in Ids |-> IF i \in S THEN entries[i] ELSE None]
    /\ phase' = "manifest"
    /\ UNCHANGED <<storeVars, remote, disk, cur, m1, m2, todo, good, bad,
                   checking>>

Targets == {i \in Ids : snap[i] # None}

EndSync ==
    /\ phase = "manifest"
    /\ Targets = {}
    /\ phase' = "idle"
    /\ UNCHANGED <<storeVars, remote, disk, snap, cur, m1, m2, todo, good, bad,
                   checking>>

\* On to the next target, whatever came of this one.
NextTarget(i) ==
    /\ phase' = "manifest"
    /\ snap' = [snap EXCEPT ![i] = None]
    /\ cur' = None
    /\ m1' = 0 /\ m2' = 0
    /\ todo' = {} /\ good' = {} /\ bad' = {}

\* The gid the item's details name at this moment.
Fetched(i) == remote[i]

NeedsUpdate(e, g) == g # e.gid

\* The manifest cannot be fetched, or it is the one on record: no download.
SkipTarget(i) ==
    /\ phase = "manifest"
    /\ i \in Targets
    /\ NextTarget(i)
    /\ UNCHANGED <<storeVars, remote, disk, checking>>

FetchManifest(i) ==
    /\ phase = "manifest"
    /\ i \in Targets
    /\ NeedsUpdate(snap[i], Fetched(i)) \/ snap[i].gid = 0
    /\ m1' = Fetched(i)
    /\ cur' = i
    /\ phase' = "fetch"
    /\ UNCHANGED <<storeVars, remote, disk, snap, m2, todo, good, bad, checking>>

\* DownloadItem asks for the item's manifest again.
StartItem ==
    /\ phase = "fetch"
    /\ m2' = Fetched(cur)
    /\ todo' = FilesOf(m2')
    /\ phase' = "files"
    /\ UNCHANGED <<storeVars, remote, disk, snap, cur, m1, good, bad, checking>>

StartItemFails ==
    /\ phase = "fetch"
    /\ NextTarget(cur)
    /\ UNCHANGED <<storeVars, remote, disk, checking>>

File(f) ==
    /\ phase = "files"
    /\ f \in todo
    /\ todo' = todo \ {f}
    /\ UNCHANGED <<storeVars, remote, phase, snap, cur, m1, m2, checking>>

\* Downloaded, or skipped because it is there already.
FileOK(f) ==
    /\ File(f)
    /\ disk' = [disk EXCEPT ![cur][f] = Manifest[m2][f]]
    /\ good' = good \cup {f}
    /\ UNCHANGED bad

\* What was there has been removed before the download was tried.
FileFails(f) ==
    /\ File(f)
    /\ disk[cur][f] # Manifest[m2][f]
    /\ disk' = [disk EXCEPT ![cur][f] = None]
    /\ bad' = bad \cup {f}
    /\ UNCHANGED good

FullyFailed == good = {} /\ bad # {}

EndItem ==
    /\ phase = "files"
    /\ todo = {}
    /\ IF FullyFailed
         THEN NextTarget(cur)
         ELSE /\ phase' = "prune"
              /\ UNCHANGED <<snap, cur, m1, m2, todo, good, bad>>
    /\ UNCHANGED <<storeVars, remote, disk, checking>>

\* The context of the whole Sync is done: files not begun are in no count,
\* and for the other targets no manifest can be fetched.
Cancelled ==
    /\ phase = "files"
    /\ todo # {}
    /\ IF FullyFailed
         THEN /\ phase' = "manifest" /\ cur' = None
              /\ snap' = NoEntries
              /\ m1' = 0 /\ m2' = 0
              /\ todo' = {} /\ good' = {} /\ bad' = {}
         ELSE /\ phase' = "prune"
              /\ snap' = [NoEntries EXCEPT ![cur] = snap[cur]]
              /\ UNCHANGED <<cur, m1, m2, todo, good, bad>>
    /\ UNCHANGED <<storeVars, remote, disk, checking>>

\* Mutant: every file of the previous sync is deleted.
StaleOrNot == snap[cur].files

\* Files of the previous sync that m1 does not list.
Stale == snap[cur].files \ FilesOf(m1)

PruneStaleFiles ==
    /\ phase = "prune"
    /\ disk' = [disk EXCEPT ![cur] =
                   [f \in Paths |-> IF f \in Stale THEN None ELSE @[f]]]
    /\ phase' = "mark"
    /\ UNCHANGED <<storeVars, remote, snap, cur, m1, m2, todo, good, bad,
                   checking>>

\* The store has the entry no more: an error that is only logged.
MarkSynced ==
    /\ phase = "mark"
    /\ NextTarget(cur)
    /\ IF entries[cur] = None
         THEN UNCHANGED storeVars
         ELSE Save([entries EXCEPT ![cur] =
                       [gid |-> m1, files |-> FilesOf(m1)]])
    /\ UNCHANGED <<remote, disk, checking>>

Sync ==
    \/ \E S \in SUBSET Ids : StartSync(S)
    \/ \E i \in Ids : SkipTarget(i) \/ FetchManifest(i)
    \/ StartItem
    \/ StartItemFails
    \/ \E f \in Paths : FileOK(f) \/ FileFails(f)
    \/ Cancelled
    \/ EndItem
    \/ PruneStaleFiles
    \/ MarkSynced
    \/ EndSync

Next ==
    \/ \E i \in Ids : Subscribe(i) \/ Remove(i) \/ Publish(i)
    \/ CheckUpdates
    \/ \E i \in Ids : CheckItem(i) \/ RefreshTitle(i)
    \/ Sync
    \/ Crash

Spec == Init /\ [][Next]_vars

-----------------------------------------------------------------------------
(* Properties. *)

\* Of an item that stays subscribed, the manifest on record only gets newer,
\* although Sync works from a copy of the entries and records long after it
\* fetched (Sync 97, 134); a restart may go back to what was saved.
GidNeverGoesBack ==
    [][Crash \/ \A i \in Ids :
         entries[i] # None /\ entries'[i] # None
           => entries'[i].gid >= entries[i].gid]_vars

\* All files were accounted for and none failed.
Clean == todo = {} /\ bad = {}

Matches(i, g) == \A f \in FilesOf(g) : disk[i][f] = Manifest[g][f]

\* Sync fetches the manifest twice and prunes by the first: when a new one
\* came in between, a file the second lists may be pruned, or not be what the
\* first lists.  After a clean download that leaves no lasting damage: either
\* every file is what the manifest to be recorded lists, or the workshop has
\* a newer one, which the next Sync downloads (Sync 105-136).
MismatchIsPending ==
    phase = "mark" /\ Clean => Matches(cur, m1) \/ remote[cur] # m1

\* The types (also of what a restart reads back), and no lasting mismatch
\* after a clean download (sync.go 105-136).
Consistent == TypeOK /\ MismatchIsPending

-----------------------------------------------------------------------------
(* What the code says and does not do. *)

Idle(i) == cur # i

\* store.go 34: "Files lists relative paths present after the last
\* successful sync."
RecordedFilesPresent ==
    \A i \in Ids : entries[i] # None /\ Idle(i)
        => \A f \in entries[i].files : disk[i][f] # None

\* sync.go 78: "files absent from the new manifest are deleted locally": an
\* item whose record says it is up to date has no other files.
NoOrphans ==
    \A i \in Ids : entries[i] # None /\ Idle(i) /\ entries[i].gid = remote[i]
        => \A f \in Paths : disk[i][f] # None => f \in FilesOf(remote[i])

\* store.go 138: "Remove deletes a subscription": it comes back only when
\* somebody subscribes again (or a failed save is forgotten by a restart).
RemovedStaysRemoved ==
    [][\A i \in Ids : entries[i] = None /\ entries'[i] # None
         => Subscribe(i) \/ Crash]_vars
=============================================================================
