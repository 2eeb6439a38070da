----------------------- MODULE SubscriptionSyncProofs -----------------------
(***************************************************************************)
(* For every set of items, files and manifests: the manifest on record     *)
(* only gets newer, although Sync works from an old copy of the entries,   *)
(* and a clean download leaves no lasting mismatch, although Sync fetches  *)
(* the manifest twice.  The invariant orders the manifests that are on     *)
(* record, at hand and published (Published, InOrder), and says what of    *)
(* the item is on the disk already (Downloaded).                           *)
(***************************************************************************)
EXTENDS SubscriptionSync, Integers, TLAPS

-----------------------------------------------------------------------------
(* The inductive invariant. *)

\* Sync is busy with one item.
Syncing == phase \in {"fetch", "files", "prune", "mark"}

\* Every record is of a manifest the workshop has had, also on the disk.
Published ==
    \A i \in Ids :
        /\ entries[i] # None => entries[i].gid <= remote[i]
        /\ saved[i] # None => saved[i].gid <= remote[i]

\* The manifests of the item at hand came one after the other, and after the
\* one on record, whatever was done to the subscription meanwhile.
InOrder ==
    /\ Syncing => /\ cur \in Ids
                  /\ m1 \in 1 .. remote[cur]
                  /\ entries[cur] # None => entries[cur].gid <= m1
    /\ Syncing /\ phase # "fetch" => m2 \in m1 .. remote[cur]

\* Every file of the second manifest is still to come, good or bad, and the
\* good ones are as it says, unless the first manifest prunes some.
Downloaded ==
    /\ ~(phase \in {"files", "prune", "mark"}) => good = {} /\ bad = {}
    /\ phase \in {"files", "prune", "mark"} =>
          /\ FilesOf(m2) = good \cup bad \cup todo
          /\ good \cap todo = {}
          /\ phase # "mark" \/ m1 = m2 =>
                \A f \in good : disk[cur][f] = Manifest[m2][f]

IInv == TypeOK /\ Published /\ InOrder /\ Downloaded

-----------------------------------------------------------------------------
(* The steps, by what they change. *)

\* At first nothing is subscribed and nothing is at hand.
LEMMA InitInv == Init => IInv
<1> SUFFICES ASSUME Init PROVE IInv
  OBVIOUS
<1>1. entries \in [Ids -> Entry \cup {None}] /\ saved = entries /\ snap = entries
  BY DEF Init, NoEntries
<1>2. /\ remote \in [Ids -> Gids]
      /\ m1 \in 0 .. MaxGid /\ m2 \in 0 .. MaxGid
  BY SyncAssumption DEF Init, Gids
<1>3. TypeOK
  BY <1>1, <1>2 DEF Init, TypeOK
<1>4. Published /\ InOrder /\ Downloaded
  BY DEF Init, NoEntries, Published, InOrder, Downloaded, Syncing
<1>5. QED BY <1>3, <1>4 DEF IInv

\* What is on the disk, and what Sync knows of it, is as it was.
LEMMA DownloadedKept ==
    ASSUME Downloaded, UNCHANGED <<disk, phase, cur, m1, m2, todo, good, bad>>
    PROVE  Downloaded'
  BY DEF Downloaded, FilesOf

(***************************************************************************)
(* The store changes, on behalf of anyone but Sync: an entry is removed,   *)
(* stays what it is, or starts from nothing.                               *)
(***************************************************************************)
LEMMA StoreInv ==
    ASSUME IInv, NEW i \in Ids, Add(i) \/ Save([entries EXCEPT ![i] = None]),
           UNCHANGED <<remote, disk, syncVars>>, checking' \subseteq Ids
    PROVE  /\ IInv'
           /\ \A j \in Ids : entries[j] # None /\ entries'[j] # None
                => entries'[j].gid >= entries[j].gid
<1>1. UNCHANGED <<phase, snap, cur, m1, m2, todo, good, bad>>
  BY DEF syncVars
<1>2. NewEntry \in Entry /\ NewEntry.gid = 0
  BY SyncAssumption DEF NewEntry, Entry
<1>3. PICK e \in Entry \cup {None} :
         /\ entries' = [entries EXCEPT ![i] = e]
         /\ saved' \in {entries', saved}
         /\ e # None => IF entries[i] = None THEN e.gid = 0 ELSE e = entries[i]
  <2>1. CASE Add(i)
    <3>1. /\ Added(i) \in Entry \cup {None}
          /\ IF entries[i] = None THEN Added(i).gid = 0
                                  ELSE Added(i) = entries[i]
      BY <1>2 DEF Added, IInv, TypeOK
    <3>2. QED BY <2>1, <3>1 DEF Add, Save
  <2>2. CASE Save([entries EXCEPT ![i] = None])
    BY <2>2 DEF Save
  <2>3. QED BY <2>1, <2>2
<1>4. /\ entries'[i] = e
      /\ \A j \in Ids \ {i} : entries'[j] = entries[j]
  BY <1>3 DEF IInv, TypeOK
<1>5. entries' \in [Ids -> Entry \cup {None}] /\ saved' \in [Ids -> Entry \cup {None}]
  BY <1>3 DEF IInv, TypeOK
<1>6. TypeOK'
  BY <1>1, <1>5 DEF IInv, TypeOK
<1>7. \A j \in Ids : entries'[j] # None =>
          entries'[j].gid = 0 \/ (entries[j] # None /\ entries'[j] = entries[j])
  BY <1>3, <1>4
<1>8. \A j \in Ids : remote[j] \in Nat /\ remote[j] >= 1
  BY SyncAssumption DEF IInv, TypeOK, Gids
<1>9. Published'
  <2>1. \A j \in Ids : entries'[j] # None => entries'[j].gid <= remote[j]
    BY <1>7, <1>8 DEF IInv, Published
  <2>2. \A j \in Ids : saved'[j] # None => saved'[j].gid <= remote[j]
    BY <1>3, <2>1 DEF IInv, Published
  <2>3. QED BY <2>1, <2>2 DEF Published
<1>10. InOrder'
  <2>1. Syncing => m1 \in Nat
    BY <1>8 DEF IInv, InOrder
  <2>2. Syncing /\ entries'[cur] # None => entries'[cur].gid <= m1
    BY <1>7, <2>1 DEF IInv, InOrder
  <2>3. QED BY <1>1, <2>2 DEF IInv, InOrder, Syncing
<1>11. Downloaded'
  BY <1>1, DownloadedKept DEF IInv
<1>12. \A j \in Ids : entries[j] # None /\ entries'[j] # None
          => entries'[j].gid >= entries[j].gid
  <2> SUFFICES ASSUME NEW j \in Ids, entries[j] # None, entries'[j] # None
               PROVE  entries'[j].gid >= entries[j].gid
    OBVIOUS
  <2>1. entries[j].gid \in Nat
    BY SyncAssumption DEF IInv, TypeOK, Entry
  <2>2. entries'[j] = entries[j]
    <3>1. CASE j = i
      <4>1. e # None /\ entries[i] # None
        BY <1>4, <3>1
      <4>2. e = entries[i]
        BY <1>3, <4>1
      <4>3. QED BY <1>4, <3>1, <4>2
    <3>2. CASE j # i
      BY <1>4, <3>2
    <3>3. QED BY <3>1, <3>2
  <2>3. QED BY <2>1, <2>2
<1>13. QED BY <1>6, <1>9, <1>10, <1>11, <1>12 DEF IInv

\* A new manifest is published.
LEMMA PublishInv == ASSUME IInv, NEW i \in Ids, Publish(i) PROVE IInv'
<1>1. /\ UNCHANGED <<entries, saved, disk, phase, snap, cur, m1, m2, todo, good,
                     bad, checking>>
      /\ remote[i] < MaxGid /\ remote' = [remote EXCEPT ![i] = @ + 1]
  BY DEF Publish, storeVars, syncVars
<1>2. /\ remote' \in [Ids -> Gids]
      /\ \A j \in Ids : /\ remote[j] \in Int /\ remote'[j] \in Int
                        /\ remote'[j] >= remote[j]
  BY <1>1, SyncAssumption DEF IInv, TypeOK, Gids
<1>3. TypeOK'
  BY <1>1, <1>2 DEF IInv, TypeOK
<1>4. Published'
  <2>1. \A e \in Entry : e.gid \in Int
    BY DEF Entry
  <2>2. QED BY <1>1, <1>2, <2>1 DEF IInv, TypeOK, Published
<1>5. InOrder'
  <2>1. m1 \in Int /\ m2 \in Int
    BY DEF IInv, TypeOK
  <2>2. QED BY <1>1, <1>2, <2>1 DEF IInv, InOrder, Syncing
<1>6. Downloaded'
  BY <1>1, DownloadedKept DEF IInv
<1>7. QED BY <1>3, <1>4, <1>5, <1>6 DEF IInv

(***************************************************************************)
(* Sync has no item at hand after the step, and nothing else has changed.  *)
(***************************************************************************)
LEMMA AsideInv ==
    ASSUME IInv, UNCHANGED <<storeVars, remote, disk>>,
           phase' \in {"idle", "manifest"}, checking' \subseteq Ids,
           snap' \in [Ids -> Entry \cup {None}], cur' \in Ids \cup {None},
           m1' \in 0 .. MaxGid, m2' \in 0 .. MaxGid, todo' \subseteq Paths,
           good' = {}, bad' = {}
    PROVE  IInv'
<1>1. UNCHANGED <<entries, saved>>
  BY DEF storeVars
<1>2. TypeOK'
  BY <1>1 DEF IInv, TypeOK
<1>3. Published' /\ InOrder' /\ Downloaded'
  BY <1>1 DEF IInv, Published, InOrder, Downloaded, Syncing
<1>4. QED BY <1>2, <1>3 DEF IInv

\* NextTarget sets an item aside.
LEMMA NextTargetInv ==
    ASSUME IInv, NEW i \in Ids, NextTarget(i),
           UNCHANGED <<storeVars, remote, disk, checking>>
    PROVE  IInv'
<1>1. snap' \in [Ids -> Entry \cup {None}]
  BY DEF NextTarget, IInv, TypeOK
<1>2. 0 \in 0 .. MaxGid
  BY SyncAssumption
<1>3. QED BY <1>1, <1>2, AsideInv DEF NextTarget, IInv, TypeOK

\* A restart goes back to what was saved.
LEMMA CrashInv == ASSUME IInv, Crash PROVE IInv'
<1>1. NoEntries \in [Ids -> Entry \cup {None}] /\ 0 \in 0 .. MaxGid
  BY SyncAssumption DEF NoEntries
<1>2. TypeOK'
  BY <1>1 DEF Crash, IInv, TypeOK
<1>3. Published' /\ InOrder' /\ Downloaded'
  BY DEF Crash, IInv, Published, InOrder, Downloaded, Syncing
<1>4. QED BY <1>2, <1>3 DEF IInv

\* The first manifest is at hand: it is no older than the one on record.
LEMMA FetchManifestInv ==
    ASSUME IInv, NEW i \in Ids, FetchManifest(i) PROVE IInv'
<1>1. /\ phase = "manifest" /\ phase' = "fetch" /\ m1' = remote[i] /\ cur' = i
      /\ UNCHANGED <<entries, saved, remote, disk, snap, m2, todo, good, bad,
                     checking>>
  BY DEF FetchManifest, Fetched, storeVars
<1>2. remote[i] \in 1 .. MaxGid
  BY DEF IInv, TypeOK, Gids
<1>3. TypeOK'
  BY <1>1, <1>2, SyncAssumption DEF IInv, TypeOK
<1>4. Published'
  BY <1>1 DEF IInv, Published
<1>5. InOrder'
  BY <1>1, <1>2 DEF IInv, InOrder, Published, Downloaded, Syncing
<1>6. Downloaded'
  BY <1>1 DEF IInv, Downloaded
<1>7. QED BY <1>3, <1>4, <1>5, <1>6 DEF IInv

\* The second manifest is at hand, and all its files are to come.
LEMMA StartItemInv == ASSUME IInv, StartItem PROVE IInv'
<1>1. /\ phase = "fetch" /\ phase' = "files" /\ m2' = remote[cur]
      /\ todo' = FilesOf(m2')
      /\ UNCHANGED <<entries, saved, remote, disk, snap, cur, m1, good, bad,
                     checking>>
  BY DEF StartItem, Fetched, storeVars
<1>2. cur \in Ids /\ m1 \in 1 .. remote[cur] /\ remote[cur] \in 1 .. MaxGid
  BY <1>1 DEF IInv, InOrder, Syncing, TypeOK, Gids
<1>3. good = {} /\ bad = {}
  BY <1>1 DEF IInv, Downloaded
<1>4. m2' \in 0 .. MaxGid /\ todo' \subseteq Paths
  BY <1>1, <1>2, SyncAssumption DEF FilesOf
<1>5. TypeOK'
  BY <1>1, <1>4 DEF IInv, TypeOK
<1>6. Published'
  BY <1>1 DEF IInv, Published
<1>7. InOrder'
  BY <1>1, <1>2 DEF IInv, InOrder, Syncing
<1>8. Downloaded'
  BY <1>1, <1>3 DEF Downloaded, FilesOf
<1>9. QED BY <1>5, <1>6, <1>7, <1>8 DEF IInv

(***************************************************************************)
(* A file is downloaded, or fails, and no other changes.                   *)
(***************************************************************************)
LEMMA FileInv ==
    ASSUME IInv, NEW f \in Paths, FileOK(f) \/ FileFails(f) PROVE IInv'
<1>1. /\ phase = "files" /\ f \in todo /\ todo' = todo \ {f}
      /\ UNCHANGED <<entries, saved, remote, phase, snap, cur, m1, m2, checking>>
  BY DEF FileOK, FileFails, File, storeVars
<1>2. cur \in Ids /\ m2 \in Gids
  <2>1. cur \in Ids /\ m1 \in 1 .. remote[cur] /\ m2 \in m1 .. remote[cur]
    BY <1>1 DEF IInv, InOrder, Syncing
  <2>2. remote[cur] \in 1 .. MaxGid
    BY <2>1 DEF IInv, TypeOK, Gids
  <2>3. QED BY <2>1, <2>2, SyncAssumption DEF Gids
<1>3. PICK c \in Content \cup {None} :
         /\ disk' = [disk EXCEPT ![cur][f] = c]
         /\ \/ /\ good' = good \cup {f} /\ UNCHANGED bad
               /\ c = Manifest[m2][f]
            \/ bad' = bad \cup {f} /\ UNCHANGED good
  <2>1. Manifest[m2][f] \in Content \cup {None}
    BY <1>2, SyncAssumption DEF Gids
  <2>2. QED BY <2>1 DEF FileOK, FileFails
<1>4. /\ disk' \in [Ids -> [Paths -> Content \cup {None}]]
      /\ disk'[cur][f] = c
      /\ \A g \in Paths \ {f} : disk'[cur][g] = disk[cur][g]
  BY <1>2, <1>3 DEF IInv, TypeOK
<1>5. TypeOK'
  BY <1>1, <1>3, <1>4 DEF IInv, TypeOK
<1>6. Published' /\ InOrder'
  BY <1>1 DEF IInv, Published, InOrder, Syncing
<1>7. Downloaded'
  <2>1. good \subseteq Paths /\ f \notin good
    BY <1>1 DEF IInv, TypeOK, Downloaded
  <2>2. \A g \in good' : disk'[cur][g] = Manifest[m2][g]
    BY <1>1, <1>3, <1>4, <2>1 DEF IInv, Downloaded
  <2>3. FilesOf(m2) = good' \cup bad' \cup todo' /\ good' \cap todo' = {}
    BY <1>1, <1>3 DEF IInv, Downloaded
  <2>4. FilesOf(m2)' = FilesOf(m2)
    BY <1>1 DEF FilesOf
  <2>5. QED BY <1>1, <2>2, <2>3, <2>4 DEF Downloaded
<1>8. QED BY <1>5, <1>6, <1>7 DEF IInv

(***************************************************************************)
(* The files are over: the item is set aside, or its stale files will be   *)
(* pruned.                                                                 *)
(***************************************************************************)
LEMMA EndItemInv == ASSUME IInv, EndItem \/ Cancelled PROVE IInv'
<1>1. phase = "files" /\ UNCHANGED <<storeVars, remote, disk, checking>>
  BY DEF EndItem, Cancelled
<1>2. cur \in Ids /\ snap[cur] \in Entry \cup {None}
  BY <1>1 DEF IInv, InOrder, Syncing, TypeOK
<1>3. NoEntries \in [Ids -> Entry \cup {None}] /\ 0 \in 0 .. MaxGid
  BY SyncAssumption DEF NoEntries
<1>4. CASE phase' = "prune"
  <2>1. UNCHANGED <<entries, saved, cur, m1, m2, todo, good, bad>>
    BY <1>1, <1>4 DEF EndItem, Cancelled, NextTarget, storeVars
  <2>2. snap' \in [Ids -> Entry \cup {None}]
    <3>1. snap' \in {snap, [NoEntries EXCEPT ![cur] = snap[cur]]}
      BY <1>4 DEF EndItem, Cancelled, NextTarget
    <3>2. QED BY <1>2, <1>3, <3>1 DEF IInv, TypeOK
  <2>3. TypeOK'
    BY <1>1, <1>4, <2>1, <2>2 DEF IInv, TypeOK
  <2>4. Published' /\ InOrder'
    BY <1>1, <1>4, <2>1 DEF IInv, Published, InOrder, Syncing
  <2>5. Downloaded'
    BY <1>1, <1>4, <2>1 DEF IInv, Downloaded, FilesOf
  <2>6. QED BY <2>3, <2>4, <2>5 DEF IInv
<1>5. CASE EndItem /\ NextTarget(cur)
  BY <1>1, <1>2, <1>5, NextTargetInv
<1>6. CASE Cancelled /\ phase' # "prune"
  <2>1. /\ phase' = "manifest" /\ cur' = None /\ snap' = NoEntries
        /\ m1' = 0 /\ m2' = 0 /\ todo' = {} /\ good' = {} /\ bad' = {}
    BY <1>6 DEF Cancelled
  <2>2. checking' \subseteq Ids
    BY <1>1 DEF IInv, TypeOK
  <2>3. QED BY <1>1, <1>3, <2>1, <2>2, AsideInv
<1>7. QED BY <1>4, <1>5, <1>6 DEF EndItem

(***************************************************************************)
(* Pruning spares what the first manifest lists: every good file, if it is *)
(* the second one as well.                                                 *)
(***************************************************************************)
LEMMA PruneInv == ASSUME IInv, PruneStaleFiles PROVE IInv'
<1>1. /\ phase = "prune" /\ phase' = "mark"
      /\ UNCHANGED <<entries, saved, remote, snap, cur, m1, m2, todo, good, bad,
                     checking>>
      /\ disk' = [disk EXCEPT ![cur] =
                    [f \in Paths |-> IF f \in Stale THEN None ELSE disk[cur][f]]]
  BY DEF PruneStaleFiles, storeVars
<1>2. cur \in Ids
  BY <1>1 DEF IInv, InOrder, Syncing
<1>3. /\ disk' \in [Ids -> [Paths -> Content \cup {None}]]
      /\ \A f \in Paths : disk'[cur][f] =
                             IF f \in Stale THEN None ELSE disk[cur][f]
  BY <1>1, <1>2 DEF IInv, TypeOK
<1>4. TypeOK'
  BY <1>1, <1>3 DEF IInv, TypeOK
<1>5. Published' /\ InOrder'
  BY <1>1 DEF IInv, Published, InOrder, Syncing
<1>6. Downloaded'
  <2>1. FilesOf(m2) = good \cup bad \cup todo /\ good \subseteq Paths
    BY <1>1 DEF IInv, Downloaded, TypeOK
  <2>2. \A f \in good : disk[cur][f] = Manifest[m2][f]
    BY <1>1 DEF IInv, Downloaded
  <2>3. m1 = m2 => \A f \in good : f \notin Stale
    BY <2>1 DEF Stale
  <2>4. m1 = m2 => \A f \in good : disk'[cur][f] = Manifest[m2][f]
    BY <1>3, <2>1, <2>2, <2>3
  <2>5. QED BY <1>1, <2>4 DEF IInv, Downloaded, FilesOf
<1>7. QED BY <1>4, <1>5, <1>6 DEF IInv

(***************************************************************************)
(* What is recorded is not older than what was on record.                  *)
(***************************************************************************)
LEMMA MarkSyncedInv ==
    ASSUME IInv, MarkSynced
    PROVE  /\ IInv'
           /\ \A j \in Ids : entries[j] # None /\ entries'[j] # None
                => entries'[j].gid >= entries[j].gid
<1>1. /\ phase = "mark" /\ NextTarget(cur)
      /\ UNCHANGED <<remote, disk, checking>>
  BY DEF MarkSynced
<1>2. /\ cur \in Ids /\ m1 \in 1 .. remote[cur]
      /\ entries[cur] # None => entries[cur].gid <= m1
  BY <1>1 DEF IInv, InOrder, Syncing
<1>3. m1 \in 0 .. MaxGid /\ \A j \in Ids : remote[j] \in 1 .. MaxGid
  BY DEF IInv, TypeOK, Gids
<1>4. \A j \in Ids : entries[j] # None => entries[j].gid \in Int
  BY SyncAssumption DEF IInv, TypeOK, Entry
<1> DEFINE e == [gid |-> m1, files |-> FilesOf(m1)]
<1>5. e \in Entry /\ e.gid = m1
  BY <1>3 DEF Entry, FilesOf
<1>6. CASE entries[cur] = None
  <2>1. UNCHANGED storeVars
    BY <1>6 DEF MarkSynced
  <2>2. UNCHANGED entries
    BY <2>1 DEF storeVars
  <2>3. QED BY <1>1, <1>2, <1>4, <2>1, <2>2, NextTargetInv
<1>7. CASE entries[cur] # None
  <2>1. /\ entries' = [entries EXCEPT ![cur] = e]
        /\ saved' \in {entries', saved}
    BY <1>7 DEF MarkSynced, Save
  <2>2. /\ entries'[cur] = e
        /\ \A j \in Ids \ {cur} : entries'[j] = entries[j]
        /\ entries' \in [Ids -> Entry \cup {None}]
        /\ saved' \in [Ids -> Entry \cup {None}]
    BY <1>2, <1>5, <2>1 DEF IInv, TypeOK
  <2>3. \A j \in Ids : entries[j] # None /\ entries'[j] # None
           => entries'[j].gid >= entries[j].gid
    BY <1>2, <1>3, <1>4, <1>5, <1>7, <2>2
  <2>4. /\ phase' = "manifest" /\ cur' = None /\ m1' = 0 /\ m2' = 0
        /\ todo' = {} /\ good' = {} /\ bad' = {}
        /\ snap' = [snap EXCEPT ![cur] = None]
    BY <1>1 DEF NextTarget
  <2>5. TypeOK'
    <3>1. snap' \in [Ids -> Entry \cup {None}]
      BY <2>4 DEF IInv, TypeOK
    <3>2. 0 \in 0 .. MaxGid
      BY SyncAssumption
    <3>3. QED BY <1>1, <2>2, <2>4, <3>1, <3>2 DEF IInv, TypeOK
  <2>6. Published'
    <3>1. \A j \in Ids : entries'[j] # None => entries'[j].gid <= remote[j]
      BY <1>2, <1>3, <1>5, <2>2 DEF IInv, Published
    <3>2. \A j \in Ids : saved'[j] # None => saved'[j].gid <= remote[j]
      BY <2>1, <3>1 DEF IInv, Published
    <3>3. QED BY <1>1, <3>1, <3>2 DEF Published
  <2>7. InOrder' /\ Downloaded'
    BY <2>4 DEF InOrder, Downloaded, Syncing
  <2>8. QED BY <2>3, <2>5, <2>6, <2>7 DEF IInv
<1>8. QED BY <1>6, <1>7

(***************************************************************************)
(* Every step keeps the invariant, and but for a restart takes no record   *)
(* back.                                                                   *)
(***************************************************************************)
LEMMA NextInv ==
    ASSUME IInv, [Next]_vars
    PROVE  /\ IInv'
           /\ Crash \/ \A i \in Ids : entries[i] # None /\ entries'[i] # None
                         => entries'[i].gid >= entries[i].gid
<1>1. ASSUME UNCHANGED entries
      PROVE  \A i \in Ids : entries[i] # None /\ entries'[i] # None
                => entries'[i].gid >= entries[i].gid
  <2>1. \A i \in Ids : entries[i] # None => entries[i].gid \in Int
    BY SyncAssumption DEF IInv, TypeOK, Entry
  <2>2. QED BY <1>1, <2>1
<1>2. CASE UNCHANGED vars
  <2>1. UNCHANGED <<entries, saved, remote, disk, phase, snap, cur, m1, m2, todo,
                    good, bad, checking>>
    BY <1>2 DEF vars, storeVars, syncVars
  <2>2. TypeOK' /\ Published' /\ InOrder'
    BY <2>1 DEF IInv, TypeOK, Published, InOrder, Syncing
  <2>3. QED BY <1>1, <2>1, <2>2, DownloadedKept DEF IInv
<1>3. ASSUME NEW i \in Ids, Subscribe(i) \/ Remove(i) \/ RefreshTitle(i)
      PROVE  /\ IInv'
             /\ \A j \in Ids : entries[j] # None /\ entries'[j] # None
                  => entries'[j].gid >= entries[j].gid
  <2>1. /\ Add(i) \/ Save([entries EXCEPT ![i] = None])
        /\ UNCHANGED <<remote, disk, syncVars>> /\ checking' \subseteq Ids
    BY <1>3 DEF Subscribe, Remove, RefreshTitle, IInv, TypeOK
  <2>2. QED BY <2>1, StoreInv
<1>4. ASSUME NEW i \in Ids, Publish(i) PROVE IInv' /\ UNCHANGED entries
  BY <1>4, PublishInv DEF Publish, storeVars
<1>5. ASSUME CheckUpdates \/ \E i \in Ids : CheckItem(i)
      PROVE  IInv' /\ UNCHANGED entries
  <2>1. /\ UNCHANGED <<entries, saved, remote, disk, phase, snap, cur, m1, m2,
                       todo, good, bad>>
        /\ checking' \subseteq Ids
    BY <1>5 DEF CheckUpdates, CheckItem, storeVars, syncVars, IInv, TypeOK
  <2>2. TypeOK' /\ Published' /\ InOrder'
    BY <2>1 DEF IInv, TypeOK, Published, InOrder, Syncing
  <2>3. QED BY <2>1, <2>2, DownloadedKept DEF IInv
<1>6. ASSUME NEW S \in SUBSET Ids, StartSync(S) PROVE IInv' /\ UNCHANGED entries
  <2>1. snap' \in [Ids -> Entry \cup {None}]
    BY <1>6 DEF StartSync, IInv, TypeOK
  <2>2. phase = "idle" /\ good = {} /\ bad = {}
    BY <1>6 DEF StartSync, IInv, Downloaded
  <2>3. /\ phase' = "manifest"
        /\ UNCHANGED <<storeVars, remote, disk, cur, m1, m2, todo, good, bad,
                       checking>>
    BY <1>6 DEF StartSync
  <2>4. IInv'
    BY <2>1, <2>2, <2>3, AsideInv DEF IInv, TypeOK
  <2>5. QED BY <2>3, <2>4 DEF storeVars
<1>7. ASSUME EndSync PROVE IInv' /\ UNCHANGED entries
  <2>1. /\ phase = "manifest" /\ phase' = "idle"
        /\ UNCHANGED <<storeVars, remote, disk, snap, cur, m1, m2, todo, good,
                       bad, checking>>
    BY <1>7 DEF EndSync
  <2>2. good = {} /\ bad = {}
    BY <2>1 DEF IInv, Downloaded
  <2>3. IInv'
    BY <2>1, <2>2, AsideInv DEF IInv, TypeOK
  <2>4. QED BY <2>1, <2>3 DEF storeVars
<1>8. ASSUME NEW i \in Ids, SkipTarget(i) PROVE IInv' /\ UNCHANGED entries
  BY <1>8, NextTargetInv DEF SkipTarget, storeVars
<1>9. ASSUME StartItemFails PROVE IInv' /\ UNCHANGED entries
  <2>1. cur \in Ids
    BY <1>9 DEF StartItemFails, IInv, InOrder, Syncing
  <2>2. QED BY <1>9, <2>1, NextTargetInv DEF StartItemFails, storeVars
<1>10. ASSUME NEW i \in Ids, FetchManifest(i) PROVE IInv' /\ UNCHANGED entries
  BY <1>10, FetchManifestInv DEF FetchManifest, storeVars
<1>11. ASSUME StartItem \/ PruneStaleFiles PROVE IInv' /\ UNCHANGED entries
  BY <1>11, StartItemInv, PruneInv DEF StartItem, PruneStaleFiles, storeVars
<1>12. ASSUME NEW f \in Paths, FileOK(f) \/ FileFails(f)
       PROVE  IInv' /\ UNCHANGED entries
  BY <1>12, FileInv DEF FileOK, FileFails, File, storeVars
<1>13. ASSUME EndItem \/ Cancelled PROVE IInv' /\ UNCHANGED entries
  BY <1>13, EndItemInv DEF EndItem, Cancelled, storeVars
<1>14. CASE Sync
  BY <1>1, <1>6, <1>7, <1>8, <1>9, <1>10, <1>11, <1>12, <1>13, <1>14,
     MarkSyncedInv DEF Sync
<1>15. CASE Crash
  BY <1>15, CrashInv
<1>16. QED BY <1>1, <1>2, <1>3, <1>4, <1>5, <1>14, <1>15 DEF Next

\* The invariant holds in every state of the specification.
LEMMA Invariance == Spec => []IInv
<1>1. IInv /\ [Next]_vars => IInv'
  BY NextInv
<1>2. QED BY <1>1, InitInv, PTL DEF Spec

-----------------------------------------------------------------------------

(***************************************************************************)
(* Types, and no lasting mismatch after a clean download: when the         *)
(* manifest that will be recorded is the workshop's, every file it lists   *)
(* is on the disk, whatever was published between the two fetches and      *)
(* whatever the first one had pruned (sync.go 105-136).                    *)
(***************************************************************************)
THEOREM ConsistentTheorem == Spec => []Consistent
<1>1. ASSUME IInv, phase = "mark", Clean, remote[cur] = m1
      PROVE  Matches(cur, m1)
  <2>1. m1 \in 1 .. remote[cur] /\ m2 \in m1 .. remote[cur] /\ cur \in Ids
    BY <1>1 DEF IInv, InOrder, Syncing
  <2>2. m2 = m1
    BY <1>1, <2>1 DEF IInv, TypeOK
  <2>3. FilesOf(m1) = good /\ \A f \in good : disk[cur][f] = Manifest[m1][f]
    BY <1>1, <2>2 DEF IInv, Downloaded, Clean
  <2>4. QED BY <2>3 DEF Matches
<1>2. IInv => Consistent
  BY <1>1 DEF IInv, Consistent, MismatchIsPending
<1>3. QED BY <1>2, Invariance, PTL

(***************************************************************************)
(* Of an item that stays subscribed, the manifest on record only gets      *)
(* newer, whatever is subscribed, removed and refreshed while Sync works   *)
(* from its copy (sync.go 97, 134); a restart may go back to what was      *)
(* saved.                                                                  *)
(***************************************************************************)
THEOREM GidNeverGoesBackTheorem == Spec => GidNeverGoesBack
<1>1. IInv /\ [Next]_vars
        => [Crash \/ \A i \in Ids :
              entries[i] # None /\ entries'[i] # None
                => entries'[i].gid >= entries[i].gid]_vars
  BY NextInv
<1>2. QED BY <1>1, Invariance, PTL DEF Spec, GidNeverGoesBack
=============================================================================
