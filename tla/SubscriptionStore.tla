------------------------- MODULE SubscriptionStore -------------------------
(***************************************************************************)
(* internal/subscription/store.go: the list of subscribed items, kept in   *)
(* memory by each process that loaded it (the web server; a "swd sub"      *)
(* command) and saved as a whole to subscriptions.json by writing          *)
(* subscriptions.json.tmp and renaming it.  Every operation holds Store.mu *)
(* until its save is over, so a process runs one at a time; two processes  *)
(* share only the files.                                                   *)
(*                                                                         *)
(* Of an entry only ManifestGID is kept (title and dates are display).     *)
(* A file has content Empty between its truncation and the write, Torn     *)
(* when part of a list is in it.  Loss of power is not modelled: a process *)
(* may die at any step, what it wrote stays.                               *)
(***************************************************************************)
EXTENDS Naturals

CONSTANTS Procs,    \* processes that may use the output directory
          Ids,      \* workshop ids
          MaxGid,   \* bound: the newest manifest id
          None,     \* the id has no entry
          Down,     \* the process is not running (or could not load)
          Absent,   \* there is no such file
          Empty,    \* the file was truncated and not written yet
          Torn      \* the file holds something that is not one list

Gids == 0 .. MaxGid
Lists == [Ids -> Gids \cup {None}]

ASSUME StoreAssumption ==
    /\ MaxGid \in Nat
    /\ None \notin Gids
    /\ {Down, Absent, Empty, Torn} \cap Lists = {}
    /\ Absent \notin {Empty, Torn}
    /\ Empty # Torn

VARIABLES
    entries,  \* entries[p]: Store.entries of p
    file,     \* content of subscriptions.json
    tmp,      \* content of subscriptions.json.tmp
    pc,       \* pc[p]: the step of saveLocked p is at
    op,       \* op[p]: the id being changed and its new value
    target,   \* target[p]: what the file p opened is called by now
    acked,    \* acked[i]: i's value after the last operation that returned nil
    unsure,   \* unsure[i]: values of i by later operations that did not
    overlap   \* what two processes have done so far: "none"; a change while
              \* another had the list "loaded" (or loaded it during the save);
              \* a change while another was "saving"

vars == <<entries, file, tmp, pc, op, target, acked, unsure, overlap>>

NoOp == [id |-> None, val |-> None]
Ops == [id : Ids \cup {None}, val : Gids \cup {None}]

TypeOK ==
    /\ entries \in [Procs -> Lists \cup {Down}]
    /\ file \in Lists \cup {Absent, Empty, Torn}
    /\ tmp \in Lists \cup {Absent, Empty, Torn}
    /\ pc \in [Procs -> {"idle", "write", "rename"}]
    /\ op \in [Procs -> Ops]
    /\ target \in [Procs -> {"tmp", "file", "gone"}]
    /\ acked \in [Ids -> Gids \cup {None}]
    /\ unsure \in [Ids -> SUBSET (Gids \cup {None})]
    /\ overlap \in {"none", "loaded", "saving"}

NoEntries == [i \in Ids |-> None]

Init ==
    /\ entries = [p \in Procs |-> Down]
    /\ file = Absent
    /\ tmp = Absent
    /\ pc = [p \in Procs |-> "idle"]
    /\ op = [p \in Procs |-> NoOp]
    /\ target = [p \in Procs |-> "gone"]
    /\ acked = NoEntries
    /\ unsure = [i \in Ids |-> {}]
    /\ overlap = "none"

\* Mutant: what was read is not kept.
NothingLoaded == NoEntries

\* A missing file is an empty list.
Stored == IF file = Absent THEN NoEntries ELSE file
Loaded == Stored

Saving(p) == pc[p] # "idle"
Running(p) == entries[p] # Down

\* overlap after a step of p: "loaded" if stale is the case, "saving" if
\* racing is; it never goes back.
Overlap(stale, racing) ==
    IF overlap = "saving" \/ racing THEN "saving"
    ELSE IF overlap = "loaded" \/ stale THEN "loaded"
    ELSE "none"

\* A list read while another process saves lacks what is being saved.
Load(p) ==
    /\ ~Running(p)
    /\ file \notin {Empty, Torn}
    /\ entries' = [entries EXCEPT ![p] = Loaded]
    /\ overlap' = Overlap(\E q \in Procs : Saving(q), FALSE)
    /\ UNCHANGED <<file, tmp, pc, op, target, acked, unsure>>

\* A file that does not parse keeps the process from having a list.
LoadFails(p) ==
    /\ ~Running(p)
    /\ file \in {Empty, Torn}
    /\ UNCHANGED vars

-----------------------------------------------------------------------------
(* saveLocked. *)

\* os.WriteFile creates or truncates its file; the change itself is in
\* memory before anything is saved.
OpenTmp(p) ==
    /\ tmp' = Empty
    /\ target' = [target EXCEPT ![p] = "tmp"]
    /\ UNCHANGED file

\* The operation did not return nil: its change may or may not be seen by
\* whoever loads the file.
Unsure(p) ==
    unsure' = [unsure EXCEPT ![op[p].id] = @ \cup {op[p].val}]

Ends(p) ==
    /\ pc' = [pc EXCEPT ![p] = "idle"]
    /\ op' = [op EXCEPT ![p] = NoOp]

Acked(p) ==
    /\ acked' = [acked EXCEPT ![op[p].id] = op[p].val]
    /\ unsure' = [unsure EXCEPT ![op[p].id] = {}]

\* An error of any call is returned and memory keeps the change.
SaveFails(p) == Ends(p) /\ Unsure(p) /\ UNCHANGED acked

OverlapOfChange(p) ==
    Overlap(\E q \in Procs \ {p} : Running(q),
            \E q \in Procs \ {p} : Saving(q))

BeginSave(p, i, v) ==
    /\ entries' = [entries EXCEPT ![p][i] = v]
    /\ op' = [op EXCEPT ![p] = [id |-> i, val |-> v]]
    /\ pc' = [pc EXCEPT ![p] = "write"]
    /\ OpenTmp(p)
    /\ overlap' = OverlapOfChange(p)
    /\ UNCHANGED <<acked, unsure>>

\* The temporary file cannot be opened.
BeginFails(p, i, v) ==
    /\ entries' = [entries EXCEPT ![p][i] = v]
    /\ unsure' = [unsure EXCEPT ![i] = @ \cup {v}]
    /\ overlap' = OverlapOfChange(p)
    /\ UNCHANGED <<file, tmp, pc, op, target, acked>>

\* Mutant: part of the list may be missing without an error.
WrittenInPart(p, content) == {entries[p], Torn}

\* What the opened file holds after p wrote its list: exactly the list, if
\* nobody wrote to the file since it was truncated.
Written(p, content) ==
    IF content = Empty THEN {entries[p]} ELSE {entries[p], Torn}

\* The opened file may have been renamed by another process meanwhile, or
\* been replaced under its new name too.
WriteTo(p, contents(_)) ==
    \/ target[p] = "tmp" /\ tmp' \in contents(tmp) /\ UNCHANGED file
    \/ target[p] = "file" /\ file' \in contents(file) /\ UNCHANGED tmp
    \/ target[p] = "gone" /\ UNCHANGED <<file, tmp>>

WriteList(p) ==
    /\ pc[p] = "write"
    /\ WriteTo(p, LAMBDA c : Written(p, c))
    /\ pc' = [pc EXCEPT ![p] = "rename"]
    /\ target' = [target EXCEPT ![p] = "gone"]
    /\ UNCHANGED <<entries, op, acked, unsure, overlap>>

\* A full disk: part of the list is written, the rename is not tried.
WriteFails(p) ==
    /\ pc[p] = "write"
    /\ WriteTo(p, LAMBDA c : {c, Torn})
    /\ target' = [target EXCEPT ![p] = "gone"]
    /\ SaveFails(p)
    /\ UNCHANGED <<entries, overlap>>

\* Whoever has the temporary file open has subscriptions.json open now; who
\* had that open writes to a file without a name.
Renamed ==
    [q \in Procs |-> IF target[q] = "tmp" THEN "file" ELSE "gone"]

Rename(p) ==
    /\ pc[p] = "rename"
    /\ tmp # Absent
    /\ file' = tmp
    /\ tmp' = Absent
    /\ target' = Renamed
    /\ Ends(p)
    /\ Acked(p)
    /\ UNCHANGED <<entries, overlap>>

\* Another process renamed the temporary file, or the rename is refused.
RenameFails(p) ==
    /\ pc[p] = "rename"
    /\ SaveFails(p)
    /\ UNCHANGED <<entries, file, tmp, target, overlap>>

-----------------------------------------------------------------------------
(* The operations: the new value of one entry, saved. *)

Change(p, i, v) == BeginSave(p, i, v) \/ BeginFails(p, i, v)

Ready(p) == Running(p) /\ ~Saving(p)

\* An entry that exists keeps what was downloaded.
Add(p, i) ==
    /\ Ready(p)
    /\ Change(p, i, IF entries[p][i] = None THEN 0 ELSE entries[p][i])

Remove(p, i) == Ready(p) /\ Change(p, i, None)

\* Without an entry the operation returns an error and saves nothing.
MarkSynced(p, i, g) ==
    /\ Ready(p)
    /\ entries[p][i] # None
    /\ Change(p, i, g)

\* The process ends, at any step of a save if it is killed.
Exit(p) ==
    /\ Running(p)
    /\ entries' = [entries EXCEPT ![p] = Down]
    /\ IF Saving(p) THEN Ends(p) /\ Unsure(p)
                     ELSE UNCHANGED <<pc, op, unsure>>
    /\ target' = [target EXCEPT ![p] = "gone"]
    /\ UNCHANGED <<file, tmp, acked, overlap>>

\* Killed in the middle of its write.
ExitTorn(p) ==
    /\ pc[p] = "write"
    /\ WriteTo(p, LAMBDA c : {Torn})
    /\ entries' = [entries EXCEPT ![p] = Down]
    /\ target' = [target EXCEPT ![p] = "gone"]
    /\ Ends(p)
    /\ Unsure(p)
    /\ UNCHANGED <<acked, overlap>>

Save(p) == WriteList(p) \/ WriteFails(p) \/ Rename(p) \/ RenameFails(p)

Next ==
    \E p \in Procs :
        \/ Load(p)
        \/ LoadFails(p)
        \/ \E i \in Ids : Add(p, i) \/ Remove(p, i)
        \/ \E i \in Ids, g \in Gids : MarkSynced(p, i, g)
        \/ Save(p)
        \/ Exit(p)
        \/ ExitTorn(p)

Spec == Init /\ [][Next]_vars

-----------------------------------------------------------------------------
(* Properties. *)

\* subscriptions.json is one whole list at every moment, whatever fails and
\* whenever a process is killed, so that a Load never meets a file it cannot
\* parse (Load 69-71; the web server would run without subscriptions).
FileParses == file \notin {Empty, Torn}

\* It takes two processes saving at the same time to break that: the name of
\* the temporary file is the only thing their saves share (saveLocked 93-97).
OnlyRacesTear == overlap # "saving" => FileParses

\* Why: as long as nobody saved while another process was saving, whoever
\* saves is alone, has the temporary file open until it has written its list
\* there, and then renames that list.
Alone ==
    /\ FileParses
    /\ \A p, q \in Procs : Saving(p) /\ Saving(q) => p = q
    /\ \A p \in Procs :
          /\ pc[p] = "write" => target[p] = "tmp" /\ tmp = Empty
          /\ pc[p] # "write" => target[p] = "gone"
          /\ pc[p] = "rename" => tmp \in Lists

Calm == overlap # "saving" => Alone

IInv == TypeOK /\ (\A p \in Procs : Saving(p) => Running(p)) /\ Calm

\* What the file may say of i: the value of the last operation on i that
\* returned nil, or of one after it that failed, was cut off or is running.
MayHold(i) ==
    {acked[i]} \cup unsure[i]
        \cup {op[p].val : p \in {q \in Procs : op[q].id = i}}

\* What an operation that returned nil recorded is in the file (Add 135,
\* Remove 143, MarkSynced 159).
AckedInFile == FileParses => \A i \in Ids : Stored[i] \in MayHold(i)

\* Nothing recorded is undone by an operation on another item, by a failed
\* save or by a restart, as long as no process changes the list while
\* another one has it loaded.
OnlyStaleListsLose == overlap = "none" => AckedInFile
=============================================================================
