---------------------- MODULE SubscriptionStoreProofs ----------------------
(***************************************************************************)
(* For every number of processes and every set of items: a state file that *)
(* does not parse takes two processes that save at the same time.  The     *)
(* inductive invariant says who has the temporary file open, what is in it *)
(* at each step of the save, and that a saver is alone (Calm).  For        *)
(* recorded entries to be lost, a process has to change a list that        *)
(* another one has loaded: up to then every list, and the file, agree with *)
(* what was recorded (Fresh).                                              *)
(***************************************************************************)
EXTENDS SubscriptionStore, TLAPS

LEMMA Distinct ==
    /\ Down \notin Lists /\ Absent \notin Lists
    /\ Empty \notin Lists /\ Torn \notin Lists
    /\ Absent # Empty /\ Absent # Torn /\ Empty # Torn
  BY StoreAssumption

LEMMA InitInv == Init => IInv
<1> SUFFICES ASSUME Init PROVE IInv
  OBVIOUS
<1>1. TypeOK
  BY DEF Init, TypeOK, NoEntries, NoOp, Ops
<1>2. \A p \in Procs : ~Saving(p)
  BY DEF Init, Saving
<1>3. Calm
  BY <1>2, Distinct DEF Init, Calm, Alone, FileParses, Saving
<1>4. QED BY <1>1, <1>2, <1>3 DEF IInv

(***************************************************************************)
(* What Overlap makes of a step: "saving" is never left, and a step that   *)
(* races leads to it.                                                      *)
(***************************************************************************)
LEMMA OverlapStep ==
    ASSUME overlap \in {"none", "loaded", "saving"},
           NEW stale \in BOOLEAN, NEW racing \in BOOLEAN
    PROVE  /\ Overlap(stale, racing) \in {"none", "loaded", "saving"}
           /\ Overlap(stale, racing) # "saving" => overlap # "saving" /\ ~racing
  BY DEF Overlap

LEMMA LoadInv == ASSUME IInv, NEW p \in Procs, Load(p) PROVE IInv'
<1> USE DEF IInv, Load
<1>1. Loaded \in Lists
  BY DEF TypeOK, Loaded, Stored, NoEntries, Lists
<1>2. /\ overlap' \in {"none", "loaded", "saving"}
      /\ overlap' # "saving" => overlap # "saving"
  BY OverlapStep DEF TypeOK
<1>3. TypeOK'
  BY <1>1, <1>2 DEF TypeOK
<1>4. \A q \in Procs : Saving(q)' => Running(q)'
  <2> SUFFICES ASSUME NEW q \in Procs, Saving(q)' PROVE Running(q)'
    OBVIOUS
  <2>1. q # p
    BY DEF Saving
  <2>2. entries'[q] = entries[q]
    BY <2>1 DEF TypeOK
  <2>3. QED BY <2>2 DEF Saving, Running
<1>5. Calm'
  BY <1>2 DEF Calm, Alone, FileParses, Saving
<1>6. QED BY <1>3, <1>4, <1>5

(***************************************************************************)
(* The end of a save, whatever its result.                                 *)
(***************************************************************************)
LEMMA EndsType ==
    ASSUME TypeOK, NEW p \in Procs, Ends(p)
    PROVE  /\ pc' = [pc EXCEPT ![p] = "idle"]
           /\ pc'[p] = "idle"
           /\ \A q \in Procs \ {p} : pc'[q] = pc[q]
           /\ pc' \in [Procs -> {"idle", "write", "rename"}]
           /\ op' \in [Procs -> Ops]
  BY DEF Ends, TypeOK, NoOp, Ops

LEMMA AckedType ==
    ASSUME TypeOK, NEW p \in Procs, Acked(p)
    PROVE  /\ acked' \in [Ids -> Gids \cup {None}]
           /\ unsure' \in [Ids -> SUBSET (Gids \cup {None})]
<1>1. op[p].val \in Gids \cup {None}
  BY DEF TypeOK, Ops
<1>2. QED BY <1>1 DEF Acked, TypeOK

LEMMA UnsureType ==
    ASSUME TypeOK, NEW p \in Procs, Unsure(p)
    PROVE  unsure' \in [Ids -> SUBSET (Gids \cup {None})]
<1>1. op[p].val \in Gids \cup {None}
  BY DEF TypeOK, Ops
<1>2. QED BY <1>1 DEF Unsure, TypeOK

(***************************************************************************)
(* A change: p has a list, does not save, and saves it with one new value  *)
(* or fails to open the temporary file.                                    *)
(***************************************************************************)
LEMMA ChangeInv ==
    ASSUME IInv, NEW p \in Procs, NEW i \in Ids, NEW v \in Gids \cup {None},
           Ready(p), Change(p, i, v)
    PROVE  IInv'
<1> DEFINE racing == \E q \in Procs \ {p} : Saving(q)
<1>1. entries[p] \in Lists /\ pc[p] = "idle"
  BY DEF IInv, TypeOK, Ready, Running, Saving
<1>2. [entries[p] EXCEPT ![i] = v] \in Lists
  BY <1>1 DEF Lists
<1>3. overlap' = OverlapOfChange(p)
  BY DEF Change, BeginSave, BeginFails
<1>4. /\ overlap' \in {"none", "loaded", "saving"}
      /\ overlap' # "saving" => overlap # "saving" /\ ~racing
  BY <1>3, OverlapStep DEF OverlapOfChange, IInv, TypeOK
<1>5. entries' = [entries EXCEPT ![p] = [entries[p] EXCEPT ![i] = v]]
  BY DEF Change, BeginSave, BeginFails
<1>6. entries' \in [Procs -> Lists \cup {Down}] /\ \A q \in Procs : Running(q) => Running(q)'
  BY <1>2, <1>5, Distinct DEF IInv, TypeOK, Running
<1>7. CASE BeginSave(p, i, v)
  <2>1. /\ pc' = [pc EXCEPT ![p] = "write"]
        /\ op' = [op EXCEPT ![p] = [id |-> i, val |-> v]]
        /\ target' = [target EXCEPT ![p] = "tmp"]
        /\ tmp' = Empty
        /\ UNCHANGED <<file, acked, unsure>>
    BY <1>7 DEF BeginSave, OpenTmp
  <2>2. TypeOK'
    BY <1>4, <1>6, <2>1 DEF IInv, TypeOK, Ops
  <2>3. \A q \in Procs \ {p} : pc'[q] = pc[q] /\ target'[q] = target[q]
    BY <2>1 DEF IInv, TypeOK
  <2>4. pc'[p] = "write" /\ target'[p] = "tmp"
    BY <2>1 DEF IInv, TypeOK
  <2>5. \A q \in Procs : Saving(q)' => Running(q)'
    <3> TAKE q \in Procs
    <3>1. CASE q = p
      BY <3>1, <1>1, <1>6, Distinct DEF Running
    <3>2. CASE q # p
      BY <3>2, <2>3, <1>6 DEF IInv, Saving
    <3>3. QED BY <3>1, <3>2
  <2>6. Calm'
    <3> SUFFICES ASSUME overlap' # "saving"
                 PROVE  /\ FileParses'
                        /\ \A q \in Procs \ {p} : pc'[q] = "idle" /\ target'[q] = "gone"
      BY <2>1, <2>4 DEF Calm, Alone, Saving
    <3>1. overlap # "saving" /\ ~racing
      BY <1>4
    <3>2. FileParses'
      BY <3>1, <2>1 DEF IInv, Calm, Alone, FileParses
    <3>3. \A q \in Procs \ {p} : pc[q] = "idle"
      BY <3>1 DEF Saving
    <3>4. \A q \in Procs \ {p} : target[q] = "gone"
      BY <3>1, <3>3 DEF IInv, Calm, Alone
    <3>5. QED BY <3>2, <3>3, <3>4, <2>3
  <2>7. QED BY <2>2, <2>5, <2>6 DEF IInv
<1>8. CASE BeginFails(p, i, v)
  <2>1. /\ unsure' = [unsure EXCEPT ![i] = @ \cup {v}]
        /\ UNCHANGED <<file, tmp, pc, op, target, acked>>
    BY <1>8 DEF BeginFails
  <2>2. TypeOK'
    BY <1>4, <1>6, <2>1 DEF IInv, TypeOK
  <2>3. \A q \in Procs : Saving(q)' => Running(q)'
    BY <1>6, <2>1 DEF IInv, Saving
  <2>4. Calm'
    BY <1>4, <2>1 DEF IInv, Calm, Alone, FileParses, Saving
  <2>5. QED BY <2>2, <2>3, <2>4 DEF IInv
<1>9. QED BY <1>7, <1>8 DEF Change

LEMMA WriteListInv == ASSUME IInv, NEW p \in Procs, WriteList(p) PROVE IInv'
<1>1. /\ pc[p] = "write"
      /\ pc' = [pc EXCEPT ![p] = "rename"]
      /\ target' = [target EXCEPT ![p] = "gone"]
      /\ UNCHANGED <<entries, op, acked, unsure, overlap>>
  BY DEF WriteList
<1>2. entries[p] \in Lists
  BY <1>1 DEF IInv, TypeOK, Saving, Running
<1>3. \/ target[p] = "tmp" /\ tmp' \in Written(p, tmp) /\ UNCHANGED file
      \/ target[p] = "file" /\ file' \in Written(p, file) /\ UNCHANGED tmp
      \/ target[p] = "gone" /\ UNCHANGED <<file, tmp>>
  BY DEF WriteList, WriteTo
<1>4. TypeOK'
  BY <1>1, <1>2, <1>3 DEF IInv, TypeOK, Written
<1>5. /\ pc'[p] = "rename" /\ target'[p] = "gone"
      /\ \A q \in Procs \ {p} : pc'[q] = pc[q] /\ target'[q] = target[q]
  BY <1>1 DEF IInv, TypeOK
<1>6. \A q \in Procs : Saving(q)' => Running(q)'
  <2> TAKE q \in Procs
  <2>1. Saving(q)' => Saving(q)
    BY <1>1, <1>5 DEF Saving
  <2>2. QED BY <2>1, <1>1 DEF IInv, Running
<1>7. Calm'
  <2> SUFFICES ASSUME overlap' # "saving"
               PROVE  /\ FileParses' /\ tmp' \in Lists
                      /\ \A q \in Procs \ {p} : pc'[q] = "idle" /\ target'[q] = "gone"
    BY <1>5 DEF Calm, Alone, Saving
  <2>1. Calm /\ overlap # "saving"
    BY <1>1 DEF IInv
  <2>2. target[p] = "tmp" /\ tmp = Empty
    BY <1>1, <2>1 DEF Calm, Alone
  <2>3. tmp' = entries[p] /\ file' = file
    BY <1>3, <2>2 DEF Written
  <2>4. \A q \in Procs \ {p} : pc[q] = "idle"
    BY <1>1, <2>1 DEF Calm, Alone, Saving
  <2>5. \A q \in Procs \ {p} : target[q] = "gone"
    BY <2>1, <2>4 DEF Calm, Alone
  <2>6. FileParses'
    BY <2>1, <2>3 DEF Calm, Alone, FileParses
  <2>7. QED BY <1>2, <1>5, <2>3, <2>4, <2>5, <2>6
<1>8. QED BY <1>4, <1>6, <1>7 DEF IInv

(***************************************************************************)
(* A step of p after which it does not save and has no file open, and that *)
(* leaves subscriptions.json alone if p had the temporary file open.       *)
(***************************************************************************)
LEMMA StopInv ==
    ASSUME IInv, NEW p \in Procs,
           entries' \in [Procs -> Lists \cup {Down}],
           \A q \in Procs \ {p} : entries'[q] = entries[q],
           file' \in Lists \cup {Absent, Empty, Torn},
           tmp' \in Lists \cup {Absent, Empty, Torn},
           target[p] \in {"tmp", "gone"} => file' = file,
           Saving(p) \/ tmp' = tmp,
           Ends(p) \/ (pc[p] = "idle" /\ UNCHANGED <<pc, op>>),
           \/ target' = [target EXCEPT ![p] = "gone"]
           \/ pc[p] = "rename" /\ UNCHANGED target,
           acked' \in [Ids -> Gids \cup {None}],
           unsure' \in [Ids -> SUBSET (Gids \cup {None})],
           overlap' = overlap
    PROVE  IInv'
<1>1. /\ pc'[p] = "idle"
      /\ \A q \in Procs \ {p} : pc'[q] = pc[q]
      /\ pc' \in [Procs -> {"idle", "write", "rename"}]
      /\ op' \in [Procs -> Ops]
  BY EndsType DEF IInv, TypeOK
<1>2. /\ target'[p] = "gone" \/ (pc[p] = "rename" /\ target'[p] = target[p])
      /\ \A q \in Procs \ {p} : target'[q] = target[q]
  BY DEF IInv, TypeOK
<1>3. target' \in [Procs -> {"tmp", "file", "gone"}]
  BY DEF IInv, TypeOK
<1>4. TypeOK'
  BY <1>1, <1>3 DEF IInv, TypeOK
<1>5. \A q \in Procs : Saving(q)' => Running(q)'
  <2> SUFFICES ASSUME NEW q \in Procs, Saving(q)' PROVE Running(q)'
    OBVIOUS
  <2>1. q # p
    BY <1>1 DEF Saving
  <2>2. Saving(q) /\ entries'[q] = entries[q]
    BY <1>1, <2>1 DEF Saving
  <2>3. QED BY <2>2 DEF IInv, Running
<1>6. Calm'
  <2> SUFFICES ASSUME overlap' # "saving" PROVE Alone'
    BY DEF Calm
  <2>1. Calm /\ overlap # "saving"
    BY DEF IInv
  <2>2. file' = file /\ FileParses'
    <3>1. target[p] \in {"tmp", "gone"}
      BY <2>1 DEF Calm, Alone
    <3>2. QED BY <2>1, <3>1 DEF Calm, Alone, FileParses
  <2>3. \A q, r \in Procs : Saving(q)' /\ Saving(r)' => q = r
    BY <1>1, <2>1 DEF Calm, Alone, Saving
  <2>4. ASSUME NEW q \in Procs
        PROVE  /\ pc'[q] = "write" => target'[q] = "tmp" /\ tmp' = Empty
               /\ pc'[q] # "write" => target'[q] = "gone"
               /\ pc'[q] = "rename" => tmp' \in Lists
    <3>1. CASE q = p
      BY <3>1, <1>1, <1>2, <2>1 DEF Calm, Alone
    <3>2. CASE q # p
      <4>1. Saving(q) => tmp' = tmp
        BY <3>2, <2>1 DEF Calm, Alone
      <4>2. QED BY <4>1, <3>2, <1>1, <1>2, <2>1 DEF Calm, Alone, Saving
    <3>3. QED BY <3>1, <3>2
  <2>5. QED BY <2>2, <2>3, <2>4 DEF Alone
<1>7. QED BY <1>4, <1>5, <1>6 DEF IInv

(***************************************************************************)
(* What a write leaves in the two files.                                   *)
(***************************************************************************)
LEMMA FailedWriteType ==
    ASSUME TypeOK, NEW p \in Procs,
           \/ WriteTo(p, LAMBDA c : {c, Torn})
           \/ WriteTo(p, LAMBDA c : {Torn})
    PROVE  /\ file' \in Lists \cup {Absent, Empty, Torn}
           /\ tmp' \in Lists \cup {Absent, Empty, Torn}
           /\ target[p] \in {"tmp", "gone"} => file' = file
  BY DEF TypeOK, WriteTo

LEMMA WriteFailsInv == ASSUME IInv, NEW p \in Procs, WriteFails(p) PROVE IInv'
<1>1. /\ pc[p] = "write" /\ Ends(p) /\ Unsure(p)
      /\ target' = [target EXCEPT ![p] = "gone"]
      /\ UNCHANGED <<entries, acked, overlap>>
      /\ WriteTo(p, LAMBDA c : {c, Torn})
  BY DEF WriteFails, SaveFails
<1>2. unsure' \in [Ids -> SUBSET (Gids \cup {None})]
  BY <1>1, UnsureType DEF IInv
<1>3. /\ file' \in Lists \cup {Absent, Empty, Torn}
      /\ tmp' \in Lists \cup {Absent, Empty, Torn}
      /\ target[p] \in {"tmp", "gone"} => file' = file
  BY <1>1, FailedWriteType DEF IInv
<1>4. /\ entries' \in [Procs -> Lists \cup {Down}]
      /\ acked' \in [Ids -> Gids \cup {None}]
      /\ \A q \in Procs \ {p} : entries'[q] = entries[q]
  BY <1>1 DEF IInv, TypeOK
<1>5. Saving(p)
  BY <1>1 DEF Saving
<1>6. QED BY <1>1, <1>2, <1>3, <1>4, <1>5, StopInv

LEMMA RenameFailsInv == ASSUME IInv, NEW p \in Procs, RenameFails(p) PROVE IInv'
<1>1. /\ pc[p] = "rename" /\ Ends(p) /\ Unsure(p)
      /\ UNCHANGED <<entries, file, tmp, target, acked, overlap>>
  BY DEF RenameFails, SaveFails
<1>2. unsure' \in [Ids -> SUBSET (Gids \cup {None})]
  BY <1>1, UnsureType DEF IInv
<1>3. /\ entries' \in [Procs -> Lists \cup {Down}]
      /\ acked' \in [Ids -> Gids \cup {None}]
      /\ file' \in Lists \cup {Absent, Empty, Torn}
      /\ tmp' \in Lists \cup {Absent, Empty, Torn}
      /\ \A q \in Procs \ {p} : entries'[q] = entries[q]
  BY <1>1 DEF IInv, TypeOK
<1>4. QED BY <1>1, <1>2, <1>3, StopInv

LEMMA ExitTornInv == ASSUME IInv, NEW p \in Procs, ExitTorn(p) PROVE IInv'
<1>1. /\ pc[p] = "write" /\ Ends(p) /\ Unsure(p)
      /\ entries' = [entries EXCEPT ![p] = Down]
      /\ target' = [target EXCEPT ![p] = "gone"]
      /\ UNCHANGED <<acked, overlap>>
      /\ WriteTo(p, LAMBDA c : {Torn})
  BY DEF ExitTorn
<1>2. unsure' \in [Ids -> SUBSET (Gids \cup {None})]
  BY <1>1, UnsureType DEF IInv
<1>3. /\ file' \in Lists \cup {Absent, Empty, Torn}
      /\ tmp' \in Lists \cup {Absent, Empty, Torn}
      /\ target[p] \in {"tmp", "gone"} => file' = file
  BY <1>1, FailedWriteType DEF IInv
<1>4. /\ entries' \in [Procs -> Lists \cup {Down}]
      /\ acked' \in [Ids -> Gids \cup {None}]
      /\ \A q \in Procs \ {p} : entries'[q] = entries[q]
  BY <1>1 DEF IInv, TypeOK
<1>5. Saving(p)
  BY <1>1 DEF Saving
<1>6. QED BY <1>1, <1>2, <1>3, <1>4, <1>5, StopInv

LEMMA ExitInv == ASSUME IInv, NEW p \in Procs, Exit(p) PROVE IInv'
<1>1. /\ entries' = [entries EXCEPT ![p] = Down]
      /\ target' = [target EXCEPT ![p] = "gone"]
      /\ UNCHANGED <<file, tmp, acked, overlap>>
      /\ IF Saving(p) THEN Ends(p) /\ Unsure(p)
                      ELSE UNCHANGED <<pc, op, unsure>>
  BY DEF Exit
<1>2. unsure' \in [Ids -> SUBSET (Gids \cup {None})]
  BY <1>1, UnsureType DEF IInv, TypeOK
<1>3. Ends(p) \/ (pc[p] = "idle" /\ UNCHANGED <<pc, op>>)
  BY <1>1 DEF Saving
<1>4. /\ entries' \in [Procs -> Lists \cup {Down}]
      /\ acked' \in [Ids -> Gids \cup {None}]
      /\ file' \in Lists \cup {Absent, Empty, Torn}
      /\ tmp' \in Lists \cup {Absent, Empty, Torn}
      /\ \A q \in Procs \ {p} : entries'[q] = entries[q]
  BY <1>1 DEF IInv, TypeOK
<1>5. QED BY <1>1, <1>2, <1>3, <1>4, StopInv

(***************************************************************************)
(* The rename makes what the saver wrote the file.                         *)
(***************************************************************************)
LEMMA RenameInv == ASSUME IInv, NEW p \in Procs, Rename(p) PROVE IInv'
<1>1. /\ pc[p] = "rename" /\ file' = tmp /\ tmp' = Absent
      /\ target' = Renamed /\ Ends(p) /\ Acked(p)
      /\ UNCHANGED <<entries, overlap>>
  BY DEF Rename
<1>2. /\ pc'[p] = "idle"
      /\ \A q \in Procs \ {p} : pc'[q] = pc[q]
      /\ pc' \in [Procs -> {"idle", "write", "rename"}]
      /\ op' \in [Procs -> Ops]
  BY <1>1, EndsType DEF IInv
<1>3. /\ acked' \in [Ids -> Gids \cup {None}]
      /\ unsure' \in [Ids -> SUBSET (Gids \cup {None})]
  BY <1>1, AckedType DEF IInv
<1>4. target' \in [Procs -> {"tmp", "file", "gone"}]
  BY <1>1 DEF Renamed
<1>5. TypeOK'
  BY <1>1, <1>2, <1>3, <1>4 DEF IInv, TypeOK
<1>6. \A q \in Procs : Saving(q)' => Running(q)'
  BY <1>1, <1>2 DEF IInv, Saving, Running
<1>7. Calm'
  <2> SUFFICES ASSUME overlap' # "saving"
               PROVE  /\ FileParses'
                      /\ \A q \in Procs : pc'[q] = "idle" /\ target'[q] = "gone"
    BY DEF Calm, Alone, Saving
  <2>1. Calm /\ overlap # "saving"
    BY <1>1 DEF IInv
  <2>2. tmp \in Lists
    BY <1>1, <2>1 DEF Calm, Alone
  <2>3. FileParses'
    BY <1>1, <2>2, Distinct DEF FileParses
  <2>4. \A q \in Procs : pc'[q] = "idle"
    BY <1>1, <1>2, <2>1 DEF Calm, Alone, Saving
  <2>5. \A q \in Procs : target[q] = "gone"
    <3> TAKE q \in Procs
    <3>1. pc[q] # "write"
      BY <1>1, <2>1 DEF Calm, Alone, Saving
    <3>2. QED BY <2>1, <3>1 DEF Calm, Alone
  <2>6. \A q \in Procs : target'[q] = "gone"
    BY <1>1, <2>5 DEF Renamed
  <2>7. QED BY <2>3, <2>4, <2>6
<1>8. QED BY <1>5, <1>6, <1>7 DEF IInv

-----------------------------------------------------------------------------
LEMMA OperationInv ==
    ASSUME IInv, NEW p \in Procs, NEW i \in Ids, NEW g \in Gids,
           Add(p, i) \/ Remove(p, i) \/ MarkSynced(p, i, g)
    PROVE  IInv'
<1>1. CASE Add(p, i)
  <2>1. Ready(p) /\ entries[p] \in Lists
    BY <1>1 DEF Add, Ready, Running, IInv, TypeOK
  <2>2. (IF entries[p][i] = None THEN 0 ELSE entries[p][i]) \in Gids \cup {None}
    BY <2>1, StoreAssumption DEF Lists, Gids
  <2>3. QED BY <1>1, <2>1, <2>2, ChangeInv DEF Add
<1>2. CASE Remove(p, i)
  BY <1>2, ChangeInv DEF Remove
<1>3. CASE MarkSynced(p, i, g)
  BY <1>3, ChangeInv DEF MarkSynced
<1>4. QED BY <1>1, <1>2, <1>3

LEMMA StutterInv == ASSUME IInv, UNCHANGED vars PROVE IInv'
  BY DEF IInv, TypeOK, Calm, Alone, FileParses, Saving, Running, vars

LEMMA NextInv == ASSUME IInv, [Next]_vars PROVE IInv'
<1>1. CASE UNCHANGED vars
  BY <1>1, StutterInv
<1>2. ASSUME NEW p \in Procs, Load(p) PROVE IInv'
  BY <1>2, LoadInv
<1>3. ASSUME NEW p \in Procs, LoadFails(p) PROVE IInv'
  BY <1>3, StutterInv DEF LoadFails
<1>4. ASSUME NEW p \in Procs, NEW i \in Ids, Add(p, i) \/ Remove(p, i)
      PROVE  IInv'
  <2>1. 0 \in Gids
    BY StoreAssumption DEF Gids
  <2>2. QED BY <1>4, <2>1, OperationInv
<1>5. ASSUME NEW p \in Procs, NEW i \in Ids, NEW g \in Gids, MarkSynced(p, i, g)
      PROVE  IInv'
  BY <1>5, OperationInv
<1>6. ASSUME NEW p \in Procs, Save(p) PROVE IInv'
  BY <1>6, WriteListInv, WriteFailsInv, RenameInv, RenameFailsInv DEF Save
<1>7. ASSUME NEW p \in Procs, Exit(p) \/ ExitTorn(p) PROVE IInv'
  BY <1>7, ExitInv, ExitTornInv
<1>8. QED BY <1>1, <1>2, <1>3, <1>4, <1>5, <1>6, <1>7 DEF Next

LEMMA Inductive == Spec => []IInv
<1>1. Init => IInv
  BY InitInv
<1>2. IInv /\ [Next]_vars => IInv'
  BY NextInv
<1>3. QED BY <1>1, <1>2, PTL DEF Spec

(***************************************************************************)
(* The variables of the store keep their types: in particular the list of  *)
(* a running process is always a whole list, whatever it read and however  *)
(* its saves end (store.go 60-97).                                         *)
(***************************************************************************)
THEOREM TypeCorrect == Spec => []TypeOK
<1>1. IInv => TypeOK
  BY DEF IInv
<1>2. QED BY <1>1, Inductive, PTL

(***************************************************************************)
(* subscriptions.json is one whole list unless two processes were saving   *)
(* at the same time: failed writes, failed renames, a full disk and a kill *)
(* in the middle of a save do not tear it (saveLocked 85-97).              *)
(***************************************************************************)
THEOREM OnlyRacesTearFile == Spec => []OnlyRacesTear
<1>1. IInv => OnlyRacesTear
  BY DEF IInv, Calm, Alone, OnlyRacesTear
<1>2. QED BY <1>1, Inductive, PTL

-----------------------------------------------------------------------------
(* While no process has changed a list that another one had loaded. *)

\* What MayHold says, of the changes that are being saved alone.
Held(i) ==
    {acked[i]} \cup unsure[i]
        \cup {op[p].val : p \in {q \in Procs : Saving(q) /\ op[q].id = i}}

\* Who saves is the only process with a list, its list holds the change, and
\* is what it renames; every list, and the file, has values of operations
\* that ended or are running.
Fresh ==
    /\ \A p, q \in Procs : Saving(p) /\ Running(q) => p = q
    /\ \A p \in Procs : Saving(p) =>
          op[p].id \in Ids /\ entries[p][op[p].id] = op[p].val
    /\ \A p \in Procs : pc[p] = "rename" => tmp = entries[p]
    /\ \A p \in Procs : Running(p) => \A i \in Ids : entries[p][i] \in Held(i)
    /\ \A i \in Ids : Stored[i] \in Held(i)

FreshInv == IInv /\ (overlap = "none" => Fresh)

\* If nothing has overlapped after a step, nothing had before, and the step
\* is no overlap.
LEMMA OverlapKept ==
    ASSUME IInv, NEW p \in Procs,
           NEW stale \in BOOLEAN, NEW racing \in BOOLEAN,
           overlap' = Overlap(stale, racing), overlap' = "none"
    PROVE  overlap = "none" /\ ~stale /\ ~racing
  BY DEF Overlap, IInv, TypeOK

\* While nobody has overlapped, the file is a list.
LEMMA StoredType ==
    ASSUME IInv, overlap = "none"
    PROVE  Alone /\ FileParses /\ Stored \in Lists
<1>1. Alone /\ FileParses
  BY DEF IInv, Calm, Alone
<1>2. Stored \in Lists
  BY <1>1 DEF IInv, TypeOK, FileParses, Stored, NoEntries, Lists
<1>3. QED BY <1>1, <1>2

LEMMA LoadFresh ==
    ASSUME IInv, Fresh, overlap = "none", NEW p \in Procs, Load(p),
           overlap' = "none"
    PROVE  Fresh'
<1>1. \A q \in Procs : ~Saving(q)
  BY OverlapKept DEF Load
<1>2. /\ entries' = [entries EXCEPT ![p] = Stored]
      /\ UNCHANGED <<file, tmp, pc, op, acked, unsure>>
  BY DEF Load, Loaded
<1>3. /\ \A q \in Procs : ~Saving(q)' /\ pc'[q] # "rename"
      /\ \A i \in Ids : Held(i)' = Held(i)
      /\ Stored' = Stored
  BY <1>1, <1>2 DEF Saving, Held, Stored
<1>4. ASSUME NEW q \in Procs, Running(q)', NEW i \in Ids
      PROVE  entries'[q][i] \in Held(i)
  <2>1. CASE q = p
    BY <1>2, <2>1 DEF Fresh, IInv, TypeOK
  <2>2. CASE q # p
    <3>1. entries'[q] = entries[q]
      BY <1>2, <2>2 DEF IInv, TypeOK
    <3>2. QED BY <1>4, <3>1 DEF Fresh, Running
  <2>3. QED BY <2>1, <2>2
<1>5. QED BY <1>3, <1>4 DEF Fresh

(***************************************************************************)
(* Only a process that is alone with its list changes it.                  *)
(***************************************************************************)
LEMMA ChangeFresh ==
    ASSUME IInv, Fresh, overlap = "none",
           NEW p \in Procs, NEW i \in Ids, NEW v \in Gids \cup {None},
           Ready(p), Change(p, i, v), overlap' = "none"
    PROVE  Fresh'
<1>1. entries' = [entries EXCEPT ![p][i] = v] /\ overlap' = OverlapOfChange(p)
  BY DEF Change, BeginSave, BeginFails
<1>2. \A q \in Procs \ {p} : ~Running(q) /\ ~Saving(q)
  <2>1. \A q \in Procs \ {p} : ~Running(q)
    BY <1>1, OverlapKept DEF OverlapOfChange
  <2>2. QED BY <2>1 DEF IInv
<1>3. entries[p] \in Lists /\ ~Saving(p)
  BY DEF IInv, TypeOK, Ready, Running
<1>4. /\ \A j \in Ids : entries'[p][j] = IF j = i THEN v ELSE entries[p][j]
      /\ \A q \in Procs \ {p} : entries'[q] = entries[q]
  BY <1>1, <1>3 DEF IInv, TypeOK, Lists
<1>5. \A q \in Procs : Running(q)' => q = p
  BY <1>2, <1>4 DEF Running
<1>6. Stored' = Stored /\ UNCHANGED acked
  BY DEF Change, BeginSave, BeginFails, OpenTmp, Stored
<1>7. \A j \in Ids : Held(j) = {acked[j]} \cup unsure[j]
  BY <1>2, <1>3 DEF Held
<1>8. CASE BeginSave(p, i, v)
  <2>1. /\ pc' = [pc EXCEPT ![p] = "write"] /\ UNCHANGED unsure
        /\ op' = [op EXCEPT ![p] = [id |-> i, val |-> v]]
    BY <1>8 DEF BeginSave
  <2>2. /\ pc'[p] = "write" /\ op'[p].id = i /\ op'[p].val = v
        /\ \A q \in Procs \ {p} : pc'[q] = pc[q]
    BY <2>1 DEF IInv, TypeOK
  <2>3. \A q \in Procs : (Saving(q)' <=> q = p) /\ pc'[q] # "rename"
    BY <1>2, <2>2 DEF Saving
  <2>4. v \in Held(i)' /\ \A j \in Ids : Held(j) \subseteq Held(j)'
    BY <1>6, <1>7, <2>1, <2>2, <2>3 DEF Held
  <2>5. QED BY <1>4, <1>5, <1>6, <2>2, <2>3, <2>4 DEF Fresh, Ready
<1>9. CASE BeginFails(p, i, v)
  <2>1. UNCHANGED <<pc, op>> /\ unsure' = [unsure EXCEPT ![i] = @ \cup {v}]
    BY <1>9 DEF BeginFails
  <2>2. \A q \in Procs : ~Saving(q)' /\ pc'[q] # "rename"
    BY <1>2, <1>3, <2>1 DEF Saving
  <2>3. v \in Held(i)' /\ \A j \in Ids : Held(j) \subseteq Held(j)'
    BY <1>6, <1>7, <2>1 DEF Held, IInv, TypeOK
  <2>4. QED BY <1>4, <1>5, <1>6, <2>2, <2>3 DEF Fresh, Ready
<1>10. QED BY <1>8, <1>9 DEF Change

\* What the saver writes is its list, whole.
LEMMA WriteListFresh ==
    ASSUME IInv, Fresh, overlap = "none", NEW p \in Procs, WriteList(p)
    PROVE  Fresh'
<1>1. /\ pc[p] = "write" /\ pc' = [pc EXCEPT ![p] = "rename"]
      /\ UNCHANGED <<entries, op, acked, unsure>>
  BY DEF WriteList
<1>2. target[p] = "tmp" /\ tmp = Empty
  BY <1>1, StoredType DEF Alone
<1>3. tmp' = entries[p] /\ file' = file
  BY <1>2 DEF WriteList, WriteTo, Written
<1>4. \A q \in Procs : Saving(q) <=> q = p
  BY <1>1, StoredType DEF Alone, Saving
<1>5. \A q \in Procs : pc'[q] = IF q = p THEN "rename" ELSE pc[q]
  BY <1>1 DEF IInv, TypeOK
<1>6. \A q \in Procs : (Saving(q)' <=> Saving(q)) /\ (Running(q)' <=> Running(q))
  BY <1>1, <1>4, <1>5 DEF Saving, Running
<1>7. \A i \in Ids : Held(i)' = Held(i)
  BY <1>1, <1>6 DEF Held
<1>8. Stored' = Stored
  BY <1>3 DEF Stored
<1>9. \A q \in Procs : pc'[q] = "rename" => tmp' = entries'[q]
  BY <1>1, <1>3, <1>4, <1>5 DEF Saving
<1>10. QED BY <1>1, <1>6, <1>7, <1>8, <1>9 DEF Fresh

(***************************************************************************)
(* A save that fails, or that its process does not survive, leaves the     *)
(* file and what was recorded; its own change may be seen or not.          *)
(***************************************************************************)
LEMMA StopFresh ==
    ASSUME IInv, Fresh, overlap = "none", NEW p \in Procs,
           \/ Saving(p) /\ Ends(p) /\ Unsure(p)
           \/ ~Saving(p) /\ UNCHANGED <<pc, op, unsure>>,
           UNCHANGED <<file, acked>>,
           ~Saving(p) => UNCHANGED tmp,
           \A q \in Procs : entries'[q] \in {entries[q], Down},
           \A q \in Procs \ {p} : entries'[q] = entries[q]
    PROVE  Fresh'
<1>1. Stored' = Stored
  BY DEF Stored
<1>2. \A q \in Procs : Running(q)' => Running(q) /\ entries'[q] = entries[q]
  BY DEF Running
<1>3. CASE Saving(p) /\ Ends(p) /\ Unsure(p)
  <2>1. \A q \in Procs : ~Saving(q)' /\ pc'[q] # "rename"
    <3> TAKE q \in Procs
    <3>1. pc'[p] = "idle" /\ \A r \in Procs \ {p} : pc'[r] = pc[r]
      BY <1>3, EndsType DEF IInv
    <3>2. q # p => ~Saving(q)
      BY <1>3, StoredType DEF Alone
    <3>3. QED BY <3>1, <3>2 DEF Saving
  <2>2. \A q \in Procs : Saving(q) => q = p
    BY <1>3, StoredType DEF Alone
  <2>3. op[p].id \in Ids
    BY <1>3 DEF Fresh
  <2>4. unsure' = [unsure EXCEPT ![op[p].id] = @ \cup {op[p].val}]
    BY <1>3 DEF Unsure
  <2>5. \A i \in Ids : Held(i) \subseteq Held(i)'
    BY <1>3, <2>2, <2>3, <2>4 DEF Held, IInv, TypeOK
  <2>6. QED BY <1>1, <1>2, <2>1, <2>5 DEF Fresh
<1>4. CASE ~Saving(p) /\ UNCHANGED <<pc, op, unsure>>
  <2>1. \A q \in Procs : /\ Saving(q)' = Saving(q)
                         /\ Saving(q) => entries'[q] = entries[q]
    BY <1>4 DEF Saving
  <2>2. \A i \in Ids : Held(i)' = Held(i)
    BY <1>4, <2>1 DEF Held
  <2>3. UNCHANGED <<pc, op, tmp>>
    BY <1>4
  <2>4. \A q \in Procs : pc[q] = "rename" => Saving(q)
    BY DEF Saving
  <2>5. QED BY <1>1, <1>2, <2>1, <2>2, <2>3, <2>4 DEF Fresh
<1>5. QED BY <1>3, <1>4

(***************************************************************************)
(* The rename publishes the saver's list: the change that is recorded with *)
(* it, and values of other items that the file might have held before.     *)
(***************************************************************************)
LEMMA RenameFresh ==
    ASSUME IInv, Fresh, overlap = "none", NEW p \in Procs, Rename(p)
    PROVE  Fresh'
<1>1. /\ pc[p] = "rename" /\ file' = tmp /\ Ends(p) /\ Acked(p)
      /\ UNCHANGED entries
  BY DEF Rename
<1>2. Saving(p) /\ Running(p) /\ entries[p] \in Lists
  BY <1>1 DEF Saving, Running, IInv, TypeOK
<1>3. \A q \in Procs : (Saving(q) => q = p) /\ (Running(q) => q = p)
  BY <1>2 DEF Fresh, IInv
<1>4. \A q \in Procs : ~Saving(q)' /\ pc'[q] # "rename"
  BY <1>1, <1>3, EndsType DEF IInv, Saving
<1>5. Stored' = entries[p]
  BY <1>1, <1>2, Distinct DEF Fresh, Stored
<1>6. op[p].id \in Ids /\ entries[p][op[p].id] = op[p].val
  BY <1>2 DEF Fresh
<1>7. \A i \in Ids : entries[p][i] \in Held(i)'
  <2> TAKE i \in Ids
  <2>1. acked'[op[p].id] = op[p].val
    BY <1>1, <1>6 DEF Acked, IInv, TypeOK
  <2>2. CASE i = op[p].id
    BY <1>6, <2>1, <2>2 DEF Held
  <2>3. CASE i # op[p].id
    <3>1. Held(i) = {acked[i]} \cup unsure[i]
      BY <1>3, <2>3 DEF Held
    <3>2. acked'[i] = acked[i] /\ unsure'[i] = unsure[i]
      BY <1>1, <2>3 DEF Acked, IInv, TypeOK
    <3>3. entries[p][i] \in Held(i)
      BY <1>2 DEF Fresh
    <3>4. QED BY <3>1, <3>2, <3>3 DEF Held
  <2>4. QED BY <2>2, <2>3
<1>8. QED BY <1>1, <1>3, <1>4, <1>5, <1>7 DEF Fresh, Running

LEMMA FreshStep == ASSUME FreshInv, [Next]_vars PROVE FreshInv'
<1>1. IInv /\ IInv'
  BY NextInv DEF FreshInv
<1>2. SUFFICES ASSUME overlap' = "none" PROVE Fresh'
  BY <1>1 DEF FreshInv
<1>3. CASE UNCHANGED vars
  BY <1>2, <1>3 DEF FreshInv, Fresh, Held, Stored, Saving, Running, vars
<1>4. ASSUME NEW p \in Procs, Load(p) PROVE Fresh'
  <2>1. overlap = "none"
    BY <1>1, <1>2, <1>4, OverlapKept DEF Load
  <2>2. QED BY <1>1, <1>2, <1>4, <2>1, LoadFresh DEF FreshInv
<1>5. ASSUME NEW p \in Procs, NEW i \in Ids, NEW v \in Gids \cup {None},
             Ready(p), Change(p, i, v)
      PROVE  Fresh'
  <2>1. overlap' = OverlapOfChange(p)
    BY <1>5 DEF Change, BeginSave, BeginFails
  <2>2. overlap = "none"
    BY <1>1, <1>2, <2>1, OverlapKept DEF OverlapOfChange
  <2>3. QED BY <1>1, <1>2, <1>5, <2>2, ChangeFresh DEF FreshInv
<1>6. ASSUME NEW p \in Procs, NEW i \in Ids, NEW g \in Gids,
             Add(p, i) \/ Remove(p, i) \/ MarkSynced(p, i, g)
      PROVE  Fresh'
  <2>1. Ready(p) /\ \E v \in Gids \cup {None} : Change(p, i, v)
    <3>1. CASE Add(p, i)
      <4>1. Ready(p) /\ entries[p] \in Lists
        BY <1>1, <3>1 DEF Add, Ready, Running, IInv, TypeOK
      <4>2. (IF entries[p][i] = None THEN 0 ELSE entries[p][i]) \in Gids \cup {None}
        BY <4>1, StoreAssumption DEF Lists, Gids
      <4>3. QED BY <3>1, <4>1, <4>2 DEF Add
    <3>2. CASE Remove(p, i)
      BY <3>2 DEF Remove
    <3>3. CASE MarkSynced(p, i, g)
      BY <3>3 DEF MarkSynced
    <3>4. QED BY <1>6, <3>1, <3>2, <3>3
  <2>2. QED BY <1>5, <2>1
<1>7. ASSUME NEW p \in Procs, Save(p) \/ Exit(p) \/ ExitTorn(p) PROVE Fresh'
  <2>1. overlap = "none" /\ Fresh
    BY <1>2, <1>7 DEF FreshInv, Save, WriteList, WriteFails, Rename,
       RenameFails, Exit, ExitTorn
  <2>2. pc[p] = "write" => target[p] = "tmp"
    BY <1>1, <2>1, StoredType DEF Alone
  <2>3. CASE WriteList(p)
    BY <1>1, <2>1, <2>3, WriteListFresh
  <2>4. CASE Rename(p)
    BY <1>1, <2>1, <2>4, RenameFresh
  <2>5. CASE WriteFails(p)
    <3>1. Saving(p) /\ Ends(p) /\ Unsure(p) /\ UNCHANGED <<entries, acked>>
      BY <2>5 DEF WriteFails, SaveFails, Saving
    <3>2. UNCHANGED file
      BY <2>2, <2>5 DEF WriteFails, WriteTo
    <3>3. QED BY <1>1, <2>1, <3>1, <3>2, StopFresh
  <2>6. CASE RenameFails(p)
    <3>1. /\ Saving(p) /\ Ends(p) /\ Unsure(p)
          /\ UNCHANGED <<entries, file, acked>>
      BY <2>6 DEF RenameFails, SaveFails, Saving
    <3>2. QED BY <1>1, <2>1, <3>1, StopFresh
  <2>7. CASE Exit(p)
    <3>1. /\ \/ Saving(p) /\ Ends(p) /\ Unsure(p)
             \/ ~Saving(p) /\ UNCHANGED <<pc, op, unsure>>
          /\ UNCHANGED <<file, tmp, acked>>
          /\ entries' = [entries EXCEPT ![p] = Down]
      BY <2>7 DEF Exit
    <3>2. /\ \A q \in Procs : entries'[q] \in {entries[q], Down}
          /\ \A q \in Procs \ {p} : entries'[q] = entries[q]
      BY <1>1, <3>1 DEF IInv, TypeOK
    <3>3. QED BY <1>1, <2>1, <3>1, <3>2, StopFresh
  <2>8. CASE ExitTorn(p)
    <3>1. /\ Saving(p) /\ Ends(p) /\ Unsure(p) /\ UNCHANGED acked
          /\ entries' = [entries EXCEPT ![p] = Down]
      BY <2>8 DEF ExitTorn, Saving
    <3>2. UNCHANGED file
      BY <2>2, <2>8 DEF ExitTorn, WriteTo
    <3>3. /\ \A q \in Procs : entries'[q] \in {entries[q], Down}
          /\ \A q \in Procs \ {p} : entries'[q] = entries[q]
      BY <1>1, <3>1 DEF IInv, TypeOK
    <3>4. QED BY <1>1, <2>1, <3>1, <3>2, <3>3, StopFresh
  <2>9. QED BY <1>7, <2>3, <2>4, <2>5, <2>6, <2>7, <2>8 DEF Save
<1>8. CASE \E p \in Procs : LoadFails(p)
  BY <1>3, <1>8 DEF LoadFails
<1>9. 0 \in Gids
  BY StoreAssumption DEF Gids
<1>10. QED BY <1>3, <1>4, <1>6, <1>7, <1>8, <1>9 DEF Next

(***************************************************************************)
(* Nothing that an operation recorded is undone by another operation, by a *)
(* save that fails or by a restart, as long as no process changes a list   *)
(* that another one has loaded (store.go 60-97, 130-165).                  *)
(***************************************************************************)
THEOREM OnlyStaleListsLoseEntries == Spec => []OnlyStaleListsLose
<1>1. Init => FreshInv
  <2> SUFFICES ASSUME Init PROVE IInv /\ Fresh
    BY DEF FreshInv
  <2>1. \A p \in Procs : ~Saving(p) /\ ~Running(p) /\ pc[p] # "rename"
    BY DEF Init, Saving, Running
  <2>2. \A i \in Ids : Stored[i] \in Held(i)
    BY DEF Init, Stored, NoEntries, Held
  <2>3. QED BY <2>1, <2>2, InitInv DEF Fresh
<1>2. FreshInv /\ [Next]_vars => FreshInv'
  BY FreshStep
<1>3. FreshInv => OnlyStaleListsLose
  BY DEF FreshInv, Fresh, OnlyStaleListsLose, AckedInFile, Held, MayHold
<1>4. QED BY <1>1, <1>2, <1>3, PTL DEF Spec
=============================================================================
