--------------------------- MODULE WorkerContract ---------------------------
(***************************************************************************)
(* What a SteamSession promises to the goroutines that call it: requests   *)
(* are served one at a time, in the order they were accepted, each at most *)
(* once; a caller is told its own verdict, or gives up.                    *)
(***************************************************************************)
EXTENDS Naturals, Sequences, Functions

CONSTANTS Callers, Nobody

VARIABLES
    accepted,   \* callers whose request waits to be served, oldest first
    serving,    \* the caller whose request the worker is busy with
    verdict,    \* verdict[c]: how c's request ended, "empty" until it has
    told        \* told[c]: what c's call returned, "none" until it has

vars == <<accepted, serving, verdict, told>>

Verdicts == {"ok", "error", "aborted"}

Init ==
    /\ accepted = <<>>
    /\ serving = Nobody
    /\ verdict = [c \in Callers |-> "empty"]
    /\ told = [c \in Callers |-> "none"]

Accept(c) ==
    /\ told[c] = "none"
    /\ verdict[c] = "empty"
    /\ c # serving
    /\ c \notin Range(accepted)
    /\ accepted' = Append(accepted, c)
    /\ UNCHANGED <<serving, verdict, told>>

Serve ==
    /\ serving = Nobody
    /\ accepted # <<>>
    /\ serving' = Head(accepted)
    /\ accepted' = Tail(accepted)
    /\ UNCHANGED <<verdict, told>>

Finish ==
    /\ serving # Nobody
    /\ verdict[serving] = "empty"
    /\ \E v \in Verdicts : verdict' = [verdict EXCEPT ![serving] = v]
    /\ serving' = Nobody
    /\ UNCHANGED <<accepted, told>>

Tell(c) ==
    /\ told[c] = "none"
    /\ verdict[c] # "empty"
    /\ told' = [told EXCEPT ![c] = verdict[c]]
    /\ UNCHANGED <<accepted, serving, verdict>>

GiveUp(c) ==
    /\ told[c] = "none"
    /\ told' = [told EXCEPT ![c] = "gaveUp"]
    /\ UNCHANGED <<accepted, serving, verdict>>

Next ==
    \/ \E c \in Callers : Accept(c) \/ Tell(c) \/ GiveUp(c)
    \/ Serve
    \/ Finish

Spec == Init /\ [][Next]_vars
=============================================================================
