------------------------------ MODULE Backoff ------------------------------
(***************************************************************************)
(* internal/util/backoff.go: the delay before a retry and the number of    *)
(* workers of one item.  Go's int never overflows here: the doubling stops *)
(* at half of the cap.                                                     *)
(***************************************************************************)
EXTENDS Integers

AtLeast(x, low) == IF x < low THEN low ELSE x

\* The delay in seconds before attempt + 1: the loop of ComputeBackoff, the
\* doubling given up one step before it would pass the cap.
ComputeBackoff(attempt, cap) ==
    LET c == AtLeast(cap, 1)
        v[i \in Nat] ==
            IF i <= 1 THEN 1
            ELSE IF v[i - 1] > c \div 2 THEN c
            ELSE 2 * v[i - 1]
        last == v[AtLeast(attempt, 1)]
    IN  IF last > c THEN c ELSE last

SuggestJobs(nFiles, maxJobs) ==
    IF nFiles <= 1 THEN 1
    ELSE IF nFiles < AtLeast(maxJobs, 1) THEN nFiles
    ELSE AtLeast(maxJobs, 1)
=============================================================================
