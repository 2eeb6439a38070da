---------------------------- MODULE MCCdnClient ----------------------------
(* A small instance of CdnClient for TLC.                                   *)
EXTENDS CdnClient

CONSTANTS c1, c2, c3

\* Two of the three chunks fit in a budget of 4 only if one of them is c2.
MCSize == [s \in Shas |-> CASE s = c1 -> 2 [] s = c2 -> 1 [] s = c3 -> 3]

MCOneList == {<<1, 2>>}
=============================================================================
