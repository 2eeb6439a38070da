------------------------- MODULE MCSubscriptionSync -------------------------
(* Small instances of SubscriptionSync for TLC: the second manifest changes *)
(* one file and drops the other, the third brings it back.                  *)
EXTENDS SubscriptionSync, TLC

CONSTANTS f1, f2, a, b

MCManifest ==
    << (f1 :> a) @@ (f2 :> a), (f1 :> b) @@ (f2 :> None),
       (f1 :> b) @@ (f2 :> a) >>
=============================================================================
