--------------------------- MODULE MCDaemoonSync ---------------------------
(***************************************************************************)
(* Instances of DaemoonSync for TLC: which consoles, and which answers to  *)
(* the sync's questions.                                                   *)
(***************************************************************************)
EXTENDS DaemoonSync, TLC

CONSTANTS c1, c2, a, b, d

CardAndNX == (c1 :> "card") @@ (c2 :> "nx")
NdsAndPC  == (c1 :> "nds") @@ (c2 :> "desktop")
TwoSaves  == {a, b}
ThreeSaves == {a, b, d}
TwoOf     == {c1, c2}
CardAndNds == (c1 :> "card") @@ (c2 :> "nds")

\* The run a person starts on one title, the autosync, and a library run.
Manual      == AskEverything
Auto        == [conflict |-> "DEFER", upload_confirmed |-> TRUE, restore_confirmed |-> TRUE]
Batch(p)    == [conflict |-> p, upload_confirmed |-> TRUE, restore_confirmed |-> TRUE]

AutoOnly      == {Auto}
ManualAndAuto == {Manual, Auto}
KeepLocal     == {Batch("KEEP_LOCAL")}
KeepServer    == {Batch("KEEP_SERVER")}
KeepEither    == KeepLocal \cup KeepServer

Symmetric == Permutations(Contents)

=============================================================================
