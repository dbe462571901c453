---------------------------- MODULE MCSaveStore ----------------------------
(***************************************************************************)
(* Instances of SaveStore for TLC.                                         *)
(***************************************************************************)
EXTENDS SaveStore, TLC

CONSTANTS u1, u2, t1, t2, h1, h2

Nobody     == {}
OneUser    == {u1}
TwoUsers   == {u1, u2}
OneTitle   == {t1}
TwoTitles  == {t1, t2}
TwoServed  == {h1, h2}
Symmetric  == Permutations(Users) \cup Permutations(Titles) \cup Permutations(Digests)
                \cup Permutations(Handlers)

=============================================================================
