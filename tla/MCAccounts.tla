---------------------------- MODULE MCAccounts ----------------------------
(***************************************************************************)
(* Instances of Accounts for TLC.                                          *)
(***************************************************************************)
EXTENDS Accounts, TLC

CONSTANTS b1, b2, n1, n2, i1, i2, i3, t1, t2, t3

TwoBrowsers == {b1, b2}
TwoNames    == {n1, n2}
ThreeIds    == {i1, i2, i3}
TwoTokens   == {t1, t2}
ThreeTokens == {t1, t2, t3}

Symmetric == Permutations(Browsers) \cup Permutations(Names)
             \cup Permutations(Ids) \cup Permutations(Tokens)

=============================================================================
