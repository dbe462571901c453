----------------------------- MODULE MCPairing -----------------------------
(***************************************************************************)
(* Instances of Pairing for TLC.                                           *)
(***************************************************************************)
EXTENDS Pairing, TLC

CONSTANTS c1, c2, p1, p2, x, y

OneConsole  == {c1}
TwoConsoles == {c1, c2}
OnePerson   == {p1}
TwoPeople   == {p1, p2}
OneCode     == {x}
TwoCodes    == {x, y}
Nobody      == {}
Symmetric   == Permutations(Consoles) \cup Permutations(People) \cup Permutations(Codes)

=============================================================================
