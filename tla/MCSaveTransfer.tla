--------------------------- MODULE MCSaveTransfer ---------------------------
(***************************************************************************)
(* Small instances of SaveTransfer.                                        *)
(***************************************************************************)
EXTENDS SaveTransfer

CONSTANTS sav, extra, x, v, w

Both(b, c) == [p \in Paths |-> IF p = sav THEN b ELSE c]
Package(m, s, d, k) == [mine |-> m, files |-> s, sha256 |-> d, secure |-> k]
As(p, d) == [pkg |-> p, announced |-> d]

(* A package with a value, one from before there were values, one with     *)
(* nothing in it, one whose payload was damaged, one of another title, and *)
(* one in the place of what was announced.                                 *)
Server ==
    {As(Package(TRUE, Both(x, Gone), Both(x, Gone), v), Both(x, Gone)),
     As(Package(TRUE, Both(x, x), Both(x, x), NoValue), Both(x, x)),
     As(Package(TRUE, Both(Gone, Gone), Both(Gone, Gone), NoValue), Both(Gone, Gone)),
     As(Package(TRUE, Both(Gone, x), Both(x, x), v), Both(x, x)),
     As(Package(FALSE, Both(x, x), Both(x, x), v), Both(x, x)),
     As(Package(TRUE, Both(x, x), Both(x, x), v), Both(x, Gone))}

OneSave == {As(Package(TRUE, Both(x, Gone), Both(x, Gone), NoValue), Both(x, Gone))}

JustSwitch == {"nx"}
Just3DS == {"card"}
AllKinds == {"card", "nx", "nds"}
=============================================================================
