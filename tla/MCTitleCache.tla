---------------------------- MODULE MCTitleCache ----------------------------
(* Three titles, a table of two records, three languages. *)
EXTENDS TitleCache

CONSTANTS ascii, hangul, long

MCTexts    == {ascii, hangul, long}
MCDrawable == {ascii, long}
MCTooLong  == {long}

Game(names) ==
    [app |-> TRUE, has_save |-> TRUE, opens |-> {1, 2, 3}, whole |-> TRUE, names |-> names]

\* Slots 0, 1, 2: Japanese, English, and one that is neither.
Korean  == Game([i \in 0 .. 2 |-> IF i = 2 THEN hangul ELSE ascii])
Western == [Game([i \in 0 .. 2 |-> CASE i = 0 -> hangul [] i = 1 -> long [] OTHER -> Blank])
               EXCEPT !.opens = {3}]
Broken  == [Korean EXCEPT !.whole = FALSE]
NoSave  == [Korean EXCEPT !.has_save = FALSE]

MCPackages == {Korean, Western, Broken, NoSave}

\* Where a launch starts: everything installed the same, the rest comes by changes.
MCInit ==
    /\ CacheInit
    /\ console = 2
    /\ \A t \in Titles : installed[t] \in {None, Korean, Broken}

MCSpec == MCInit /\ [][CacheNext]_cacheVars

=============================================================================
