----------------------------- MODULE VersionLog -----------------------------
(***************************************************************************)
(* What the server promises about uploads (server/internal/store): each    *)
(* title of each user is a log.  An upload that is taken extends exactly   *)
(* one log by one entry that names the version it was built on, which is   *)
(* the version it replaces.  No entry is changed or dropped, except that   *)
(* the logs of a user who is deleted go as a whole.                        *)
(***************************************************************************)
EXTENDS Integers, Sequences

CONSTANTS Users, Titles, Digests

VARIABLE log      \* [Users \X Titles -> Seq([parent, sha256])]

Keys == Users \X Titles

Init == log = [k \in Keys |-> <<>>]

Take(k, x) == log' = [log EXCEPT ![k] = Append(@, [parent |-> Len(@), sha256 |-> x])]

Forget(u) == log' = [k \in Keys |-> IF k[1] = u THEN <<>> ELSE log[k]]

Next ==
    \/ \E k \in Keys, x \in Digests : Take(k, x)
    \/ \E u \in Users : Forget(u)

Spec == Init /\ [][Next]_log

=============================================================================
