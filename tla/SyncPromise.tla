---------------------------- MODULE SyncPromise ----------------------------
(***************************************************************************)
(* What save sync promises, with nothing of how: README.md, "the rules     *)
(* that matter".  Every console holds one save, whole at every moment.     *)
(* Only a game or a replacement changes it; a replacement happens only     *)
(* over a save that is kept locally already (or over none), and puts there *)
(* only a version of the log or a kept save.  The one exception: where a   *)
(* console is blind, it may miss a save that is there, and a replacement   *)
(* may then happen over that save.  The log grows by one entry at a time,  *)
(* each of them something a console held; no entry is ever changed or      *)
(* dropped.  A kept save goes only when it is discarded.                   *)
(***************************************************************************)
EXTENDS Integers, Sequences

CONSTANTS Consoles, Packable, Nothing, Blank, Blind
    \* Packable: saves worth keeping; Nothing: no save; Blank: an archive without files;
    \* Blind: the consoles to which a save they cannot reach is Nothing

VARIABLES
    holds,     \* [Consoles -> saves]
    kept,      \* [Consoles -> sets of saves], local backups
    missed,    \* [Consoles -> sets of saves], taken for Nothing since the last play
    offered,   \* saves on their way to the log
    log        \* the versions, oldest first

vars == <<holds, kept, missed, offered, log>>

Init ==
    /\ holds \in [Consoles -> Packable \cup {Nothing, Blank}]
    /\ kept = [c \in Consoles |-> {}]
    /\ missed = [c \in Consoles |-> {}]
    /\ offered = {}
    /\ log = <<>>

Play(c) ==
    /\ \E x \in Packable : holds' = [holds EXCEPT ![c] = x]
    /\ missed' = [missed EXCEPT ![c] = {}]
    /\ UNCHANGED <<kept, offered, log>>

Keep(c) ==
    /\ holds[c] \in Packable
    /\ kept' = [kept EXCEPT ![c] = @ \cup {holds[c]}]
    /\ UNCHANGED <<holds, missed, offered, log>>

Discard(c) ==
    /\ \E x \in kept[c] : kept' = [kept EXCEPT ![c] = @ \ {x}]
    /\ UNCHANGED <<holds, missed, offered, log>>

Miss(c) ==
    /\ c \in Blind
    /\ holds[c] # Nothing
    /\ missed' = [missed EXCEPT ![c] = @ \cup {holds[c]}]
    /\ UNCHANGED <<holds, kept, offered, log>>

Offer(c) ==
    /\ holds[c] \in Packable
    /\ offered' = offered \cup {holds[c]}
    /\ UNCHANGED <<holds, kept, missed, log>>

Withdraw ==
    /\ offered' \subseteq offered
    /\ UNCHANGED <<holds, kept, missed, log>>

Accept ==
    /\ \E x \in offered : log' = Append(log, x)
    /\ offered' \subseteq offered
    /\ UNCHANGED <<holds, kept, missed>>

LogHolds(x) == \E i \in 1..Len(log) : log[i] = x

Replace(c) ==
    /\ holds[c] \in kept[c] \cup missed[c] \cup {Nothing}
    /\ \E x \in Packable :
         /\ x \in kept[c] \/ LogHolds(x)
         /\ holds' = [holds EXCEPT ![c] = x]
    /\ UNCHANGED <<kept, missed, offered, log>>

Next ==
    \/ \E c \in Consoles :
         \/ Play(c) \/ Keep(c) \/ Discard(c) \/ Miss(c)
         \/ Offer(c) \/ Replace(c)
    \/ Withdraw
    \/ Accept

Spec == Init /\ [][Next]_vars

=============================================================================
