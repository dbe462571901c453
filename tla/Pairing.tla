------------------------------ MODULE Pairing ------------------------------
(***************************************************************************)
(* How a console gets, keeps and loses its device token.                   *)
(*                                                                         *)
(* Server: pairing codes and devices (CreatePairing, ClaimPairing,         *)
(* DeviceByTokenHash, RotateDeviceToken, CreateDevice, RevokeDevice in     *)
(* server/internal/store) and the handler pairDevice of                    *)
(* server/internal/api, whose statements are separate transactions: other  *)
(* requests run between them.                                              *)
(*                                                                         *)
(* Console: finish_pairing, run_autopair, run_welcome, action_settings and *)
(* the start of the 3DS build (platform/3ds/source/main.c), with the       *)
(* token's three places: memory, the application's save archive (secret.c) *)
(* and config.txt (config.c).                                              *)
(*                                                                         *)
(* Tokens are numbered in the order they are minted; NoToken is none.      *)
(***************************************************************************)
EXTENDS Integers, FiniteSets

CONSTANTS
    Consoles, People, Codes,
    AutoPair,          \* consoles with a payload on the card for run_autopair
    PairedBefore,      \* consoles with a token in config.txt and none in the archive:
                       \* paired by an earlier build, or the file was written by hand
    PowerCuts,         \* whether power may go in the middle of rewriting config.txt
    MaxIssued,         \* bound: pairing codes shown
    MaxFails,          \* bound: statements of pairDevice that fail
    MaxLost,           \* bound: answers a console does not wait for
    MaxRefusals        \* bound: writes of the archive that fail

ASSUME PairingBounds ==
    /\ {MaxIssued, MaxFails, MaxLost, MaxRefusals} \subseteq Nat
    /\ AutoPair \subseteq Consoles /\ PairedBefore \subseteq Consoles
    /\ PowerCuts \in BOOLEAN
    /\ IsFiniteSet(PairedBefore)

VARIABLES
    pairings,          \* the codes that can be claimed
    devices,           \* [1..n -> devices], in the order they were created
    calls,             \* POST /v1/devices/pair being handled
    con,               \* [Consoles -> console states]
    minted,            \* tokens so far
    issued,            \* codes so far
    granted,           \* history: which token which shown code bought
    cut,               \* history: the tokens revoked while they were good
    fails, lost, refusals

vars == <<pairings, devices, calls, con, minted, issued, granted, cut,
          fails, lost, refusals>>

NoToken == 0
Already == Cardinality(PairedBefore)
Tokens  == 0..(MaxIssued + Already)

Shown   == 1..MaxIssued                    \* a code, as it was shown once

DeviceRows == [user: People, token: Tokens, revoked: BOOLEAN]

Calls == [from: Consoles, code: Codes, bearer: Tokens, live: BOOLEAN,
          pc: {"claim", "lookup", "rotate", "create", "granted", "failed"},
          shown: Shown \cup {0},           \* set by claim
          user: People \cup {"nobody"},
          device: Tokens,                  \* set by lookup
          token: Tokens]                   \* set by rotate and create

ConsoleStates ==
    [pc: {"off", "on", "pairing", "secret", "config",   \* finish_pairing
          "welcome", "saving", "moving", "strike"},      \* run_welcome, action_settings
     memory: Tokens,        \* g_config.token
     sends: BOOLEAN,        \* g_env.token points at it
     archive: Tokens, card: Tokens,
     token_on_card: BOOLEAN,
     told: Tokens]      \* history: the token of the last "paired" shown, if nothing
                        \* was tried since

TypeOK ==
    /\ DOMAIN pairings \subseteq Codes
    /\ \A x \in DOMAIN pairings :
         pairings[x] \in [user: People, shown: Shown, expired: BOOLEAN]
    /\ \E n \in Tokens : devices \in [1..n -> DeviceRows]
    /\ calls \subseteq Calls
    /\ con \in [Consoles -> ConsoleStates]
    /\ minted \in Tokens /\ issued \in 0..MaxIssued
    /\ granted \subseteq [shown: Shown, token: Tokens] /\ cut \subseteq Tokens
    /\ fails \in 0..MaxFails /\ lost \in 0..MaxLost /\ refusals \in 0..MaxRefusals

Init ==
    /\ pairings = <<>>
    /\ \E u \in People : devices = [i \in 1..Already |-> [user |-> u, token |-> i, revoked |-> FALSE]]
    /\ calls = {}
    /\ \E had \in [PairedBefore -> 1..Already] :
         /\ \A c, d \in PairedBefore : had[c] = had[d] => c = d
         /\ con = [c \in Consoles |->
                     LET t == IF c \in PairedBefore THEN had[c] ELSE NoToken
                     IN [pc |-> "off", memory |-> NoToken, sends |-> FALSE,
                         archive |-> NoToken, card |-> t, token_on_card |-> FALSE,
                         told |-> t]]
    /\ minted = Already /\ issued = 0 /\ granted = {} /\ cut = {}
    /\ fails = 0 /\ lost = 0 /\ refusals = 0

With(f, x, y) == [z \in DOMAIN f \cup {x} |-> IF z = x THEN y ELSE f[z]]

-----------------------------------------------------------------------------
(* The web panel *)

\* postPair, and `daemoond -pair`: a fresh six digit code, approved by whoever asked
\* for it.  A code whose row is still there, expired or not, fails the primary key.
IssueCode(u) ==
    /\ issued < MaxIssued
    /\ \E x \in Codes \ DOMAIN pairings :
         pairings' = With(pairings, x, [user |-> u, shown |-> issued + 1, expired |-> FALSE])
    /\ issued' = issued + 1
    /\ UNCHANGED <<devices, calls, con, minted, granted, cut, fails, lost, refusals>>

\* The clock passes the code's expires_at.
Expire(x) ==
    /\ x \in DOMAIN pairings /\ ~pairings[x].expired
    /\ pairings' = [pairings EXCEPT ![x].expired = TRUE]
    /\ UNCHANGED <<devices, calls, con, minted, issued, granted, cut, fails, lost, refusals>>

\* RevokeDevice, from the panel; a second time is no error.
Revoke(i) ==
    /\ ~devices[i].revoked
    /\ devices' = [devices EXCEPT ![i].revoked = TRUE]
    /\ cut' = cut \cup {devices[i].token}
    /\ UNCHANGED <<pairings, calls, con, minted, issued, granted, fails, lost, refusals>>

-----------------------------------------------------------------------------
(* pairDevice *)

Becomes(k, next) == calls' = (calls \ {k}) \cup {next}

Claimable(x) == x \in DOMAIN pairings /\ ~pairings[x].expired

\* The code is read, and deleted only once the device exists.
ClaimKeepsCode(k) ==
    /\ k.pc = "claim"
    /\ IF Claimable(k.code)
       THEN Becomes(k, [k EXCEPT !.pc = "lookup", !.user = pairings[k.code].user,
                                 !.shown = pairings[k.code].shown])
       ELSE Becomes(k, [k EXCEPT !.pc = "failed"])
    /\ UNCHANGED <<pairings, devices, con, minted, issued, granted, cut,
                   fails, lost, refusals>>

\* ClaimPairing reads and deletes the code in one transaction.  An expired code is
\* refused and its row stays.
Claim(k) ==
    /\ k.pc = "claim"
    /\ IF Claimable(k.code)
       THEN /\ pairings' = [x \in DOMAIN pairings \ {k.code} |-> pairings[x]]
            /\ Becomes(k, [k EXCEPT !.pc = "lookup", !.user = pairings[k.code].user,
                                    !.shown = pairings[k.code].shown])
       ELSE /\ Becomes(k, [k EXCEPT !.pc = "failed"])
            /\ UNCHANGED pairings
    /\ UNCHANGED <<devices, con, minted, issued, granted, cut, fails, lost, refusals>>

\* Any console of the person will do.
SamePerson(k, d) == d.user = k.user /\ ~d.revoked

\* The bearer the console sent proves which device it is: known, not revoked, and the
\* same account as the code.
ProvesToBe(k, d) == /\ k.bearer # NoToken
                    /\ d.token = k.bearer /\ ~d.revoked /\ d.user = k.user

Lookup(k) ==
    /\ k.pc = "lookup"
    /\ \/ \E i \in DOMAIN devices :
            /\ ProvesToBe(k, devices[i])
            /\ Becomes(k, [k EXCEPT !.pc = "rotate", !.device = i])
            /\ UNCHANGED fails
       \/ /\ ~ \E i \in DOMAIN devices : ProvesToBe(k, devices[i])
          /\ Becomes(k, [k EXCEPT !.pc = "create"])
          /\ UNCHANGED fails
       \/ /\ fails < MaxFails             \* a lookup that fails counts as not proven
          /\ fails' = fails + 1
          /\ Becomes(k, [k EXCEPT !.pc = "create"])
    /\ UNCHANGED <<pairings, devices, con, minted, issued, granted, cut, lost, refusals>>

Grant(k) ==
    /\ minted' = minted + 1
    /\ granted' = granted \cup {[shown |-> k.shown, token |-> minted + 1]}
    /\ Becomes(k, [k EXCEPT !.pc = "granted", !.token = minted + 1])

\* The device gets its life back and keeps its token.
RotateInPlace(k) ==
    /\ k.pc = "rotate"
    /\ devices' = [devices EXCEPT ![k.device].revoked = FALSE]
    /\ granted' = granted \cup {[shown |-> k.shown, token |-> devices[k.device].token]}
    /\ Becomes(k, [k EXCEPT !.pc = "granted", !.token = devices[k.device].token])
    /\ UNCHANGED <<pairings, con, minted, issued, cut, fails, lost, refusals>>

\* RotateDeviceToken sets the new token and clears revoked_at, by device id alone.
Rotate(k) ==
    /\ k.pc = "rotate"
    /\ devices' = [devices EXCEPT ![k.device].token = minted + 1,
                                  ![k.device].revoked = FALSE]
    /\ Grant(k)
    /\ UNCHANGED <<pairings, con, issued, cut, fails, lost, refusals>>

CreateDevice(k) ==
    /\ k.pc = "create"
    /\ devices' = With(devices, Cardinality(DOMAIN devices) + 1,
                       [user |-> k.user, token |-> minted + 1, revoked |-> FALSE])
    /\ Grant(k)
    /\ UNCHANGED <<pairings, con, issued, cut, fails, lost, refusals>>

\* A write after the claim fails, or the server stops: the code is spent.
Fail(k) ==
    /\ k.pc \in {"lookup", "rotate", "create"}
    /\ fails < MaxFails
    /\ fails' = fails + 1
    /\ Becomes(k, [k EXCEPT !.pc = "failed"])
    /\ UNCHANGED <<pairings, devices, con, minted, issued, granted, cut, lost, refusals>>

-----------------------------------------------------------------------------
(* The console *)

\* What the settings of a console become; nothing else changes.
Console(c, next) ==
    /\ con' = [con EXCEPT ![c] = next]
    /\ UNCHANGED <<pairings, devices, minted, issued, granted, cut, fails>>

\* A code is typed or scanned, or found on the card; the token in use goes out with it.
StartPairing(c) ==
    /\ con[c].pc = "on"
    /\ \E x \in Codes :
         calls' = calls \cup {[from |-> c, code |-> x,
                               bearer |-> IF con[c].sends THEN con[c].memory ELSE NoToken,
                               live |-> TRUE, pc |-> "claim", shown |-> 0,
                               user |-> "nobody", device |-> 0, token |-> NoToken]}
    /\ Console(c, [con[c] EXCEPT !.pc = "pairing", !.told = NoToken])
    /\ UNCHANGED <<lost, refusals>>

Unattended(c) == c \in AutoPair

Off(s) == [s EXCEPT !.pc = "off", !.memory = NoToken, !.sends = FALSE,
                    !.token_on_card = FALSE]

\* The answer reaches the console, or nobody any more.  finish_pairing goes on to the
\* archive; run_autopair goes straight to the configuration, and ends the application
\* if the pairing failed.
Answer(k) ==
    /\ k.pc \in {"granted", "failed"}
    /\ calls' = calls \ {k}
    /\ LET s == con[k.from] IN
       Console(k.from,
               IF ~k.live THEN s
               ELSE IF k.pc = "failed"
                    THEN IF Unattended(k.from) THEN Off(s) ELSE [s EXCEPT !.pc = "on"]
               ELSE [s EXCEPT !.pc = IF Unattended(k.from) THEN "config" ELSE "secret",
                              !.memory = k.token, !.sends = TRUE])
    /\ UNCHANGED <<lost, refusals>>

Deaf(c) == {IF k.from = c THEN [k EXCEPT !.live = FALSE] ELSE k : k \in calls}

\* The console stops waiting; the request may still be handled.
GiveUp(c) ==
    /\ con[c].pc = "pairing"
    /\ lost < MaxLost
    /\ lost' = lost + 1
    /\ calls' = Deaf(c)
    /\ Console(c, IF Unattended(c) THEN Off(con[c]) ELSE [con[c] EXCEPT !.pc = "on"])
    /\ UNCHANGED refusals

Refused == refusals < MaxRefusals /\ refusals' = refusals + 1

\* The token is written to the archive and never committed.
SecretUncommitted(c) ==
    /\ con[c].pc = "secret"
    /\ Console(c, [con[c] EXCEPT !.pc = "config", !.token_on_card = FALSE])
    /\ UNCHANGED <<calls, lost, refusals>>

\* The archive takes the token, or refuses it and keeps what it had.
SaveSecret(c) ==
    /\ con[c].pc = "secret"
    /\ \/ /\ Console(c, [con[c] EXCEPT !.pc = "config", !.archive = con[c].memory,
                                       !.token_on_card = FALSE])
          /\ UNCHANGED refusals
       \/ /\ Refused
          /\ Console(c, [con[c] EXCEPT !.pc = "config", !.token_on_card = TRUE])
    /\ UNCHANGED <<calls, lost>>

\* config_save writes the token whatever the flag says.
AlwaysOnCard(s) == s.memory

\* config_save writes the token only where the archive would not take it.
OnCard(s) == IF s.token_on_card THEN s.memory ELSE NoToken

Rewritten(s) == [s EXCEPT !.card = OnCard(s)]

\* The end of finish_pairing, "Paired" on the screen; run_autopair ends the application.
SaveConfig(c) ==
    /\ con[c].pc = "config"
    /\ LET told == [Rewritten(con[c]) EXCEPT !.pc = "on", !.told = con[c].memory]
       IN Console(c, IF Unattended(c) THEN Off(told) ELSE told)
    /\ UNCHANGED <<calls, lost, refusals>>

\* run_welcome after its last page, on a first start or from Settings.
LeaveWelcome(c) ==
    /\ con[c].pc = "on" /\ ~Unattended(c)
    /\ Console(c, [con[c] EXCEPT !.pc = "welcome"])
    /\ UNCHANGED <<calls, lost, refusals>>

SaveWelcome(c) ==
    /\ con[c].pc = "welcome"
    /\ Console(c, [Rewritten(con[c]) EXCEPT !.pc = "on"])
    /\ UNCHANGED <<calls, lost, refusals>>

\* A blank token typed in Settings goes where a paired one goes; the screen is then
\* left with a change to save.  No other token is typed here.
Unpair(c) ==
    /\ con[c].pc = "on" /\ ~Unattended(c)
    /\ LET blank == [con[c] EXCEPT !.pc = "saving", !.memory = NoToken, !.sends = FALSE,
                                   !.told = NoToken]
       IN \/ /\ Console(c, [blank EXCEPT !.archive = NoToken, !.token_on_card = FALSE])
             /\ UNCHANGED refusals
          \/ Refused /\ Console(c, [blank EXCEPT !.token_on_card = TRUE])
    /\ UNCHANGED <<calls, lost>>

\* Settings is left with something changed.
LeaveSettings(c) ==
    /\ con[c].pc = "on" /\ ~Unattended(c)
    /\ Console(c, [con[c] EXCEPT !.pc = "saving"])
    /\ UNCHANGED <<calls, lost, refusals>>

\* The end of action_settings: the file is rewritten, g_env.token is set from what is in
\* memory, and only then is the archive read; a token in it wins.
SaveSettings(c) ==
    /\ con[c].pc = "saving"
    /\ LET s == [Rewritten(con[c]) EXCEPT !.sends = con[c].memory # NoToken]
       IN Console(c, IF s.archive # NoToken
                     THEN [s EXCEPT !.pc = "on", !.memory = s.archive]
                     ELSE [s EXCEPT !.pc = IF s.memory = NoToken THEN "on" ELSE "moving"])
    /\ UNCHANGED <<calls, lost, refusals>>

\* A token the archive does not have yet is moved into it.
Migrate(c) ==
    /\ con[c].pc = "moving"
    /\ \/ /\ Console(c, [con[c] EXCEPT !.pc = "strike", !.archive = con[c].memory,
                                       !.token_on_card = FALSE])
          /\ UNCHANGED refusals
       \/ Refused /\ Console(c, [con[c] EXCEPT !.pc = "on", !.token_on_card = TRUE])
    /\ UNCHANGED <<calls, lost>>

\* ... and the file rewritten without it.
Strike(c) ==
    /\ con[c].pc = "strike"
    /\ Console(c, [Rewritten(con[c]) EXCEPT !.pc = "on"])
    /\ UNCHANGED <<calls, lost, refusals>>

\* The console is switched off, or the application ends.  A request in flight goes on
\* unheard.
SwitchOff(c) ==
    /\ con[c].pc # "off"
    /\ con[c].pc = "pairing" => lost < MaxLost
    /\ lost' = IF con[c].pc = "pairing" THEN lost + 1 ELSE lost
    /\ calls' = Deaf(c)
    /\ Console(c, Off(con[c]))
    /\ UNCHANGED refusals

\* config_save removes the old file before it renames the new one: a power cut between
\* the two leaves neither.
CutWhileSaving(c) ==
    /\ PowerCuts
    /\ con[c].pc \in {"config", "welcome", "saving", "strike"}
    /\ Console(c, [Off(con[c]) EXCEPT !.card = NoToken])
    /\ UNCHANGED <<calls, lost, refusals>>

\* The start of the application reads config.txt; the archive is not asked.
Start(c) ==
    /\ con[c].pc = "off"
    /\ Console(c, [con[c] EXCEPT !.pc = "on", !.memory = con[c].card,
                                 !.sends = con[c].card # NoToken])
    /\ UNCHANGED <<calls, lost, refusals>>

-----------------------------------------------------------------------------
Next ==
    \/ \E u \in People : IssueCode(u)
    \/ \E x \in Codes : Expire(x)
    \/ \E i \in DOMAIN devices : Revoke(i)
    \/ \E k \in calls : Claim(k) \/ Lookup(k) \/ Rotate(k) \/ CreateDevice(k) \/ Fail(k)
                        \/ Answer(k)
    \/ \E c \in Consoles :
         \/ StartPairing(c) \/ GiveUp(c) \/ SaveSecret(c) \/ SaveConfig(c)
         \/ LeaveWelcome(c) \/ SaveWelcome(c)
         \/ Unpair(c) \/ LeaveSettings(c) \/ SaveSettings(c) \/ Migrate(c) \/ Strike(c)
         \/ SwitchOff(c) \/ CutWhileSaving(c) \/ Start(c)

Spec == Init /\ [][Next]_vars

-----------------------------------------------------------------------------
(* What makes it correct *)

\* "An approved code can only be used once" (ClaimPairing): whatever consoles send it at
\* the same time, and however late, a code that was shown once buys one token.
CodeBuysOneToken ==
    \A g, h \in granted : g.shown = h.shown => g = h

\* A token that was revoked is never accepted again, although pairing can bring its
\* device back.
RevokedTokenStaysDead ==
    \A i \in DOMAIN devices : devices[i].token \in cut => devices[i].revoked

\* The token a console was told about is in one of its two homes.
AtHome(c) ==
    con[c].pc = "off" /\ con[c].told # NoToken
      => con[c].told \in {con[c].archive, con[c].card}

\* The archive has taken every token this console was given.
ArchiveWorks(c) == c \notin PairedBefore /\ refusals = 0

\* A console that was told it is paired finds its token again after it was switched off
\* or lost power, as long as the archive takes what it is given (finish_pairing: the
\* archive first, the card only where it refuses).
TokenKept == \A c \in Consoles : ArchiveWorks(c) => AtHome(c)

\* "The card stops being a credential" (action_settings): as long as the archive works a
\* token is never on the card.
OffTheCard == \A c \in Consoles : ArchiveWorks(c) => con[c].card = NoToken

\* Of its two homes a token that an archive takes has one, and always that.
TokenHasOneHome == TokenKept /\ OffTheCard

\* A console that was told it is paired holds a token the server knows: nobody else's
\* pairing rotates it away.  Where an answer was lost, the rotation it reported may.
PairedIsKnown ==
    \A c \in Consoles :
        lost = 0 /\ con[c].told # NoToken => \E i \in DOMAIN devices : devices[i].token = con[c].told

-----------------------------------------------------------------------------
(* Said by comments of the code, and not so: TLC refutes each of these.    *)

\* However often the console is restarted and its settings changed, it goes on using the
\* token of its last pairing: one on the card "is moved across on the first run that finds
\* it there" (action_settings).
PairedStaysPaired ==
    \A c \in Consoles :
        con[c].pc = "on" /\ con[c].told # NoToken => con[c].memory = con[c].told

\* "A console that syncs today and is a stranger tomorrow" is what finish_pairing means
\* to rule out, wherever the token came from and went.
NeverAStranger == \A c \in Consoles : AtHome(c)

\* pairDevice: a token that is "revoked ... is not a claim to an existing device".
RevokedIsNotRotated ==
    [][\A i \in DOMAIN devices : devices[i].revoked => devices'[i].revoked]_vars

\* The token in use is the one the settings hold: after a save "the new values are
\* already in use" (action_settings).
HeldIsSent ==
    \A c \in Consoles :
        con[c].pc = "on" => con[c].sends = (con[c].memory # NoToken)

\* A console may forget the token of its last pairing, but it does not go back to an older one,
\* which that pairing has taken away: "if the archive will not take it, it goes on the
\* card as it always did" (finish_pairing).
NoOldToken ==
    \A c \in Consoles :
        con[c].pc = "on" /\ con[c].told # NoToken
          => con[c].memory \in {NoToken, con[c].told}

\* getPairStatus: "gone means used", an expired code leaves the page as it is.
GoneMeansUsed ==
    \A n \in 1..issued :
        (~ \E x \in DOMAIN pairings : pairings[x].shown = n /\ ~pairings[x].expired)
          => \/ \E g \in granted : g.shown = n
             \/ \E k \in calls : k.shown = n
             \/ fails > 0

=============================================================================
