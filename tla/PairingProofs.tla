--------------------------- MODULE PairingProofs ----------------------------
(***************************************************************************)
(* Theorems of Pairing for any consoles, people and codes and any bounds:  *)
(* a code buys one token, a revoked token stays dead, a token the archive  *)
(* takes has no other home, and a paired console is known.  At the end,    *)
(* theorems of TitleCache, the other thing a 3DS keeps between launches:   *)
(* it shares no state with Pairing, and its specification is CacheSpec.    *)
(***************************************************************************)
EXTENDS Pairing, TitleCache, FiniteSetTheorems, WellFoundedInduction, TLAPS

(***************************************************************************)
(* What has a type.  Tokens and codes are numbers here, without the bound  *)
(* TypeOK puts on them; no argument below needs it.                        *)
(***************************************************************************)

CodeRows == [user: People, shown: Nat, expired: BOOLEAN]

Rows == [user: People, token: Nat, revoked: BOOLEAN]

Requests == [from: Consoles, code: Codes, bearer: Nat, live: BOOLEAN,
             pc: {"claim", "lookup", "rotate", "create", "granted", "failed"},
             shown: Nat, user: People \cup {"nobody"}, device: Nat, token: Nat]

Settings == [pc: {"off", "on", "pairing", "secret", "config", "welcome", "saving", "moving",
                  "strike"},
             memory: Nat, sends: BOOLEAN, archive: Nat, card: Nat, token_on_card: BOOLEAN,
             told: Nat]

CodesType   == \A x \in DOMAIN pairings : x \in Codes /\ pairings[x] \in CodeRows
DevicesType == \E n \in Nat : devices \in [1..n -> Rows]

\* Past the claim a request is somebody's: what CreateDevice writes is a row.
CallsType ==
    /\ calls \subseteq Requests
    /\ \A k \in calls : k.pc \in {"lookup", "rotate", "create"} => k.user \in People

ConsolesType == con \in [Consoles -> Settings]
CountersType == minted \in Nat /\ issued \in Nat

Types == CodesType /\ DevicesType /\ CallsType /\ ConsolesType /\ CountersType

\* The first state: codes and requests there are none, and devices a token each.
LEMMA InitTypes == Init => Types
  <1> SUFFICES ASSUME Init PROVE Types
    OBVIOUS
  <1>1. Already \in Nat
    BY PairingBounds, FS_CardinalityType DEF Already
  <1>2. CodesType
    BY DEF Init, CodesType
  <1>3. DevicesType
    <2>1. PICK u \in People :
             devices = [i \in 1..Already |-> [user |-> u, token |-> i, revoked |-> FALSE]]
      BY DEF Init
    <2>2. devices \in [1..Already -> Rows]
      BY <1>1, <2>1 DEF Rows
    <2> QED
      BY <1>1, <2>2 DEF DevicesType
  <1>4. CallsType
    BY DEF Init, CallsType
  <1>5. ConsolesType
    <2>1. PICK had \in [PairedBefore -> 1..Already] :
             con = [c \in Consoles |->
                      LET t == IF c \in PairedBefore THEN had[c] ELSE NoToken
                      IN [pc |-> "off", memory |-> NoToken, sends |-> FALSE,
                          archive |-> NoToken, card |-> t, token_on_card |-> FALSE,
                          told |-> t]]
      BY DEF Init
    <2>2. ASSUME NEW c \in Consoles
          PROVE  (IF c \in PairedBefore THEN had[c] ELSE NoToken) \in Nat
      BY <1>1 DEF NoToken
    <2> QED
      BY <2>1, <2>2 DEF ConsolesType, Settings, NoToken
  <1> QED
    BY <1>1, <1>2, <1>3, <1>4, <1>5 DEF Init, Types, CountersType

\* A request that becomes another one.
LEMMA BecomesType ==
    ASSUME CallsType, NEW k \in calls, NEW next \in Requests, Becomes(k, next),
           next.pc \in {"lookup", "rotate", "create"} => next.user \in People
    PROVE  CallsType'
  BY DEF CallsType, Becomes

\* Requests whose console went away.
LEMMA DeafType ==
    ASSUME CallsType, NEW c \in Consoles, calls' = Deaf(c)
    PROVE  CallsType'
  <1>1. ASSUME NEW k \in calls
        PROVE  LET d == IF k.from = c THEN [k EXCEPT !.live = FALSE] ELSE k
               IN  d \in Requests /\ d.pc = k.pc /\ d.user = k.user
    BY DEF CallsType, Requests
  <1> QED
    BY <1>1 DEF CallsType, Deaf

\* What pairDevice and the panel do to the tables.
LEMMA ServerTypes ==
    ASSUME Types, NEW k \in calls,
           Claim(k) \/ Lookup(k) \/ Rotate(k) \/ CreateDevice(k) \/ Fail(k)
    PROVE  Types'
  <1> USE DEF Types
  <1>1. k \in Requests
    BY DEF CallsType
  <1>2. PICK n \in Nat : devices \in [1..n -> Rows]
    BY DEF DevicesType
  <1>3. CASE Claim(k)
    <2>1. CASE Claimable(k.code)
      <3>1. pairings[k.code] \in CodeRows
        BY <2>1 DEF CodesType, Claimable
      <3>2. CallsType'
        <4>1. [k EXCEPT !.pc = "lookup", !.user = pairings[k.code].user,
                        !.shown = pairings[k.code].shown] \in Requests
          BY <1>1, <3>1 DEF Requests, CodeRows
        <4>2. [k EXCEPT !.pc = "lookup", !.user = pairings[k.code].user,
                        !.shown = pairings[k.code].shown].user \in People
          BY <1>1, <3>1 DEF Requests, CodeRows
        <4> QED
          BY <1>3, <2>1, <4>1, <4>2, BecomesType DEF Claim
      <3> QED
        BY <1>3, <2>1, <3>2 DEF Claim, CodesType, DevicesType, ConsolesType, CountersType
    <2>2. CASE ~Claimable(k.code)
      <3>1. CallsType'
        BY <1>1, <1>3, <2>2, BecomesType DEF Claim, Requests
      <3> QED
        BY <1>3, <2>2, <3>1 DEF Claim, CodesType, DevicesType, ConsolesType, CountersType
    <2> QED
      BY <2>1, <2>2
  <1>4. CASE Lookup(k)
    <2>1. k.user \in People
      BY <1>4 DEF Lookup, CallsType
    <2>2. CallsType'
      <3>1. CASE \E i \in DOMAIN devices : Becomes(k, [k EXCEPT !.pc = "rotate", !.device = i])
        <4>1. PICK i \in DOMAIN devices : Becomes(k, [k EXCEPT !.pc = "rotate", !.device = i])
          BY <3>1
        <4>2. i \in Nat
          BY <1>2
        <4> QED
          BY <1>1, <2>1, <4>1, <4>2, BecomesType DEF Requests
      <3>2. CASE Becomes(k, [k EXCEPT !.pc = "create"])
        BY <1>1, <2>1, <3>2, BecomesType DEF Requests
      <3> QED
        BY <1>4, <3>1, <3>2 DEF Lookup
    <2> QED
      BY <1>4, <2>2 DEF Lookup, CodesType, DevicesType, ConsolesType, CountersType
  <1>g. ASSUME Grant(k), k.pc \in {"rotate", "create"}
        PROVE  UNCHANGED issued => CallsType' /\ CountersType'
    <2>0. minted + 1 \in Nat
      BY DEF CountersType
    <2>1. [k EXCEPT !.pc = "granted", !.token = minted + 1] \in Requests
      BY <1>1, <2>0 DEF Requests
    <2>2. [k EXCEPT !.pc = "granted", !.token = minted + 1].pc = "granted"
      BY <1>1 DEF Requests
    <2>3. CallsType'
      BY <1>g, <2>1, <2>2, BecomesType DEF Grant
    <2> QED
      BY <1>g, <2>3 DEF Grant, CountersType
  <1>5. CASE Rotate(k)
    <2>1. minted + 1 \in Nat
      BY DEF CountersType
    <2>2. ASSUME NEW i \in 1..n
          PROVE  devices'[i] \in Rows
      <3>1. devices[i] \in Rows
        BY <1>2
      <3>2. devices'[i] = devices[i]
            \/ devices'[i] = [devices[i] EXCEPT !.token = minted + 1, !.revoked = FALSE]
        BY <1>2, <1>5 DEF Rotate
      <3> QED
        BY <2>1, <3>1, <3>2 DEF Rows
    <2>3. devices' \in [1..n -> Rows]
      BY <1>2, <1>5, <2>2 DEF Rotate
    <2> QED
      BY <1>5, <1>g, <2>3 DEF Rotate, CodesType, DevicesType, ConsolesType
  <1>6. CASE CreateDevice(k)
    <2>1. Cardinality(DOMAIN devices) = n
      BY <1>2, FS_Interval
    <2>2. [user |-> k.user, token |-> minted + 1, revoked |-> FALSE] \in Rows
      BY <1>6 DEF CreateDevice, CallsType, Rows, CountersType
    <2>3. devices' \in [1..(n + 1) -> Rows]
      BY <1>2, <1>6, <2>1, <2>2 DEF CreateDevice, With
    <2>4. n + 1 \in Nat
      OBVIOUS
    <2>5. DevicesType'
      BY <2>3, <2>4 DEF DevicesType
    <2> QED
      BY <1>6, <1>g, <2>5 DEF CreateDevice, CodesType, ConsolesType
  <1>7. CASE Fail(k)
    <2>1. CallsType'
      BY <1>1, <1>7, BecomesType DEF Fail, Requests
    <2> QED
      BY <1>7, <2>1 DEF Fail, CodesType, DevicesType, ConsolesType, CountersType
  <1> QED
    BY <1>3, <1>4, <1>5, <1>6, <1>7

\* The settings of a console are what they are made of, whatever step it takes.
LEMMA ConsoleType ==
    ASSUME ConsolesType, NEW c \in Consoles, NEW next \in Settings, Console(c, next)
    PROVE  ConsolesType'
  BY DEF ConsolesType, Console

\* Switched off, with or without its card, a console keeps settings.
LEMMA OffType == \A s \in Settings : Off(s) \in Settings /\ [Off(s) EXCEPT !.card = NoToken] \in Settings
  BY DEF Off, Settings, NoToken

\* So it does when config.txt is written again.
LEMMA RewrittenType == \A s \in Settings : Rewritten(s) \in Settings
  BY DEF Rewritten, OnCard, Settings, NoToken

\* What a console does on its own: it does not touch the requests.
Alone(c) ==
    \/ SaveSecret(c) \/ SaveConfig(c) \/ LeaveWelcome(c) \/ SaveWelcome(c) \/ Unpair(c)
    \/ LeaveSettings(c) \/ SaveSettings(c) \/ Migrate(c) \/ Strike(c) \/ CutWhileSaving(c)
    \/ Start(c)

\* Every step a console takes without the server leaves it settings.
LEMMA AloneTypes ==
    ASSUME ConsolesType, NEW c \in Consoles, Alone(c)
    PROVE  ConsolesType'
  <1>1. con[c] \in Settings
    BY DEF ConsolesType
  <1>2. Rewritten(con[c]) \in Settings
    BY <1>1, RewrittenType
  <1>3. \E next \in Settings : Console(c, next)
    <2>1. CASE SaveSecret(c)
      <3>1. /\ [con[c] EXCEPT !.pc = "config", !.archive = con[c].memory,
                              !.token_on_card = FALSE] \in Settings
            /\ [con[c] EXCEPT !.pc = "config", !.token_on_card = TRUE] \in Settings
        BY <1>1 DEF Settings
      <3> QED
        BY <2>1, <3>1 DEF SaveSecret
    <2>2. CASE SaveConfig(c)
      <3>1. [Rewritten(con[c]) EXCEPT !.pc = "on", !.told = con[c].memory] \in Settings
        BY <1>1, <1>2 DEF Settings
      <3> QED
        BY <2>2, <3>1, OffType DEF SaveConfig
    <2>3. CASE LeaveWelcome(c) \/ LeaveSettings(c)
      <3>1. /\ [con[c] EXCEPT !.pc = "welcome"] \in Settings
            /\ [con[c] EXCEPT !.pc = "saving"] \in Settings
        BY <1>1 DEF Settings
      <3> QED
        BY <2>3, <3>1 DEF LeaveWelcome, LeaveSettings
    <2>4. CASE SaveWelcome(c) \/ Strike(c)
      <3>1. [Rewritten(con[c]) EXCEPT !.pc = "on"] \in Settings
        BY <1>2 DEF Settings
      <3> QED
        BY <2>4, <3>1 DEF SaveWelcome, Strike
    <2>5. CASE Unpair(c)
      <3> DEFINE blank == [con[c] EXCEPT !.pc = "saving", !.memory = NoToken, !.sends = FALSE,
                                         !.told = NoToken]
      <3>1. blank \in Settings
        BY <1>1 DEF Settings, NoToken
      <3>2. /\ [blank EXCEPT !.archive = NoToken, !.token_on_card = FALSE] \in Settings
            /\ [blank EXCEPT !.token_on_card = TRUE] \in Settings
        BY <3>1 DEF Settings, NoToken
      <3> QED
        BY <2>5, <3>2 DEF Unpair
    <2>6. CASE SaveSettings(c)
      <3> DEFINE s == [Rewritten(con[c]) EXCEPT !.sends = con[c].memory # NoToken]
      <3>1. s \in Settings
        BY <1>2 DEF Settings
      <3>2. /\ [s EXCEPT !.pc = "on", !.memory = s.archive] \in Settings
            /\ [s EXCEPT !.pc = IF s.memory = NoToken THEN "on" ELSE "moving"] \in Settings
        <4> HIDE DEF s
        <4> QED
          BY <3>1 DEF Settings
      <3> QED
        BY <2>6, <3>2 DEF SaveSettings
    <2>7. CASE Migrate(c)
      <3>1. /\ [con[c] EXCEPT !.pc = "strike", !.archive = con[c].memory,
                              !.token_on_card = FALSE] \in Settings
            /\ [con[c] EXCEPT !.pc = "on", !.token_on_card = TRUE] \in Settings
        BY <1>1 DEF Settings
      <3> QED
        BY <2>7, <3>1 DEF Migrate
    <2>8. CASE CutWhileSaving(c)
      BY <1>1, <2>8, OffType DEF CutWhileSaving
    <2>9. CASE Start(c)
      <3>1. [con[c] EXCEPT !.pc = "on", !.memory = con[c].card,
                           !.sends = con[c].card # NoToken] \in Settings
        BY <1>1 DEF Settings
      <3> QED
        BY <2>9, <3>1 DEF Start
    <2> QED
      BY <2>1, <2>2, <2>3, <2>4, <2>5, <2>6, <2>7, <2>8, <2>9 DEF Alone
  <1> QED
    BY <1>3, ConsoleType

\* What a step of a console alone leaves as it was.
LEMMA AloneLeaves ==
    ASSUME NEW c \in Consoles, Alone(c)
    PROVE  UNCHANGED <<pairings, devices, calls, minted, issued, granted, cut>>
  BY DEF Alone, SaveSecret, SaveConfig, LeaveWelcome, SaveWelcome, Unpair, LeaveSettings,
         SaveSettings, Migrate, Strike, CutWhileSaving, Start, Console

\* A console that asks, stops waiting, or hears.
LEMMA AskingTypes ==
    ASSUME Types, NEW c \in Consoles, StartPairing(c) \/ GiveUp(c) \/ SwitchOff(c)
    PROVE  Types'
  <1> USE DEF Types
  <1>1. con[c] \in Settings
    BY DEF ConsolesType
  <1>2. CallsType' /\ ConsolesType'
    <2>1. CASE StartPairing(c)
      <3> DEFINE posed(x) == [from |-> c, code |-> x,
                              bearer |-> IF con[c].sends THEN con[c].memory ELSE NoToken,
                              live |-> TRUE, pc |-> "claim", shown |-> 0,
                              user |-> "nobody", device |-> 0, token |-> NoToken]
      <3>1. PICK x \in Codes : calls' = calls \cup {posed(x)}
        BY <2>1 DEF StartPairing
      <3>2. (IF con[c].sends THEN con[c].memory ELSE NoToken) \in Nat
        BY <1>1 DEF Settings, NoToken
      <3>3. CallsType'
        <4>1. posed(x) \in Requests
          BY <3>2 DEF Requests, NoToken
        <4>2. posed(x).pc = "claim"
          OBVIOUS
        <4> HIDE DEF posed
        <4> QED
          BY <3>1, <4>1, <4>2 DEF CallsType
      <3>4. [con[c] EXCEPT !.pc = "pairing", !.told = NoToken] \in Settings
        BY <1>1 DEF Settings, NoToken
      <3> QED
        BY <2>1, <3>3, <3>4, ConsoleType DEF StartPairing
    <2>2. CASE GiveUp(c)
      <3>1. [con[c] EXCEPT !.pc = "on"] \in Settings
        BY <1>1 DEF Settings
      <3> QED
        BY <1>1, <2>2, <3>1, OffType, DeafType, ConsoleType DEF GiveUp
    <2>3. CASE SwitchOff(c)
      BY <1>1, <2>3, OffType, DeafType, ConsoleType DEF SwitchOff
    <2> QED
      BY <2>1, <2>2, <2>3
  <1> QED
    BY <1>2 DEF StartPairing, GiveUp, SwitchOff, Console, CodesType, DevicesType, CountersType

\* So does the answer of pairDevice.
LEMMA AnswerTypes ==
    ASSUME Types, NEW k \in calls, Answer(k)
    PROVE  Types'
  <1> USE DEF Types
  <1>1. k \in Requests
    BY DEF CallsType
  <1>2. k.from \in Consoles /\ k.token \in Nat
    BY <1>1 DEF Requests
  <1>3. con[k.from] \in Settings
    BY <1>2 DEF ConsolesType
  <1>4. \E next \in Settings : Console(k.from, next)
    <2>1. /\ [con[k.from] EXCEPT !.pc = "on"] \in Settings
          /\ [con[k.from] EXCEPT !.pc = IF Unattended(k.from) THEN "config" ELSE "secret",
                                 !.memory = k.token, !.sends = TRUE] \in Settings
      BY <1>2, <1>3 DEF Settings
    <2> QED
      BY <1>3, <2>1, OffType DEF Answer
  <1>5. ConsolesType'
    BY <1>2, <1>4, ConsoleType
  <1>6. CallsType'
    BY DEF Answer, CallsType
  <1> QED
    BY <1>5, <1>6 DEF Answer, Console, CodesType, DevicesType, CountersType

\* What the panel does to codes and devices, and the clock to codes.
LEMMA PanelTypes ==
    ASSUME Types,
           \/ \E u \in People : IssueCode(u)
           \/ \E x \in Codes : Expire(x)
           \/ \E i \in DOMAIN devices : Revoke(i)
    PROVE  Types'
  <1> USE DEF Types
  <1>1. CASE \E u \in People : IssueCode(u)
    <2>1. PICK u \in People : IssueCode(u)
      BY <1>1
    <2>2. PICK x \in Codes \ DOMAIN pairings :
             pairings' = With(pairings, x, [user |-> u, shown |-> issued + 1, expired |-> FALSE])
      BY <2>1 DEF IssueCode
    <2>3. [user |-> u, shown |-> issued + 1, expired |-> FALSE] \in CodeRows
      BY DEF CodeRows, CountersType
    <2>4. CodesType'
      BY <2>2, <2>3 DEF CodesType, With
    <2> QED
      BY <2>1, <2>4 DEF IssueCode, DevicesType, CallsType, ConsolesType, CountersType
  <1>2. CASE \E x \in Codes : Expire(x)
    <2>1. PICK x \in Codes : Expire(x)
      BY <1>2
    <2>2. CodesType'
      BY <2>1 DEF Expire, CodesType, CodeRows
    <2> QED
      BY <2>1, <2>2 DEF Expire, DevicesType, CallsType, ConsolesType, CountersType
  <1>3. CASE \E i \in DOMAIN devices : Revoke(i)
    <2>1. PICK i \in DOMAIN devices : Revoke(i)
      BY <1>3
    <2>2. PICK n \in Nat : devices \in [1..n -> Rows]
      BY DEF DevicesType
    <2>3. devices' \in [1..n -> Rows]
      BY <2>1, <2>2 DEF Revoke, Rows
    <2> QED
      BY <2>1, <2>3 DEF Revoke, CodesType, DevicesType, CallsType, ConsolesType, CountersType
  <1> QED
    BY <1>1, <1>2, <1>3

\* A handler's step.
Handled(k) == Claim(k) \/ Lookup(k) \/ Rotate(k) \/ CreateDevice(k) \/ Fail(k)

\* The steps, sorted by what they can disturb.
LEMMA NextCases ==
    ASSUME [Next]_vars
    PROVE  \/ \E u \in People : IssueCode(u)
           \/ \E x \in Codes : Expire(x)
           \/ \E i \in DOMAIN devices : Revoke(i)
           \/ \E k \in calls : Handled(k) \/ Answer(k)
           \/ \E c \in Consoles : StartPairing(c) \/ GiveUp(c) \/ SwitchOff(c)
           \/ \E c \in Consoles : Alone(c)
           \/ UNCHANGED vars
  BY DEF Next, Handled, Alone

\* Every step keeps the types.
LEMMA NextTypes == Types /\ [Next]_vars => Types'
  <1> SUFFICES ASSUME Types, [Next]_vars PROVE Types'
    OBVIOUS
  <1>1. CASE \E k \in calls : Handled(k) \/ Answer(k)
    BY <1>1, ServerTypes, AnswerTypes DEF Handled
  <1>2. CASE \E c \in Consoles : Alone(c)
    BY <1>2, AloneTypes, AloneLeaves
    DEF Types, CodesType, DevicesType, CallsType, CountersType
  <1>3. CASE UNCHANGED vars
    BY <1>3 DEF vars, Types, CodesType, DevicesType, CallsType, ConsolesType, CountersType
  <1> QED
    BY <1>1, <1>2, <1>3, NextCases, PanelTypes, AskingTypes

-----------------------------------------------------------------------------
(***************************************************************************)
(* A revoked token stays dead.  Every token there is was minted, no two    *)
(* devices share one, and what pairing puts in a device's place is newer   *)
(* than all of them.                                                       *)
(***************************************************************************)

TokenInv ==
    /\ \A i \in DOMAIN devices : devices[i].token <= minted
    /\ \A t \in cut : t \in Nat /\ t <= minted
    /\ \A i, j \in DOMAIN devices : devices[i].token = devices[j].token => i = j
    /\ RevokedTokenStaysDead

\* The devices of an earlier build start with a token each.
LEMMA InitToken == Init => TokenInv
  <1> SUFFICES ASSUME Init PROVE TokenInv
    OBVIOUS
  <1>1. Already \in Nat
    BY PairingBounds, FS_CardinalityType DEF Already
  <1>2. PICK u \in People :
           devices = [i \in 1..Already |-> [user |-> u, token |-> i, revoked |-> FALSE]]
    BY DEF Init
  <1> QED
    BY <1>1, <1>2 DEF Init, TokenInv, RevokedTokenStaysDead

\* Nothing but the panel, a rotation and a new device touches the tokens the server has.
LEMMA TokensUntouched ==
    ASSUME TokenInv, UNCHANGED <<devices, cut, minted>>
    PROVE  TokenInv'
  BY DEF TokenInv, RevokedTokenStaysDead

\* A device takes a token nobody ever had.
LEMMA FreshToken ==
    ASSUME Types, TokenInv, NEW n \in Nat, devices' \in [1..n -> Rows],
           NEW j \in 1..n, devices'[j].token = minted + 1,
           DOMAIN devices \subseteq 1..n,
           \A i \in 1..n : i # j => i \in DOMAIN devices /\ devices'[i] = devices[i],
           minted' = minted + 1, UNCHANGED cut
    PROVE  TokenInv'
  <1>1. minted \in Nat
    BY DEF Types, CountersType
  <1>2. DOMAIN devices' = 1..n
    OBVIOUS
  <1>3. ASSUME NEW i \in 1..n, i # j
        PROVE  /\ devices'[i] = devices[i] /\ i \in DOMAIN devices
               /\ devices[i].token \in Nat /\ devices[i].token <= minted
    <2>1. devices'[i] \in Rows
      OBVIOUS
    <2> QED
      BY <1>3, <2>1 DEF TokenInv, Rows
  <1>4. \A i \in DOMAIN devices' : (devices[i].token)' <= minted'
    BY <1>1, <1>2, <1>3
  <1>5. \A t \in cut' : t \in Nat /\ t <= minted'
    BY <1>1 DEF TokenInv
  <1>6. \A i, l \in DOMAIN devices' : (devices[i].token)' = (devices[l].token)' => i = l
    BY <1>1, <1>2, <1>3 DEF TokenInv
  <1>7. RevokedTokenStaysDead'
    BY <1>1, <1>2, <1>3 DEF TokenInv, RevokedTokenStaysDead
  <1> QED
    BY <1>4, <1>5, <1>6, <1>7 DEF TokenInv

\* Every step keeps it.
LEMMA NextToken == Types /\ TokenInv /\ [Next]_vars => TokenInv'
  <1> SUFFICES ASSUME Types, TokenInv, [Next]_vars PROVE TokenInv'
    OBVIOUS
  <1>0. PICK n \in Nat : devices \in [1..n -> Rows]
    BY DEF Types, DevicesType
  <1>c. minted \in Nat
    BY DEF Types, CountersType
  <1>1. CASE \E i \in DOMAIN devices : Revoke(i)
    <2>1. PICK i \in DOMAIN devices : Revoke(i)
      BY <1>1
    <2>2. devices[i] \in Rows /\ devices[i].token \in Nat
      BY <1>0 DEF Rows
    <2>3. devices' = [devices EXCEPT ![i].revoked = TRUE]
          /\ cut' = cut \cup {devices[i].token} /\ minted' = minted
      BY <2>1 DEF Revoke
    <2>4. DOMAIN devices' = DOMAIN devices
          /\ \A l \in DOMAIN devices : /\ (devices[l].token)' = devices[l].token
                                       /\ (devices[l].revoked)' = (l = i \/ devices[l].revoked)
      BY <1>0, <2>3 DEF Rows
    <2>5. \A t \in cut' : t \in Nat /\ t <= minted'
      BY <2>2, <2>3 DEF TokenInv
    <2>6. RevokedTokenStaysDead'
      BY <2>3, <2>4 DEF TokenInv, RevokedTokenStaysDead
    <2> QED
      BY <2>3, <2>4, <2>5, <2>6 DEF TokenInv
  <1>2. CASE \E k \in calls : Rotate(k)
    <2>1. PICK k \in calls : Rotate(k)
      BY <1>2
    <2>2. devices' = [devices EXCEPT ![k.device].token = minted + 1,
                                     ![k.device].revoked = FALSE]
          /\ minted' = minted + 1 /\ cut' = cut
      BY <2>1 DEF Rotate, Grant
    <2>3. CASE k.device \in 1..n
      <3>1. Types'
        BY NextTypes
      <3>2. devices' \in [1..n -> Rows]
        BY <1>0, <2>2, <3>1 DEF Types, DevicesType
      <3>3. devices'[k.device].token = minted + 1
        BY <1>0, <2>2, <2>3 DEF Rows
      <3> QED
        BY <1>0, <2>2, <2>3, <3>2, <3>3, FreshToken
    <2>4. CASE k.device \notin 1..n
      <3>1. devices' = devices
        BY <1>0, <2>2, <2>4
      <3>2. \A i \in DOMAIN devices : devices[i].token \in Nat
        BY <1>0 DEF Rows
      <3> QED
        BY <1>c, <2>2, <3>1, <3>2 DEF TokenInv, RevokedTokenStaysDead
    <2> QED
      BY <2>3, <2>4
  <1>3. CASE \E k \in calls : CreateDevice(k)
    <2>1. PICK k \in calls : CreateDevice(k)
      BY <1>3
    <2>2. Cardinality(DOMAIN devices) = n
      BY <1>0, FS_Interval
    <2>3. devices' = With(devices, n + 1,
                          [user |-> k.user, token |-> minted + 1, revoked |-> FALSE])
          /\ minted' = minted + 1 /\ cut' = cut
      BY <2>1, <2>2 DEF CreateDevice, Grant
    <2>4. [user |-> k.user, token |-> minted + 1, revoked |-> FALSE] \in Rows
      BY <1>c, <2>1 DEF Types, CallsType, CreateDevice, Rows
    <2>5. devices' \in [1..(n + 1) -> Rows]
      BY <1>0, <2>3, <2>4 DEF With
    <2>6. devices'[n + 1].token = minted + 1
          /\ \A i \in 1..(n + 1) : i # n + 1 => i \in 1..n /\ devices'[i] = devices[i]
      BY <1>0, <2>3 DEF With
    <2>7. n + 1 \in Nat /\ n + 1 \in 1..(n + 1) /\ DOMAIN devices \subseteq 1..(n + 1)
          /\ \A i \in 1..(n + 1) : n + 1 # i => i \in DOMAIN devices /\ devices'[i] = devices[i]
      BY <1>0, <2>6
    <2>8. ASSUME NEW m \in Nat, m = n + 1 PROVE TokenInv'
      BY <2>3, <2>5, <2>6, <2>7, <2>8, FreshToken
    <2> QED
      BY <2>7, <2>8
  <1>4. CASE \E k \in calls : Claim(k) \/ Lookup(k) \/ Fail(k) \/ Answer(k)
    BY <1>4, TokensUntouched DEF Claim, Lookup, Fail, Answer, Console
  <1>5. CASE \E c \in Consoles : StartPairing(c) \/ GiveUp(c) \/ SwitchOff(c)
    BY <1>5, TokensUntouched DEF StartPairing, GiveUp, SwitchOff, Console
  <1>6. CASE \E c \in Consoles : Alone(c)
    BY <1>6, TokensUntouched, AloneLeaves
  <1>7. CASE (\E u \in People : IssueCode(u)) \/ (\E x \in Codes : Expire(x)) \/ UNCHANGED vars
    BY <1>7, TokensUntouched DEF IssueCode, Expire, vars
  <1> QED
    BY <1>1, <1>2, <1>3, <1>4, <1>5, <1>6, <1>7, NextCases DEF Handled

\* A token that was revoked while it was good is refused for ever, whoever pairs the
\* device again and however the requests interleave (DeviceByTokenHash, pairDevice).
THEOREM RevokedStaysDead == Spec => []RevokedTokenStaysDead
  <1>1. Init => Types /\ TokenInv
    BY InitTypes, InitToken
  <1>2. Types /\ TokenInv /\ [Next]_vars => (Types /\ TokenInv)'
    BY NextTypes, NextToken
  <1>3. TokenInv => RevokedTokenStaysDead
    BY DEF TokenInv
  <1> QED
    BY <1>1, <1>2, <1>3, PTL DEF Spec

-----------------------------------------------------------------------------
(***************************************************************************)
(* A code buys one token.  What was shown once is in one place at a time:  *)
(* among the codes that can be claimed, with the one request that claimed  *)
(* it, or with the token it bought.                                        *)
(***************************************************************************)

\* A request that has claimed a code and not used it up.
Claimed(k) == k.pc \in {"lookup", "rotate", "create"}

CodesApart ==
    /\ \A x \in DOMAIN pairings : pairings[x].shown <= issued
    /\ \A x, y \in DOMAIN pairings : pairings[x].shown = pairings[y].shown => x = y

ClaimsApart ==
    \A k \in calls : Claimed(k) =>
        /\ k.shown <= issued
        /\ \A x \in DOMAIN pairings : pairings[x].shown # k.shown
        /\ \A l \in calls : Claimed(l) /\ l.shown = k.shown => l = k

GrantsApart ==
    \A g \in granted :
        /\ g.shown \in Nat /\ g.shown <= issued
        /\ \A x \in DOMAIN pairings : pairings[x].shown # g.shown
        /\ \A k \in calls : Claimed(k) => k.shown # g.shown

CodeInv == CodesApart /\ ClaimsApart /\ GrantsApart /\ CodeBuysOneToken

\* Nothing has been shown at the start.
LEMMA InitCode == Init => CodeInv
  BY DEF Init, CodeInv, CodesApart, ClaimsApart, GrantsApart, CodeBuysOneToken

\* Requests may end, lose their console or go on with the code they claimed.
LEMMA CodesUntouched ==
    ASSUME CodeInv, UNCHANGED <<pairings, issued, granted>>, NEW f,
           calls' \subseteq {f[k] : k \in calls} \cup {k \in calls' : ~Claimed(k)},
           \A k \in calls : Claimed(f[k]) => Claimed(k) /\ f[k].shown = k.shown
    PROVE  CodeInv'
  <1>1. ASSUME NEW k \in calls', Claimed(k)
        PROVE  \E o \in calls : k = f[o] /\ Claimed(o) /\ o.shown = k.shown
    BY <1>1
  <1>2. ClaimsApart'
    BY <1>1 DEF CodeInv, ClaimsApart, Claimed
  <1>3. GrantsApart'
    BY <1>1 DEF CodeInv, GrantsApart, Claimed
  <1> QED
    BY <1>2, <1>3 DEF CodeInv, CodesApart, CodeBuysOneToken

\* One request goes on.
LEMMA OneGoesOn ==
    ASSUME CodeInv, UNCHANGED <<pairings, issued, granted>>, NEW k \in calls, NEW next,
           Becomes(k, next), Claimed(next) => Claimed(k) /\ next.shown = k.shown
    PROVE  CodeInv'
  <1> DEFINE f == [l \in calls |-> IF l = k THEN next ELSE l]
  <1>1. \A l \in calls : f[l] = IF l = k THEN next ELSE l
    OBVIOUS
  <1>2. calls' \subseteq {f[l] : l \in calls}
    BY <1>1 DEF Becomes
  <1>3. \A l \in calls : Claimed(f[l]) => Claimed(l) /\ f[l].shown = l.shown
    BY <1>1
  <1> HIDE DEF f
  <1> QED
    BY <1>2, <1>3, CodesUntouched

\* The request that claims a code takes it from those that can be claimed.
LEMMA ClaimCode ==
    ASSUME Types, CodeInv, NEW k \in calls, Claim(k)
    PROVE  CodeInv'
  <1>0. k \in Requests
    BY DEF Types, CallsType
  <1>1. CASE ~Claimable(k.code)
    <2>1. [k EXCEPT !.pc = "failed"].pc = "failed"
      BY <1>0 DEF Requests
    <2> QED
      BY <1>1, <2>1, OneGoesOn DEF Claim, Claimed
  <1>2. CASE Claimable(k.code)
    <2> DEFINE next == [k EXCEPT !.pc = "lookup", !.user = pairings[k.code].user,
                                 !.shown = pairings[k.code].shown]
    <2>1. next.shown = pairings[k.code].shown /\ next.pc = "lookup"
      BY <1>0 DEF Requests
    <2>2. calls' = (calls \ {k}) \cup {next}
          /\ pairings' = [x \in DOMAIN pairings \ {k.code} |-> pairings[x]]
          /\ issued' = issued /\ granted' = granted
      BY <1>2 DEF Claim, Becomes
    <2>3. k.code \in DOMAIN pairings
      BY <1>2 DEF Claimable
    <2> HIDE DEF next
    <2>4. CodesApart'
      BY <2>2 DEF CodeInv, CodesApart
    <2>5. ClaimsApart'
      <3>1. ASSUME NEW l \in calls', Claimed(l)
            PROVE  /\ l.shown <= issued'
                   /\ \A x \in DOMAIN pairings' : (pairings[x].shown)' # l.shown
                   /\ \A m \in calls' : Claimed(m) /\ m.shown = l.shown => m = l
        <4>1. CASE l = next
          BY <2>1, <2>2, <2>3, <4>1 DEF CodeInv, CodesApart, ClaimsApart
        <4>2. CASE l # next
          BY <2>1, <2>2, <2>3, <3>1, <4>2 DEF CodeInv, ClaimsApart
        <4> QED
          BY <4>1, <4>2
      <3> QED
        BY <3>1 DEF ClaimsApart, Claimed
    <2>6. GrantsApart'
      BY <2>1, <2>2, <2>3 DEF CodeInv, GrantsApart, Claimed
    <2> QED
      BY <2>2, <2>4, <2>5, <2>6 DEF CodeInv, CodeBuysOneToken
  <1> QED
    BY <1>1, <1>2

\* The code goes with the request that claimed it, into the token it bought.
LEMMA GrantCode ==
    ASSUME Types, CodeInv, NEW k \in calls, Claimed(k), Grant(k), UNCHANGED <<pairings, issued>>
    PROVE  CodeInv'
  <1>0. k \in Requests
    BY DEF Types, CallsType
  <1> DEFINE next   == [k EXCEPT !.pc = "granted", !.token = minted + 1]
             bought == [shown |-> k.shown, token |-> minted + 1]
  <1>1. next.pc = "granted" /\ bought.shown = k.shown /\ k.shown \in Nat
    BY <1>0 DEF Requests
  <1>2. calls' = (calls \ {k}) \cup {next} /\ granted' = granted \cup {bought}
    BY DEF Grant, Becomes
  <1> HIDE DEF next, bought
  <1>3. ~Claimed(next)
    BY <1>1 DEF Claimed
  <1>4. CodesApart'
    BY DEF CodeInv, CodesApart
  <1>5. \A l \in calls' : Claimed(l) => l \in calls /\ l.shown # k.shown
    BY <1>2, <1>3 DEF CodeInv, ClaimsApart
  <1>6. ClaimsApart'
    BY <1>5 DEF CodeInv, ClaimsApart, Claimed
  <1>7. GrantsApart'
    BY <1>1, <1>2, <1>5 DEF CodeInv, GrantsApart, ClaimsApart, Claimed
  <1>8. CodeBuysOneToken'
    BY <1>1, <1>2 DEF CodeInv, CodeBuysOneToken, GrantsApart
  <1> QED
    BY <1>4, <1>6, <1>7, <1>8 DEF CodeInv

\* A code that is shown was never shown before.
LEMMA PanelCode ==
    ASSUME Types, CodeInv,
           (\E u \in People : IssueCode(u)) \/ (\E x \in Codes : Expire(x))
    PROVE  CodeInv'
  <1>0. issued \in Nat /\ (\A x \in DOMAIN pairings : pairings[x].shown \in Nat)
    BY DEF Types, CountersType, CodesType, CodeRows
  <1>c. \A k \in calls : k.shown \in Nat
    BY DEF Types, CallsType, Requests
  <1>1. CASE \E u \in People : IssueCode(u)
    <2>1. PICK u \in People : IssueCode(u)
      BY <1>1
    <2>2. PICK x \in Codes \ DOMAIN pairings :
             pairings' = With(pairings, x, [user |-> u, shown |-> issued + 1, expired |-> FALSE])
      BY <2>1 DEF IssueCode
    <2>3. calls' = calls /\ granted' = granted /\ issued' = issued + 1
      BY <2>1 DEF IssueCode
    <2>4. DOMAIN pairings' = DOMAIN pairings \cup {x}
          /\ pairings'[x].shown = issued + 1
          /\ \A y \in DOMAIN pairings : pairings'[y] = pairings[y]
      BY <2>2 DEF With
    <2>5. CodesApart'
      BY <1>0, <2>3, <2>4 DEF CodeInv, CodesApart
    <2>6. ClaimsApart'
      BY <1>0, <1>c, <2>3, <2>4 DEF CodeInv, ClaimsApart, Claimed
    <2>7. GrantsApart'
      BY <1>0, <2>3, <2>4 DEF CodeInv, GrantsApart, Claimed
    <2> QED
      BY <2>3, <2>5, <2>6, <2>7 DEF CodeInv, CodeBuysOneToken
  <1>2. CASE \E x \in Codes : Expire(x)
    <2>1. PICK x \in Codes : Expire(x)
      BY <1>2
    <2>2. calls' = calls /\ granted' = granted /\ issued' = issued
          /\ pairings' = [pairings EXCEPT ![x].expired = TRUE]
      BY <2>1 DEF Expire
    <2>3. DOMAIN pairings' = DOMAIN pairings
          /\ \A y \in DOMAIN pairings : (pairings[y].shown)' = pairings[y].shown
      BY <2>2 DEF Types, CodesType, CodeRows
    <2> QED
      BY <2>2, <2>3 DEF CodeInv, CodesApart, ClaimsApart, GrantsApart, CodeBuysOneToken, Claimed
  <1> QED
    BY <1>1, <1>2

\* Every step keeps it.
LEMMA NextCode == Types /\ CodeInv /\ [Next]_vars => CodeInv'
  <1> SUFFICES ASSUME Types, CodeInv, [Next]_vars PROVE CodeInv'
    OBVIOUS
  <1>0. \A k \in calls : k \in Requests
    BY DEF Types, CallsType
  <1>i. CodeInv /\ UNCHANGED <<pairings, issued, granted>> /\ calls' \subseteq calls => CodeInv'
    BY DEF CodeInv, CodesApart, ClaimsApart, GrantsApart, CodeBuysOneToken, Claimed
  <1>1. ASSUME NEW k \in calls, Handled(k) \/ Answer(k)
        PROVE  CodeInv'
    <2>1. CASE Claim(k)
      BY <2>1, ClaimCode
    <2>2. CASE Lookup(k) \/ Fail(k)
      <3>1. \A i : [k EXCEPT !.pc = "rotate", !.device = i].shown = k.shown
        BY <1>0 DEF Requests
      <3>2. [k EXCEPT !.pc = "create"].shown = k.shown
            /\ [k EXCEPT !.pc = "failed"].pc = "failed"
        BY <1>0 DEF Requests
      <3>3. Claimed(k)
        BY <2>2 DEF Lookup, Fail, Claimed
      <3>4. UNCHANGED <<pairings, issued, granted>>
        BY <2>2 DEF Lookup, Fail
      <3>5. CASE \E i \in DOMAIN devices : Becomes(k, [k EXCEPT !.pc = "rotate", !.device = i])
        BY <3>1, <3>3, <3>4, <3>5, OneGoesOn
      <3>6. CASE Becomes(k, [k EXCEPT !.pc = "create"]) \/ Becomes(k, [k EXCEPT !.pc = "failed"])
        BY <3>2, <3>3, <3>4, <3>6, OneGoesOn DEF Claimed
      <3> QED
        BY <2>2, <3>5, <3>6 DEF Lookup, Fail
    <2>3. CASE Rotate(k) \/ CreateDevice(k)
      BY <2>3, GrantCode DEF Rotate, CreateDevice, Claimed
    <2>4. CASE Answer(k)
      BY <1>i, <2>4 DEF Answer, Console
    <2> QED
      BY <1>1, <2>1, <2>2, <2>3, <2>4 DEF Handled
  <1>2. ASSUME NEW c \in Consoles, StartPairing(c)
        PROVE  CodeInv'
    <2> DEFINE posed(x) == [from |-> c, code |-> x,
                            bearer |-> IF con[c].sends THEN con[c].memory ELSE NoToken,
                            live |-> TRUE, pc |-> "claim", shown |-> 0,
                            user |-> "nobody", device |-> 0, token |-> NoToken]
    <2>0. PICK x \in Codes : calls' = calls \cup {posed(x)}
      BY <1>2 DEF StartPairing
    <2>1. PICK next : calls' = calls \cup {next} /\ next.pc = "claim"
      <3>1. posed(x).pc = "claim"
        OBVIOUS
      <3> HIDE DEF posed
      <3> QED
        BY <2>0, <3>1
    <2> HIDE DEF posed
    <2>2. UNCHANGED <<pairings, issued, granted>>
      BY <1>2 DEF StartPairing, Console
    <2> QED
      BY <2>1, <2>2 DEF CodeInv, CodesApart, ClaimsApart, GrantsApart, CodeBuysOneToken, Claimed
  <1>3. ASSUME NEW c \in Consoles, GiveUp(c) \/ SwitchOff(c)
        PROVE  CodeInv'
    <2> DEFINE f == [k \in calls |-> IF k.from = c THEN [k EXCEPT !.live = FALSE] ELSE k]
    <2>1. \A k \in calls : f[k].pc = k.pc /\ f[k].shown = k.shown
      BY <1>0 DEF Requests
    <2>2. calls' = {f[k] : k \in calls}
      BY <1>3 DEF GiveUp, SwitchOff, Deaf
    <2> HIDE DEF f
    <2>3. UNCHANGED <<pairings, issued, granted>>
      BY <1>3 DEF GiveUp, SwitchOff, Console
    <2>4. \A k \in calls : Claimed(f[k]) => Claimed(k) /\ f[k].shown = k.shown
      BY <2>1 DEF Claimed
    <2> QED
      BY <2>2, <2>3, <2>4, CodesUntouched
  <1>4. CASE \/ \E c \in Consoles : Alone(c)
             \/ \E i \in DOMAIN devices : Revoke(i)
             \/ UNCHANGED vars
    BY <1>i, <1>4, AloneLeaves DEF Revoke, vars
  <1> QED
    BY <1>1, <1>2, <1>3, <1>4, NextCases, PanelCode

\* "An approved code can only be used once" (ClaimPairing), however many requests carry
\* it and however their statements interleave.
THEOREM CodeIsSpentOnce == Spec => []CodeBuysOneToken
  <1>1. Init => Types /\ CodeInv
    BY InitTypes, InitCode
  <1>2. Types /\ CodeInv /\ [Next]_vars => (Types /\ CodeInv)'
    BY NextTypes, NextCode
  <1>3. CodeInv => CodeBuysOneToken
    BY DEF CodeInv
  <1> QED
    BY <1>1, <1>2, <1>3, PTL DEF Spec

-----------------------------------------------------------------------------
(***************************************************************************)
(* Where a token is.  A console waits for one answer at most, so only one  *)
(* token at a time is on its way to it.                                    *)
(***************************************************************************)
Waited ==
    /\ \A k \in calls : k.live => con[k.from].pc = "pairing"
    /\ \A k \in calls, l \in calls : k.live /\ l.live /\ k.from = l.from => k = l

\* The settings of a console whose archive took all it was given: the token that was
\* reported is in it, or is the one about to be reported, and the card stays empty.
InArchive(s) ==
    /\ ~s.token_on_card /\ s.card = NoToken
    /\ s.told \in {NoToken, s.archive}
    /\ s.pc \in {"pairing", "secret"} => s.told = NoToken
    /\ s.pc = "config" => s.memory = s.archive
    /\ s.pc = "moving" => s.archive = NoToken

\* What a step of a console alone does with its tokens: it moves them between its places,
\* reports only the one in memory, and starts no pairing.
Shifts(s, n) ==
    /\ {n.memory, n.archive, n.card, n.told} \subseteq
         {s.memory, s.archive, s.card, s.told, NoToken}
    /\ s.pc # "pairing" /\ n.pc \notin {"pairing", "secret"}
    /\ n.told \in {s.told, NoToken} \/ (s.pc = "config" /\ n.told = s.memory)
    /\ n.pc = "config" => s.pc = "secret" /\ n.memory = s.memory

\* Written again, config.txt has no token that the archive took.
LEMMA RewrittenIs ==
    ASSUME NEW s \in Settings
    PROVE  /\ Rewritten(s) \in Settings
           /\ Rewritten(s).card \in {s.memory, NoToken}
           /\ ~s.token_on_card => Rewritten(s).card = NoToken
           /\ Rewritten(s).pc = s.pc /\ Rewritten(s).memory = s.memory
           /\ Rewritten(s).archive = s.archive /\ Rewritten(s).told = s.told
           /\ Rewritten(s).token_on_card = s.token_on_card
  BY RewrittenType DEF Rewritten, OnCard, Settings

\* Switched off, a console has what it wrote down.
LEMMA OffIs ==
    ASSUME NEW s \in Settings
    PROVE  /\ Off(s) \in Settings
           /\ Off(s).pc = "off" /\ Off(s).memory = NoToken /\ Off(s).archive = s.archive
           /\ Off(s).card = s.card /\ Off(s).told = s.told /\ ~Off(s).token_on_card
  BY OffType DEF Off, Settings

\* Every step of a console alone shifts tokens so; and as long as the archive takes what it
\* is given, what was in it before is in it after.
LEMMA AloneShifts ==
    ASSUME Types, refusals \in Nat, NEW c \in Consoles, Alone(c)
    PROVE  /\ \A d \in Consoles \ {c} : con'[d] = con[d]
           /\ Shifts(con[c], con'[c])
           /\ AutoPair = {} /\ refusals' = refusals /\ InArchive(con[c]) => InArchive(con'[c])
  <1>1. PICK s : s = con[c]
    OBVIOUS
  <1>2. PICK n : n = con'[c]
    OBVIOUS
  <1>3. s \in Settings /\ \A x : Console(c, x) => n = x /\ \A d \in Consoles \ {c} : con'[d] = con[d]
    BY <1>1, <1>2 DEF Types, ConsolesType, Console
  <1>4. PICK w : w = Rewritten(s)
    OBVIOUS
  <1>5. /\ w \in Settings /\ w.card \in {s.memory, NoToken}
        /\ ~s.token_on_card => w.card = NoToken
        /\ w.pc = s.pc /\ w.memory = s.memory /\ w.archive = s.archive /\ w.told = s.told
        /\ w.token_on_card = s.token_on_card
    BY <1>3, <1>4, RewrittenIs
  <1> DEFINE Goal == /\ \A d \in Consoles \ {c} : con'[d] = con[d]
                     /\ Shifts(s, n)
                     /\ AutoPair = {} /\ refusals' = refusals /\ InArchive(s) => InArchive(n)
  <1>6. ASSUME SaveSecret(c) PROVE Goal
    <2>1. /\ s.pc = "secret" /\ n.pc = "config" /\ n.memory = s.memory /\ n.card = s.card
          /\ n.told = s.told /\ \A d \in Consoles \ {c} : con'[d] = con[d]
          /\ \/ n.archive = s.memory /\ ~n.token_on_card
             \/ n.archive = s.archive /\ refusals' = refusals + 1
      <3>1. s.pc = "secret" /\ \A d \in Consoles \ {c} : con'[d] = con[d]
        BY <1>1, <1>3, <1>6 DEF SaveSecret
      <3>2. \/ n = [s EXCEPT !.pc = "config", !.archive = s.memory, !.token_on_card = FALSE]
            \/ refusals' = refusals + 1 /\ n = [s EXCEPT !.pc = "config", !.token_on_card = TRUE]
        BY <1>1, <1>3, <1>6 DEF SaveSecret, Refused
      <3> QED
        BY <1>3, <3>1, <3>2 DEF Settings
    <2> QED
      BY <2>1 DEF Shifts, InArchive
  <1>7. ASSUME SaveConfig(c) PROVE Goal
    <2>1. PICK t : t = [w EXCEPT !.pc = "on", !.told = s.memory]
      OBVIOUS
    <2>2. /\ t \in Settings /\ t.pc = "on" /\ t.told = s.memory /\ t.memory = s.memory
          /\ t.archive = s.archive /\ t.card = w.card /\ t.token_on_card = s.token_on_card
      BY <1>3, <1>5, <2>1 DEF Settings
    <2>3. s.pc = "config" /\ Console(c, IF Unattended(c) THEN Off(t) ELSE t)
      BY <1>1, <1>4, <1>7, <2>1 DEF SaveConfig
    <2>4. (n = Off(t) \/ (~Unattended(c) /\ n = t)) /\ \A d \in Consoles \ {c} : con'[d] = con[d]
      BY <1>3, <2>3
    <2>5. /\ n.pc \in {"on", "off"} /\ n.memory \in {s.memory, NoToken}
          /\ n.archive = s.archive /\ n.card = w.card /\ n.told = s.memory
          /\ n.token_on_card => s.token_on_card
      BY <2>2, <2>4, OffIs
    <2> QED
      BY <1>5, <2>3, <2>4, <2>5 DEF Shifts, InArchive
  <1>8. ASSUME LeaveWelcome(c) \/ LeaveSettings(c) PROVE Goal
    <2>1. /\ s.pc = "on" /\ n.pc \in {"welcome", "saving"} /\ n.memory = s.memory
          /\ n.archive = s.archive /\ n.card = s.card /\ n.told = s.told
          /\ n.token_on_card = s.token_on_card /\ \A d \in Consoles \ {c} : con'[d] = con[d]
      <3>1. CASE Console(c, [con[c] EXCEPT !.pc = "welcome"])
        BY <1>1, <1>3, <1>8, <3>1 DEF LeaveWelcome, LeaveSettings, Settings
      <3>2. CASE Console(c, [con[c] EXCEPT !.pc = "saving"])
        BY <1>1, <1>3, <1>8, <3>2 DEF LeaveWelcome, LeaveSettings, Settings
      <3> QED
        BY <1>8, <3>1, <3>2 DEF LeaveWelcome, LeaveSettings
    <2> QED
      BY <2>1 DEF Shifts, InArchive
  <1>9. ASSUME SaveWelcome(c) \/ Strike(c) PROVE Goal
    <2>1. s.pc \in {"welcome", "strike"} /\ Console(c, [w EXCEPT !.pc = "on"])
      BY <1>1, <1>4, <1>9 DEF SaveWelcome, Strike
    <2>2. /\ n.pc = "on" /\ n.memory = s.memory /\ n.archive = s.archive /\ n.card = w.card
          /\ n.told = s.told /\ n.token_on_card = s.token_on_card
          /\ \A d \in Consoles \ {c} : con'[d] = con[d]
      BY <1>3, <1>5, <2>1 DEF Settings
    <2> QED
      BY <1>5, <2>1, <2>2 DEF Shifts, InArchive
  <1>10. ASSUME Unpair(c) PROVE Goal
    <2>1. PICK b : b = [s EXCEPT !.pc = "saving", !.memory = NoToken, !.sends = FALSE,
                                 !.told = NoToken]
      OBVIOUS
    <2>2. /\ b \in Settings /\ b.pc = "saving" /\ b.memory = NoToken /\ b.told = NoToken
          /\ b.archive = s.archive /\ b.card = s.card
      BY <1>3, <2>1 DEF Settings, NoToken
    <2>3. /\ s.pc = "on"
          /\ \/ Console(c, [b EXCEPT !.archive = NoToken, !.token_on_card = FALSE])
             \/ Refused /\ Console(c, [b EXCEPT !.token_on_card = TRUE])
      BY <1>1, <1>10, <2>1 DEF Unpair
    <2>4. /\ n.pc = "saving" /\ n.memory = NoToken /\ n.told = NoToken /\ n.card = s.card
          /\ \A d \in Consoles \ {c} : con'[d] = con[d]
          /\ \/ n.archive = NoToken /\ ~n.token_on_card
             \/ n.archive = s.archive /\ refusals' = refusals + 1
      <3>1. /\ \A d \in Consoles \ {c} : con'[d] = con[d]
            /\ \/ n = [b EXCEPT !.archive = NoToken, !.token_on_card = FALSE]
               \/ refusals' = refusals + 1 /\ n = [b EXCEPT !.token_on_card = TRUE]
        BY <1>3, <2>3 DEF Refused
      <3> QED
        BY <2>2, <3>1 DEF Settings
    <2> QED
      BY <2>3, <2>4 DEF Shifts, InArchive
  <1>11. ASSUME SaveSettings(c) PROVE Goal
    <2>1. PICK t : t = [w EXCEPT !.sends = con[c].memory # NoToken]
      OBVIOUS
    <2>2. /\ t \in Settings /\ t.memory = s.memory /\ t.archive = s.archive /\ t.card = w.card
          /\ t.told = s.told /\ t.token_on_card = s.token_on_card
      BY <1>5, <2>1 DEF Settings
    <2>3. /\ s.pc = "saving"
          /\ Console(c, IF t.archive # NoToken
                        THEN [t EXCEPT !.pc = "on", !.memory = t.archive]
                        ELSE [t EXCEPT !.pc = IF t.memory = NoToken THEN "on" ELSE "moving"])
      BY <1>1, <1>4, <1>11, <2>1 DEF SaveSettings
    <2>4. /\ n.archive = s.archive /\ n.card = w.card /\ n.told = s.told
          /\ n.token_on_card = s.token_on_card /\ \A d \in Consoles \ {c} : con'[d] = con[d]
          /\ \/ n.pc = "on" /\ n.memory \in {s.memory, s.archive}
             \/ n.pc = "moving" /\ n.memory = s.memory /\ s.archive = NoToken
      <3>1. \A d \in Consoles \ {c} : con'[d] = con[d]
        BY <1>3, <2>3
      <3>2. CASE t.archive # NoToken
        <4>1. n = [t EXCEPT !.pc = "on", !.memory = t.archive]
          BY <1>3, <2>3, <3>2
        <4> QED
          BY <2>2, <3>1, <4>1 DEF Settings
      <3>3. CASE t.archive = NoToken
        <4>1. n = [t EXCEPT !.pc = IF t.memory = NoToken THEN "on" ELSE "moving"]
          BY <1>3, <2>3, <3>3
        <4> QED
          BY <2>2, <3>1, <3>3, <4>1 DEF Settings
      <3> QED
        BY <3>2, <3>3
    <2> QED
      BY <1>5, <2>3, <2>4 DEF Shifts, InArchive
  <1>12. ASSUME Migrate(c) PROVE Goal
    <2>1. /\ s.pc = "moving" /\ n.pc \in {"strike", "on"} /\ n.memory = s.memory
          /\ n.card = s.card /\ n.told = s.told
          /\ \A d \in Consoles \ {c} : con'[d] = con[d]
          /\ \/ n.archive = s.memory /\ ~n.token_on_card
             \/ n.archive = s.archive /\ refusals' = refusals + 1
      <3>1. s.pc = "moving" /\ \A d \in Consoles \ {c} : con'[d] = con[d]
        BY <1>1, <1>3, <1>12 DEF Migrate
      <3>2. \/ n = [s EXCEPT !.pc = "strike", !.archive = s.memory, !.token_on_card = FALSE]
            \/ refusals' = refusals + 1 /\ n = [s EXCEPT !.pc = "on", !.token_on_card = TRUE]
        BY <1>1, <1>3, <1>12 DEF Migrate, Refused
      <3> QED
        BY <1>3, <3>1, <3>2 DEF Settings
    <2> QED
      BY <2>1 DEF Shifts, InArchive
  <1>13. ASSUME CutWhileSaving(c) PROVE Goal
    <2>1. /\ s.pc \in {"config", "welcome", "saving", "strike"}
          /\ Console(c, [Off(s) EXCEPT !.card = NoToken])
      BY <1>1, <1>13 DEF CutWhileSaving
    <2>2. /\ n.pc = "off" /\ n.memory = NoToken /\ n.archive = s.archive /\ n.card = NoToken
          /\ n.told = s.told /\ ~n.token_on_card /\ \A d \in Consoles \ {c} : con'[d] = con[d]
      BY <1>3, <2>1, OffIs DEF Settings
    <2> QED
      BY <2>1, <2>2 DEF Shifts, InArchive
  <1>14. ASSUME Start(c) PROVE Goal
    <2>1. /\ s.pc = "off" /\ n.pc = "on" /\ n.memory = s.card /\ n.archive = s.archive
          /\ n.card = s.card /\ n.told = s.told /\ n.token_on_card = s.token_on_card
          /\ \A d \in Consoles \ {c} : con'[d] = con[d]
      <3>1. /\ s.pc = "off" /\ \A d \in Consoles \ {c} : con'[d] = con[d]
            /\ n = [s EXCEPT !.pc = "on", !.memory = s.card, !.sends = s.card # NoToken]
        BY <1>1, <1>3, <1>14 DEF Start
      <3> QED
        BY <1>3, <3>1 DEF Settings
    <2> QED
      BY <2>1 DEF Shifts, InArchive
  <1> QED
    BY <1>1, <1>2, <1>6, <1>7, <1>8, <1>9, <1>10, <1>11, <1>12, <1>13, <1>14 DEF Alone

\* What a console with a request under way keeps: all but, in the end, its memory.
LEMMA AskShifts ==
    ASSUME Types, NEW c \in Consoles, StartPairing(c)
    PROVE  /\ \A d \in Consoles \ {c} : con'[d] = con[d]
           /\ con[c].pc = "on" /\ con'[c].pc = "pairing" /\ con'[c].told = NoToken
           /\ con'[c].memory = con[c].memory /\ con'[c].archive = con[c].archive
           /\ con'[c].card = con[c].card /\ con'[c].token_on_card = con[c].token_on_card
           /\ \E q : /\ calls' = calls \cup {q} /\ q.from = c /\ q.live /\ q.pc = "claim"
                     /\ q.bearer \in {con[c].memory, NoToken} /\ q.token = NoToken
  <1>1. /\ con[c] \in Settings /\ con[c].pc = "on"
        /\ con' = [con EXCEPT ![c] = [con[c] EXCEPT !.pc = "pairing", !.told = NoToken]]
    BY DEF Types, ConsolesType, StartPairing, Console
  <1>2. PICK q : /\ calls' = calls \cup {q}
                 /\ \E x \in Codes :
                      q = [from |-> c, code |-> x,
                           bearer |-> IF con[c].sends THEN con[c].memory ELSE NoToken,
                           live |-> TRUE, pc |-> "claim", shown |-> 0,
                           user |-> "nobody", device |-> 0, token |-> NoToken]
    BY DEF StartPairing
  <1>3. /\ q.from = c /\ q.live /\ q.pc = "claim" /\ q.token = NoToken
        /\ q.bearer \in {con[c].memory, NoToken}
    BY <1>2
  <1> QED
    BY <1>1, <1>2, <1>3 DEF Types, ConsolesType, Settings

\* What the answer of pairDevice changes, for the console that still waits for it.
LEMMA AnswerShifts ==
    ASSUME Types, NEW k \in calls, Answer(k)
    PROVE  /\ calls' = calls \ {k} /\ k.from \in Consoles
           /\ \A d \in Consoles \ {k.from} : con'[d] = con[d]
           /\ ~k.live => con' = con
           /\ con'[k.from].archive = con[k.from].archive
           /\ con'[k.from].card = con[k.from].card /\ con'[k.from].told = con[k.from].told
           /\ con'[k.from].token_on_card => con[k.from].token_on_card
           /\ k.live /\ k.pc = "failed" =>
                /\ con'[k.from].pc \in {"on", "off"}
                /\ con'[k.from].memory \in {con[k.from].memory, NoToken}
           /\ k.live /\ k.pc # "failed" =>
                /\ k.pc = "granted" /\ con'[k.from].memory = k.token
                /\ con'[k.from].pc = IF Unattended(k.from) THEN "config" ELSE "secret"
  <1>1. PICK c \in Consoles : c = k.from
    BY DEF Types, CallsType, Requests
  <1>2. PICK s \in Settings : s = con[c]
    BY DEF Types, ConsolesType
  <1>3. PICK n : n = con'[c]
    OBVIOUS
  <1>4. con \in [Consoles -> Settings] /\ calls' = calls \ {k} /\ k.pc \in {"granted", "failed"}
    BY DEF Types, ConsolesType, Answer
  <1>5. CASE ~k.live
    <2>1. con' = [con EXCEPT ![c] = con[c]]
      BY <1>1, <1>5 DEF Answer, Console
    <2>2. con' = con
      BY <1>4, <2>1
    <2> QED
      BY <1>1, <1>4, <1>5, <2>2
  <1>6. CASE k.live /\ k.pc = "failed"
    <2>1. n = Off(s) \/ n = [s EXCEPT !.pc = "on"]
      BY <1>1, <1>2, <1>3, <1>4, <1>6 DEF Answer, Console
    <2>2. \A d \in Consoles \ {c} : con'[d] = con[d]
      BY <1>1, <1>4, <1>6 DEF Answer, Console
    <2>3. /\ n.pc \in {"on", "off"} /\ n.memory \in {s.memory, NoToken}
          /\ n.archive = s.archive /\ n.card = s.card /\ n.told = s.told
          /\ n.token_on_card => s.token_on_card
      BY <2>1, OffIs DEF Settings
    <2> QED
      BY <1>1, <1>2, <1>3, <1>4, <1>6, <2>2, <2>3
  <1>7. CASE k.live /\ k.pc # "failed"
    <2>1. n = [s EXCEPT !.pc = IF Unattended(c) THEN "config" ELSE "secret",
                        !.memory = k.token, !.sends = TRUE]
      BY <1>1, <1>2, <1>3, <1>4, <1>7 DEF Answer, Console
    <2>2. \A d \in Consoles \ {c} : con'[d] = con[d]
      BY <1>1, <1>4, <1>7 DEF Answer, Console
    <2>3. /\ n.pc = IF Unattended(c) THEN "config" ELSE "secret"
          /\ n.memory = k.token /\ n.archive = s.archive /\ n.card = s.card
          /\ n.told = s.told /\ n.token_on_card = s.token_on_card
      BY <2>1 DEF Settings
    <2> QED
      BY <1>1, <1>2, <1>3, <1>4, <1>7, <2>2, <2>3
  <1> QED
    BY <1>5, <1>6, <1>7

\* A console that stops waiting forgets what it had not written down.
LEMMA LeaveShifts ==
    ASSUME Types, NEW c \in Consoles, GiveUp(c) \/ SwitchOff(c)
    PROVE  /\ \A d \in Consoles \ {c} : con'[d] = con[d]
           /\ con'[c].pc \in {"on", "off"} /\ con'[c].memory \in {con[c].memory, NoToken}
           /\ con'[c].archive = con[c].archive /\ con'[c].card = con[c].card
           /\ con'[c].told = con[c].told
           /\ con'[c].token_on_card => con[c].token_on_card
           /\ con[c].pc = "pairing" => lost' = lost + 1
           /\ con[c].pc # "pairing" => lost' = lost
  <1>1. con[c] \in Settings
    BY DEF Types, ConsolesType
  <1>2. /\ \/ con' = [con EXCEPT ![c] = Off(con[c])]
           \/ con' = [con EXCEPT ![c] = [con[c] EXCEPT !.pc = "on"]]
        /\ con[c].pc = "pairing" => lost' = lost + 1
        /\ con[c].pc # "pairing" => lost' = lost
    BY DEF GiveUp, SwitchOff, Console
  <1>3. con'[c] = Off(con[c]) \/ con'[c] = [con[c] EXCEPT !.pc = "on"]
    BY <1>2 DEF Types, ConsolesType
  <1>4. \A d \in Consoles \ {c} : con'[d] = con[d]
    BY <1>2 DEF Types, ConsolesType
  <1> QED
    BY <1>1, <1>2, <1>3, <1>4, OffIs DEF Settings

\* What a handler's step makes of its request.
LEMMA HandledBecomes ==
    ASSUME Types, NEW k \in calls, Handled(k)
    PROVE  /\ UNCHANGED <<con, lost, refusals>>
           /\ \E next : /\ Becomes(k, next)
                        /\ next.from = k.from /\ next.live = k.live /\ next.bearer = k.bearer
                        /\ \/ /\ next.token = k.token /\ next.pc # "granted"
                              /\ minted' = minted
                              /\ next.pc = "rotate" =>
                                   /\ devices' = devices /\ next.device \in DOMAIN devices
                                   /\ ProvesToBe(k, devices[next.device])
                           \/ /\ next.token = minted + 1 /\ next.pc = "granted"
                              /\ minted' = minted + 1
                              /\ Rotate(k) \/ CreateDevice(k)
  <1>1. UNCHANGED <<con, lost, refusals>>
    BY DEF Handled, Claim, Lookup, Rotate, CreateDevice, Fail
  <1>2. PICK r \in Requests : r = k
    BY DEF Types, CallsType
  <1> DEFINE Made(next) ==
        /\ Becomes(k, next)
        /\ next.from = k.from /\ next.live = k.live /\ next.bearer = k.bearer
        /\ \/ /\ next.token = k.token /\ next.pc # "granted" /\ minted' = minted
              /\ next.pc = "rotate" => /\ devices' = devices
                                       /\ next.device \in DOMAIN devices
                                       /\ ProvesToBe(k, devices[next.device])
           \/ /\ next.token = minted + 1 /\ next.pc = "granted" /\ minted' = minted + 1
              /\ Rotate(k) \/ CreateDevice(k)
  <1>3. CASE Becomes(k, [k EXCEPT !.pc = "create"]) /\ minted' = minted
    <2>1. PICK n : n = [r EXCEPT !.pc = "create"]
      OBVIOUS
    <2>2. /\ n.from = r.from /\ n.live = r.live /\ n.bearer = r.bearer /\ n.token = r.token
          /\ n.pc = "create"
      BY <2>1 DEF Requests
    <2>3. Made(n)
      BY <1>2, <1>3, <2>1, <2>2
    <2> QED
      BY <1>1, <2>3
  <1>4. CASE Becomes(k, [k EXCEPT !.pc = "failed"]) /\ minted' = minted
    <2>1. PICK n : n = [r EXCEPT !.pc = "failed"]
      OBVIOUS
    <2>2. /\ n.from = r.from /\ n.live = r.live /\ n.bearer = r.bearer /\ n.token = r.token
          /\ n.pc = "failed"
      BY <2>1 DEF Requests
    <2>3. Made(n)
      BY <1>2, <1>4, <2>1, <2>2
    <2> QED
      BY <1>1, <2>3
  <1>5. CASE Claim(k)
    <2>1. CASE Claimable(k.code)
      <3>1. PICK n : n = [r EXCEPT !.pc = "lookup", !.user = pairings[k.code].user,
                                   !.shown = pairings[k.code].shown]
        OBVIOUS
      <3>2. /\ n.from = r.from /\ n.live = r.live /\ n.bearer = r.bearer /\ n.token = r.token
            /\ n.pc = "lookup"
        BY <3>1 DEF Requests
      <3>3. Becomes(k, n) /\ minted' = minted
        BY <1>2, <1>5, <2>1, <3>1 DEF Claim
      <3>4. Made(n)
        BY <1>2, <3>2, <3>3
      <3> QED
        BY <1>1, <3>4
    <2>2. CASE ~Claimable(k.code)
      BY <1>4, <1>5, <2>2 DEF Claim
    <2> QED
      BY <2>1, <2>2
  <1>6. CASE Lookup(k)
    <2>1. CASE \E i \in DOMAIN devices :
                 ProvesToBe(k, devices[i]) /\ Becomes(k, [k EXCEPT !.pc = "rotate", !.device = i])
      <3>1. PICK i \in DOMAIN devices :
                 ProvesToBe(k, devices[i]) /\ Becomes(k, [k EXCEPT !.pc = "rotate", !.device = i])
        BY <2>1
      <3>2. PICK n : n = [r EXCEPT !.pc = "rotate", !.device = i]
        OBVIOUS
      <3>3. /\ n.from = r.from /\ n.live = r.live /\ n.bearer = r.bearer /\ n.token = r.token
            /\ n.pc = "rotate" /\ n.device = i
        BY <3>2 DEF Requests
      <3>4. Becomes(k, n) /\ minted' = minted /\ devices' = devices
        BY <1>2, <1>6, <3>1, <3>2 DEF Lookup
      <3>5. Made(n)
        BY <1>2, <3>1, <3>3, <3>4
      <3> QED
        BY <1>1, <3>5
    <2>2. minted' = minted
      BY <1>6 DEF Lookup
    <2>3. CASE Becomes(k, [k EXCEPT !.pc = "create"])
      BY <1>3, <2>2, <2>3
    <2> QED
      BY <1>6, <2>1, <2>3 DEF Lookup
  <1>7. CASE Rotate(k) \/ CreateDevice(k)
    <2>1. PICK n : n = [r EXCEPT !.pc = "granted", !.token = minted + 1]
      OBVIOUS
    <2>2. /\ n.from = r.from /\ n.live = r.live /\ n.bearer = r.bearer
          /\ n.token = minted + 1 /\ n.pc = "granted"
      BY <2>1 DEF Requests
    <2>3. Becomes(k, n) /\ minted' = minted + 1
      BY <1>2, <1>7, <2>1 DEF Rotate, CreateDevice, Grant
    <2>4. Made(n)
      BY <1>2, <1>7, <2>2, <2>3
    <2> QED
      BY <1>1, <2>4
  <1>8. CASE Fail(k)
    BY <1>4, <1>8 DEF Fail
  <1> QED
    BY <1>5, <1>6, <1>7, <1>8 DEF Handled

\* Requests that go on, and whose consoles stay where they were as long as they wait.
LEMMA WaitedStays ==
    ASSUME Waited, NEW f, calls' \subseteq {f[k] : k \in calls},
           \A k \in calls : f[k].from = k.from /\ (f[k].live => k.live),
           \A k \in calls' : k.live /\ con[k.from].pc = "pairing" => con'[k.from].pc = "pairing"
    PROVE  Waited'
  <1>1. ASSUME NEW k \in calls', k.live
        PROVE  \E o \in calls : k = f[o] /\ o.live /\ o.from = k.from
    BY <1>1
  <1>2. \A k \in calls' : k.live => con'[k.from].pc = "pairing"
    BY <1>1 DEF Waited
  <1>3. \A k \in calls', l \in calls' : k.live /\ l.live /\ k.from = l.from => k = l
    BY <1>1 DEF Waited
  <1> QED
    BY <1>2, <1>3 DEF Waited

\* Every step keeps it: a console that asks waits for nothing yet, and one that stops
\* waiting is not heard of again.
LEMMA NextWaited ==
    ASSUME Types, refusals \in Nat, Waited, [Next]_vars
    PROVE  Waited'
  <1>0. calls \subseteq Requests /\ con \in [Consoles -> Settings]
    BY DEF Types, CallsType, ConsolesType
  <1>1. CASE \E k \in calls : Handled(k)
    <2>1. PICK k \in calls : Handled(k)
      BY <1>1
    <2>2. PICK next : /\ calls' = (calls \ {k}) \cup {next} /\ con' = con
                      /\ next.from = k.from /\ next.live = k.live
      BY <2>1, HandledBecomes DEF Becomes
    <2>3. PICK f : f = [l \in calls |-> IF l = k THEN next ELSE l]
      OBVIOUS
    <2>4. calls' \subseteq {f[l] : l \in calls}
      BY <2>2, <2>3
    <2>5. \A l \in calls : f[l].from = l.from /\ (f[l].live => l.live)
      BY <2>2, <2>3
    <2> QED
      BY <2>2, <2>4, <2>5, WaitedStays
  <1>2. CASE \E k \in calls : Answer(k)
    <2>1. PICK k \in calls : Answer(k)
      BY <1>2
    <2>2. /\ calls' = calls \ {k} /\ k.from \in Consoles
          /\ \A d \in Consoles \ {k.from} : con'[d] = con[d]
          /\ ~k.live => con' = con
      BY <2>1, AnswerShifts
    <2>3. ASSUME NEW l \in calls', l.live
          PROVE  con'[l.from] = con[l.from]
      <3>1. l \in calls /\ l # k /\ l.from \in Consoles
        BY <1>0, <2>2 DEF Requests
      <3>2. k.live => l.from # k.from
        BY <2>3, <3>1 DEF Waited
      <3> QED
        BY <2>2, <3>1, <3>2
    <2> QED
      BY <2>2, <2>3 DEF Waited
  <1>3. CASE \E c \in Consoles : StartPairing(c)
    <2>1. PICK c \in Consoles : StartPairing(c)
      BY <1>3
    <2>2. /\ \A d \in Consoles \ {c} : con'[d] = con[d]
          /\ con[c].pc = "on" /\ con'[c].pc = "pairing"
      BY <2>1, AskShifts
    <2>3. PICK q : calls' = calls \cup {q} /\ q.from = c
      BY <2>1, AskShifts
    <2>4. ASSUME NEW l \in calls, l.live
          PROVE  l.from \in Consoles /\ l.from # c
      BY <1>0, <2>2, <2>4 DEF Waited, Requests
    <2>5. \A l \in calls' : l.live => con'[l.from].pc = "pairing"
      BY <2>2, <2>3, <2>4 DEF Waited
    <2>6. \A k \in calls', l \in calls' : k.live /\ l.live /\ k.from = l.from => k = l
      BY <2>3, <2>4 DEF Waited
    <2> QED
      BY <2>5, <2>6 DEF Waited
  <1>4. CASE \E c \in Consoles : GiveUp(c) \/ SwitchOff(c)
    <2>1. PICK c \in Consoles : GiveUp(c) \/ SwitchOff(c)
      BY <1>4
    <2>2. \A d \in Consoles \ {c} : con'[d] = con[d]
      BY <2>1, LeaveShifts
    <2>3. PICK f : f = [l \in calls |-> IF l.from = c THEN [l EXCEPT !.live = FALSE] ELSE l]
      OBVIOUS
    <2>4. calls' = {f[l] : l \in calls}
      BY <2>1, <2>3 DEF GiveUp, SwitchOff, Deaf
    <2>5. \A l \in calls : /\ f[l].from = l.from /\ l.from \in Consoles
                           /\ f[l].live => l.live /\ l.from # c
      BY <1>0, <2>3 DEF Requests
    <2>6. \A l \in calls' : l.live => con'[l.from] = con[l.from]
      BY <2>2, <2>4, <2>5
    <2> QED
      BY <2>4, <2>5, <2>6, WaitedStays
  <1>5. CASE \E c \in Consoles : Alone(c)
    <2>1. PICK c \in Consoles : Alone(c)
      BY <1>5
    <2>2. /\ \A d \in Consoles \ {c} : con'[d] = con[d]
          /\ con[c].pc # "pairing" /\ calls' = calls
      BY <2>1, AloneShifts, AloneLeaves DEF Shifts
    <2>3. \A l \in calls : l.live => l.from \in Consoles \ {c}
      BY <1>0, <2>2 DEF Waited, Requests
    <2> QED
      BY <2>2, <2>3 DEF Waited
  <1>6. CASE \/ \E u \in People : IssueCode(u)
             \/ \E x \in Codes : Expire(x)
             \/ \E i \in DOMAIN devices : Revoke(i)
             \/ UNCHANGED vars
    BY <1>6 DEF IssueCode, Expire, Revoke, vars, Waited
  <1> QED
    BY <1>1, <1>2, <1>3, <1>4, <1>5, <1>6, NextCases

\* What was refused stays refused, and what was not heard stays unheard.
LEMMA Counted ==
    ASSUME Types, refusals \in Nat, lost \in Nat, [Next]_vars
    PROVE  refusals' \in {refusals, refusals + 1} /\ lost' \in {lost, lost + 1}
  <1>1. CASE \E c \in Consoles : Alone(c)
    BY <1>1 DEF Alone, SaveSecret, SaveConfig, LeaveWelcome, SaveWelcome, Unpair,
                LeaveSettings, SaveSettings, Migrate, Strike, CutWhileSaving, Start, Refused
  <1>2. CASE \E c \in Consoles : StartPairing(c) \/ GiveUp(c) \/ SwitchOff(c)
    BY <1>2 DEF StartPairing, GiveUp, SwitchOff
  <1>3. CASE \E k \in calls : Handled(k) \/ Answer(k)
    BY <1>3, HandledBecomes DEF Answer
  <1>4. CASE \/ \E u \in People : IssueCode(u)
             \/ \E x \in Codes : Expire(x)
             \/ \E i \in DOMAIN devices : Revoke(i)
             \/ UNCHANGED vars
    BY <1>4 DEF IssueCode, Expire, Revoke, vars
  <1> QED
    BY <1>1, <1>2, <1>3, <1>4, NextCases

HomeInv ==
    /\ Types /\ refusals \in Nat /\ lost \in Nat
    /\ Waited
    /\ \A c \in Consoles : ArchiveWorks(c) => InArchive(con[c])

\* Consoles start switched off, those of an earlier build with a token on the card.
LEMMA InitHome == Init => HomeInv
  <1> SUFFICES ASSUME Init PROVE HomeInv
    OBVIOUS
  <1>1. PICK had : con = [c \in Consoles |->
                     LET t == IF c \in PairedBefore THEN had[c] ELSE NoToken
                     IN [pc |-> "off", memory |-> NoToken, sends |-> FALSE,
                         archive |-> NoToken, card |-> t, token_on_card |-> FALSE,
                         told |-> t]]
    BY DEF Init
  <1>2. \A c \in Consoles : c \notin PairedBefore => InArchive(con[c])
    BY <1>1 DEF InArchive
  <1> QED
    BY <1>2, InitTypes DEF Init, HomeInv, Waited, ArchiveWorks

\* Every step keeps a reported token in the archive that took it.
LEMMA NextHome == AutoPair = {} /\ HomeInv /\ [Next]_vars => HomeInv'
  <1> SUFFICES ASSUME AutoPair = {}, HomeInv, [Next]_vars PROVE HomeInv'
    OBVIOUS
  <1>0. Types /\ refusals \in Nat /\ lost \in Nat /\ Waited
    BY DEF HomeInv
  <1>1. Types' /\ Waited' /\ refusals' \in {refusals, refusals + 1} /\ lost' \in {lost, lost + 1}
    BY <1>0, NextTypes, NextWaited, Counted
  <1>2. ASSUME NEW c \in Consoles, ArchiveWorks(c)'
        PROVE  InArchive(con[c])'
    <2>0. InArchive(con[c]) /\ refusals' = refusals
      BY <1>0, <1>1, <1>2 DEF HomeInv, ArchiveWorks
    <2>i. con'[c] = con[c] => InArchive(con[c])'
      BY <2>0 DEF InArchive
    <2>1. CASE \E k \in calls : Handled(k)
      BY <1>0, <2>1, <2>i, HandledBecomes
    <2>2. CASE \E k \in calls : Answer(k)
      <3>1. PICK k \in calls : Answer(k)
        BY <2>2
      <3>2. CASE c # k.from \/ ~k.live
        BY <1>0, <2>i, <3>1, <3>2, AnswerShifts
      <3>3. CASE c = k.from /\ k.live
        <4>1. con[c].pc = "pairing"
          BY <1>0, <3>3 DEF Waited
        <4>2. /\ con'[c].archive = con[c].archive /\ con'[c].card = con[c].card
              /\ con'[c].told = con[c].told
              /\ con'[c].token_on_card => con[c].token_on_card
              /\ con'[c].pc \in {"on", "off", "secret"}
          BY <1>0, <3>1, <3>3, AnswerShifts DEF Unattended
        <4> QED
          BY <2>0, <4>1, <4>2 DEF InArchive
      <3> QED
        BY <3>2, <3>3
    <2>3. CASE \E d \in Consoles : StartPairing(d)
      <3>1. PICK d \in Consoles : StartPairing(d)
        BY <2>3
      <3>2. CASE c # d
        BY <1>0, <2>i, <3>1, <3>2, AskShifts
      <3>3. CASE c = d
        BY <1>0, <2>0, <3>1, <3>3, AskShifts DEF InArchive
      <3> QED
        BY <3>2, <3>3
    <2>4. CASE \E d \in Consoles : GiveUp(d) \/ SwitchOff(d)
      <3>1. PICK d \in Consoles : GiveUp(d) \/ SwitchOff(d)
        BY <2>4
      <3>2. CASE c # d
        BY <1>0, <2>i, <3>1, <3>2, LeaveShifts
      <3>3. CASE c = d
        <4>1. /\ con'[c].pc \in {"on", "off"} /\ con'[c].archive = con[c].archive
              /\ con'[c].card = con[c].card /\ con'[c].told = con[c].told
              /\ con'[c].token_on_card => con[c].token_on_card
          BY <1>0, <3>1, <3>3, LeaveShifts
        <4> QED
          BY <2>0, <4>1 DEF InArchive
      <3> QED
        BY <3>2, <3>3
    <2>5. CASE \E d \in Consoles : Alone(d)
      BY <1>0, <2>0, <2>5, <2>i, AloneShifts
    <2>6. CASE \/ \E u \in People : IssueCode(u)
               \/ \E x \in Codes : Expire(x)
               \/ \E i \in DOMAIN devices : Revoke(i)
               \/ UNCHANGED vars
      BY <2>6, <2>i DEF IssueCode, Expire, Revoke, vars
    <2> QED
      BY <2>1, <2>2, <2>3, <2>4, <2>5, <2>6, NextCases
  <1> QED
    BY <1>0, <1>1, <1>2 DEF HomeInv

\* A token that the archive takes is in the archive and nowhere else from the moment the
\* console says "paired", whatever is switched off, cut or rewritten (finish_pairing,
\* action_settings).  A console that pairs by itself never writes the archive, so there
\* are none here.
THEOREM TokensHaveOneHome == AutoPair = {} => (Spec => []TokenHasOneHome)
  <1> SUFFICES ASSUME AutoPair = {} PROVE Spec => []TokenHasOneHome
    OBVIOUS
  <1>1. HomeInv /\ [Next]_vars => HomeInv'
    BY NextHome
  <1>2. HomeInv => TokenHasOneHome
    <2> SUFFICES ASSUME HomeInv, NEW c \in Consoles, ArchiveWorks(c)
                 PROVE  AtHome(c) /\ con[c].card = NoToken
      BY DEF TokenHasOneHome, TokenKept, OffTheCard
    <2>1. InArchive(con[c])
      BY DEF HomeInv
    <2> QED
      BY <2>1 DEF InArchive, AtHome
  <1> QED
    BY <1>1, <1>2, InitHome, PTL DEF Spec

-----------------------------------------------------------------------------
(***************************************************************************)
(* A reported token is known.  What could make the server forget it is a   *)
(* rotation, and a rotation takes away the token that was sent along with  *)
(* the code, which is nobody's but the console's that sent it.             *)
(***************************************************************************)

\* Token t is in a place of console c, or in a request of its.
Holds(c, t) ==
    \/ t \in {con[c].memory, con[c].archive, con[c].card, con[c].told}
    \/ \E k \in calls : k.from = c /\ t \in {k.bearer, k.token}

\* Tokens are minted, and no two consoles hold one.
OwnTokens ==
    /\ \A c \in Consoles : \A t : Holds(c, t) => t <= minted
    /\ \A c, d \in Consoles : \A t : Holds(c, t) /\ Holds(d, t) => c = d \/ t = NoToken

Known(t) == \E i \in DOMAIN devices : devices[i].token = t

\* What a request is about to rotate is the device its console was.
Rotates(k) ==
    k.pc = "rotate" =>
        /\ k.bearer # NoToken
        /\ k.device \in DOMAIN devices /\ devices[k.device].token = k.bearer

\* What a console with these settings was told, or is about to be, is known.
Knows(s) ==
    /\ s.pc \in {"pairing", "secret"} => s.told = NoToken
    /\ s.told # NoToken => Known(s.told)
    /\ s.pc \in {"secret", "config"} => Known(s.memory)

KnownInv ==
    /\ Types /\ refusals \in Nat /\ lost \in Nat
    /\ Waited
    /\ OwnTokens
    /\ lost = 0 =>
         /\ \A k \in calls : k.live /\ Rotates(k) /\ (k.pc = "granted" => Known(k.token))
         /\ \A c \in Consoles : Knows(con[c])

\* What a console or a request of its has is a token.
LEMMA HeldIsNat ==
    ASSUME Types, NEW c \in Consoles, NEW t, Holds(c, t)
    PROVE  t \in Nat
  <1>1. con[c] \in Settings /\ \A k \in calls : k \in Requests
    BY DEF Types, ConsolesType, CallsType
  <1> QED
    BY <1>1 DEF Holds, Settings, Requests

\* A token comes to a console it was not with in one way: it is minted for its request.
Passes(b) ==
    /\ minted' \in {minted, minted + 1}
    /\ \A c \in Consoles : \A t :
         Holds(c, t)' => \/ Holds(c, t) \/ t = NoToken
                         \/ c = b /\ t = minted + 1 /\ minted' = minted + 1

\* Where the settings of all consoles but one are left, and the requests are too or fewer,
\* the one console shifts its tokens.
LEMMA ShiftsPass ==
    ASSUME Types, NEW b \in Consoles, minted' = minted,
           \A d \in Consoles \ {b} : con'[d] = con[d],
           {con'[b].memory, con'[b].archive, con'[b].card, con'[b].told} \subseteq
             {t \in Nat : Holds(b, t) \/ t = NoToken},
           \A k \in calls' : \/ \E o \in calls : /\ k.from = o.from
                                                 /\ k.bearer = o.bearer /\ k.token = o.token
                             \/ /\ k.from = b /\ k.token = NoToken
                                /\ Holds(b, k.bearer) \/ k.bearer = NoToken
    PROVE  Passes(b)
  <1>1. ASSUME NEW c \in Consoles, NEW t, Holds(c, t)'
        PROVE  Holds(c, t) \/ t = NoToken
    <2>1. CASE t \in {con'[c].memory, con'[c].archive, con'[c].card, con'[c].told}
      <3>1. CASE c = b
        BY <2>1, <3>1
      <3>2. CASE c # b
        BY <2>1, <3>2 DEF Holds
      <3> QED
        BY <3>1, <3>2
    <2>2. CASE \E k \in calls' : k.from = c /\ t \in {k.bearer, k.token}
      <3>1. PICK k \in calls' : k.from = c /\ t \in {k.bearer, k.token}
        BY <2>2
      <3>2. CASE \E o \in calls : k.from = o.from /\ k.bearer = o.bearer /\ k.token = o.token
        BY <3>1, <3>2 DEF Holds
      <3>3. CASE k.from = b /\ k.token = NoToken /\ (Holds(b, k.bearer) \/ k.bearer = NoToken)
        BY <3>1, <3>3
      <3> QED
        BY <3>1, <3>2, <3>3
    <2> QED
      BY <1>1, <2>1, <2>2 DEF Holds
  <1> QED
    BY <1>1 DEF Passes

\* So every step passes tokens: a handler may mint one for its request, and the others
\* mint none.
LEMMA NextPasses ==
    ASSUME Types, refusals \in Nat, Waited, [Next]_vars
    PROVE  \E b : Passes(b)
  <1>0. calls \subseteq Requests /\ con \in [Consoles -> Settings]
    BY DEF Types, CallsType, ConsolesType
  <1>h. \A c \in Consoles : {con[c].memory, con[c].archive, con[c].card, con[c].told}
                               \subseteq {t \in Nat : Holds(c, t)}
    BY <1>0 DEF Holds, Settings
  <1>1. CASE \E k \in calls : Handled(k)
    <2>1. PICK k \in calls : Handled(k)
      BY <1>1
    <2>2. PICK next : /\ calls' = (calls \ {k}) \cup {next} /\ con' = con
                      /\ next.from = k.from /\ next.bearer = k.bearer
                      /\ \/ next.token = k.token /\ minted' = minted
                         \/ next.token = minted + 1 /\ minted' = minted + 1
      BY <2>1, HandledBecomes DEF Becomes
    <2>3. ASSUME NEW c \in Consoles, NEW t, Holds(c, t)'
          PROVE  \/ Holds(c, t) \/ t = NoToken
                 \/ c = k.from /\ t = minted + 1 /\ minted' = minted + 1
      <3>1. CASE t \in {con'[c].memory, con'[c].archive, con'[c].card, con'[c].told}
        BY <2>2, <3>1 DEF Holds
      <3>2. CASE \E l \in calls' : l.from = c /\ t \in {l.bearer, l.token}
        <4>1. PICK l \in calls' : l.from = c /\ t \in {l.bearer, l.token}
          BY <3>2
        <4>2. CASE l \in calls
          BY <4>1, <4>2 DEF Holds
        <4>3. CASE l = next
          BY <2>2, <4>1, <4>3 DEF Holds
        <4> QED
          BY <2>2, <4>2, <4>3
      <3> QED
        BY <2>3, <3>1, <3>2 DEF Holds
    <2>4. Passes(k.from)
      BY <2>2, <2>3 DEF Passes
    <2> QED
      BY <2>4
  <1>2. CASE \E k \in calls : Answer(k)
    <2>1. PICK k \in calls : Answer(k)
      BY <1>2
    <2>2. PICK c \in Consoles : c = k.from
      BY <1>0 DEF Requests
    <2>3. k.token \in Nat /\ Holds(c, k.token)
      BY <1>0, <2>2 DEF Holds, Requests
    <2>4. /\ \A d \in Consoles \ {c} : con'[d] = con[d]
          /\ calls' = calls \ {k}
          /\ con'[c].archive = con[c].archive /\ con'[c].card = con[c].card
          /\ con'[c].told = con[c].told
          /\ con'[c].memory \in {con[c].memory, k.token, NoToken}
      BY <2>1, <2>2, AnswerShifts
    <2>5. {con'[c].memory, con'[c].archive, con'[c].card, con'[c].told} \subseteq
             {t \in Nat : Holds(c, t) \/ t = NoToken}
      BY <1>h, <2>3, <2>4 DEF NoToken
    <2>6. minted' = minted
      BY <2>1 DEF Answer, Console
    <2> QED
      BY <2>4, <2>5, <2>6, ShiftsPass
  <1>3. CASE \E c \in Consoles : StartPairing(c)
    <2>1. PICK c \in Consoles : StartPairing(c)
      BY <1>3
    <2>2. /\ \A d \in Consoles \ {c} : con'[d] = con[d]
          /\ con'[c].told = NoToken
          /\ con'[c].memory = con[c].memory /\ con'[c].archive = con[c].archive
          /\ con'[c].card = con[c].card
      BY <2>1, AskShifts
    <2>3. PICK q : /\ calls' = calls \cup {q} /\ q.from = c
                   /\ q.bearer \in {con[c].memory, NoToken} /\ q.token = NoToken
      BY <2>1, AskShifts
    <2>4. {con'[c].memory, con'[c].archive, con'[c].card, con'[c].told} \subseteq
             {t \in Nat : Holds(c, t) \/ t = NoToken}
      BY <1>h, <2>2 DEF NoToken
    <2>5. minted' = minted
      BY <2>1 DEF StartPairing, Console
    <2>6. Holds(c, q.bearer) \/ q.bearer = NoToken
      BY <2>3 DEF Holds
    <2> QED
      BY <2>2, <2>3, <2>4, <2>5, <2>6, ShiftsPass
  <1>4. CASE \E c \in Consoles : GiveUp(c) \/ SwitchOff(c)
    <2>1. PICK c \in Consoles : GiveUp(c) \/ SwitchOff(c)
      BY <1>4
    <2>2. /\ \A d \in Consoles \ {c} : con'[d] = con[d]
          /\ con'[c].told = con[c].told
          /\ con'[c].memory \in {con[c].memory, NoToken} /\ con'[c].archive = con[c].archive
          /\ con'[c].card = con[c].card
      BY <2>1, LeaveShifts
    <2>3. {con'[c].memory, con'[c].archive, con'[c].card, con'[c].told} \subseteq
             {t \in Nat : Holds(c, t) \/ t = NoToken}
      BY <1>h, <2>2 DEF NoToken
    <2>4. minted' = minted
      BY <2>1 DEF GiveUp, SwitchOff, Console
    <2>5. \A k \in calls' : \E o \in calls : /\ k.from = o.from
                                             /\ k.bearer = o.bearer /\ k.token = o.token
      BY <1>0, <2>1 DEF GiveUp, SwitchOff, Deaf, Requests
    <2> QED
      BY <2>2, <2>3, <2>4, <2>5, ShiftsPass
  <1>5. CASE \E c \in Consoles : Alone(c)
    <2>1. PICK c \in Consoles : Alone(c)
      BY <1>5
    <2>2. /\ \A d \in Consoles \ {c} : con'[d] = con[d]
          /\ {con'[c].memory, con'[c].archive, con'[c].card, con'[c].told} \subseteq
               {con[c].memory, con[c].archive, con[c].card, con[c].told, NoToken}
          /\ calls' = calls /\ minted' = minted
      BY <2>1, AloneShifts, AloneLeaves DEF Shifts
    <2>3. {con'[c].memory, con'[c].archive, con'[c].card, con'[c].told} \subseteq
             {t \in Nat : Holds(c, t) \/ t = NoToken}
      BY <1>h, <2>2 DEF NoToken
    <2> QED
      BY <2>2, <2>3, ShiftsPass
  <1>6. CASE \/ \E u \in People : IssueCode(u)
             \/ \E x \in Codes : Expire(x)
             \/ \E i \in DOMAIN devices : Revoke(i)
             \/ UNCHANGED vars
    <2>1. con' = con /\ calls' = calls /\ minted' = minted
      BY <1>6 DEF IssueCode, Expire, Revoke, vars
    <2>2. Passes(0)
      BY <2>1 DEF Passes, Holds
    <2> QED
      BY <2>2
  <1> QED
    BY <1>1, <1>2, <1>3, <1>4, <1>5, <1>6, NextCases

\* A token that is minted was nobody's, so no two consoles come to hold one.
LEMMA NextOwn ==
    ASSUME Types, refusals \in Nat, Waited, OwnTokens, [Next]_vars
    PROVE  OwnTokens'
  <1>1. PICK b : Passes(b)
    BY NextPasses
  <1>2. minted \in Nat /\ minted' \in {minted, minted + 1} /\ NoToken <= minted
    BY <1>1 DEF Types, CountersType, Passes, NoToken
  <1>3. ASSUME NEW c \in Consoles, NEW t, Holds(c, t)'
        PROVE  t <= minted'
    <2>1. \/ Holds(c, t) \/ t = NoToken
          \/ t = minted + 1 /\ minted' = minted + 1
      BY <1>1, <1>3 DEF Passes
    <2>2. CASE Holds(c, t)
      <3>1. t \in Nat /\ t <= minted
        BY <2>2, HeldIsNat DEF OwnTokens
      <3> QED
        BY <1>2, <3>1
    <2> QED
      BY <1>2, <2>1, <2>2 DEF NoToken
  <1>4. ASSUME NEW c \in Consoles, NEW d \in Consoles, NEW t, Holds(c, t)', Holds(d, t)'
        PROVE  c = d \/ t = NoToken
    <2>1. /\ Holds(c, t) \/ t = NoToken \/ (c = b /\ t = minted + 1)
          /\ Holds(d, t) \/ t = NoToken \/ (d = b /\ t = minted + 1)
      BY <1>1, <1>4 DEF Passes
    <2>2. \A a \in Consoles : Holds(a, t) => t # minted + 1
      <3>1. ASSUME NEW a \in Consoles, Holds(a, t)
            PROVE  t \in Nat /\ t <= minted
        BY <3>1, HeldIsNat DEF OwnTokens
      <3> QED
        BY <1>2, <3>1
    <2> QED
      BY <2>1, <2>2 DEF OwnTokens
  <1> QED
    BY <1>3, <1>4 DEF OwnTokens

\* A device stays, and keeps its token unless a request rotates it.
LEMMA DevicesStay ==
    ASSUME Types, [Next]_vars, NEW i \in DOMAIN devices
    PROVE  /\ i \in DOMAIN devices'
           /\ \/ devices'[i].token = devices[i].token
              \/ \E k \in calls : Rotate(k) /\ i = k.device
  <1>0. PICK n \in Nat : devices \in [1..n -> Rows]
    BY DEF Types, DevicesType
  <1>1. CASE \E j \in DOMAIN devices : Revoke(j)
    <2>1. PICK j \in DOMAIN devices : Revoke(j)
      BY <1>1
    <2>2. devices' = [devices EXCEPT ![j].revoked = TRUE]
      BY <2>1 DEF Revoke
    <2> QED
      BY <1>0, <2>2 DEF Rows
  <1>2. CASE \E k \in calls : Rotate(k)
    <2>1. PICK k \in calls : Rotate(k)
      BY <1>2
    <2>2. devices' = [devices EXCEPT ![k.device].token = minted + 1,
                                     ![k.device].revoked = FALSE]
      BY <2>1 DEF Rotate
    <2> QED
      BY <1>0, <2>1, <2>2
  <1>3. CASE \E k \in calls : CreateDevice(k)
    <2>1. Cardinality(DOMAIN devices) = n
      BY <1>0, FS_Interval
    <2>2. \E row : devices' = With(devices, n + 1, row)
      BY <1>3, <2>1 DEF CreateDevice
    <2> QED
      BY <1>0, <2>2 DEF With
  <1>4. CASE \E k \in calls : Claim(k) \/ Lookup(k) \/ Fail(k) \/ Answer(k)
    BY <1>4 DEF Claim, Lookup, Fail, Answer, Console
  <1>5. CASE \E c \in Consoles : StartPairing(c) \/ GiveUp(c) \/ SwitchOff(c)
    BY <1>5 DEF StartPairing, GiveUp, SwitchOff, Console
  <1>6. CASE \E c \in Consoles : Alone(c)
    BY <1>6, AloneLeaves
  <1>7. CASE (\E u \in People : IssueCode(u)) \/ (\E x \in Codes : Expire(x)) \/ UNCHANGED vars
    BY <1>7 DEF IssueCode, Expire, vars
  <1> QED
    BY <1>1, <1>2, <1>3, <1>4, <1>5, <1>6, <1>7, NextCases DEF Handled

\* What is known stays known, except for the token of the console that is being paired.
LEMMA KnownStays ==
    ASSUME KnownInv, [Next]_vars, lost = 0, NEW c \in Consoles, NEW t,
           Holds(c, t), Known(t),
           \A k \in calls : k.from = c => k.pc # "rotate"
    PROVE  Known(t)'
  <1>1. PICK i \in DOMAIN devices : devices[i].token = t
    BY DEF Known
  <1>2. ASSUME NEW k \in calls, Rotate(k), i = k.device
        PROVE  FALSE
    <2>1. k.pc = "rotate" /\ t = k.bearer /\ k.bearer # NoToken
      BY <1>1, <1>2 DEF KnownInv, Rotates, Rotate
    <2>2. k.from \in Consoles
      BY DEF KnownInv, Types, CallsType, Requests
    <2>3. Holds(k.from, t)
      BY <2>1 DEF Holds
    <2>4. k.from = c
      BY <2>1, <2>2, <2>3 DEF KnownInv, OwnTokens
    <2> QED
      BY <2>1, <2>4
  <1>3. i \in DOMAIN devices' /\ devices'[i].token = t
    BY <1>1, <1>2, DevicesStay DEF KnownInv
  <1> QED
    BY <1>3 DEF Known

\* The device a request is about to rotate is still the one it found.
LEMMA RotatesStays ==
    ASSUME KnownInv, [Next]_vars, lost = 0, NEW l \in calls, l \in calls', l.pc = "rotate"
    PROVE  /\ l.bearer # NoToken
           /\ l.device \in DOMAIN devices' /\ devices'[l.device].token = l.bearer
  <1>1. /\ l.bearer # NoToken /\ l.device \in DOMAIN devices
        /\ devices[l.device].token = l.bearer
    BY DEF KnownInv, Rotates
  <1>2. ASSUME NEW k \in calls, Rotate(k), k.device = l.device
        PROVE  FALSE
    <2>1. k.bearer = l.bearer
      BY <1>1, <1>2 DEF KnownInv, Rotates, Rotate
    <2>2. k.from \in Consoles /\ l.from \in Consoles
      BY DEF KnownInv, Types, CallsType, Requests
    <2>3. Holds(k.from, l.bearer) /\ Holds(l.from, l.bearer)
      BY <2>1 DEF Holds
    <2>4. k.from = l.from
      BY <1>1, <2>2, <2>3 DEF KnownInv, OwnTokens
    <2>5. k = l
      BY <2>4 DEF KnownInv, Waited
    <2>6. PICK next : Becomes(l, next) /\ next.pc = "granted"
      <3>1. l \in Requests
        BY DEF KnownInv, Types, CallsType
      <3>2. [l EXCEPT !.pc = "granted", !.token = minted + 1].pc = "granted"
        BY <3>1 DEF Requests
      <3> QED
        BY <1>2, <2>5, <3>2 DEF Rotate, Grant
    <2> QED
      BY <2>6 DEF Becomes
  <1> QED
    BY <1>1, <1>2, DevicesStay DEF KnownInv

\* The token a request bought is the token of a device.
LEMMA BoughtIsKnown ==
    ASSUME KnownInv, lost = 0, NEW k \in calls, Rotate(k) \/ CreateDevice(k),
           NEW t, t = minted + 1
    PROVE  Known(t)'
  <1>0. PICK n \in Nat : devices \in [1..n -> Rows]
    BY DEF KnownInv, Types, DevicesType
  <1>1. CASE Rotate(k)
    <2>1. k.device \in 1..n /\ minted' = minted + 1
          /\ devices' = [devices EXCEPT ![k.device].token = minted + 1,
                                        ![k.device].revoked = FALSE]
      BY <1>0, <1>1 DEF KnownInv, Rotates, Rotate, Grant
    <2>2. k.device \in DOMAIN devices' /\ devices'[k.device].token = t
      BY <1>0, <2>1 DEF Rows
    <2> QED
      BY <2>2 DEF Known
  <1>2. CASE CreateDevice(k)
    <2>1. Cardinality(DOMAIN devices) = n
      BY <1>0, FS_Interval
    <2>2. devices' = With(devices, n + 1,
                          [user |-> k.user, token |-> minted + 1, revoked |-> FALSE])
      BY <1>2, <2>1 DEF CreateDevice
    <2>3. n + 1 \in DOMAIN devices' /\ devices'[n + 1].token = t
      BY <2>2 DEF With
    <2> QED
      BY <2>3 DEF Known
  <1> QED
    BY <1>1, <1>2

\* A request that is still there is still heard, and what it bought or found is known.
LEMMA CallsStay ==
    ASSUME KnownInv, [Next]_vars, lost = 0, NEW l \in calls, l \in calls'
    PROVE  l.live /\ Rotates(l)' /\ (l.pc = "granted" => Known(l.token)')
  <1>1. l.live
    BY DEF KnownInv
  <1>2. Rotates(l)'
    BY RotatesStays DEF Rotates
  <1>3. ASSUME l.pc = "granted"
        PROVE  Known(l.token)'
    <2>1. l.from \in Consoles
      BY DEF KnownInv, Types, CallsType, Requests
    <2>2. Holds(l.from, l.token)
      BY DEF Holds
    <2>3. \A k \in calls : k.from = l.from => k.pc # "rotate"
      BY <1>1, <1>3 DEF KnownInv, Waited
    <2>4. Known(l.token)
      BY <1>3 DEF KnownInv
    <2> QED
      BY <2>1, <2>2, <2>3, <2>4, KnownStays
  <1> QED
    BY <1>1, <1>2, <1>3

\* What a console that waits for nothing holds stays known.
LEMMA HeldStays ==
    ASSUME KnownInv, [Next]_vars, lost = 0, NEW c \in Consoles, con[c].pc # "pairing",
           NEW t \in {con[c].memory, con[c].told}, Known(t)
    PROVE  Known(t)'
  <1>1. \A k \in calls : k.from # c
    BY DEF KnownInv, Waited
  <1>2. Holds(c, t)
    BY DEF Holds
  <1> QED
    BY <1>1, <1>2, KnownStays

\* A console that is left alone knows what it knew.
LEMMA KnowsStays ==
    ASSUME KnownInv, [Next]_vars, lost = 0, NEW c \in Consoles, con'[c] = con[c]
    PROVE  Knows(con[c])'
  <1>1. PICK s : s = con[c]
    OBVIOUS
  <1>2. /\ s.pc \in {"pairing", "secret"} => s.told = NoToken
        /\ s.told # NoToken => Known(s.told)
        /\ s.pc \in {"secret", "config"} => Known(s.memory)
    BY <1>1 DEF KnownInv, Knows
  <1>3. s.told # NoToken => Known(s.told)'
    BY <1>1, <1>2, HeldStays
  <1>4. s.pc \in {"secret", "config"} => Known(s.memory)'
    BY <1>1, <1>2, HeldStays
  <1>5. Knows(s)'
    BY <1>2, <1>3, <1>4 DEF Knows
  <1> QED
    BY <1>1, <1>5

\* Every step of a console keeps that it knows its token.
LEMMA ConsoleKnows ==
    ASSUME KnownInv, [Next]_vars, lost = 0, lost' = 0, NEW c \in Consoles
    PROVE  Knows(con[c])'
  <1>0. Types /\ refusals \in Nat
    BY DEF KnownInv
  <1>1. PICK s : s = con[c]
    OBVIOUS
  <1>2. PICK n : n = con'[c]
    OBVIOUS
  <1>3. /\ s.pc \in {"pairing", "secret"} => s.told = NoToken
        /\ s.told # NoToken => Known(s.told)
        /\ s.pc \in {"secret", "config"} => Known(s.memory)
    BY <1>1 DEF KnownInv, Knows
  <1>4. s.told # NoToken => Known(s.told)'
    BY <1>1, <1>3, HeldStays
  <1>5. s.pc \in {"secret", "config"} => Known(s.memory)'
    BY <1>1, <1>3, HeldStays
  <1>6. Knows(n)'
    <2>1. CASE con'[c] = con[c]
      <3>1. n = s
        BY <1>1, <1>2, <2>1
      <3> QED
        BY <1>3, <1>4, <1>5, <3>1 DEF Knows
    <2>2. CASE \E k \in calls : Handled(k)
      BY <1>0, <2>1, <2>2, HandledBecomes
    <2>3. CASE \E k \in calls : Answer(k)
      <3>1. PICK k \in calls : Answer(k)
        BY <2>3
      <3>2. k.live
        BY DEF KnownInv
      <3>3. CASE c # k.from
        BY <1>0, <2>1, <3>1, <3>3, AnswerShifts
      <3>4. CASE c = k.from
        <4>1. s.pc = "pairing"
          BY <1>1, <3>2, <3>4 DEF KnownInv, Waited
        <4>2. n.told = NoToken
          BY <1>0, <1>1, <1>2, <1>3, <3>1, <3>4, <4>1, AnswerShifts
        <4>3. CASE k.pc = "failed"
          <5>1. n.pc \in {"on", "off"}
            BY <1>0, <1>2, <3>1, <3>2, <3>4, <4>3, AnswerShifts
          <5> QED
            BY <4>2, <5>1 DEF Knows
        <4>4. CASE k.pc # "failed"
          <5>1. k.pc = "granted" /\ n.memory = k.token
            BY <1>0, <1>2, <3>1, <3>2, <3>4, <4>4, AnswerShifts
          <5>2. PICK t : t = k.token
            OBVIOUS
          <5>3. Known(t)
            BY <5>1, <5>2 DEF KnownInv
          <5>4. devices' = devices
            BY <3>1 DEF Answer, Console
          <5>5. Known(t)'
            BY <5>3, <5>4 DEF Known
          <5>6. n.memory = t
            BY <5>1, <5>2
          <5> QED
            BY <4>2, <5>5, <5>6 DEF Knows
        <4> QED
          BY <4>3, <4>4
      <3> QED
        BY <3>3, <3>4
    <2>4. CASE \E d \in Consoles : StartPairing(d)
      <3>1. PICK d \in Consoles : StartPairing(d)
        BY <2>4
      <3>2. CASE c # d
        BY <1>0, <2>1, <3>1, <3>2, AskShifts
      <3>3. CASE c = d
        <4>1. n.pc = "pairing" /\ n.told = NoToken
          BY <1>0, <1>2, <3>1, <3>3, AskShifts
        <4> QED
          BY <4>1 DEF Knows
      <3> QED
        BY <3>2, <3>3
    <2>5. CASE \E d \in Consoles : GiveUp(d) \/ SwitchOff(d)
      <3>1. PICK d \in Consoles : GiveUp(d) \/ SwitchOff(d)
        BY <2>5
      <3>2. CASE c # d
        BY <1>0, <2>1, <3>1, <3>2, LeaveShifts
      <3>3. CASE c = d
        <4>1. n.pc \in {"on", "off"} /\ n.told = s.told
          BY <1>0, <1>1, <1>2, <3>1, <3>3, LeaveShifts
        <4> QED
          BY <1>4, <4>1 DEF Knows
      <3> QED
        BY <3>2, <3>3
    <2>6. CASE \E d \in Consoles : Alone(d)
      <3>1. PICK d \in Consoles : Alone(d)
        BY <2>6
      <3>2. CASE c # d
        BY <1>0, <2>1, <3>1, <3>2, AloneShifts
      <3>3. CASE c = d
        <4>1. Shifts(s, n)
          BY <1>0, <1>1, <1>2, <3>1, <3>3, AloneShifts
        <4>2. /\ n.pc \notin {"pairing", "secret"}
              /\ n.told \in {s.told, NoToken} \/ (s.pc = "config" /\ n.told = s.memory)
              /\ n.pc = "config" => s.pc = "secret" /\ n.memory = s.memory
          BY <4>1 DEF Shifts
        <4>3. n.told # NoToken => Known(n.told)'
          <5>1. CASE n.told = s.told
            BY <1>4, <5>1
          <5>2. CASE s.pc = "config" /\ n.told = s.memory
            BY <1>5, <5>2
          <5> QED
            BY <4>2, <5>1, <5>2
        <4>4. n.pc = "config" => Known(n.memory)'
          BY <1>5, <4>2
        <4> QED
          BY <4>2, <4>3, <4>4 DEF Knows
      <3> QED
        BY <3>2, <3>3
    <2>7. CASE \/ \E u \in People : IssueCode(u)
               \/ \E x \in Codes : Expire(x)
               \/ \E i \in DOMAIN devices : Revoke(i)
               \/ UNCHANGED vars
      BY <2>1, <2>7 DEF IssueCode, Expire, Revoke, vars
    <2> QED
      BY <2>2, <2>3, <2>4, <2>5, <2>6, <2>7, NextCases
  <1> QED
    BY <1>2, <1>6

\* A request that was not there before is heard, and what it found or bought is known.
LEMMA CallsKnow ==
    ASSUME KnownInv, [Next]_vars, lost = 0, lost' = 0, NEW l \in calls'
    PROVE  l.live /\ Rotates(l)' /\ (l.pc = "granted" => Known(l.token)')
  <1>0. Types /\ refusals \in Nat
    BY DEF KnownInv
  <1>1. CASE l \in calls
    BY <1>1, CallsStay
  <1>2. CASE \E k \in calls : Handled(k)
    <2>1. PICK k \in calls : Handled(k)
      BY <1>2
    <2>2. PICK next : /\ calls' = (calls \ {k}) \cup {next}
                      /\ next.live = k.live /\ next.bearer = k.bearer
                      /\ \/ /\ next.pc # "granted"
                            /\ next.pc = "rotate" =>
                                 /\ devices' = devices /\ next.device \in DOMAIN devices
                                 /\ ProvesToBe(k, devices[next.device])
                         \/ /\ next.token = minted + 1 /\ next.pc = "granted"
                            /\ Rotate(k) \/ CreateDevice(k)
      BY <1>0, <2>1, HandledBecomes DEF Becomes
    <2>3. next.live
      BY <2>2 DEF KnownInv
    <2>4. Rotates(next)'
      BY <2>2 DEF Rotates, ProvesToBe
    <2>5. next.pc = "granted" => Known(next.token)'
      BY <2>2, BoughtIsKnown
    <2> QED
      BY <1>1, <2>2, <2>3, <2>4, <2>5
  <1>3. CASE \E k \in calls : Answer(k)
    BY <1>1, <1>3 DEF Answer
  <1>4. CASE \E c \in Consoles : StartPairing(c)
    <2>1. PICK q : calls' = calls \cup {q} /\ q.live /\ q.pc = "claim"
      BY <1>0, <1>4, AskShifts
    <2>2. Rotates(q)'
      BY <2>1 DEF Rotates
    <2> QED
      BY <1>1, <2>1, <2>2
  <1>5. CASE \E c \in Consoles : GiveUp(c) \/ SwitchOff(c)
    <2>1. PICK c \in Consoles : GiveUp(c) \/ SwitchOff(c)
      BY <1>5
    <2>2. con[c].pc # "pairing"
      BY <1>0, <2>1, LeaveShifts
    <2>3. \A k \in calls : k.from # c
      BY <2>2 DEF KnownInv, Waited
    <2>4. calls' \subseteq calls
      BY <2>1, <2>3 DEF GiveUp, SwitchOff, Deaf
    <2> QED
      BY <1>1, <2>4
  <1>6. CASE \E c \in Consoles : Alone(c)
    BY <1>1, <1>6, AloneLeaves
  <1>7. CASE \/ \E u \in People : IssueCode(u)
             \/ \E x \in Codes : Expire(x)
             \/ \E i \in DOMAIN devices : Revoke(i)
             \/ UNCHANGED vars
    BY <1>1, <1>7 DEF IssueCode, Expire, Revoke, vars
  <1> QED
    BY <1>2, <1>3, <1>4, <1>5, <1>6, <1>7, NextCases

\* Consoles of an earlier build start with a token of a device each, and no two with one.
LEMMA InitKnown == Init => KnownInv
  <1> SUFFICES ASSUME Init PROVE KnownInv
    OBVIOUS
  <1>1. Already \in Nat
    BY PairingBounds, FS_CardinalityType DEF Already
  <1>2. PICK u \in People :
           devices = [i \in 1..Already |-> [user |-> u, token |-> i, revoked |-> FALSE]]
    BY DEF Init
  <1>3. PICK had \in [PairedBefore -> 1..Already] :
          /\ \A c, d \in PairedBefore : had[c] = had[d] => c = d
          /\ con = [c \in Consoles |->
                     LET t == IF c \in PairedBefore THEN had[c] ELSE NoToken
                     IN [pc |-> "off", memory |-> NoToken, sends |-> FALSE,
                         archive |-> NoToken, card |-> t, token_on_card |-> FALSE,
                         told |-> t]]
    BY DEF Init
  <1>4. ASSUME NEW c \in Consoles
        PROVE  /\ con[c].pc = "off" /\ con[c].memory = NoToken /\ con[c].archive = NoToken
               /\ con[c].card = con[c].told
               /\ con[c].told = IF c \in PairedBefore THEN had[c] ELSE NoToken
    BY <1>3
  <1>5. calls = {} /\ minted = Already
    BY DEF Init
  <1>6. \A c \in Consoles : \A t : Holds(c, t) => t \in {NoToken, con[c].told}
    BY <1>4, <1>5 DEF Holds
  <1>7. OwnTokens
    <2>1. \A c \in Consoles : con[c].told \in 0..Already
      BY <1>1, <1>3, <1>4 DEF NoToken
    <2>2. \A c, d \in Consoles : con[c].told = con[d].told /\ con[c].told # NoToken => c = d
      BY <1>1, <1>3, <1>4 DEF NoToken
    <2> QED
      BY <1>1, <1>5, <1>6, <2>1, <2>2 DEF OwnTokens, NoToken
  <1>8. \A c \in Consoles : Knows(con[c])
    <2>1. \A i \in 1..Already : Known(i)
      BY <1>2 DEF Known
    <2>2. \A c \in Consoles : con[c].told # NoToken => con[c].told \in 1..Already
      BY <1>3, <1>4
    <2> QED
      BY <1>4, <2>1, <2>2 DEF Knows
  <1> QED
    BY <1>5, <1>7, <1>8, InitTypes DEF Init, KnownInv, Waited

\* Every step keeps it.
LEMMA NextKnown == KnownInv /\ [Next]_vars => KnownInv'
  <1> SUFFICES ASSUME KnownInv, [Next]_vars PROVE KnownInv'
    OBVIOUS
  <1>1. Types /\ refusals \in Nat /\ lost \in Nat /\ Waited /\ OwnTokens
    BY DEF KnownInv
  <1>2. Types' /\ Waited' /\ OwnTokens'
    BY <1>1, NextTypes, NextWaited, NextOwn
  <1>3. refusals' \in {refusals, refusals + 1} /\ lost' \in {lost, lost + 1}
    BY <1>1, Counted
  <1>4. lost' = 0 => lost = 0
    BY <1>1, <1>3
  <1>5. ASSUME lost' = 0
        PROVE  /\ \A l \in calls' : l.live /\ Rotates(l)' /\ (l.pc = "granted" => Known(l.token)')
               /\ \A c \in Consoles : Knows(con[c])'
    BY <1>4, <1>5, CallsKnow, ConsoleKnows
  <1>6. refusals' \in Nat /\ lost' \in Nat
    BY <1>1, <1>3
  <1> QED
    BY <1>2, <1>5, <1>6 DEF KnownInv

\* A console that was told it is paired is known to the server, whoever else is paired or
\* revoked meanwhile (pairDevice, RotateDeviceToken): only its own next pairing takes the
\* token away.
THEOREM PairedConsolesAreKnown == Spec => []PairedIsKnown
  <1>1. KnownInv => PairedIsKnown
    BY DEF KnownInv, Knows, Known, PairedIsKnown
  <1> QED
    BY <1>1, InitKnown, NextKnown, PTL DEF Spec

-----------------------------------------------------------------------------
(***************************************************************************)
(* TitleCache: the lookup.                                                 *)
(***************************************************************************)

\* A set of positions in a chain has a first one.
LEMMA FirstPosition ==
    ASSUME NEW S \in SUBSET Nat, S # {}
    PROVE  \E i \in S : \A j \in S : i <= j
  <1> DEFINE R == {ss \in Nat \X Nat : ss[1] < ss[2]}
  <1>1. IsWellFoundedOn(R, Nat)
    BY NatLessThanWellFounded DEF OpToRel
  <1>2. PICK i \in S : \A j \in S : ~ (<<j, i>> \in R)
    <2> HIDE DEF R
    <2> QED
      BY <1>1, WFMin
  <1>3. ASSUME NEW j \in S PROVE i <= j
    <2>1. i \in Nat /\ j \in Nat /\ ~ (<<j, i>> \in R)
      BY <1>2
    <2> QED
      BY <2>1
  <1> QED
    BY <1>3

\* The slots daemoon_3ds_smdh_name tries.
LEMMA ChainSlots ==
    ASSUME NEW lang \in Slots
    PROVE  /\ DOMAIN Chain(lang) \subseteq Nat
           /\ \A i \in DOMAIN Chain(lang) : Chain(lang)[i] \in Slots
  <1>1. /\ <<lang, SMDH_LANG_ENGLISH, SMDH_LANG_JAPANESE>> \in Seq(Slots)
        /\ [i \in 1 .. LangCount |-> i - 1] \in Seq(Slots)
    BY BoundAssumption DEF Slots, SMDH_LANG_ENGLISH, SMDH_LANG_JAPANESE
  <1>2. Chain(lang) \in Seq(Slots)
    BY <1>1 DEF Chain
  <1> QED
    BY <1>2

\* A lookup gives a name that fits, and one if any fits.
LEMMA LookupFits ==
    ASSUME NEW names \in [Slots -> Texts \cup {Blank}], NEW lang \in Slots,
           NEW asciiOnly \in BOOLEAN, NEW n, n = smdh_name(names, lang, asciiOnly)
    PROVE  \/ /\ n = NoName
              /\ \A i \in DOMAIN Chain(lang) : ~ Fits(names[Chain(lang)[i]], asciiOnly)
           \/ /\ n \in Texts /\ Fits(n, asciiOnly)
              /\ \E i \in DOMAIN Chain(lang) : n = names[Chain(lang)[i]]
  <1> DEFINE good == {i \in DOMAIN Chain(lang) : Fits(names[Chain(lang)[i]], asciiOnly)}
  <1>1. CASE good = {}
    BY <1>1 DEF smdh_name
  <1>2. CASE good # {}
    <2>1. good \in SUBSET Nat
      BY ChainSlots
    <2>2. \E i \in good : \A j \in good : i <= j
      BY <1>2, <2>1, FirstPosition
    <2>3. PICK i : i = CHOOSE k \in good : \A j \in good : k <= j
      OBVIOUS
    <2>4. i \in good
      BY <2>2, <2>3
    <2>5. n = names[Chain(lang)[i]]
      BY <1>2, <2>3 DEF smdh_name
    <2>6. Chain(lang)[i] \in Slots
      BY <2>4, ChainSlots
    <2> QED
      BY <2>4, <2>5, <2>6 DEF Fits
  <1> QED
    BY <1>1, <1>2

\* Every record has its type, and gives either name as the lookup would.
LEMMA RecordLooksUp ==
    ASSUME NEW p \in Packages \cup {None}, NEW lang \in Slots, NEW e, e = RecordOf(p, lang)
    PROVE  /\ e \in Records /\ e # None /\ e.from = p
           /\ \A a \in BOOLEAN : /\ NameIn(e, a) = title_name(p, lang, a)
                                 /\ title_name(p, lang, a) \in Texts \cup {NoName}
  <1> DEFINE t(a) == title_name(p, lang, a)
  <1>1. /\ e.name = t(FALSE) /\ e.ascii = t(TRUE) /\ e.icon = (p # None) /\ e.from = p
    BY DEF RecordOf
  <1>2. \A a \in BOOLEAN : t(a) \in Texts \cup {NoName}
    <2>1. CASE p = None
      BY <2>1 DEF title_name
    <2>2. CASE p # None
      <3>1. p.names \in [Slots -> Texts \cup {Blank}]
        BY <2>2, PackageAssumption DEF PackageType
      <3> QED
        BY <2>2, <3>1, LookupFits DEF title_name
    <2> QED
      BY <2>1, <2>2
  <1>4. ASSUME t(TRUE) = NoName PROVE t(FALSE) \notin Drawable
    <2> SUFFICES ASSUME t(FALSE) \in Drawable PROVE FALSE
      OBVIOUS
    <2>1. p # None
      BY NameAssumption DEF title_name
    <2>2. p.names \in [Slots -> Texts \cup {Blank}]
      BY <2>1, PackageAssumption DEF PackageType
    <2>3. t(FALSE) \in Texts /\ t(FALSE) # NoName
      BY NameAssumption
    <2>4. PICK i \in DOMAIN Chain(lang) : t(FALSE) = p.names[Chain(lang)[i]] /\ Fits(t(FALSE), FALSE)
      BY <2>1, <2>2, <2>3, LookupFits DEF title_name
    <2>5. Fits(p.names[Chain(lang)[i]], TRUE)
      BY <2>4 DEF Fits
    <2>6. t(TRUE) # NoName
      <3>1. PICK n : n = smdh_name(p.names, lang, TRUE)
        OBVIOUS
      <3>2. n \in Texts
        BY <2>2, <2>5, <3>1, LookupFits
      <3> QED
        BY <2>1, <3>1, <3>2, NameAssumption DEF title_name
    <2> QED
      BY <1>4, <2>6
  <1>5. e \in Records
    BY <1>1, <1>2 DEF RecordOf, Records
  <1>6. e # None
    BY <1>5, NoneIsNothing
  <1>7. NameIn(e, FALSE) = t(FALSE)
    BY <1>1 DEF NameIn
  <1>8. NameIn(e, TRUE) = t(TRUE)
    BY <1>1, <1>4 DEF NameIn
  <1>9. \A a \in BOOLEAN : NameIn(e, a) = t(a)
    BY <1>7, <1>8
  <1> QED
    BY <1>1, <1>2, <1>5, <1>6, <1>9

-----------------------------------------------------------------------------
(***************************************************************************)
(* What keeps the table, its file and the list together.                   *)
(***************************************************************************)

\* The list asks for these.
Asks(t) == installed[t] # None /\ ~ Skips(t)
AllAsked == \A t \in Titles : Asks(t) => t \in asked

\* The file is of this build and language, and has these records.
FileHas(entries) ==
    /\ file # None
    /\ file.ours /\ file.lang = console
    /\ file.entries = entries
    /\ file.count = Cardinality(Kept(entries))

\* A file has no more records than it says, and those of this build are lookups.
FileWell ==
    file # None =>
        /\ Cardinality(Kept(file.entries)) <= file.count
        /\ file.ours => IsLookup(file.entries, file.lang)

\* The table is of the console's language, within its room, and marks what was asked.
TableWell ==
    cache # None =>
        /\ cache.lang = console
        /\ cache.live = asked \cap Kept(cache.entries)
        /\ Cardinality(Kept(cache.entries)) <= MaxEntries
        /\ IsLookup(cache.entries, console)

\* How far a launch is.
LaunchWell ==
    /\ pc = "off" => cache = None /\ shown = Nothing
    /\ leaving => pc \in {"flush", "rename"} /\ shown = Nothing
    /\ pc = "list" => /\ \A t \in Titles : Asks(t) => t \in todo \cup asked
                      /\ \A t \in todo : installed[t] # None
    /\ pc = "up" => asked = {} \/ AllAsked
    /\ pc \in {"flush", "rename"} /\ ~ leaving => AllAsked
    /\ pc = "rename" => cache # None /\ file = None /\ ~ NothingToWrite

\* Nothing was asked about: the table is the file's, or there is nothing in it.
Untouched ==
    pc # "off" /\ ~ surveyed /\ asked = {} /\ cache # None /\ file # None =>
        \/ Kept(file.entries) = {}
        \/ Kept(cache.entries) = Kept(file.entries)
        \/ ~ cache.dirty /\ Kept(cache.entries) = {}

\* A table that is not dirty is the file's, or is found out by its marks.
Clean ==
    pc # "rename" /\ cache # None /\ ~ cache.dirty =>
        \/ Kept(cache.entries) = {}
        \/ FileHas(cache.entries)
        \/ AllAsked /\ (cache.live = Kept(cache.entries) => FileHas(cache.entries))

\* What a list under way shows has a record, or there was no room for one.
Settled ==
    pc = "list" /\ cache # None =>
        \A t \in Titles : shown[t] # None /\ cache.entries[t] = None => ~ HasRoom(cache)

CacheInv ==
    /\ CacheTypeOK
    /\ FileWell /\ TableWell /\ LaunchWell
    /\ Untouched /\ Clean
    /\ Settled /\ ShownIsALookup

\* Tables of records, and what is kept in them.
LEMMA TableFacts ==
    /\ Nothing \in Table /\ Kept(Nothing) = {} /\ {} \subseteq Titles
    /\ Nothing \in [Titles -> Texts \cup {NoName, None}]
    /\ \A lang : IsLookup(Nothing, lang)
    /\ \A table \in Table :
          /\ Kept(table) \subseteq Titles
          /\ IsFiniteSet(Kept(table)) /\ Cardinality(Kept(table)) \in Nat
          /\ Kept(table) = {} <=> table = Nothing
          /\ Cardinality(Kept(table)) = 0 <=> Kept(table) = {}
  <1>1. /\ Nothing \in Table /\ Kept(Nothing) = {} /\ \A lang : IsLookup(Nothing, lang)
        /\ Nothing \in [Titles -> Texts \cup {NoName, None}]
    BY DEF Nothing, Table, Kept, IsLookup
  <1>2. ASSUME NEW table \in Table
        PROVE  /\ Kept(table) \subseteq Titles
               /\ IsFiniteSet(Kept(table)) /\ Cardinality(Kept(table)) \in Nat
               /\ Kept(table) = {} <=> table = Nothing
               /\ Cardinality(Kept(table)) = 0 <=> Kept(table) = {}
    <2>1. Kept(table) \in SUBSET Titles
      BY DEF Kept
    <2>2. IsFiniteSet(Kept(table)) /\ Cardinality(Kept(table)) \in Nat
      BY <2>1, BoundAssumption, FS_Subset, FS_CardinalityType
    <2>3. Kept(table) = {} <=> table = Nothing
      BY <1>1, <1>2 DEF Kept, Nothing, Table
    <2> QED
      BY <2>1, <2>2, <2>3, FS_EmptySet
  <1> QED
    BY <1>1, <1>2

\* What the type says of the two tables there are.
LEMMA TablesType ==
    ASSUME CacheTypeOK
    PROVE  /\ cache # None => cache \in Caches /\ cache.entries \in Table /\ cache.live \subseteq Titles
                              /\ cache.lang \in Slots /\ cache.dirty \in BOOLEAN
           /\ file # None => file \in CacheFiles /\ file.entries \in Table /\ file.ours \in BOOLEAN
                             /\ file.lang \in Slots /\ file.count \in 0 .. MaxEntries
           /\ None \notin Caches \cup CacheFiles
  BY NoneIsNothing DEF CacheTypeOK, Caches, CacheFiles

\* A step that leaves the tables, the marks and the console alone.
LEMMA TablesUntouched ==
    ASSUME CacheInv, UNCHANGED <<installed, console, file, cache, asked, surveyed>>
    PROVE  /\ FileWell' /\ TableWell'
           /\ pc # "off" => Untouched'
           /\ pc # "rename" => Clean'
           /\ (NothingToWrite' <=> NothingToWrite) /\ (AllAsked' <=> AllAsked)
           /\ \A t : Asks(t)' <=> Asks(t)
           /\ \A t, failed : Reads(t, failed)' = Reads(t, failed)
  <1>1. AllAsked' <=> AllAsked
    BY DEF AllAsked, Asks, Skips
  <1>2. \A e : FileHas(e)' <=> FileHas(e)
    BY DEF FileHas
  <1>3. /\ FileWell' /\ TableWell'
        /\ pc # "off" => Untouched'
    BY DEF CacheInv, FileWell, TableWell, Untouched
  <1>4. pc # "rename" => Clean'
    <2>1. PICK c : c = cache
      OBVIOUS
    <2>2. cache' = c
      BY <2>1
    <2> QED
      BY <1>1, <1>2, <2>1, <2>2 DEF CacheInv, Clean
  <1>5. NothingToWrite' <=> NothingToWrite
    BY DEF NothingToWrite
  <1>6. (\A t : Asks(t)' <=> Asks(t)) /\ (\A t, failed : Reads(t, failed)' = Reads(t, failed))
    BY DEF Asks, Skips, Reads
  <1> QED
    BY <1>1, <1>3, <1>4, <1>5, <1>6

\* A list of nothing says nothing of the lookup.
LEMMA NothingShown ==
    ASSUME shown' = Nothing
    PROVE  Settled' /\ ShownIsALookup'
  <1>1. \A t \in Titles : shown'[t] = None
    BY DEF Nothing
  <1> QED
    BY <1>1 DEF Settled, ShownIsALookup

\* The list goes on showing what it did, of the same tables.
LEMMA ShownStays ==
    ASSUME CacheInv, UNCHANGED <<installed, console, cache, shown>>, pc' = "list" => pc = "list"
    PROVE  Settled' /\ ShownIsALookup'
  <1>1. \A t, failed : Reads(t, failed)' = Reads(t, failed)
    BY DEF Reads
  <1> QED
    BY <1>1 DEF CacheInv, Settled, ShownIsALookup

\* A launch opens its table.
LEMMA OpenStep == ASSUME CacheInv, Launch PROVE CacheInv'
  <1>1. /\ CacheTypeOK /\ FileWell /\ pc = "off" /\ console \in Slots
        /\ UNCHANGED <<installed, console, changes, file, todo, leaving>>
        /\ pc' = "up" /\ shown' = Nothing /\ asked' = {} /\ surveyed' = FALSE
        /\ cache' = load_file(console) \/ cache' = None
        /\ leaving = FALSE /\ faults' \in Nat
    BY DEF CacheInv, CacheTypeOK, LaunchWell, Launch, world
  <1>2. CASE cache' = None
    <2>1. CacheTypeOK'
      BY <1>1, <1>2, TableFacts DEF CacheTypeOK, PCs
    <2> QED
      BY <1>1, <1>2, <2>1, NothingShown DEF CacheInv, FileWell, TableWell, LaunchWell, Untouched, Clean
  <1>3. CASE cache' = load_file(console) /\ Accepted(console)
    <2>1. /\ file # None /\ file \in CacheFiles /\ file.entries \in Table
          /\ file.ours /\ file.lang = console /\ file.count \in 0 .. MaxEntries
      BY <1>1, <1>3, TablesType DEF Accepted
    <2>2. PICK d : d = (Cardinality(Kept(file.entries)) # file.count)
      OBVIOUS
    <2>3. cache' = [entries |-> file.entries, live |-> {}, lang |-> console, dirty |-> d]
      BY <1>3, <2>2 DEF load_file
    <2>4. /\ cache' \in Caches /\ cache'.entries = file.entries /\ cache'.live = {}
          /\ cache'.lang = console /\ cache'.dirty = d
      BY <1>1, <2>1, <2>2, <2>3 DEF Caches
    <2>5. CacheTypeOK'
      BY <1>1, <2>4, TableFacts DEF CacheTypeOK, PCs
    <2>6. TableWell'
      <3>1. Cardinality(Kept(file.entries)) <= MaxEntries
        BY <1>1, <2>1, TableFacts, BoundAssumption DEF FileWell
      <3>2. IsLookup(file.entries, console)
        BY <1>1, <2>1 DEF FileWell
      <3> QED
        BY <1>1, <2>4, <3>1, <3>2 DEF TableWell
    <2>7. Untouched' /\ Clean'
      <3>1. ~ d => FileHas(file.entries)'
        BY <1>1, <2>1, <2>2 DEF FileHas
      <3> QED
        BY <1>1, <2>4, <3>1 DEF Untouched, Clean
    <2> QED
      BY <1>1, <2>5, <2>6, <2>7, NothingShown DEF CacheInv, FileWell, LaunchWell
  <1>4. CASE cache' = load_file(console) /\ ~ Accepted(console)
    <2>1. /\ cache' \in Caches /\ cache'.entries = Nothing /\ cache'.live = {}
          /\ cache'.lang = console /\ cache'.dirty = FALSE
      BY <1>1, <1>4, TableFacts DEF load_file, Caches
    <2>2. CacheTypeOK'
      BY <1>1, <2>1, TableFacts DEF CacheTypeOK, PCs
    <2>3. TableWell'
      BY <1>1, <2>1, TableFacts, BoundAssumption DEF TableWell
    <2>4. Untouched' /\ Clean'
      BY <1>1, <2>1, TableFacts DEF Untouched, Clean
    <2> QED
      BY <1>1, <2>2, <2>3, <2>4, NothingShown DEF CacheInv, FileWell, LaunchWell
  <1> QED
    BY <1>1, <1>2, <1>3, <1>4

\* What leaves the tables alone inside a launch.
LEMMA QuietStep ==
    ASSUME CacheInv,
           \/ StartListing \/ ListingFails \/ LoadIcons \/ Leave
           \/ \E t \in Titles : SkipTitle(t)
    PROVE  CacheInv'
  <1>0. /\ UNCHANGED <<installed, console, changes, file, cache, asked, surveyed>>
        /\ pc \in {"up", "list"} /\ pc' \in {"up", "list", "flush"}
        /\ shown' \in {shown, Nothing} /\ leaving' \in {leaving, TRUE}
        /\ faults' \in {faults, faults + 1}
    BY DEF StartListing, ListingFails, SkipTitle, LoadIcons, Leave, world
  <1>1. /\ UNCHANGED <<installed, console, changes, file, cache, asked, surveyed>>
        /\ pc \in {"up", "list"} /\ pc' \in {"up", "list", "flush"} /\ CacheTypeOK
        /\ ~ leaving /\ faults' \in Nat /\ shown' \in {shown, Nothing} /\ leaving' \in BOOLEAN
    <2>1. CacheTypeOK /\ LaunchWell
      BY DEF CacheInv
    <2>2. ~ leaving
      BY <1>0, <2>1 DEF LaunchWell
    <2>3. leaving' \in BOOLEAN
      BY <1>0, <2>1, Zenon DEF CacheTypeOK
    <2>4. faults' \in Nat
      BY <1>0, <2>1 DEF CacheTypeOK
    <2> QED
      BY <1>0, <2>1, <2>2, <2>3, <2>4
  <1>2. todo' \subseteq Titles
    BY <1>1 DEF StartListing, ListingFails, SkipTitle, LoadIcons, Leave, CacheTypeOK
  <1>3. CacheTypeOK'
    BY <1>1, <1>2, TableFacts DEF CacheTypeOK, PCs
  <1>4. Settled' /\ ShownIsALookup'
    <2>1. CASE shown' = Nothing
      BY <2>1, NothingShown
    <2>2. CASE shown' # Nothing
      BY <1>1, <2>2, ShownStays DEF StartListing, ListingFails, SkipTitle, LoadIcons, Leave
    <2> QED
      BY <2>1, <2>2
  <1>5. LaunchWell'
    <2>1. \A x : Asks(x)' <=> Asks(x)
      BY <1>1, TablesUntouched
    <2>2. AllAsked' <=> AllAsked
      BY <1>1, TablesUntouched
    <2>3. CASE StartListing
      BY <1>1, <2>1, <2>3 DEF LaunchWell, CacheInv, StartListing, Asks
    <2>4. CASE ListingFails
      BY <1>1, <2>2, <2>4 DEF LaunchWell, CacheInv, ListingFails
    <2>5. ASSUME NEW t \in Titles, SkipTitle(t) PROVE LaunchWell'
      BY <1>1, <2>1, <2>5 DEF LaunchWell, CacheInv, SkipTitle, Asks
    <2>6. CASE LoadIcons
      <3>1. AllAsked
        BY <2>6 DEF LoadIcons, LaunchWell, CacheInv, AllAsked
      <3> QED
        BY <1>1, <2>2, <2>6, <3>1 DEF LaunchWell, LoadIcons
    <2>7. CASE Leave
      BY <1>1, <2>7 DEF LaunchWell, Leave
    <2> QED
      BY <2>3, <2>4, <2>5, <2>6, <2>7
  <1> QED
    BY <1>1, <1>3, <1>4, <1>5, TablesUntouched DEF CacheInv

\* A title's name is asked for: its record, a new one, or the hardware.
LEMMA NameStep == ASSUME CacheInv, NEW t \in Titles, NameTitle(t) PROVE CacheInv'
  <1>1. /\ CacheTypeOK /\ FileWell /\ TableWell /\ LaunchWell /\ Clean /\ Settled
        /\ ShownIsALookup
        /\ pc = "list" /\ pc' = "list" /\ t \in todo /\ ~ Skips(t)
        /\ UNCHANGED <<installed, console, changes, file, leaving, surveyed>>
        /\ todo' = todo \ {t} /\ asked' = asked \cup {t}
        /\ Hit(t) \/ Miss(t) \/ Direct(t)
    BY DEF CacheInv, NameTitle, world
  <1>2. ~ leaving /\ Asks(t)
    BY <1>1 DEF LaunchWell, Asks
  <1>3. \A x, failed : Reads(x, failed)' = Reads(x, failed)
    BY <1>1 DEF Reads
  <1>4. \A x : Asks(x)' <=> Asks(x)
    BY <1>1 DEF Asks, Skips
  <1>5. LaunchWell'
    BY <1>1, <1>2, <1>4 DEF LaunchWell
  <1>6. Untouched' /\ FileWell'
    BY <1>1 DEF Untouched, FileWell
  <1>7. \A e : FileHas(e)' <=> FileHas(e)
    BY <1>1 DEF FileHas
  <1>8. SUFFICES /\ cache' \in Caches \cup {None} /\ faults' \in Nat
                 /\ shown' \in [Titles -> Texts \cup {NoName, None}]
                 /\ TableWell' /\ Clean' /\ Settled' /\ ShownIsALookup'
    <2>1. CacheTypeOK'
      BY <1>1, <1>8 DEF CacheTypeOK
    <2> QED
      BY <1>5, <1>6, <1>8, <2>1 DEF CacheInv
  <1>9. \A failed : Reads(t, failed) \in Packages \cup {None}
    BY <1>1 DEF Reads, CacheTypeOK
  <1>a. console \in Slots /\ AsciiNames \in BOOLEAN
    BY <1>1, BoundAssumption DEF CacheTypeOK
  <1>b. faults' \in Nat
    <2>1. \A failed \in BOOLEAN : Costs(failed) => faults' = faults \/ faults' = faults + 1
      BY DEF Costs
    <2>2. faults' = faults \/ faults' = faults + 1
      BY <1>1, <2>1 DEF Hit, Miss, Direct
    <2> QED
      BY <1>1, <2>2 DEF CacheTypeOK
  <1>10. CASE Hit(t)
    <2>1. PICK c : c = cache
      OBVIOUS
    <2>2. /\ c # None /\ c \in Caches /\ c.entries \in Table /\ c.entries[t] # None
          /\ c.lang = console /\ c.live = asked \cap Kept(c.entries)
          /\ Cardinality(Kept(c.entries)) <= MaxEntries /\ IsLookup(c.entries, console)
      BY <1>1, <1>10, <2>1, TablesType DEF Hit, TableWell
    <2>3. /\ cache' = [c EXCEPT !.live = @ \cup {t}]
          /\ shown' = [shown EXCEPT ![t] = NameIn(c.entries[t], AsciiNames)]
      BY <1>10, <2>1 DEF Hit
    <2>4. /\ cache' \in Caches /\ cache' # None /\ cache'.entries = c.entries
          /\ cache'.lang = c.lang /\ cache'.dirty = c.dirty /\ cache'.live = c.live \cup {t}
      BY <2>2, <2>3, NoneIsNothing DEF Caches
    <2>5. t \in Kept(c.entries)
      BY <2>2 DEF Kept
    <2>6. PICK e : e = c.entries[t]
      OBVIOUS
    <2>7. e \in Records /\ e = RecordOf(e.from, console) /\ e.from \in Packages \cup {None}
      BY <2>2, <2>5, <2>6 DEF IsLookup, Table, Records
    <2>8. /\ NameIn(e, AsciiNames) = title_name(e.from, console, AsciiNames)
          /\ title_name(e.from, console, AsciiNames) \in Texts \cup {NoName}
      BY <1>a, <2>7, RecordLooksUp
    <2>9. shown' \in [Titles -> Texts \cup {NoName, None}]
      BY <1>1, <2>3, <2>6, <2>8 DEF CacheTypeOK
    <2>10. TableWell'
      BY <1>1, <2>2, <2>4, <2>5 DEF TableWell
    <2>11. Clean'
      <3>1. AllAsked => cache'.live = c.live
        BY <1>2, <2>2, <2>4, <2>5 DEF AllAsked
      <3>2. AllAsked => AllAsked'
        BY <1>1, <1>4 DEF AllAsked
      <3> QED
        BY <1>1, <1>7, <2>1, <2>2, <2>4, <3>1, <3>2 DEF Clean
    <2>12. Settled'
      BY <1>1, <2>1, <2>2, <2>3, <2>4 DEF Settled, HasRoom, CacheTypeOK
    <2>13. ShownIsALookup'
      <3>1. shown'[t] = title_name(cache'.entries[t].from, console, AsciiNames)
        BY <1>1, <2>3, <2>4, <2>6, <2>8 DEF CacheTypeOK
      <3>2. \A x \in Titles : x # t => shown'[x] = shown[x]
        BY <1>1, <2>3 DEF CacheTypeOK
      <3> QED
        BY <1>1, <1>3, <2>1, <2>2, <2>4, <3>1, <3>2 DEF ShownIsALookup, HasRoom
    <2> QED
      BY <1>b, <2>4, <2>9, <2>10, <2>11, <2>12, <2>13
  <1>11. CASE Miss(t)
    <2>1. PICK c : c = cache
      OBVIOUS
    <2>2. PICK failed \in BOOLEAN :
            LET e == RecordOf(Reads(t, failed), c.lang)
            IN /\ cache' = [c EXCEPT !.entries[t] = e, !.live = @ \cup {t}, !.dirty = TRUE]
               /\ shown' = [shown EXCEPT ![t] = NameIn(e, AsciiNames)]
      BY <1>11, <2>1 DEF Miss
    <2>3. /\ c # None /\ c \in Caches /\ c.entries \in Table /\ c.entries[t] = None
          /\ HasRoom(c) /\ c.lang = console /\ c.live = asked \cap Kept(c.entries)
          /\ IsLookup(c.entries, console)
      BY <1>1, <1>11, <2>1, TablesType DEF Miss, TableWell
    <2>4. PICK p \in Packages \cup {None} : p = Reads(t, failed)
      BY <1>9
    <2>5. PICK e : e = RecordOf(p, console)
      OBVIOUS
    <2>6. /\ e \in Records /\ e # None /\ e.from = p
          /\ NameIn(e, AsciiNames) = title_name(p, console, AsciiNames)
          /\ title_name(p, console, AsciiNames) \in Texts \cup {NoName}
      BY <1>a, <2>5, RecordLooksUp
    <2>7. /\ cache' = [c EXCEPT !.entries[t] = e, !.live = @ \cup {t}, !.dirty = TRUE]
          /\ shown' = [shown EXCEPT ![t] = NameIn(e, AsciiNames)]
      BY <2>2, <2>3, <2>4, <2>5
    <2>8. PICK table : table = [c.entries EXCEPT ![t] = e]
      OBVIOUS
    <2>9. /\ table \in Table /\ table[t] = e
          /\ \A x \in Titles : x # t => table[x] = c.entries[x]
      BY <2>3, <2>6, <2>8 DEF Table
    <2>10. /\ cache' \in Caches /\ cache' # None /\ cache'.entries = table
           /\ cache'.lang = console /\ cache'.dirty = TRUE /\ cache'.live = c.live \cup {t}
      <3>1. /\ cache'.entries = table /\ cache'.lang = c.lang /\ cache'.dirty = TRUE
            /\ cache'.live = c.live \cup {t}
            /\ DOMAIN cache' = {"entries", "live", "lang", "dirty"}
        BY <2>3, <2>7, <2>8 DEF Caches
      <3>2. cache' \in Caches
        BY <2>3, <2>7, <2>8, <2>9 DEF Caches
      <3> QED
        BY <2>3, <3>1, <3>2, NoneIsNothing
    <2>11. Kept(table) = Kept(c.entries) \cup {t} /\ t \notin Kept(c.entries)
      BY <2>3, <2>6, <2>9 DEF Kept
    <2>12. Cardinality(Kept(table)) = Cardinality(Kept(c.entries)) + 1
      BY <2>3, <2>11, TableFacts, FS_AddElement
    <2>13. shown' \in [Titles -> Texts \cup {NoName, None}]
      BY <1>1, <2>6, <2>7 DEF CacheTypeOK
    <2>14. TableWell'
      <3>1. Cardinality(Kept(table)) <= MaxEntries
        BY <2>3, <2>12, TableFacts, BoundAssumption DEF HasRoom
      <3>2. IsLookup(table, console)
        BY <2>3, <2>5, <2>6, <2>9, <2>11 DEF IsLookup, Kept
      <3> QED
        BY <1>1, <2>3, <2>10, <2>11, <3>1, <3>2 DEF TableWell
    <2>15. Clean'
      BY <2>10 DEF Clean
    <2>16. \A x \in Titles : x # t /\ shown'[x] # None => shown'[x] = shown[x] /\ c.entries[x] # None
      BY <1>1, <2>1, <2>3, <2>7 DEF Settled, CacheTypeOK
    <2>17. Settled'
      BY <2>6, <2>9, <2>10, <2>16 DEF Settled
    <2>18. ShownIsALookup'
      <3>1. shown'[t] = title_name(table[t].from, console, AsciiNames) /\ table[t] # None
        BY <1>1, <2>6, <2>7, <2>9 DEF CacheTypeOK
      <3>2. ASSUME NEW x \in Titles, x # t, shown'[x] # None
            PROVE  /\ table[x] # None
                   /\ shown'[x] = title_name(table[x].from, console, AsciiNames)
        BY <1>1, <2>1, <2>3, <2>9, <2>16, <3>2 DEF ShownIsALookup
      <3> QED
        BY <1>1, <2>10, <3>1, <3>2 DEF ShownIsALookup
    <2> QED
      BY <1>b, <2>10, <2>13, <2>14, <2>15, <2>17, <2>18
  <1>12. CASE Direct(t)
    <2>1. PICK failed \in BOOLEAN :
            shown' = [shown EXCEPT ![t] = title_name(Reads(t, failed), console, AsciiNames)]
      BY <1>12 DEF Direct
    <2>2. cache' = cache /\ (cache # None => cache.entries[t] = None /\ ~ HasRoom(cache))
      BY <1>12 DEF Direct
    <2>3. title_name(Reads(t, failed), console, AsciiNames) \in Texts \cup {NoName}
      BY <1>9, <1>a, RecordLooksUp
    <2>4. shown' \in [Titles -> Texts \cup {NoName, None}]
      BY <1>1, <2>1, <2>3 DEF CacheTypeOK
    <2>5. TableWell'
      BY <1>1, <2>2 DEF TableWell, Kept
    <2>6. Clean'
      <3>1. AllAsked => AllAsked'
        BY <1>1, <1>4 DEF AllAsked
      <3>2. PICK c : c = cache
        OBVIOUS
      <3>3. cache' = c
        BY <2>2, <3>2
      <3> QED
        BY <1>1, <1>7, <3>1, <3>2, <3>3 DEF Clean
    <2>7. /\ shown'[t] = title_name(Reads(t, failed), console, AsciiNames)
          /\ \A x \in Titles : x # t => shown'[x] = shown[x]
      BY <1>1, <2>1 DEF CacheTypeOK
    <2>8. Settled'
      BY <1>1, <2>2, <2>7 DEF Settled
    <2>9. ShownIsALookup'
      BY <1>1, <1>3, <2>2, <2>7 DEF ShownIsALookup
    <2> QED
      BY <1>1, <1>b, <2>2, <2>4, <2>5, <2>6, <2>8, <2>9 DEF CacheTypeOK
  <1> QED
    BY <1>1, <1>10, <1>11, <1>12

\* What a flush writes is what was asked about and has a record.
LEMMA WhatIsWritten ==
    ASSUME CacheTypeOK, TableWell, cache # None
    PROVE  /\ Written \in CacheFiles /\ Written # None
           /\ Written.ours = TRUE /\ Written.lang = console
           /\ Written.entries = [t \in Titles |-> IF t \in asked THEN cache.entries[t] ELSE None]
           /\ Kept(Written.entries) = cache.live
           /\ Written.count = Cardinality(cache.live)
           /\ IsLookup(Written.entries, console)
           /\ cache.live = Kept(cache.entries) => Written.entries = cache.entries
  <1>1. /\ cache \in Caches /\ cache.entries \in Table /\ cache.live \subseteq Titles
        /\ cache.lang = console /\ cache.live = asked \cap Kept(cache.entries)
        /\ Cardinality(Kept(cache.entries)) <= MaxEntries /\ IsLookup(cache.entries, console)
        /\ console \in Slots
    BY TablesType DEF TableWell, CacheTypeOK
  <1>2. PICK table : table = [t \in Titles |-> IF t \in cache.live THEN cache.entries[t] ELSE None]
    OBVIOUS
  <1>3. /\ Written.ours = TRUE /\ Written.lang = console /\ Written.entries = table
        /\ Written.count = Cardinality(cache.live)
    BY <1>1, <1>2 DEF Written
  <1>4. table \in Table /\ Kept(table) = cache.live
    BY <1>1, <1>2 DEF Table, Kept
  <1>5. Cardinality(cache.live) \in 0 .. MaxEntries
    <2>1. cache.live \in SUBSET Kept(cache.entries) /\ IsFiniteSet(Kept(cache.entries))
      BY <1>1, TableFacts
    <2>2. /\ Cardinality(cache.live) \in Nat
          /\ Cardinality(cache.live) <= Cardinality(Kept(cache.entries))
      BY <2>1, FS_Subset, FS_CardinalityType
    <2> QED
      BY <1>1, <2>2, TableFacts, BoundAssumption
  <1>6. Written \in CacheFiles /\ Written # None
    <2>1. Written = [ours |-> TRUE, lang |-> console, count |-> Cardinality(cache.live),
                     entries |-> table]
      BY <1>1, <1>2 DEF Written
    <2>2. Written \in CacheFiles
      BY <1>1, <1>4, <1>5, <2>1 DEF CacheFiles
    <2> QED
      BY <2>2, NoneIsNothing
  <1>7. table = [t \in Titles |-> IF t \in asked THEN cache.entries[t] ELSE None]
    <2>1. \A t \in Titles : (IF t \in cache.live THEN cache.entries[t] ELSE None)
                              = IF t \in asked THEN cache.entries[t] ELSE None
      BY <1>1 DEF Kept
    <2> QED
      BY <1>2, <2>1
  <1>8. IsLookup(table, console)
    BY <1>1, <1>2, <1>4 DEF IsLookup
  <1>9. ASSUME cache.live = Kept(cache.entries) PROVE table = cache.entries
    <2>1. \A t \in Titles : table[t] = cache.entries[t]
      BY <1>2, <1>9 DEF Kept
    <2> QED
      BY <1>1, <1>2, <2>1 DEF Table
  <1> QED
    BY <1>3, <1>4, <1>6, <1>7, <1>8, <1>9

\* A flush that has nothing to write, or that cannot write, leaves everything but the
\* table of a launch that is over.
LEMMA FlushNothingStep == ASSUME CacheInv, FlushNothing \/ FlushFails PROVE CacheInv'
  <1>1. /\ CacheTypeOK /\ pc = "flush" /\ LaunchWell
        /\ UNCHANGED <<installed, console, changes, file, todo, shown, asked, surveyed>>
        /\ FlushOver(cache)
    BY DEF CacheInv, FlushNothing, FlushFails, world
  <1>2. faults' \in Nat
    BY <1>1 DEF FlushNothing, FlushFails, CacheTypeOK
  <1>3. CASE leaving
    <2>1. pc' = "off" /\ cache' = None /\ leaving' = FALSE
      BY <1>1, <1>3 DEF FlushOver
    <2>2. shown' = Nothing
      BY <1>1, <1>3 DEF LaunchWell
    <2>3. CacheTypeOK'
      BY <1>1, <1>2, <2>1 DEF CacheTypeOK, PCs
    <2> QED
      BY <1>1, <2>1, <2>2, <2>3, NothingShown
         DEF CacheInv, FileWell, TableWell, LaunchWell, Untouched, Clean
  <1>4. CASE ~ leaving
    <2>1. pc' = "up" /\ cache' = cache /\ leaving' = FALSE
      BY <1>1, <1>4 DEF FlushOver
    <2>2. CacheTypeOK'
      BY <1>1, <1>2, <2>1 DEF CacheTypeOK, PCs
    <2>3. FileWell' /\ TableWell' /\ Untouched' /\ Clean' /\ (AllAsked' <=> AllAsked)
      BY <1>1, <2>1, TablesUntouched
    <2>4. Settled' /\ ShownIsALookup'
      BY <1>1, <2>1, ShownStays
    <2>5. LaunchWell'
      BY <1>1, <1>4, <2>1, <2>3 DEF LaunchWell
    <2> QED
      BY <2>2, <2>3, <2>4, <2>5 DEF CacheInv
  <1> QED
    BY <1>3, <1>4

\* The old file goes.
LEMMA FlushRemoveStep == ASSUME CacheInv, FlushRemove PROVE CacheInv'
  <1>1. /\ CacheTypeOK /\ pc = "flush" /\ LaunchWell /\ TableWell /\ cache # None
        /\ UNCHANGED <<installed, console, changes, cache, todo, shown, leaving, asked,
                       surveyed, faults>>
        /\ file' = None /\ pc' = "rename" /\ ~ NothingToWrite
    BY DEF CacheInv, FlushRemove, world, NothingToWrite
  <1>2. CacheTypeOK'
    BY <1>1 DEF CacheTypeOK, PCs
  <1>3. FileWell' /\ TableWell' /\ Untouched' /\ Clean'
    BY <1>1 DEF FileWell, TableWell, Untouched, Clean
  <1>4. Settled' /\ ShownIsALookup'
    BY <1>1, ShownStays
  <1>5. LaunchWell'
    <2>1. (AllAsked' <=> AllAsked) /\ (NothingToWrite' <=> NothingToWrite)
      BY <1>1 DEF AllAsked, Asks, Skips, NothingToWrite
    <2> QED
      BY <1>1, <2>1 DEF LaunchWell
  <1> QED
    BY <1>2, <1>3, <1>4, <1>5 DEF CacheInv

\* The new one takes its place, or does not.
LEMMA FlushRenameStep == ASSUME CacheInv, FlushRename PROVE CacheInv'
  <1>1. /\ CacheTypeOK /\ pc = "rename" /\ LaunchWell /\ TableWell
        /\ UNCHANGED <<installed, console, changes, todo, shown, asked, surveyed>>
    BY DEF CacheInv, FlushRename, world
  <1>2. cache # None /\ file = None /\ ~ NothingToWrite
    BY <1>1 DEF LaunchWell
  <1>3. PICK c : c = [cache EXCEPT !.dirty = FALSE]
    OBVIOUS
  <1>4. \/ file' = Written /\ FlushOver(c) /\ faults' = faults
        \/ faults' = faults + 1 /\ FlushOver(cache) /\ file' = file
    BY <1>3 DEF FlushRename
  <1>5. faults' \in Nat
    BY <1>1, <1>4 DEF CacheTypeOK
  <1>6. /\ c \in Caches /\ c # None /\ c.dirty = FALSE /\ c.entries = cache.entries
        /\ c.live = cache.live /\ c.lang = cache.lang /\ cache \in Caches
        /\ cache.entries \in Table
    BY <1>1, <1>2, <1>3, TablesType, NoneIsNothing DEF Caches
  <1>7. file' \in CacheFiles \cup {None} /\ FileWell'
    <2>1. CASE file' = None
      BY <2>1 DEF FileWell
    <2>2. CASE file' = Written
      <3>1. file'.count = Cardinality(Kept(file'.entries)) /\ file' \in CacheFiles
            /\ IsLookup(file'.entries, file'.lang)
        BY <1>1, <1>2, <2>2, WhatIsWritten
      <3>2. file'.count \in Nat
        BY <3>1 DEF CacheFiles
      <3> QED
        BY <3>1, <3>2 DEF FileWell
    <2> QED
      BY <1>2, <1>4, <2>1, <2>2
  <1>8. CASE leaving
    <2>1. pc' = "off" /\ cache' = None /\ leaving' = FALSE
      BY <1>4, <1>8 DEF FlushOver
    <2>2. shown' = Nothing
      BY <1>1, <1>8 DEF LaunchWell
    <2>3. CacheTypeOK'
      BY <1>1, <1>5, <1>7, <2>1 DEF CacheTypeOK, PCs
    <2> QED
      BY <1>1, <1>7, <2>1, <2>2, <2>3, NothingShown
         DEF CacheInv, TableWell, LaunchWell, Untouched, Clean
  <1>9. CASE ~ leaving
    <2>1. pc' = "up" /\ leaving' = FALSE /\ AllAsked
      BY <1>1, <1>4, <1>9 DEF FlushOver, LaunchWell
    <2>2. \/ file' = Written /\ cache' = c
          \/ file' = None /\ cache' = cache
      BY <1>2, <1>4, <1>9 DEF FlushOver
    <2>3. /\ cache' \in Caches /\ cache' # None /\ cache'.entries = cache.entries
          /\ cache'.live = cache.live /\ cache'.lang = cache.lang
      BY <1>2, <1>6, <2>2
    <2>4. CacheTypeOK'
      BY <1>1, <1>5, <1>7, <2>1, <2>3 DEF CacheTypeOK, PCs
    <2>5. AllAsked'
      BY <1>1, <2>1 DEF AllAsked, Asks, Skips
    <2>6. LaunchWell'
      BY <1>1, <2>1, <2>5 DEF LaunchWell
    <2>7. TableWell'
      BY <1>1, <1>2, <2>3 DEF TableWell
    <2>8. Untouched'
      <3>1. CASE file' = None
        BY <3>1 DEF Untouched
      <3>2. CASE file' = Written /\ asked = {}
        <4>1. Kept(file'.entries) = {}
          BY <1>1, <1>2, <3>2, WhatIsWritten DEF TableWell
        <4> QED
          BY <4>1 DEF Untouched
      <3>3. CASE asked # {}
        BY <1>1, <3>3 DEF Untouched
      <3> QED
        BY <2>2, <3>1, <3>2, <3>3
    <2>9. Clean'
      <3>1. CASE file' = Written /\ cache' = c
        <4>1. ASSUME c.live = Kept(c.entries) PROVE FileHas(c.entries)'
          BY <1>1, <1>2, <1>6, <3>1, <4>1, WhatIsWritten DEF FileHas
        <4>2. c.live = Kept(c.entries) => FileHas(cache.entries)'
          BY <3>1, <4>1 DEF FileHas
        <4> QED
          BY <2>5, <3>1, <4>2 DEF Clean
      <3>2. CASE file' = None /\ cache' = cache
        <4>1. ~ cache.dirty => cache.live # Kept(cache.entries)
          BY <1>2 DEF NothingToWrite
        <4> QED
          BY <2>5, <3>2, <4>1 DEF Clean
      <3> QED
        BY <2>2, <3>1, <3>2
    <2>10. Settled'
      BY <2>1 DEF Settled
    <2>11. ShownIsALookup'
      <3>1. \A x, failed : Reads(x, failed)' = Reads(x, failed)
        BY <1>1 DEF Reads
      <3> QED
        BY <1>1, <1>2, <2>3, <3>1 DEF CacheInv, ShownIsALookup, HasRoom
    <2> QED
      BY <1>7, <2>4, <2>6, <2>7, <2>8, <2>9, <2>10, <2>11 DEF CacheInv
  <1> QED
    BY <1>8, <1>9

\* The survey forgets every record.
LEMMA SurveyStep == ASSUME CacheInv, Survey PROVE CacheInv'
  <1>1. /\ CacheTypeOK /\ TableWell /\ LaunchWell /\ FileWell /\ ShownIsALookup
        /\ pc = "up" /\ pc' = "up" /\ surveyed' = TRUE /\ asked' = {}
        /\ UNCHANGED <<installed, console, changes, file, todo, shown, leaving, faults>>
    BY DEF CacheInv, Survey, world
  <1>2. LaunchWell' /\ FileWell' /\ Untouched' /\ Settled'
    BY <1>1 DEF LaunchWell, FileWell, Untouched, Settled
  <1>3. \A x, failed : Reads(x, failed)' = Reads(x, failed)
    BY <1>1 DEF Reads
  <1>4. CASE cache = None
    <2>1. cache' = None
      BY <1>4 DEF Survey
    <2>2. CacheTypeOK'
      BY <1>1, <2>1 DEF CacheTypeOK
    <2>3. ShownIsALookup'
      BY <1>1, <1>3, <1>4, <2>1 DEF ShownIsALookup
    <2> QED
      BY <1>2, <2>1, <2>2, <2>3 DEF CacheInv, TableWell, Clean
  <1>5. CASE cache # None
    <2>1. cache \in Caches /\ cache.entries \in Table
      BY <1>1, <1>5, TablesType
    <2>2. cache' = [cache EXCEPT !.entries = Nothing, !.live = {}, !.dirty = TRUE]
      BY <1>5 DEF Survey
    <2>3. /\ cache' \in Caches /\ cache' # None /\ cache'.entries = Nothing /\ cache'.live = {}
          /\ cache'.dirty = TRUE /\ cache'.lang = cache.lang
      <3>1. cache' \in Caches
        BY <2>1, <2>2, TableFacts DEF Caches
      <3> QED
        BY <2>1, <2>2, <3>1, NoneIsNothing DEF Caches
    <2>4. CacheTypeOK'
      BY <1>1, <2>3 DEF CacheTypeOK
    <2>5. TableWell' /\ Clean'
      <3>1. Cardinality(Kept(Nothing)) = 0 /\ IsLookup(Nothing, console)
        BY TableFacts
      <3>2. TableWell'
        BY <1>1, <1>5, <2>3, <3>1, TableFacts, BoundAssumption DEF TableWell
      <3> QED
        BY <2>3, <3>2 DEF Clean
    <2>6. ShownIsALookup'
      <3>1. \A t \in Titles : cache'.entries[t] = None
        BY <2>3 DEF Nothing
      <3>2. ASSUME NEW t \in Titles, shown[t] # None, ~ HasRoom(cache')
            PROVE  \E failed \in BOOLEAN :
                      shown[t] = title_name(Reads(t, failed), console, AsciiNames)
        <4>1. MaxEntries = 0
          BY <2>3, <3>2, TableFacts, BoundAssumption DEF HasRoom
        <4>2. Kept(cache.entries) = {}
          BY <1>1, <1>5, <2>1, <4>1, TableFacts DEF TableWell
        <4>3. cache.entries[t] = None /\ ~ HasRoom(cache)
          BY <4>1, <4>2, FS_EmptySet DEF HasRoom, Kept
        <4> QED
          BY <1>1, <3>2, <4>3 DEF ShownIsALookup
      <3> QED
        BY <1>1, <1>3, <2>3, <3>1, <3>2 DEF ShownIsALookup
    <2> QED
      BY <1>2, <2>4, <2>5, <2>6 DEF CacheInv
  <1> QED
    BY <1>4, <1>5

\* The power goes.
LEMMA PowerStep == ASSUME CacheInv, PowerCut PROVE CacheInv'
  <1>1. /\ CacheTypeOK /\ FileWell
        /\ pc' = "off" /\ leaving' = FALSE /\ cache' = None /\ todo' = {} /\ shown' = Nothing
        /\ UNCHANGED <<installed, console, changes, file, asked, surveyed>>
        /\ faults' = faults + 1
    BY DEF CacheInv, PowerCut, world
  <1>2. CacheTypeOK'
    <2>1. faults' \in Nat
      BY <1>1 DEF CacheTypeOK
    <2>2. shown' \in [Titles -> Texts \cup {NoName, None}] /\ todo' \subseteq Titles
      BY <1>1, TableFacts
    <2> QED
      BY <1>1, <2>1, <2>2 DEF CacheTypeOK, PCs
  <1> QED
    BY <1>1, <1>2, NothingShown DEF CacheInv, FileWell, TableWell, LaunchWell, Untouched, Clean

\* What happens between launches: a file that is left by another build or cut off stays
\* one that load_file knows to leave alone or to read in part.
LEMMA BetweenStep ==
    ASSUME CacheInv, ChangePackage \/ ChangeLanguage \/ OtherBuild \/ Truncated
    PROVE  CacheInv'
  <1>1. /\ CacheTypeOK /\ FileWell /\ LaunchWell /\ pc = "off" /\ cache = None
        /\ shown = Nothing /\ ~ leaving
        /\ UNCHANGED <<pc, cache, todo, shown, leaving, asked, surveyed, faults>>
        /\ changes' = changes + 1
    BY DEF CacheInv, LaunchWell, ChangePackage, ChangeLanguage, OtherBuild, Truncated, Changes
  <1>2. SUFFICES /\ installed' \in [Titles -> Packages \cup {None}] /\ console' \in Slots
                 /\ file' \in CacheFiles \cup {None} /\ FileWell'
    <2>1. CacheTypeOK'
      BY <1>1, <1>2 DEF CacheTypeOK
    <2> QED
      BY <1>1, <1>2, <2>1, NothingShown DEF CacheInv, TableWell, LaunchWell, Untouched, Clean
  <1>3. CASE ChangePackage
    <2>1. PICK t \in Titles, p \in Packages \cup {None} : installed' = [installed EXCEPT ![t] = p]
      BY <1>3 DEF ChangePackage
    <2> QED
      BY <1>1, <1>3, <2>1 DEF ChangePackage, CacheTypeOK, FileWell
  <1>4. CASE ChangeLanguage
    BY <1>1, <1>4 DEF ChangeLanguage, CacheTypeOK, FileWell
  <1>5. CASE OtherBuild
    <2>1. PICK found \in (SUBSET Titles) \ {{}} :
             /\ Cardinality(found) <= MaxEntries
             /\ file' = [ours |-> FALSE, lang |-> console, count |-> Cardinality(found),
                         entries |-> [t \in Titles |->
                             IF t \notin found THEN None
                             ELSE [RecordOf(None, console) EXCEPT !.from = installed[t]]]]
      BY <1>5 DEF OtherBuild
    <2>2. PICK table : table = [t \in Titles |->
                             IF t \notin found THEN None
                             ELSE [RecordOf(None, console) EXCEPT !.from = installed[t]]]
      OBVIOUS
    <2>3. \A t \in Titles : [RecordOf(None, console) EXCEPT !.from = installed[t]] \in Records
      <3>1. RecordOf(None, console) \in Records
        BY <1>1, RecordLooksUp DEF CacheTypeOK
      <3> QED
        BY <1>1, <3>1 DEF Records, CacheTypeOK
    <2>4. table \in Table /\ Kept(table) = found
      BY <2>2, <2>3, NoneIsNothing DEF Table, Kept
    <2>5. Cardinality(found) \in 0 .. MaxEntries
      BY <2>1, FS_Subset, FS_CardinalityType, BoundAssumption
    <2>6. file' = [ours |-> FALSE, lang |-> console, count |-> Cardinality(found),
                   entries |-> table]
      BY <2>1, <2>2
    <2>7. file' \in CacheFiles
      BY <1>1, <2>4, <2>5, <2>6 DEF CacheFiles, CacheTypeOK
    <2>8. FileWell'
      BY <2>4, <2>5, <2>6 DEF FileWell
    <2> QED
      BY <1>1, <1>5, <2>7, <2>8 DEF OtherBuild, CacheTypeOK
  <1>6. CASE Truncated
    <2>1. PICK f : f = file
      OBVIOUS
    <2>2. PICK t \in Kept(f.entries) : file' = [f EXCEPT !.entries[t] = None]
      BY <1>6, <2>1 DEF Truncated
    <2>3. /\ f # None /\ f \in CacheFiles /\ f.entries \in Table /\ t \in Titles
          /\ Cardinality(Kept(f.entries)) <= f.count /\ f.count \in Nat
          /\ f.ours => IsLookup(f.entries, f.lang)
      BY <1>1, <1>6, <2>1, TablesType DEF Truncated, FileWell, Kept
    <2>4. PICK table : table = [f.entries EXCEPT ![t] = None]
      OBVIOUS
    <2>5. /\ table \in Table /\ table[t] = None /\ \A x \in Titles : x # t => table[x] = f.entries[x]
      BY <2>3, <2>4 DEF Table
    <2>6. file' \in CacheFiles
      BY <2>2, <2>3, <2>4, <2>5 DEF CacheFiles
    <2>7. /\ file'.entries = table /\ file'.count = f.count /\ file'.ours = f.ours
          /\ file'.lang = f.lang
      BY <2>2, <2>3, <2>4 DEF CacheFiles
    <2>8. Kept(table) = Kept(f.entries) \ {t}
      BY <2>3, <2>5 DEF Kept
    <2>9. Cardinality(Kept(table)) <= f.count
      <3>1. Kept(table) \in SUBSET Kept(f.entries)
        BY <2>8
      <3>2. Cardinality(Kept(table)) <= Cardinality(Kept(f.entries))
        BY <2>3, <3>1, TableFacts, FS_Subset
      <3> QED
        BY <2>3, <2>5, <3>2, TableFacts
    <2>10. IsLookup(f.entries, f.lang) => IsLookup(table, f.lang)
      BY <2>3, <2>5, <2>8 DEF IsLookup, Kept
    <2>11. FileWell'
      BY <2>3, <2>7, <2>9, <2>10 DEF FileWell
    <2> QED
      BY <1>1, <1>6, <2>6, <2>11 DEF Truncated, CacheTypeOK
  <1> QED
    BY <1>3, <1>4, <1>5, <1>6

\* No step breaks it.
LEMMA CacheStep == CacheInv /\ [CacheNext]_cacheVars => CacheInv'
  <1> SUFFICES ASSUME CacheInv, [CacheNext]_cacheVars PROVE CacheInv'
    OBVIOUS
  <1>1. CASE UNCHANGED cacheVars
    <2>1. /\ UNCHANGED <<installed, console, file, pc, cache, todo, shown, leaving>>
          /\ UNCHANGED <<asked, surveyed, changes, faults>>
      BY <1>1 DEF cacheVars
    <2>2. CacheTypeOK'
      BY <2>1 DEF CacheInv, CacheTypeOK
    <2>3. LaunchWell'
      BY <2>1, TablesUntouched DEF CacheInv, LaunchWell
    <2>4. Untouched' /\ Clean'
      BY <2>1, TablesUntouched DEF Untouched, Clean
    <2> QED
      BY <2>1, <2>2, <2>3, <2>4, TablesUntouched, ShownStays DEF CacheInv
  <1> QED
    BY <1>1, OpenStep, QuietStep, NameStep, FlushNothingStep, FlushRemoveStep,
       FlushRenameStep, SurveyStep, PowerStep, BetweenStep DEF CacheNext

\* The console starts with nothing read and no file.
LEMMA InitCache == CacheInit => CacheInv
  <1> SUFFICES ASSUME CacheInit PROVE CacheInv
    OBVIOUS
  <1>1. CacheTypeOK
    BY TableFacts DEF CacheInit, CacheTypeOK, PCs
  <1>2. \A t \in Titles : shown[t] = None
    BY DEF CacheInit, Nothing
  <1> QED
    BY <1>1, <1>2 DEF CacheInit, CacheInv, FileWell, TableWell, LaunchWell, Untouched, Clean,
                      Settled, ShownIsALookup

\* The invariant holds of every launch.
LEMMA CacheIsInvariant == CacheSpec => []CacheInv
  BY InitCache, CacheStep, PTL DEF CacheSpec

\* Every variable of the title cache keeps its type: above all a table, and a file, never
\* has more records than there is room for (probe, load_file).
THEOREM CacheTypeCorrect == CacheSpec => []CacheTypeOK
  <1>1. CacheInv => CacheTypeOK
    BY DEF CacheInv
  <1> QED
    BY <1>1, CacheIsInvariant, PTL

\* A name in the list is what the lookup says in the console's language, whether it came
\* from a record of this launch, of an earlier one, or from the title itself, however
\* files were cut off, left by other builds or lost on the way (load_file,
\* daemoon_3ds_cache_name).
THEOREM NamesStayLookups == CacheSpec => []NamesAreLookups
  <1>1. CacheInv => NamesAreLookups
    BY DEF CacheInv, NamesAreLookups, RecordsAreLookups, FileWell, TableWell
  <1> QED
    BY <1>1, CacheIsInvariant, PTL

\* A launch that asked for nothing leaves the records of its file.
LEMMA KeptStep ==
    ASSUME CacheInv, [CacheNext]_cacheVars, pc # "off", file # None, file' # file
    PROVE  asked # {} \/ surveyed \/ Kept(file.entries) = {}
  <1>1. pc = "flush" /\ ~ NothingToWrite
    <2>1. FlushRemove \/ FlushRename
      BY DEF CacheNext, cacheVars, Launch, StartListing, ListingFails, SkipTitle, NameTitle,
             LoadIcons, FlushNothing, FlushFails, Survey, Leave, PowerCut, ChangePackage,
             ChangeLanguage, OtherBuild, Truncated, Changes
    <2>2. pc # "rename"
      BY DEF CacheInv, LaunchWell
    <2> QED
      BY <2>1, <2>2 DEF FlushRemove, FlushRename
  <1>2. SUFFICES ASSUME asked = {}, ~ surveyed PROVE Kept(file.entries) = {}
    OBVIOUS
  <1>3. cache # None /\ cache.live = {}
    BY <1>1, <1>2 DEF NothingToWrite, CacheInv, TableWell
  <1>4. Kept(cache.entries) = {} /\ cache.dirty
    BY <1>1, <1>3 DEF NothingToWrite
  <1> QED
    BY <1>1, <1>2, <1>3, <1>4 DEF CacheInv, Untouched

\* A flush that met no fault leaves what was asked about.
LEMMA FlushedStep ==
    ASSUME CacheInv, [CacheNext]_cacheVars, FlushDone, cache.live # {}
    PROVE  HoldsWhatWasAsked(file')
  <1>1. /\ CacheTypeOK /\ TableWell /\ Clean /\ LaunchWell /\ cache # None
        /\ pc \in {"flush", "rename"} /\ pc' \in {"up", "off"} /\ faults' = faults
        /\ faults \in Nat
    BY DEF CacheInv, FlushDone, CacheTypeOK
  <1>2. faults + 1 # faults
    BY <1>1
  <1>3. FlushNothing \/ FlushRename
    BY <1>1, <1>2 DEF CacheNext, cacheVars, Launch, StartListing, ListingFails, SkipTitle,
       NameTitle, LoadIcons, FlushFails, FlushRemove, Survey, Leave, PowerCut, ChangePackage,
       ChangeLanguage, OtherBuild, Truncated, Changes
  <1>4. CASE FlushNothing
    <2>1. file' = file /\ ~ cache.dirty /\ cache.live = Kept(cache.entries) /\ pc = "flush"
      BY <1>1, <1>4 DEF FlushNothing, NothingToWrite
    <2>2. FileHas(cache.entries)
      BY <1>1, <2>1 DEF Clean
    <2>3. cache.entries = [t \in Titles |-> IF t \in asked THEN cache.entries[t] ELSE None]
      <3>1. cache.entries \in Table /\ cache.live \subseteq asked
        BY <1>1, TablesType DEF TableWell
      <3>2. \A t \in Titles : cache.entries[t] = IF t \in asked THEN cache.entries[t] ELSE None
        BY <2>1, <3>1 DEF Kept
      <3> QED
        BY <3>1, <3>2 DEF Table
    <2> QED
      BY <2>1, <2>2, <2>3 DEF FileHas, HoldsWhatWasAsked
  <1>5. CASE FlushRename
    <2>1. file' = Written
      BY <1>1, <1>2, <1>5 DEF FlushRename
    <2> QED
      BY <1>1, <2>1, WhatIsWritten DEF HoldsWhatWasAsked
  <1> QED
    BY <1>3, <1>4, <1>5

\* The file on the card is the launch's or the one it found: a launch that could not read
\* the list, or was cut off, takes no record from it, and a flush that meets no fault
\* leaves exactly what was asked about, written or not (daemoon_3ds_cache_flush).
THEOREM FilesTellTheLaunch == CacheSpec => FileTellsTheLaunch
  <1>1. CacheInv /\ [CacheNext]_cacheVars =>
          [pc # "off" /\ file # None /\ file' # file =>
             asked # {} \/ surveyed \/ Kept(file.entries) = {}]_cacheVars
    BY KeptStep
  <1>2. CacheInv /\ [CacheNext]_cacheVars =>
          [FlushDone /\ cache.live # {} => HoldsWhatWasAsked(file')]_cacheVars
    BY FlushedStep
  <1>3. CacheSpec => KeptUnlessAsked
    BY <1>1, CacheIsInvariant, PTL DEF CacheSpec, KeptUnlessAsked
  <1>4. CacheSpec => FlushedIsAsked
    BY <1>2, CacheIsInvariant, PTL DEF CacheSpec, FlushedIsAsked
  <1> QED
    BY <1>3, <1>4 DEF FileTellsTheLaunch
=============================================================================
