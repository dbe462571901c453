----------------------------- MODULE TitleCache -----------------------------
(***************************************************************************)
(* The names and icons of the 3DS grid: the lookup in a title's SMDH       *)
(* (platform/3ds/source/save_backend.c), the table that remembers what a   *)
(* lookup said (title_cache.c), the file the table is kept in between      *)
(* launches, and the reading of the library that drives all three          *)
(* (list_titles, load_library, and main's open and close).                 *)
(*                                                                         *)
(* A launch is sequential.  What goes wrong goes wrong across launches:    *)
(* a title installed, updated or deleted in between, a console switched to *)
(* another language, another build of the application, a lookup that       *)
(* failed once, the power going while the file is replaced.                *)
(* Init, Next and the like have Cache in front of their names, for a       *)
(* module of theorems that extends this one and Pairing.                   *)
(***************************************************************************)
EXTENDS Naturals, Sequences, FiniteSets

CONSTANTS
    Titles,        \* title ids the console may have installed
    Packages,      \* what can be installed under an id, see PackageType
    Texts,         \* the names a slot of an SMDH can carry
    Drawable,      \* those the fallback renderer draws: printable ASCII
    TooLong,       \* those that do not fit DAEMOON_NAME_MAX bytes of UTF-8
    LangCount,     \* SMDH_LANG_COUNT: the language slots are 0 .. LangCount-1
    MaxEntries,    \* CACHE_MAX_ENTRIES
    Blank,         \* what an empty slot holds
    NoName,        \* no name: the list falls back to the product code
    None,          \* no package under an id; no record; no file
    AsciiNames,    \* ascii_names: 0 in main, 1 on a console that must not draw others
    MaxChanges,    \* bound: what happens to the console between launches
    MaxFaults      \* bound: failed reads, failed writes, the power going

Slots == 0 .. LangCount - 1
SMDH_LANG_JAPANESE == 0
SMDH_LANG_ENGLISH  == 1

\* app: the high word of the id is 0x00040000.  has_save: archive_for opens it.
\* opens: which of the three ways to the SMDH works.  whole: a read from offset zero
\* brings at least the names (DAEMOON_3DS_SMDH_ICON_OFF bytes).
PackageType == [app: BOOLEAN, has_save: BOOLEAN, opens: SUBSET (1 .. 3),
                whole: BOOLEAN, names: [Slots -> Texts \cup {Blank}]]

ASSUME PackageAssumption == Packages \subseteq PackageType

ASSUME NameAssumption ==
    /\ Drawable \subseteq Texts /\ TooLong \subseteq Texts
    /\ {Blank, NoName, None} \cap Texts = {}
    /\ Blank # NoName
    /\ None \notin Packages

ASSUME BoundAssumption ==
    /\ IsFiniteSet(Titles)
    /\ LangCount \in Nat /\ LangCount > SMDH_LANG_ENGLISH
    /\ AsciiNames \in BOOLEAN
    /\ MaxEntries \in Nat /\ MaxChanges \in Nat /\ MaxFaults \in Nat

VARIABLES
    installed,     \* [Titles -> package or None]
    console,       \* the console's own language: the slot the lookup starts at
    file,          \* cache/titles.bin: None or a CacheFiles
    pc,            \* where the launch is, see PCs
    cache,         \* the daemoon_3ds_title_cache_t, None when it was not allocated
    todo,          \* the titles list_titles has still to come to
    shown,         \* [Titles -> what the list shows], None for a title it leaves out
    leaving,       \* the flush under way is the last one, on the way out
    asked,         \* history: the titles this launch asked the cache about
    surveyed,      \* history: the survey ran in this launch
    changes, faults

cacheVars == <<installed, console, file, pc, cache, todo, shown, leaving,
               asked, surveyed, changes, faults>>
world == <<installed, console, changes>>

-----------------------------------------------------------------------------
\* The lookup.  Unreadable is an SMDH no way leads to, or one that ends too early.
Readable(p) == p.opens # {} /\ p.whole

Fits(text, asciiOnly) ==
    text # Blank /\ text \notin TooLong /\ (asciiOnly => text \in Drawable)

\* daemoon_3ds_smdh_name: the console's language, English, Japanese, then whatever
\* there is, each taken only if take_smdh_slot has something to give.
Chain(lang) ==
    <<lang, SMDH_LANG_ENGLISH, SMDH_LANG_JAPANESE>> \o [i \in 1 .. LangCount |-> i - 1]

smdh_name(names, lang, asciiOnly) ==
    LET good == {i \in DOMAIN Chain(lang) : Fits(names[Chain(lang)[i]], asciiOnly)}
    IN IF good = {} THEN NoName
       ELSE names[Chain(lang)[CHOOSE i \in good : \A j \in good : i <= j]]

\* daemoon_3ds_title_name, and the record probe fills from the same read: both names
\* and the picture, or the fact that there is nothing.  p = None: the read failed.
title_name(p, lang, asciiOnly) ==
    IF p = None THEN NoName ELSE smdh_name(p.names, lang, asciiOnly)

RecordOf(p, lang) ==
    [name  |-> title_name(p, lang, FALSE),
     ascii |-> title_name(p, lang, TRUE),
     icon  |-> p # None,
     from  |-> p]                                 \* history: what was read

Records == [name: Texts \cup {NoName}, ascii: Texts \cup {NoName}, icon: BOOLEAN,
            from: Packages \cup {None}]

\* What opening and reading the SMDH of t gives: its package, or None because it
\* cannot be read, or because this once it was not (at the price of a fault).
Reads(t, failed) ==
    IF installed[t] = None \/ failed THEN None
    ELSE IF Readable(installed[t]) THEN installed[t] ELSE None

-----------------------------------------------------------------------------
Table == [Titles -> Records \cup {None}]
Kept(table) == {t \in Titles : table[t] # None}
Nothing == [t \in Titles |-> None]

\* The file.  count is the header's; a card pulled during a write leaves fewer.
CacheFiles == [ours: BOOLEAN,      \* the magic and CACHE_FORMAT are this build's
               lang: Slots, count: 0 .. MaxEntries, entries: Table]
Caches == [entries: Table, live: SUBSET Titles, lang: Slots, dirty: BOOLEAN]

PCs == {"off", "up", "list", "flush", "rename"}

ASSUME NoneIsNothing == None \notin Records \cup CacheFiles \cup Caches

CacheTypeOK ==
    /\ installed \in [Titles -> Packages \cup {None}]
    /\ console \in Slots
    /\ file \in CacheFiles \cup {None}
    /\ pc \in PCs
    /\ cache \in Caches \cup {None}
    /\ leaving \in BOOLEAN /\ surveyed \in BOOLEAN
    /\ todo \subseteq Titles
    /\ shown \in [Titles -> Texts \cup {NoName, None}]
    /\ asked \subseteq Titles
    /\ changes \in Nat /\ faults \in Nat

CacheInit ==
    /\ installed \in [Titles -> Packages \cup {None}]
    /\ console \in Slots
    /\ file = None
    /\ pc = "off"
    /\ cache = None
    /\ leaving = FALSE /\ surveyed = FALSE
    /\ todo = {} /\ shown = Nothing /\ asked = {}
    /\ changes = 0 /\ faults = 0

-----------------------------------------------------------------------------
\* Opening: main's daemoon_3ds_cache_open.

\* mutant: the header's language is not looked at
AcceptedAnyLanguage(lang) == file # None /\ file.ours /\ file.count <= MaxEntries

\* load_file: a file of another build, of another language or of more records than
\* the table has is left where it is and not read.
Accepted(lang) ==
    /\ file # None
    /\ file.ours
    /\ file.lang = lang
    /\ file.count <= MaxEntries

\* mutant: a short read does not mark the cache as different from its file
load_file_clean(lang) ==
    [entries |-> IF Accepted(lang) THEN file.entries ELSE Nothing,
     live |-> {}, lang |-> lang, dirty |-> FALSE]

\* What arrives of a truncated file is whole records, and the rest are misses.
load_file(lang) ==
    IF Accepted(lang)
    THEN [entries |-> file.entries, live |-> {}, lang |-> lang,
          dirty |-> Cardinality(Kept(file.entries)) # file.count]
    ELSE [entries |-> Nothing, live |-> {}, lang |-> lang, dirty |-> FALSE]

Launch ==
    /\ pc = "off"
    /\ \/ cache' = load_file(console) /\ UNCHANGED faults
       \/ faults < MaxFaults /\ faults' = faults + 1 /\ cache' = None
    /\ pc' = "up"
    /\ shown' = Nothing /\ asked' = {} /\ surveyed' = FALSE
    /\ UNCHANGED <<world, file, todo, leaving>>

-----------------------------------------------------------------------------
\* Reading the library: list_titles, then load_library's icons, then the flush.

\* load_library starts over: the list it had is freed first.
StartListing ==
    /\ pc = "up"
    /\ pc' = "list"
    /\ todo' = {t \in Titles : installed[t] # None}
    /\ shown' = Nothing
    /\ UNCHANGED <<world, file, cache, leaving, asked, surveyed, faults>>

\* AM would not give the list: load_library returns before the flush.
ListingFails ==
    /\ pc = "up"
    /\ faults < MaxFaults /\ faults' = faults + 1
    /\ shown' = Nothing
    /\ UNCHANGED <<world, file, pc, cache, todo, leaving, asked, surveyed>>

\* System titles, and titles without a save, are passed over before their name is
\* asked for.  only_with_saves is always set.
Skips(t) == ~installed[t].app \/ ~installed[t].has_save

SkipTitle(t) ==
    /\ pc = "list" /\ t \in todo /\ Skips(t)
    /\ todo' = todo \ {t}
    /\ UNCHANGED <<world, file, pc, cache, shown, leaving, asked, surveyed, faults>>

\* mutant: the two names of a record are taken for the same
NameInAscii(e, asciiOnly) == e.ascii

\* A read that fails though the title is there is one of the faults.
Costs(failed) ==
    /\ failed => faults < MaxFaults
    /\ faults' = IF failed THEN faults + 1 ELSE faults

\* daemoon_3ds_cache_name, on a record.
NameIn(e, asciiOnly) ==
    IF asciiOnly
    THEN IF e.ascii # NoName THEN e.ascii
         ELSE IF e.name \in Drawable THEN e.name ELSE NoName
    ELSE e.name

\* mutant: off by one at the end of the table
HasRoomForOneMore(c) == Cardinality(Kept(c.entries)) <= MaxEntries

HasRoom(c) == Cardinality(Kept(c.entries)) < MaxEntries

\* entry_for and find: a record already there answers.
Hit(t) ==
    /\ cache # None /\ cache.entries[t] # None
    /\ cache' = [cache EXCEPT !.live = @ \cup {t}]
    /\ shown' = [shown EXCEPT ![t] = NameIn(cache.entries[t], AsciiNames)]
    /\ UNCHANGED faults

\* probe: the lookup runs and is remembered, a failed one like any other.
Miss(t) ==
    /\ cache # None /\ cache.entries[t] = None /\ HasRoom(cache)
    /\ \E failed \in BOOLEAN :
          /\ Costs(failed)
          /\ LET e == RecordOf(Reads(t, failed), cache.lang)
             IN /\ cache' = [cache EXCEPT !.entries[t] = e, !.live = @ \cup {t},
                                          !.dirty = TRUE]
                /\ shown' = [shown EXCEPT ![t] = NameIn(e, AsciiNames)]

\* Past the table, or without one, the lookup goes to the hardware.
Direct(t) ==
    /\ cache # None => cache.entries[t] = None /\ ~HasRoom(cache)
    /\ \E failed \in BOOLEAN :
          /\ Costs(failed)
          /\ shown' = [shown EXCEPT ![t] = title_name(Reads(t, failed), console, AsciiNames)]
    /\ UNCHANGED cache

NameTitle(t) ==
    /\ pc = "list" /\ t \in todo /\ ~Skips(t)
    /\ Hit(t) \/ Miss(t) \/ Direct(t)
    /\ todo' = todo \ {t}
    /\ asked' = asked \cup {t}
    /\ UNCHANGED <<world, file, pc, leaving, surveyed>>

\* The icon loop finds every record the name loop left, and for a title past the
\* table it finds nothing again: there is no room that was not there before.
LoadIcons ==
    /\ pc = "list" /\ todo = {}
    /\ pc' = "flush"
    /\ UNCHANGED <<world, file, cache, todo, shown, leaving, asked, surveyed, faults>>

-----------------------------------------------------------------------------
\* daemoon_3ds_cache_flush: write a temporary file, remove, rename.

\* mutant: a cache that was asked for nothing is pruned like any other
NothingChanged == cache # None => ~cache.dirty /\ cache.live = Kept(cache.entries)

\* Nothing was asked about, or nothing changed.
NothingToWrite ==
    cache # None =>
        \/ Kept(cache.entries) # {} /\ cache.live = {}
        \/ ~cache.dirty /\ cache.live = Kept(cache.entries)

Written ==
    [ours |-> TRUE, lang |-> cache.lang, count |-> Cardinality(cache.live),
     entries |-> [t \in Titles |-> IF t \in cache.live THEN cache.entries[t] ELSE None]]

\* The flush is over, whatever it said: load_library and main both ignore that, and
\* on the way out main closes the cache next.
FlushOver(c) ==
    /\ pc' = IF leaving THEN "off" ELSE "up"
    /\ cache' = IF leaving THEN None ELSE c
    /\ leaving' = FALSE

FlushNothing ==
    /\ pc = "flush" /\ NothingToWrite
    /\ FlushOver(cache)
    /\ UNCHANGED <<world, file, todo, shown, asked, surveyed, faults>>

\* The temporary file was not written whole, and is removed.
FlushFails ==
    /\ pc = "flush" /\ ~NothingToWrite
    /\ faults < MaxFaults /\ faults' = faults + 1
    /\ FlushOver(cache)
    /\ UNCHANGED <<world, file, todo, shown, asked, surveyed>>

FlushRemove ==
    /\ pc = "flush" /\ ~NothingToWrite
    /\ file' = None
    /\ pc' = "rename"
    /\ UNCHANGED <<world, cache, todo, shown, leaving, asked, surveyed, faults>>

FlushRename ==
    /\ pc = "rename"
    /\ \/ file' = Written /\ FlushOver([cache EXCEPT !.dirty = FALSE]) /\ UNCHANGED faults
       \/ faults < MaxFaults /\ faults' = faults + 1 /\ FlushOver(cache) /\ UNCHANGED file
    /\ UNCHANGED <<world, todo, shown, asked, surveyed>>

-----------------------------------------------------------------------------
\* The rest of a launch.

\* action_survey ends in daemoon_3ds_cache_forget, which does nothing without a cache.
\* It does not when survey.txt would not open: that survey changes nothing here.
Survey ==
    /\ pc = "up"
    /\ surveyed' = TRUE
    /\ asked' = {}
    /\ cache' = IF cache = None THEN None
                ELSE [cache EXCEPT !.entries = Nothing, !.live = {}, !.dirty = TRUE]
    /\ UNCHANGED <<world, file, pc, todo, shown, leaving, faults>>

\* START: the lists are freed and the cache is flushed once more.
Leave ==
    /\ pc = "up"
    /\ pc' = "flush" /\ leaving' = TRUE
    /\ shown' = Nothing
    /\ UNCHANGED <<world, file, cache, todo, asked, surveyed, faults>>

PowerCut ==
    /\ pc # "off"
    /\ faults < MaxFaults /\ faults' = faults + 1
    /\ pc' = "off" /\ leaving' = FALSE
    /\ cache' = None /\ todo' = {} /\ shown' = Nothing
    /\ UNCHANGED <<world, file, asked, surveyed>>

-----------------------------------------------------------------------------
\* Between launches.

Changes ==
    /\ pc = "off"
    /\ changes < MaxChanges
    /\ changes' = changes + 1
    /\ UNCHANGED <<pc, cache, todo, shown, leaving, asked, surveyed, faults>>

\* Installed, updated or deleted.
ChangePackage ==
    /\ Changes
    /\ \E t \in Titles, p \in Packages \cup {None} :
          p # installed[t] /\ installed' = [installed EXCEPT ![t] = p]
    /\ UNCHANGED <<console, file>>

ChangeLanguage ==
    /\ Changes
    /\ console' \in Slots \ {console}
    /\ UNCHANGED <<installed, file>>

\* A build with another lookup leaves its own file: here, one that could not open
\* any SMDH, the mistake the format number is there for.
OtherBuild ==
    /\ Changes
    /\ \E found \in (SUBSET Titles) \ {{}} :
          /\ Cardinality(found) <= MaxEntries
          /\ file' = [ours |-> FALSE, lang |-> console, count |-> Cardinality(found),
                      entries |-> [t \in Titles |->
                          IF t \notin found THEN None
                          ELSE [RecordOf(None, console) EXCEPT !.from = installed[t]]]]
    /\ UNCHANGED <<installed, console>>

\* The card was pulled before all of the file had reached it.
Truncated ==
    /\ Changes
    /\ file # None
    /\ \E t \in Kept(file.entries) : file' = [file EXCEPT !.entries[t] = None]
    /\ UNCHANGED <<installed, console>>

CacheNext ==
    \/ Launch \/ StartListing \/ ListingFails
    \/ \E t \in Titles : SkipTitle(t) \/ NameTitle(t)
    \/ LoadIcons
    \/ FlushNothing \/ FlushFails \/ FlushRemove \/ FlushRename
    \/ Survey \/ Leave \/ PowerCut
    \/ ChangePackage \/ ChangeLanguage \/ OtherBuild \/ Truncated

CacheSpec == CacheInit /\ [][CacheNext]_cacheVars

-----------------------------------------------------------------------------
(* Properties. *)

IsLookup(table, lang) == \A t \in Kept(table) : table[t] = RecordOf(table[t].from, lang)

\* Every record, in the table and in a file this build and language would take it
\* from, is what the lookup made of some read in the console's language: no name of
\* another language and no mistake of another build is carried in (load_file).
RecordsAreLookups ==
    /\ file # None /\ file.ours => IsLookup(file.entries, file.lang)
    /\ cache # None => cache.lang = console /\ IsLookup(cache.entries, console)

\* The list says of a title what the lookup says of the SMDH its record was made
\* from, or of the SMDH itself where the table has no record and no room: going
\* through the cache changes what a name costs and never what it is
\* (daemoon_3ds_cache_name against daemoon_3ds_title_name).
ShownIsALookup ==
    \A t \in Titles : shown[t] # None =>
        /\ (cache # None => cache.entries[t] = None /\ ~HasRoom(cache)) =>
               \E failed \in BOOLEAN :
                   shown[t] = title_name(Reads(t, failed), console, AsciiNames)
        /\ cache # None /\ cache.entries[t] # None =>
               shown[t] = title_name(cache.entries[t].from, console, AsciiNames)

\* Whatever a name came through, it is the lookup's.
NamesAreLookups == RecordsAreLookups /\ ShownIsALookup

\* A launch that asked for no title, because AM would not give the list, leaves the
\* records of the file as it found them, unless the survey has thrown the cache away
\* (title_cache.c:369-375).  Only a file cut off before its first record is replaced.
KeptUnlessAsked ==
    [][pc # "off" /\ file # None /\ file' # file =>
           asked # {} \/ surveyed \/ Kept(file.entries) = {}]_cacheVars

\* The end of a flush that met no fault.
FlushDone ==
    /\ pc \in {"flush", "rename"} /\ pc' \in {"up", "off"}
    /\ faults' = faults
    /\ cache # None

HoldsWhatWasAsked(f) ==
    /\ f # None
    /\ f.ours /\ f.lang = console
    /\ f.entries = [t \in Titles |-> IF t \in asked THEN cache.entries[t] ELSE None]
    /\ f.count = Cardinality(Kept(f.entries))

\* A flush that meets no fault leaves a file with exactly what was asked about and
\* remembered in this launch, whether it wrote one or found that it need not: the
\* dirty flag is right about what is on the card.  Except when nothing the launch
\* asked about has a record, see FlushPrunes.
FlushedIsAsked ==
    [][FlushDone /\ cache.live # {} => HoldsWhatWasAsked(file')]_cacheVars

\* The file on the card after a launch is the launch's, or the one it found.
FileTellsTheLaunch == KeptUnlessAsked /\ FlushedIsAsked

-----------------------------------------------------------------------------
(* What comments say and the code does not keep. *)

\* "Nothing was asked about at all ... that means the title list could not be read"
\* (title_cache.c:370-372).  A table full of titles that are gone has no room for one
\* that is there, so that nothing is marked and none of it is ever pruned.
FlushPrunes ==
    [][FlushDone /\ asked # {} => file' # None /\ Kept(file'.entries) \subseteq asked]_cacheVars

\* "The answer does not change until the title is updated or deleted"
\* (title_cache.c:5-6): nothing notices that it was.
ShownIsCurrent ==
    \A t \in Titles : shown[t] # None =>
        shown[t] = title_name(Reads(t, FALSE), console, AsciiNames)

=============================================================================
