------------------------------- MODULE Settings -------------------------------
(***************************************************************************)
(* The .env file and everyone who writes it: POST /config and /config/env,  *)
(* as the console's pages and the command line call them, the start that    *)
(* saves a generated seed, the setup wizard.  What a start reads is what    *)
(* dotenv finds in the file; what is running is in memory.                  *)
(*                                                                         *)
(* A value is the sequence of its comma separated parts.                    *)
(***************************************************************************)
EXTENDS Naturals, Sequences, SequencesExt, FiniteSets, FiniteSetsExt

CONSTANTS
    Consoles,    \* browsers
    Shells,      \* nutbits config set, on its own or in the terminal UI
    Hot,         \* keys that apply without a restart
    Entered,     \* bound: what an operator may type, by the keys he edits
    Default,     \* what a start takes for a hot key that has no value
    Refused,     \* texts POST /config refuses
    Ignored,     \* ... and those POST /config/env stores without applying them
    Mints,       \* bound: mints added on the page
    Installed,   \* .env as copied from .env.example, and edited
    ReadOnly,    \* the file cannot be written
    Interactive, \* the service runs in a terminal, and waits for Enter
    MaxEdits, MaxStops, MaxWizards   \* bounds

Editors == Consoles \cup Shells
Seed == "SEED"
MintUrl == "MINT_URL"
MintUrls == "MINT_URLS"
Level == "LOG_LEVEL"
Keys == Hot \cup {Seed, MintUrl, MintUrls}
Blank == <<>>
Zero == <<"0">>

ASSUME SettingsAssumption ==
    /\ Consoles \cap Shells = {} /\ {Seed, MintUrl, MintUrls} \cap Hot = {}
    /\ Ignored \subseteq Refused
    /\ Installed \in Seq(ToSet(Installed))
    /\ ReadOnly \in BOOLEAN /\ Interactive \in BOOLEAN
    /\ MaxEdits \in Nat /\ MaxStops \in Nat /\ MaxWizards \in Nat

VARIABLES
    file,       \* lines: key, text, on (not a comment), quoted, escaped
    backup,     \* .env.bak
    wizard,     \* the setup wizard is asking
    up,         \* the service runs
    live,       \* config, by hot key; of LOG_LEVEL the logger's
    mints,      \* config.mintUrls
    seed,       \* config.seed
    used,       \* history: seeds that proofs were derived from
    atEnter,    \* savedLogLevel, while the boot screen waits
    edit,       \* where each editor is
    page,       \* envOptions of each console's mint page
    apart,      \* history: hot keys the wizard or the boot screen set apart from the file
    edits, stops, wizards

fileVars == <<file, backup, wizard, wizards>>
runVars  == <<up, live, mints, seed, used, atEnter, apart, stops>>
editVars == <<edit, page, edits>>
setVars  == <<fileVars, runVars, editVars>>

NoEdit == [step |-> "none", key |-> Seed, text |-> Blank, raw |-> FALSE]
NoPage == [open |-> FALSE, text |-> Blank, raw |-> FALSE]

-----------------------------------------------------------------------------
(* The file *)

Line(k, t) == [key |-> k, text |-> t, on |-> TRUE, quoted |-> FALSE, escaped |-> FALSE]

\* The first line of a key, comments included; 0 when there is none.
FirstLine(f, k) == SelectInSeq(f, LAMBDA l : l.key = k)

PutLine(f, l) ==
    LET i == FirstLine(f, l.key) IN IF i = 0 THEN Append(f, l) ELSE [f EXCEPT ![i] = l]

\* persistToEnv: the first line becomes the value in quotes; quotes a value read
\* raw brings along are escaped.  A failure to write is ignored.
Persist(f, k, t, raw) ==
    IF ReadOnly THEN f
    ELSE PutLine(f, [Line(k, t) EXCEPT !.quoted = TRUE, !.escaped = raw])

\* dotenv: the last line that is not a comment; escapes stay in the value.
Active(f, k) == {i \in DOMAIN f : f[i].key = k /\ f[i].on}
Read(f, k) == IF Active(f, k) = {} THEN Blank ELSE f[Max(Active(f, k))].text
Garbled(f, k) == Active(f, k) # {} /\ f[Max(Active(f, k))].escaped

AtStart(f, k) == IF Read(f, k) = Blank THEN Default[k] ELSE Read(f, k)
MintsKey(f) == IF Read(f, MintUrls) # Blank THEN MintUrls ELSE MintUrl

\* initWallet throws on a URL that does not parse.
Bootable(f) == ~Garbled(f, MintsKey(f))

-----------------------------------------------------------------------------
(* Start and stop *)

FreshSeed == <<ToString(Cardinality(used))>>

\* Mutant: a seed that is generated is not saved.
SaveSeedNot(f, s) == f

\* The first line, comment or not, or a new last one.
SaveSeed(f, s) == IF ReadOnly \/ Read(f, Seed) # Blank THEN f ELSE PutLine(f, Line(Seed, s))

Init ==
    /\ LET s == IF Read(Installed, Seed) = Blank THEN <<"0">> ELSE Read(Installed, Seed)
       IN  /\ seed = s /\ used = {s}
           /\ file = SaveSeed(Installed, s)
    /\ backup = <<>> /\ wizard = FALSE /\ wizards = 0
    /\ up = TRUE
    /\ live = [k \in Hot |-> AtStart(Installed, k)]
    /\ mints = Read(Installed, MintsKey(Installed))
    /\ atEnter = IF Interactive THEN AtStart(Installed, Level) ELSE Blank
    /\ apart = {}
    /\ edit = [c \in Editors |-> NoEdit]
    /\ page = [c \in Consoles |-> NoPage]
    /\ edits = 0 /\ stops = 0

Stop ==
    /\ up /\ stops < MaxStops
    /\ up' = FALSE /\ stops' = stops + 1
    /\ UNCHANGED <<fileVars, editVars, live, mints, seed, used, atEnter, apart>>

\* The seed first, saved when it is new; then the mints, or exit.
Start ==
    /\ ~up
    /\ LET s == IF Read(file, Seed) = Blank THEN FreshSeed ELSE Read(file, Seed)
       IN  /\ file' = SaveSeed(file, s)
           /\ up' = Bootable(file)
           /\ IF up'
              THEN /\ seed' = s /\ used' = used \cup {s}
                   /\ live' = [k \in Hot |-> AtStart(file, k)]
                   /\ mints' = Read(file, MintsKey(file))
                   /\ atEnter' = IF Interactive THEN AtStart(file, Level) ELSE Blank
                   /\ apart' = {}
              ELSE UNCHANGED <<seed, used, live, mints, atEnter, apart>>
    /\ UNCHANGED <<backup, wizard, wizards, editVars, stops>>

\* The boot screen gives way to the log view, with the level saved at its start.
PressEnter ==
    /\ up /\ atEnter # Blank
    /\ live' = [k \in Hot |-> IF k = Level THEN atEnter ELSE live[k]]
    /\ atEnter' = Blank /\ apart' = apart \cup {Level}
    /\ UNCHANGED <<fileVars, editVars, up, mints, seed, used, stops>>

-----------------------------------------------------------------------------
(* Setup wizard: a process of its own *)

WizardBegin ==
    /\ ~wizard /\ wizards < MaxWizards
    /\ wizard' = TRUE /\ wizards' = wizards + 1
    /\ backup' = file
    /\ UNCHANGED <<file, runVars, editVars>>

\* A new file, of what was asked: a mint, no seed, no limits.
WizardWrite ==
    /\ wizard
    /\ wizard' = FALSE
    /\ file' = <<Line(MintUrl, Read(Installed, MintUrl))>>
    /\ apart' = Hot
    /\ UNCHANGED <<backup, wizards, up, live, mints, seed, used, atEnter, stops, editVars>>

-----------------------------------------------------------------------------
(* Editing *)

At(c, s) == edit' = [edit EXCEPT ![c].step = s]

\* What a number field or the reloader makes of a text.
Applied(t) == IF t = Blank THEN Zero ELSE t

\* The settings page and config set, with a new value typed in.
Enter(c, k) ==
    /\ edit[c].step = "none" /\ edits < MaxEdits
    /\ edits' = edits + 1
    /\ \E t \in Entered[k] :
          edit' = [edit EXCEPT ![c] =
                     [step |-> IF c \in Shells \/ k \in Hot THEN "config" ELSE "env",
                      key |-> k, text |-> t, raw |-> FALSE]]
    /\ UNCHANGED <<fileVars, runVars, page>>

\* Mutant: the change is not saved.
ConfigPostOnlyApplies(c) ==
    LET e == edit[c] IN
    /\ e.step = "config" /\ up /\ e.key \in Hot /\ e.text \notin Refused
    /\ live' = [live EXCEPT ![e.key] = Applied(e.text)] /\ apart' = apart \ {e.key}
    /\ At(c, IF c \in Shells THEN "none" ELSE "env")
    /\ UNCHANGED <<fileVars, up, mints, seed, used, atEnter, stops, page, edits>>

\* POST /config: applied, then saved.  A console's number arrives as a number.
ConfigPost(c) ==
    LET e == edit[c] IN
    /\ e.step = "config" /\ up /\ e.key \in Hot /\ e.text \notin Refused
    /\ live' = [live EXCEPT ![e.key] = Applied(e.text)] /\ apart' = apart \ {e.key}
    /\ file' = Persist(file, e.key, IF c \in Shells THEN e.text ELSE Applied(e.text), FALSE)
    /\ At(c, IF c \in Shells THEN "none" ELSE "env")
    /\ UNCHANGED <<backup, wizard, wizards, up, mints, seed, used, atEnter, stops, page, edits>>

\* Refused, or not answered: a console shows the error, a shell goes on.
ConfigFails(c) ==
    /\ edit[c].step = "config"
    /\ ~up \/ edit[c].key \notin Hot \/ edit[c].text \in Refused
    /\ At(c, IF c \in Shells THEN "env" ELSE "none")
    /\ UNCHANGED <<fileVars, runVars, page, edits>>

\* POST /config/env: saved, then applied when it can be.
EnvPost(c) ==
    LET e == edit[c] IN
    /\ e.step = "env" /\ up
    /\ file' = Persist(file, e.key, e.text, e.raw)
    /\ live' = IF e.key \in Hot /\ e.text \notin Ignored
               THEN [live EXCEPT ![e.key] = Applied(e.text)] ELSE live
    /\ apart' = apart \ {e.key}
    /\ At(c, IF c \in Consoles /\ page[c].open THEN "reload" ELSE "none")
    /\ UNCHANGED <<backup, wizard, wizards, up, mints, seed, used, atEnter, stops, page, edits>>

EnvFails(c) ==
    /\ edit[c].step = "env" /\ ~up
    /\ At(c, "none")
    /\ UNCHANGED <<fileVars, runVars, page, edits>>

\* GET /config/env lists lines, comments too, values as they stand in the file;
\* the page takes the first of each key.
Shown(k) ==
    LET i == FirstLine(file, k)
    IN  IF i = 0 THEN NoPage
        ELSE [open |-> TRUE, text |-> file[i].text, raw |-> file[i].quoted]

MintPage == IF Shown(MintUrls).text # Blank THEN Shown(MintUrls) ELSE Shown(MintUrl)

\* The mint page is opened, or read again once a change is saved.
LoadPage(c) ==
    /\ up
    /\ edit[c].step = "reload" \/ (edit[c].step = "none" /\ ~page[c].open)
    /\ page' = [page EXCEPT ![c] = MintPage]
    /\ At(c, "none")
    /\ UNCHANGED <<fileVars, runVars, edits>>

\* addMint, removeMint, makeMain and moveMint.
NextLists(t) ==
    {Append(t, u) : u \in Mints \ ToSet(t)}
    \cup (IF Len(t) > 1 THEN {RemoveAt(t, i) : i \in DOMAIN t} \cup {Reverse(t)} ELSE {})

SaveList(c) ==
    /\ page[c].open /\ edit[c].step = "none" /\ edits < MaxEdits
    /\ edits' = edits + 1
    /\ \E t \in NextLists(page[c].text) :
          edit' = [edit EXCEPT ![c] =
                     [step |-> "env", key |-> MintUrls, text |-> t, raw |-> page[c].raw]]
    /\ UNCHANGED <<fileVars, runVars, page>>

Post(c) == ConfigPost(c) \/ ConfigFails(c) \/ EnvPost(c) \/ EnvFails(c)

Console(c) == Post(c) \/ LoadPage(c) \/ SaveList(c) \/ \E k \in DOMAIN Entered : Enter(c, k)

Machine == Stop \/ Start \/ PressEnter \/ WizardBegin \/ WizardWrite

SetNext == Machine \/ (\E c \in Consoles : Console(c))

-----------------------------------------------------------------------------
(* Properties *)

\* One line at most of f, comment or not, has the key k: so it is in .env.example.
OneLine(f, k) == \A i, j \in DOMAIN f : f[i].key = k /\ f[j].key = k => i = j

\* What keeping the seed takes of an installation: a file that can be written, with
\* one line for the seed, and nobody who types another seed.
SeedAlone == ~ReadOnly /\ Seed \notin DOMAIN Entered /\ OneLine(Installed, Seed)

\* What it takes that a setting is saved as it runs: a file that can be written,
\* with one line for each.
HotAlone == ~ReadOnly /\ \A k \in Hot : OneLine(Installed, k)

\* Every variable of the settings holds a value of its kind.
SetTypeOK ==
    /\ \A f \in {file, backup} : \A i \in DOMAIN f :
          f[i].key \in Keys \cup {Level} /\ <<f[i].on, f[i].quoted, f[i].escaped>> \in BOOLEAN \X BOOLEAN \X BOOLEAN
    /\ {wizard, up} \subseteq BOOLEAN
    /\ DOMAIN live = Hot
    /\ seed \in used /\ apart \subseteq Hot \cup {Level}
    /\ \A c \in Editors : edit[c].step \in {"none", "config", "env", "reload"}
    /\ edits \in 0..MaxEdits /\ stops \in 0..MaxStops /\ wizards \in 0..MaxWizards

\* What runs is what the next start would read, for each setting that applies without
\* a restart, whoever edits it and in whatever order the two requests of an edit, those
\* of other editors, stops and starts arrive.  It is not when the file holds a text that
\* POST /config refused and POST /config/env stored all the same, or an empty one where
\* the default is another than 0; nor, until the setting is next saved, when the wizard
\* replaced the file or the boot screen put the level of the start back.
LiveIsSaved ==
    (HotAlone /\ up) =>
        \A k \in Hot \ apart :
            \/ live[k] = AtStart(file, k)
            \/ Read(file, k) \in Ignored
            \/ Read(file, k) = Blank /\ live[k] = Zero

\* Where a seed can be found.
Found == {Read(file, Seed), Read(backup, Seed)}

\* A seed that proofs were derived from is to be found in the file or its
\* backup, as long as they can be recovered from a seed only.
SeedKept == used \subseteq Found

\* The steps of a second wizard that lose a seed: it overwrites the backup, which alone
\* has it; or it has begun on a file without a seed, and replaces that which a start
\* has since saved one to.
SecondSetup(s) ==
    \/ wizards > 0 /\ WizardBegin /\ s = Read(backup, Seed) /\ s # Read(file, Seed)
    \/ wizards > 1 /\ WizardWrite /\ s = Read(file, Seed) /\ Read(backup, Seed) = Blank

\* A seed that proofs were derived from stays in the file or its backup until setup is
\* run a second time: no edit, stop, start or first wizard loses one, at whatever
\* moments, in a file that can be written and whose seed nobody edits.
SeedLostBySecondSetup ==
    [][SeedAlone => \A s \in used' \ Found' : s \in used \ Found \/ SecondSetup(s)]_setVars

\* Adding a mint keeps the mints the service is running with.
AddKeepsMints ==
    [][\A c \in Consoles :
         (edit[c].step = "env" /\ edit'[c].step = "reload"
            /\ ToSet(page[c].text) \subseteq ToSet(edit[c].text))
         => ToSet(mints) \subseteq ToSet(Read(file', MintsKey(file')))]_setVars

\* Whatever was saved on the mint page, the service starts again.
StartsAgain == Bootable(file)
=============================================================================
