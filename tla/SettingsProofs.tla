---------------------------- MODULE SettingsProofs ----------------------------
(***************************************************************************)
(* Theorems about what an operator does at a terminal or in a browser:      *)
(*   - Settings under the terminal UI, for any number of browsers and        *)
(*     shells, edits, stops, starts and wizards: a seed is lost by a second  *)
(*     setup only, and what runs is what a start would read;                 *)
(*   - CommandLine, for any number of shells and commands: a command acts on *)
(*     the connection it showed.                                            *)
(***************************************************************************)
EXTENDS Terminal, CommandLine, Integers, WellFoundedInduction, TLAPS

-----------------------------------------------------------------------------
(* The file *)

IsFile(f) == f \in Seq(ToSet(f))

\* The first index that qualifies is found.
LEMMA FirstFound ==
    ASSUME NEW I \in SUBSET Nat, I # {}
    PROVE  Min(I) \in I
<1>1. PICK m \in I : \A n \in I : <<n, m>> \notin OpToRel(<, Nat)
  BY NatLessThanWellFounded, WFMin
<1>2. \A n \in I : ~(n < m)
  BY <1>1 DEF OpToRel
<1>3. \A n \in I : m <= n
  BY <1>2
<1> QED
  BY <1>3 DEF Min

\* A sequence over any set is one over its own elements.
LEMMA OverItsLines == ASSUME NEW R, NEW f \in Seq(R) PROVE IsFile(f)
BY DEF IsFile, ToSet

\* The search for a key's line finds one with that key, or there is none.
LEMMA FirstLineFinds ==
    ASSUME NEW f, IsFile(f), NEW k
    PROVE  \/ FirstLine(f, k) = 0 /\ \A j \in DOMAIN f : f[j].key # k
           \/ FirstLine(f, k) \in DOMAIN f /\ f[FirstLine(f, k)].key = k
<1> DEFINE I == {i \in 1..Len(f) : f[i].key = k}
<1>1. FirstLine(f, k) = IF I # {} THEN Min(I) ELSE 0
  BY DEF FirstLine, SelectInSeq
<1>2. DOMAIN f = 1..Len(f) /\ Len(f) \in Nat
  BY DEF IsFile
<1>3. CASE I = {}
  BY <1>1, <1>2, <1>3
<1>4. CASE I # {}
  <2>1. I \in SUBSET Nat
    BY <1>2
  <2>2. Min(I) \in I
    <3> HIDE DEF I
    <3> QED BY <1>4, <2>1, FirstFound
  <2>3. FirstLine(f, k) \in I
    BY <1>1, <1>4, <2>2
  <2> QED
    BY <1>2, <2>3
<1> QED
  BY <1>3, <1>4

\* A line is put in the place of one of its key, or, when there is none, after all.
PutAt(f, g, l, p) ==
    /\ p \in Nat
    /\ \/ p \in DOMAIN f /\ f[p].key = l.key
       \/ p \notin DOMAIN f /\ \A j \in DOMAIN f : f[j].key # l.key
    /\ DOMAIN g = DOMAIN f \cup {p}
    /\ g[p] = l
    /\ \A i \in DOMAIN f \ {p} : g[i] = f[i]

\* That is what replacing the first line of a key, or adding a line, does.
LEMMA PutPlace ==
    ASSUME NEW f, IsFile(f), NEW l
    PROVE  IsFile(PutLine(f, l)) /\ \E p : PutAt(f, PutLine(f, l), l, p)
<1> DEFINE g == PutLine(f, l)
           q == FirstLine(f, l.key)
           R == ToSet(f) \cup {l}
<1>1. DOMAIN f = 1..Len(f) /\ Len(f) \in Nat
  BY DEF IsFile
<1>2. f \in Seq(R) /\ l \in R
  BY DEF IsFile
<1> HIDE DEF R
<1>3. CASE q = 0 /\ \A j \in DOMAIN f : f[j].key # l.key
  <2>1. g = Append(f, l)
    BY <1>3 DEF PutLine
  <2>2. /\ Append(f, l) \in Seq(R)
        /\ DOMAIN Append(f, l) = 1..(Len(f) + 1)
        /\ Append(f, l)[Len(f) + 1] = l
        /\ \A i \in 1..Len(f) : Append(f, l)[i] = f[i]
    BY <1>1, <1>2
  <2> HIDE DEF g
  <2>3. IsFile(g)
    BY <2>1, <2>2, OverItsLines
  <2>4. PutAt(f, g, l, Len(f) + 1)
    <3>1. 1..(Len(f) + 1) = 1..Len(f) \cup {Len(f) + 1} /\ Len(f) + 1 \in Nat /\ Len(f) + 1 \notin 1..Len(f)
      BY <1>1
    <3> QED
      BY <1>1, <1>3, <2>1, <2>2, <3>1 DEF PutAt
  <2> QED
    BY <2>3, <2>4 DEF g
<1>4. CASE q \in DOMAIN f /\ f[q].key = l.key
  <2>1. q # 0 /\ q \in Nat
    BY <1>1, <1>4
  <2>2. g = [f EXCEPT ![q] = l]
    BY <2>1 DEF PutLine
  <2> HIDE DEF g, q
  <2>3. /\ [f EXCEPT ![q] = l] \in Seq(R)
        /\ DOMAIN [f EXCEPT ![q] = l] = DOMAIN f
        /\ [f EXCEPT ![q] = l][q] = l
        /\ \A i \in DOMAIN f \ {q} : [f EXCEPT ![q] = l][i] = f[i]
    BY <1>1, <1>2, <1>4
  <2>4. IsFile(g)
    BY <2>2, <2>3, OverItsLines
  <2>5. DOMAIN g = DOMAIN f \cup {q} /\ g[q] = l /\ \A i \in DOMAIN f \ {q} : g[i] = f[i]
    BY <1>4, <2>2, <2>3
  <2>6. PutAt(f, g, l, q)
    BY <1>4, <2>1, <2>5 DEF PutAt
  <2> QED
    BY <2>4, <2>6 DEF g
<1>5. \/ q = 0 /\ \A j \in DOMAIN f : f[j].key # l.key
      \/ q \in DOMAIN f /\ f[q].key = l.key
  BY FirstLineFinds
<1> QED
  BY <1>3, <1>4, <1>5

\* What is read of a key with one line is that line's text, or nothing.
LEMMA ReadsItsLine ==
    ASSUME NEW f, IsFile(f), NEW k, OneLine(f, k)
    PROVE  /\ \A i \in DOMAIN f : f[i].key = k /\ f[i].on => Read(f, k) = f[i].text
           /\ (\A i \in DOMAIN f : ~(f[i].key = k /\ f[i].on)) => Read(f, k) = Blank
<1>1. ASSUME NEW i \in DOMAIN f, f[i].key = k, f[i].on
      PROVE  Read(f, k) = f[i].text
  <2>1. Active(f, k) = {i}
    BY <1>1 DEF Active, OneLine
  <2>2. i \in Nat
    BY DEF IsFile
  <2>3. Max({i}) = i
    BY <2>2 DEF Max
  <2> QED
    BY <2>1, <2>3 DEF Read
<1>2. ASSUME \A i \in DOMAIN f : ~(f[i].key = k /\ f[i].on)
      PROVE  Read(f, k) = Blank
  BY <1>2 DEF Read, Active
<1> QED
  BY <1>1, <1>2

\* Not a comment.
IsOn(l) == l.on = TRUE

\* A line that is put is read; of another key, what was read before.
LEMMA PutIsRead ==
    ASSUME NEW f, IsFile(f), NEW l, IsOn(l), NEW k, OneLine(f, k)
    PROVE  /\ IsFile(PutLine(f, l))
           /\ OneLine(PutLine(f, l), k)
           /\ k = l.key => Read(PutLine(f, l), k) = l.text
           /\ k # l.key => Read(PutLine(f, l), k) = Read(f, k)
<1> DEFINE g == PutLine(f, l)
<1>1. IsFile(g)
  BY PutPlace
<1>2. PICK p : PutAt(f, g, l, p)
  BY PutPlace
<1> USE DEF PutAt
<1> HIDE DEF g
<1>3. OneLine(g, k)
  <2> SUFFICES ASSUME NEW i \in DOMAIN g, NEW j \in DOMAIN g, g[i].key = k, g[j].key = k
               PROVE  i = j
    BY DEF OneLine
  <2>1. CASE i # p /\ j # p
    BY <1>2, <2>1 DEF OneLine
  <2>2. CASE i = p /\ j # p
    BY <1>2, <2>2 DEF OneLine
  <2>3. CASE i # p /\ j = p
    BY <1>2, <2>3 DEF OneLine
  <2> QED
    BY <2>1, <2>2, <2>3
<1>4. CASE k = l.key
  <2>1. p \in DOMAIN g /\ g[p].key = k /\ g[p].on
    BY <1>2, <1>4 DEF IsOn
  <2> QED
    BY <1>1, <1>2, <1>3, <1>4, <2>1, ReadsItsLine DEF g
<1>5. CASE k # l.key
  <2>1. CASE \E i \in DOMAIN f : f[i].key = k /\ f[i].on
    <3>1. PICK i \in DOMAIN f : f[i].key = k /\ f[i].on
      BY <2>1
    <3>2. i # p
      BY <1>2, <1>5, <3>1
    <3>3. i \in DOMAIN g /\ g[i] = f[i]
      BY <1>2, <3>2
    <3>4. Read(f, k) = f[i].text
      BY <3>1, ReadsItsLine
    <3>5. Read(g, k) = g[i].text
      BY <1>1, <1>3, <3>1, <3>3, ReadsItsLine
    <3> QED
      BY <1>1, <1>3, <1>5, <3>3, <3>4, <3>5 DEF g
  <2>2. CASE \A i \in DOMAIN f : ~(f[i].key = k /\ f[i].on)
    <3>1. \A i \in DOMAIN g : ~(g[i].key = k /\ g[i].on)
      BY <1>2, <1>5, <2>2
    <3>2. Read(f, k) = Blank
      BY <2>2, ReadsItsLine
    <3>3. Read(g, k) = Blank
      BY <1>1, <1>3, <3>1, ReadsItsLine
    <3> QED
      BY <1>1, <1>3, <1>5, <3>2, <3>3 DEF g
  <2> QED
    BY <2>1, <2>2
<1> QED
  BY <1>4, <1>5

\* POST /config and /config/env: the value is read by the next start, and no other
\* setting changes.
LEMMA PersistIsRead ==
    ASSUME ~ReadOnly, NEW f, IsFile(f), NEW key, NEW t, NEW raw, NEW k, OneLine(f, k)
    PROVE  /\ IsFile(Persist(f, key, t, raw))
           /\ OneLine(Persist(f, key, t, raw), k)
           /\ Read(Persist(f, key, t, raw), k) = IF k = key THEN t ELSE Read(f, k)
<1> DEFINE l == [Line(key, t) EXCEPT !.quoted = TRUE, !.escaped = raw]
<1>1. IsOn(l) /\ l.key = key /\ l.text = t
  BY DEF Line, IsOn
<1>2. Persist(f, key, t, raw) = PutLine(f, l)
  BY DEF Persist
<1> HIDE DEF l
<1>3. /\ IsFile(PutLine(f, l)) /\ OneLine(PutLine(f, l), k)
      /\ k = l.key => Read(PutLine(f, l), k) = l.text
      /\ k # l.key => Read(PutLine(f, l), k) = Read(f, k)
  BY <1>1, PutIsRead
<1> QED
  BY <1>1, <1>2, <1>3

\* A generated seed is read by the next start, and no other setting changes.
LEMMA SeedIsRead ==
    ASSUME ~ReadOnly, NEW f, IsFile(f), NEW s, NEW k, OneLine(f, k)
    PROVE  /\ IsFile(SaveSeed(f, s))
           /\ OneLine(SaveSeed(f, s), k)
           /\ Read(SaveSeed(f, s), k) =
                IF k = Seed /\ Read(f, Seed) = Blank THEN s ELSE Read(f, k)
<1>1. CASE Read(f, Seed) # Blank
  BY <1>1 DEF SaveSeed
<1>2. CASE Read(f, Seed) = Blank
  <2>1. SaveSeed(f, s) = PutLine(f, Line(Seed, s))
    BY <1>2 DEF SaveSeed
  <2> DEFINE l == Line(Seed, s)
  <2>2. IsOn(l) /\ l.key = Seed /\ l.text = s
    BY DEF Line, IsOn
  <2> HIDE DEF l
  <2>3. /\ IsFile(PutLine(f, l)) /\ OneLine(PutLine(f, l), k)
        /\ k = l.key => Read(PutLine(f, l), k) = l.text
        /\ k # l.key => Read(PutLine(f, l), k) = Read(f, k)
    BY <2>2, PutIsRead
  <2>4. SaveSeed(f, s) = PutLine(f, l)
    BY <2>1 DEF l
  <2> QED
    BY <1>2, <2>2, <2>3, <2>4
<1> QED
  BY <1>1, <1>2

-----------------------------------------------------------------------------
(* Steps *)

\* What an editor does, on a page or in a shell.
Editing(c) ==
    \/ Post(c) \/ \E k \in DOMAIN Entered : Enter(c, k)
    \/ c \in Consoles /\ (LoadPage(c) \/ SaveList(c))

\* A step of the terminal UI is one of its shell's, or does not touch the settings.
LEMMA SettingsStep ==
    ASSUME [Next]_vars
    PROVE  Machine \/ (\E c \in Editors : Editing(c)) \/ UNCHANGED setVars
<1>1. CASE Rest
  BY <1>1 DEF Rest, SetNext, Console, Editing, Editors
<1>2. CASE Command
  <2>1. Tui \in Editors
    BY TerminalAssumption DEF Editors
  <2> QED
    BY <1>2, <2>1 DEF Command, Editing
<1>3. CASE Reach \/ Draw \/ ReachAgain \/ Land \/ Collect \/ Refresh
  BY <1>3 DEF Reach, Draw, ReachAgain, Land, Collect, Refresh
<1>4. CASE Move \/ Reread \/ Help \/ Run \/ Return
  BY <1>4 DEF Move, Reread, Help, Run, Return
<1>5. CASE UNCHANGED vars
  BY <1>5 DEF vars
<1> QED
  BY <1>1, <1>2, <1>3, <1>4, <1>5 DEF Next

-----------------------------------------------------------------------------
(* Editors *)

\* An edit has four parts, of which only the key and the text are typed in.
EditsShaped ==
    /\ edit = [c \in Editors |-> edit[c]]
    /\ \A c \in Editors : edit[c] = [step |-> edit[c].step, key |-> edit[c].key,
                                     text |-> edit[c].text, raw |-> edit[c].raw]

\* A request of an editor: of the mint page's list, or of a text that may be typed.
Typed ==
    \A c \in Editors : edit[c].step \in {"config", "env"} =>
        \/ edit[c].key = MintUrls
        \/ edit[c].key \in DOMAIN Entered /\ edit[c].text \in Entered[edit[c].key]

EditInv == EditsShaped /\ Typed

\* Moving an editor on keeps what it edits.
LEMMA EditMoves ==
    ASSUME EditInv, NEW c \in Editors, NEW s, At(c, s),
           s \in {"config", "env"} => edit[c].step \in {"config", "env"}
    PROVE  EditInv'
<1>1. edit' = [edit EXCEPT ![c] = [edit[c] EXCEPT !.step = s]]
  BY DEF At
<1>2. [edit[c] EXCEPT !.step = s] = [step |-> s, key |-> edit[c].key,
                                     text |-> edit[c].text, raw |-> edit[c].raw]
  BY DEF EditInv, EditsShaped
<1>3. /\ edit' = [d \in Editors |-> edit'[d]]
      /\ edit'[c] = [step |-> s, key |-> edit[c].key, text |-> edit[c].text, raw |-> edit[c].raw]
      /\ \A d \in Editors \ {c} : edit'[d] = edit[d]
  BY <1>1, <1>2 DEF EditInv, EditsShaped
<1>4. EditsShaped'
  BY <1>3 DEF EditInv, EditsShaped
<1>5. Typed'
  BY <1>3 DEF EditInv, Typed
<1> QED
  BY <1>4, <1>5 DEF EditInv

\* A new edit is typed, or the mint page's.
LEMMA EditBegins ==
    ASSUME EditInv, NEW c \in Editors, NEW e,
           e = [step |-> e.step, key |-> e.key, text |-> e.text, raw |-> e.raw],
           e.key = MintUrls \/ (e.key \in DOMAIN Entered /\ e.text \in Entered[e.key]),
           edit' = [edit EXCEPT ![c] = e]
    PROVE  EditInv'
<1>1. /\ edit' = [d \in Editors |-> edit'[d]]
      /\ edit'[c] = e
      /\ \A d \in Editors \ {c} : edit'[d] = edit[d]
  BY DEF EditInv, EditsShaped
<1>2. EditsShaped'
  BY <1>1 DEF EditInv, EditsShaped
<1>3. Typed'
  BY <1>1 DEF EditInv, Typed
<1> QED
  BY <1>2, <1>3 DEF EditInv

\* Editors keep to what is typed.
LEMMA EditStep == EditInv /\ [Next]_vars => EditInv'
<1> SUFFICES ASSUME EditInv, [Next]_vars PROVE EditInv'
  OBVIOUS
<1>1. CASE UNCHANGED edit
  BY <1>1 DEF EditInv, EditsShaped, Typed
<1>2. CASE Machine
  <2>1. UNCHANGED edit
    BY <1>2 DEF Machine, Stop, Start, PressEnter, WizardBegin, WizardWrite, editVars
  <2> QED
    BY <1>1, <2>1
<1>3. ASSUME NEW c \in Editors, ConfigPost(c) \/ ConfigFails(c)
      PROVE  EditInv'
  <2>1. PICK s \in {"none", "env"} : At(c, s) /\ edit[c].step = "config"
    BY <1>3 DEF ConfigPost, ConfigFails
  <2> QED
    BY <2>1, EditMoves
<1>4. ASSUME NEW c \in Editors, EnvPost(c) \/ EnvFails(c) \/ LoadPage(c)
      PROVE  EditInv'
  <2>1. PICK s \in {"none", "reload"} : At(c, s)
    BY <1>4 DEF EnvPost, EnvFails, LoadPage
  <2> QED
    BY <2>1, EditMoves
<1>5. ASSUME NEW c \in Editors, NEW k \in DOMAIN Entered, Enter(c, k)
      PROVE  EditInv'
  <2>1. PICK t \in Entered[k] : edit' = [edit EXCEPT ![c] =
             [step |-> IF c \in Shells \/ k \in Hot THEN "config" ELSE "env",
              key |-> k, text |-> t, raw |-> FALSE]]
    BY <1>5 DEF Enter
  <2> DEFINE e == [step |-> IF c \in Shells \/ k \in Hot THEN "config" ELSE "env",
                   key |-> k, text |-> t, raw |-> FALSE]
  <2>2. /\ e = [step |-> e.step, key |-> e.key, text |-> e.text, raw |-> e.raw]
        /\ e.key \in DOMAIN Entered /\ e.text \in Entered[e.key]
    OBVIOUS
  <2> QED
    BY <2>1, <2>2, EditBegins
<1>6. ASSUME NEW c \in Editors, SaveList(c)
      PROVE  EditInv'
  <2>1. PICK t \in NextLists(page[c].text) : edit' = [edit EXCEPT ![c] =
             [step |-> "env", key |-> MintUrls, text |-> t, raw |-> page[c].raw]]
    BY <1>6 DEF SaveList
  <2> DEFINE e == [step |-> "env", key |-> MintUrls, text |-> t, raw |-> page[c].raw]
  <2>2. /\ e = [step |-> e.step, key |-> e.key, text |-> e.text, raw |-> e.raw]
        /\ e.key = MintUrls
    OBVIOUS
  <2> QED
    BY <2>1, <2>2, EditBegins
<1>7. CASE \E c \in Editors : Editing(c)
  BY <1>3, <1>4, <1>5, <1>6, <1>7 DEF Editing, Post
<1>8. CASE UNCHANGED setVars
  BY <1>1, <1>8 DEF setVars, editVars
<1> QED
  BY <1>2, <1>7, <1>8, SettingsStep

\* Whatever is under way, every edit is one that was typed, or of the mint page.
LEMMA EditInvariant == Spec => []EditInv
<1>1. TuiInit => EditInv
  <2> SUFFICES ASSUME edit = [c \in Editors |-> NoEdit] PROVE EditInv
    BY DEF TuiInit, Init
  <2>1. \A c \in Editors : edit[c] = NoEdit
    OBVIOUS
  <2>2. EditsShaped
    BY <2>1 DEF EditsShaped, NoEdit
  <2>3. Typed
    BY <2>1 DEF Typed, NoEdit
  <2> QED
    BY <2>2, <2>3 DEF EditInv
<1> QED
  BY <1>1, EditStep, PTL DEF Spec

-----------------------------------------------------------------------------
(* The seed *)

\* Each seed in use is in the file or its backup; while the wizard asks, it is in both.
SeedInv ==
    /\ IsFile(file) /\ OneLine(file, Seed)
    /\ seed \in used /\ Blank \notin used
    /\ SeedKept
    /\ Read(file, Seed) = Blank => used \subseteq {Read(backup, Seed)}
    /\ wizard => used \subseteq {Read(backup, Seed)} /\ Read(file, Seed) = Read(backup, Seed)

\* What a step must not do: put a backup that has not every seed in the place of one.
BackupServes == backup' # backup => used \subseteq {Read(backup', Seed)}

\* Nothing is read of an empty file, nor of one without the key.
LEMMA EmptyIsBlank == ASSUME NEW k PROVE Read(<<>>, k) = Blank
BY DEF Read, Active

\* A seed that is generated is not empty: the next start takes it for one.
LEMMA NewSeedsAreNot == FreshSeed # Blank /\ <<"0">> # Blank
BY DEF FreshSeed, Blank

\* The first start saves the seed it makes, or runs with the one it reads.
LEMMA SeedInit == ASSUME SeedAlone PROVE TuiInit => SeedInv
<1> SUFFICES ASSUME Init PROVE SeedInv
  BY DEF TuiInit
<1> DEFINE s == IF Read(Installed, Seed) = Blank THEN <<"0">> ELSE Read(Installed, Seed)
<1>1. s # Blank
  BY NewSeedsAreNot
<1>2. seed = s /\ used = {s} /\ file = SaveSeed(Installed, s) /\ wizard = FALSE
  BY DEF Init
<1>3. IsFile(Installed) /\ OneLine(Installed, Seed) /\ ~ReadOnly
  BY SettingsAssumption DEF IsFile, SeedAlone
<1>4. /\ IsFile(SaveSeed(Installed, s)) /\ OneLine(SaveSeed(Installed, s), Seed)
      /\ Read(SaveSeed(Installed, s), Seed) = s
  <2> HIDE DEF s
  <2>1. Read(Installed, Seed) # Blank => s = Read(Installed, Seed)
    BY DEF s
  <2> QED
    BY <1>3, <2>1, SeedIsRead
<1> HIDE DEF s
<1> QED
  BY <1>1, <1>2, <1>4 DEF SeedInv, SeedKept, Found

\* A step that leaves the file's seed, the backup and the wizard alone.
LEMMA SeedRests ==
    ASSUME SeedInv, UNCHANGED <<seed, used, backup, wizard>>,
           IsFile(file'), OneLine(file', Seed), Read(file', Seed) = Read(file, Seed)
    PROVE  SeedInv'
BY DEF SeedInv, SeedKept, Found

\* The service starts: with the file's seed, or with a new one that it saves.
LEMMA SeedStarts == ASSUME SeedAlone, SeedInv, Start PROVE SeedInv'
<1> DEFINE F == Read(file, Seed)
           B == Read(backup, Seed)
           s == IF F = Blank THEN FreshSeed ELSE F
<1>1. file' = SaveSeed(file, s) /\ UNCHANGED <<backup, wizard>>
  BY DEF Start
<1>2. \/ seed' = s /\ used' = used \cup {s}
      \/ UNCHANGED <<seed, used>>
  BY DEF Start
<1>3. IsFile(file) /\ OneLine(file, Seed) /\ ~ReadOnly
  BY DEF SeedInv, SeedAlone
<1>4. /\ seed \in used /\ Blank \notin used
      /\ used \subseteq {F, B} /\ (F = Blank => used \subseteq {B})
      /\ wizard => used \subseteq {B} /\ F = B
  BY DEF SeedInv, SeedKept, Found
<1>5. s # Blank /\ (F # Blank => s = F)
  BY NewSeedsAreNot
<1> HIDE DEF s
<1>6. IsFile(file') /\ OneLine(file', Seed) /\ Read(file', Seed) = s
  BY <1>1, <1>3, <1>5, SeedIsRead
<1>7. wizard => F # Blank
  BY <1>4
<1>8. Read(backup', Seed) = B
  BY <1>1
<1>9. seed' \in used' /\ Blank \notin used' /\ used' \subseteq {s, B}
  BY <1>2, <1>4, <1>5
<1>10. wizard' => used' \subseteq {B} /\ s = B
  BY <1>1, <1>2, <1>4, <1>5, <1>7
<1> HIDE DEF B, F
<1>11. SeedKept'
  BY <1>6, <1>8, <1>9 DEF SeedKept, Found
<1> QED
  BY <1>5, <1>6, <1>8, <1>9, <1>10, <1>11 DEF SeedInv

\* The wizard makes the file its backup, and replaces the file.
LEMMA SeedWizard ==
    ASSUME SeedInv, (WizardBegin /\ BackupServes) \/ WizardWrite
    PROVE  SeedInv'
<1> DEFINE F == Read(file, Seed)
           B == Read(backup, Seed)
<1>1. /\ seed \in used /\ Blank \notin used /\ IsFile(file) /\ OneLine(file, Seed)
      /\ used \subseteq {F, B} /\ (F = Blank => used \subseteq {B})
      /\ wizard => used \subseteq {B} /\ F = B
  BY DEF SeedInv, SeedKept, Found
<1>2. CASE WizardBegin /\ BackupServes
  <2>1. backup' = file /\ UNCHANGED <<file, seed, used>>
    BY <1>2 DEF WizardBegin, runVars
  <2>2. Read(backup', Seed) = F /\ Read(file', Seed) = F
    BY <2>1
  <2>3. used \subseteq {F}
    <3>1. CASE backup' = backup
      <4>1. F = B
        BY <2>1, <3>1
      <4> QED
        BY <1>1, <4>1
    <3>2. CASE backup' # backup
      BY <1>2, <2>2, <3>2 DEF BackupServes
    <3> QED
      BY <3>1, <3>2
  <2>4. F # Blank
    BY <1>1, <2>3
  <2> HIDE DEF F, B
  <2> QED
    BY <1>1, <2>1, <2>2, <2>3, <2>4 DEF SeedInv, SeedKept, Found
<1>3. CASE WizardWrite
  <2> DEFINE l == Line(MintUrl, Read(Installed, MintUrl))
  <2>1. file' = <<l>> /\ wizard' = FALSE /\ wizard /\ UNCHANGED <<backup, seed, used>>
    BY <1>3 DEF WizardWrite, runVars
  <2>2. l.key # Seed
    BY DEF Line, MintUrl, Seed
  <2> HIDE DEF l
  <2>3. IsFile(<<l>>) /\ DOMAIN <<l>> = {1} /\ <<l>>[1] = l
    <3>1. <<l>> \in Seq({l})
      OBVIOUS
    <3>2. IsFile(<<l>>)
      BY <3>1, OverItsLines
    <3> QED
      BY <3>2
  <2>4. OneLine(file', Seed) /\ Read(file', Seed) = Blank /\ IsFile(file')
    BY <2>1, <2>2, <2>3 DEF OneLine, Read, Active
  <2>5. Read(backup', Seed) = B
    BY <2>1
  <2> HIDE DEF F, B
  <2> QED
    BY <1>1, <2>1, <2>4, <2>5 DEF SeedInv, SeedKept, Found
<1> QED
  BY <1>2, <1>3

\* An editor's request changes other lines only.
LEMMA SeedEdited ==
    ASSUME SeedAlone, IsFile(file), OneLine(file, Seed), EditInv,
           NEW c \in Editors, Editing(c)
    PROVE  /\ UNCHANGED <<seed, used, backup, wizard, wizards>>
           /\ IsFile(file') /\ OneLine(file', Seed) /\ Read(file', Seed) = Read(file, Seed)
<1>1. UNCHANGED <<seed, used, backup, wizard, wizards>>
  BY DEF Editing, Post, ConfigPost, ConfigFails, EnvPost, EnvFails, LoadPage, SaveList,
     Enter, fileVars, runVars
<1>2. ASSUME NEW t, NEW raw, file' = Persist(file, edit[c].key, t, raw),
             edit[c].step \in {"config", "env"}
      PROVE  IsFile(file') /\ OneLine(file', Seed) /\ Read(file', Seed) = Read(file, Seed)
  <2>1. edit[c].key # Seed
    BY <1>2 DEF EditInv, Typed, SeedAlone, MintUrls, Seed
  <2>2. ~ReadOnly
    BY DEF SeedAlone
  <2> QED
    BY <1>2, <2>1, <2>2, PersistIsRead
<1>3. CASE ConfigPost(c)
  BY <1>1, <1>2, <1>3 DEF ConfigPost
<1>4. CASE EnvPost(c)
  BY <1>1, <1>2, <1>4 DEF EnvPost
<1>5. CASE ~ConfigPost(c) /\ ~EnvPost(c)
  <2>1. UNCHANGED file
    BY <1>5 DEF Editing, Post, ConfigFails, EnvFails, LoadPage, SaveList, Enter, fileVars
  <2> QED
    BY <1>1, <2>1
<1> QED
  BY <1>3, <1>4, <1>5

\* No step but the overwriting of a backup can lose a seed.
LEMMA SeedStep ==
    ASSUME SeedAlone
    PROVE  SeedInv /\ EditInv /\ [Next]_vars /\ [BackupServes]_vars => SeedInv'
<1> SUFFICES ASSUME SeedInv, EditInv, [Next]_vars, [BackupServes]_vars PROVE SeedInv'
  OBVIOUS
<1>1. CASE UNCHANGED <<file, backup, wizard, seed, used>>
  <2>1. IsFile(file) /\ OneLine(file, Seed)
    BY DEF SeedInv
  <2> QED
    BY <1>1, <2>1, SeedRests
<1>2. CASE Start
  BY <1>2, SeedStarts
<1>3. CASE Stop \/ PressEnter
  BY <1>1, <1>3 DEF Stop, PressEnter, fileVars
<1>4. CASE WizardBegin \/ WizardWrite
  <2>1. BackupServes \/ UNCHANGED backup
    BY DEF vars, setVars, fileVars
  <2>2. UNCHANGED backup => BackupServes
    BY DEF BackupServes
  <2> QED
    BY <1>4, <2>1, <2>2, SeedWizard
<1>5. ASSUME NEW c \in Editors, Editing(c) PROVE SeedInv'
  <2>1. IsFile(file) /\ OneLine(file, Seed)
    BY DEF SeedInv
  <2>2. /\ UNCHANGED <<seed, used, backup, wizard, wizards>>
        /\ IsFile(file') /\ OneLine(file', Seed) /\ Read(file', Seed) = Read(file, Seed)
    BY <1>5, <2>1, SeedEdited
  <2> QED
    BY <2>2, SeedRests
<1>6. CASE UNCHANGED setVars
  BY <1>1, <1>6 DEF setVars, fileVars, runVars
<1> QED
  BY <1>2, <1>3, <1>4, <1>5, <1>6, SettingsStep DEF Machine

\* No seed that proofs were derived from is lost, whoever edits what and however often
\* the wizard runs, provided it never overwrites a backup by one that lacks a seed in use.
THEOREM SeedKeptWhileBackupServes ==
    ASSUME SeedAlone
    PROVE  Spec /\ [][BackupServes]_vars => []SeedKept
<1>1. SeedInv => SeedKept
  BY DEF SeedInv
<1> QED
  BY <1>1, SeedInit, SeedStep, EditInvariant, PTL DEF Spec

-----------------------------------------------------------------------------
(* Setup again *)

\* What the first wizard finds is a file with a seed; and while one asks, its backup
\* has the seed of the file, or was taken before there was one.
SetupInv ==
    /\ IsFile(file) /\ OneLine(file, Seed)
    /\ seed \in used /\ Blank \notin used
    /\ wizards \in Nat
    /\ wizards = 0 => /\ wizard = FALSE
                      /\ Read(file, Seed) # Blank /\ Read(backup, Seed) = Blank
    /\ wizard => Read(backup, Seed) \in {Blank, Read(file, Seed)}
    /\ wizard /\ wizards = 1 => Read(backup, Seed) # Blank

\* What a step loses, a second setup loses.
Loses == \A s \in used' \ Found' : s \in used \ Found \/ SecondSetup(s)

\* The first start leaves its seed in the file.
LEMMA SetupInit == ASSUME SeedAlone PROVE TuiInit => SetupInv
<1> SUFFICES ASSUME TuiInit PROVE SetupInv
  OBVIOUS
<1>1. SeedInv
  BY SeedInit
<1>2. wizards = 0 /\ wizard = FALSE /\ used = {seed} /\ Read(backup, Seed) = Blank
  BY EmptyIsBlank DEF TuiInit, Init
<1>3. Read(file, Seed) # Blank
  BY <1>1, <1>2 DEF SeedInv, SeedKept, Found
<1> QED
  BY <1>1, <1>2, <1>3 DEF SeedInv, SetupInv

\* A step that leaves the seeds of file and backup, and the wizard, alone.
LEMMA SetupRests ==
    ASSUME SetupInv, UNCHANGED <<seed, used, backup, wizard, wizards>>,
           IsFile(file'), OneLine(file', Seed), Read(file', Seed) = Read(file, Seed)
    PROVE  SetupInv' /\ Loses
<1>1. SetupInv'
  BY DEF SetupInv
<1>2. Loses
  BY DEF Loses, Found
<1> QED
  BY <1>1, <1>2

\* A start saves a seed where there was none.
LEMMA SetupStarts == ASSUME SeedAlone, SetupInv, Start PROVE SetupInv' /\ Loses
<1> DEFINE F == Read(file, Seed)
           B == Read(backup, Seed)
           s == IF F = Blank THEN FreshSeed ELSE F
<1>1. file' = SaveSeed(file, s) /\ UNCHANGED <<backup, wizard, wizards>>
  BY DEF Start
<1>2. \/ seed' = s /\ used' = used \cup {s}
      \/ UNCHANGED <<seed, used>>
  BY DEF Start
<1>3. IsFile(file) /\ OneLine(file, Seed) /\ ~ReadOnly
  BY DEF SetupInv, SeedAlone
<1>4. s # Blank /\ (F # Blank => s = F)
  BY NewSeedsAreNot
<1> HIDE DEF s
<1>5. IsFile(file') /\ OneLine(file', Seed) /\ Read(file', Seed) = s
  BY <1>1, <1>3, <1>4, SeedIsRead
<1>6. Read(backup', Seed) = B
  BY <1>1
<1>7. SetupInv'
  BY <1>1, <1>2, <1>4, <1>5, <1>6 DEF SetupInv
<1>8. Found = {F, B} /\ Found' = {s, B}
  BY <1>5, <1>6 DEF Found
<1>9. used' \subseteq used \cup {s} /\ Blank \notin used
  BY <1>2 DEF SetupInv
<1>10. Loses
  <2> HIDE DEF F, B
  <2> QED
    BY <1>4, <1>8, <1>9 DEF Loses
<1> QED
  BY <1>7, <1>10

\* A wizard loses what its predecessor backed up, or what was saved since it began.
LEMMA SetupWizard ==
    ASSUME SetupInv, WizardBegin \/ WizardWrite
    PROVE  SetupInv' /\ Loses
<1> DEFINE F == Read(file, Seed)
           B == Read(backup, Seed)
<1>1. /\ IsFile(file) /\ OneLine(file, Seed) /\ wizards \in Nat
      /\ seed \in used /\ Blank \notin used
      /\ wizards = 0 => wizard = FALSE /\ F # Blank /\ B = Blank
      /\ wizard => B \in {Blank, F}
      /\ wizard /\ wizards = 1 => B # Blank
  BY DEF SetupInv
<1>2. Found = {F, B}
  BY DEF Found
<1>3. CASE WizardBegin
  <2>1. /\ backup' = file /\ wizard' = TRUE /\ wizards' = wizards + 1
        /\ UNCHANGED <<file, seed, used>>
    BY <1>3 DEF WizardBegin, runVars
  <2>2. Read(backup', Seed) = F /\ Read(file', Seed) = F
    BY <2>1
  <2>3. Found' = {F}
    BY <2>2 DEF Found
  <2> HIDE DEF F, B
  <2>4. wizards' \in Nat /\ wizards' # 0 /\ (wizards' = 1 => wizards = 0)
    BY <1>1, <2>1
  <2>5. SetupInv'
    BY <1>1, <2>1, <2>2, <2>4 DEF SetupInv
  <2>6. ASSUME NEW s \in used, s # F, s \in {F, B} PROVE wizards > 0 /\ s = B
    BY <1>1, <2>6
  <2>7. Loses
    BY <1>2, <1>3, <2>1, <2>3, <2>6 DEF Loses, SecondSetup, F, B
  <2> QED
    BY <2>5, <2>7
<1>4. CASE WizardWrite
  <2> DEFINE l == Line(MintUrl, Read(Installed, MintUrl))
  <2>1. file' = <<l>> /\ wizard' = FALSE /\ wizard /\ UNCHANGED <<backup, wizards, seed, used>>
    BY <1>4 DEF WizardWrite
  <2>2. l.key # Seed
    BY DEF Line, MintUrl, Seed
  <2> HIDE DEF l
  <2>3. <<l>> \in Seq({l}) /\ DOMAIN <<l>> = {1} /\ <<l>>[1] = l
    OBVIOUS
  <2>4. IsFile(file')
    BY <2>1, <2>3, OverItsLines
  <2>5. OneLine(file', Seed)
    BY <2>1, <2>2, <2>3 DEF OneLine
  <2>6. B \in Found'
    BY <2>1 DEF Found
  <2>7. wizards # 0
    BY <1>1, <2>1
  <2> HIDE DEF F, B
  <2>8. SetupInv'
    BY <1>1, <2>1, <2>4, <2>5, <2>7 DEF SetupInv
  <2>9. ASSUME NEW s \in used, s # B, s \in {F, B} PROVE wizards > 1 /\ s = F /\ B = Blank
    BY <1>1, <2>1, <2>7, <2>9
  <2>10. Loses
    BY <1>2, <1>4, <2>1, <2>6, <2>9 DEF Loses, SecondSetup, F, B
  <2> QED
    BY <2>8, <2>10
<1> QED
  BY <1>3, <1>4

\* Nothing but a second setup loses a seed.
LEMMA SetupStep ==
    ASSUME SeedAlone
    PROVE  SetupInv /\ EditInv /\ [Next]_vars => SetupInv' /\ [Loses]_setVars
<1> SUFFICES ASSUME SetupInv, EditInv, [Next]_vars PROVE SetupInv' /\ Loses
  OBVIOUS
<1>0. IsFile(file) /\ OneLine(file, Seed)
  BY DEF SetupInv
<1>1. CASE UNCHANGED <<file, backup, wizard, wizards, seed, used>>
  BY <1>0, <1>1, SetupRests
<1>2. CASE Start
  BY <1>2, SetupStarts
<1>3. CASE Stop \/ PressEnter
  BY <1>1, <1>3 DEF Stop, PressEnter, fileVars
<1>4. CASE WizardBegin \/ WizardWrite
  BY <1>4, SetupWizard
<1>5. ASSUME NEW c \in Editors, Editing(c) PROVE SetupInv' /\ Loses
  <2>1. /\ UNCHANGED <<seed, used, backup, wizard, wizards>>
        /\ IsFile(file') /\ OneLine(file', Seed) /\ Read(file', Seed) = Read(file, Seed)
    BY <1>0, <1>5, SeedEdited
  <2> QED
    BY <2>1, SetupRests
<1>6. CASE UNCHANGED setVars
  BY <1>1, <1>6 DEF setVars, fileVars, runVars
<1> QED
  BY <1>2, <1>3, <1>4, <1>5, <1>6, SettingsStep DEF Machine

\* However often setup is run, and at whatever moments between the starts, stops and
\* requests of any number of editors: a seed is lost only by a second setup, which
\* overwrote the one backup that had it, or replaced a file that a start had saved it to
\* since the setup began.
THEOREM SeedLostBySecondSetupTheorem == Spec => SeedLostBySecondSetup
<1>1. CASE SeedAlone
  <2>1. SetupInv /\ EditInv /\ [Next]_vars =>
          SetupInv' /\ [SeedAlone => \A s \in used' \ Found' : s \in used \ Found \/ SecondSetup(s)]_setVars
    BY <1>1, SetupStep DEF Loses
  <2>2. TuiInit => SetupInv
    BY <1>1, SetupInit
  <2> QED
    BY <2>1, <2>2, EditInvariant, PTL DEF Spec, SeedLostBySecondSetup
<1>2. CASE ~SeedAlone
  <2>1. [SeedAlone => \A s \in used' \ Found' : s \in used \ Found \/ SecondSetup(s)]_setVars
    BY <1>2
  <2> QED
    BY <2>1, PTL DEF SeedLostBySecondSetup
<1> QED
  BY <1>1, <1>2

-----------------------------------------------------------------------------
(* What runs and what is saved *)

LiveInv ==
    /\ IsFile(file) /\ \A k \in Hot : OneLine(file, k)
    /\ live = [k \in Hot |-> live[k]]
    /\ LiveIsSaved

\* The first start runs what it reads.
LEMMA LiveInit == ASSUME HotAlone PROVE TuiInit => LiveInv
<1> SUFFICES ASSUME Init PROVE LiveInv
  BY DEF TuiInit
<1> DEFINE s == IF Read(Installed, Seed) = Blank THEN <<"0">> ELSE Read(Installed, Seed)
<1>1. file = SaveSeed(Installed, s) /\ live = [k \in Hot |-> AtStart(Installed, k)]
  BY DEF Init
<1> HIDE DEF s
<1>2. IsFile(Installed) /\ ~ReadOnly /\ \A k \in Hot : OneLine(Installed, k) /\ k # Seed
  BY SettingsAssumption DEF IsFile, HotAlone
<1>3. IsFile(file)
  <2>1. CASE Read(Installed, Seed) # Blank
    BY <1>1, <1>2, <2>1 DEF SaveSeed
  <2>2. CASE Read(Installed, Seed) = Blank
    BY <1>1, <1>2, <2>2, PutPlace DEF SaveSeed
  <2> QED
    BY <2>1, <2>2
<1>4. ASSUME NEW k \in Hot PROVE OneLine(file, k) /\ Read(file, k) = Read(Installed, k)
  BY <1>1, <1>2, SeedIsRead
<1>5. \A k \in Hot : live[k] = AtStart(file, k)
  BY <1>1, <1>4 DEF AtStart
<1>6. live = [k \in Hot |-> live[k]]
  BY <1>1
<1> QED
  BY <1>3, <1>4, <1>5, <1>6 DEF LiveInv, LiveIsSaved

\* A change that is saved as it is applied, or is one of those that are not applied.
LEMMA SavedAsApplied ==
    ASSUME HotAlone, LiveInv, UNCHANGED up,
           NEW key, NEW t, NEW raw, file' = Persist(file, key, t, raw),
           apart' = apart \ {key},
           live' = [k \in Hot |-> live'[k]],
           \A k \in Hot \ {key} : live'[k] = live[k],
           key \in Hot => \/ live'[key] = t /\ t # Blank
                          \/ live'[key] = Zero /\ t = Blank
                          \/ t \in Ignored
    PROVE  LiveInv'
<1>1. IsFile(file) /\ ~ReadOnly /\ \A k \in Hot : OneLine(file, k)
  BY DEF LiveInv, HotAlone
<1>2. IsFile(file')
  BY <1>1, PutPlace DEF Persist
<1>3. ASSUME NEW k \in Hot
      PROVE  OneLine(file', k) /\ Read(file', k) = IF k = key THEN t ELSE Read(file, k)
  BY <1>1, PersistIsRead
<1>4. ASSUME up', NEW k \in Hot \ apart'
      PROVE  \/ live'[k] = AtStart(file', k)
             \/ Read(file', k) \in Ignored
             \/ Read(file', k) = Blank /\ live'[k] = Zero
  <2>1. CASE k = key
    <3>1. Read(file', k) = t
      BY <1>3, <2>1
    <3> QED
      BY <2>1, <3>1 DEF AtStart
  <2>2. CASE k # key
    <3>1. Read(file', k) = Read(file, k) /\ live'[k] = live[k]
      BY <1>3, <2>2
    <3>2. AtStart(file', k) = AtStart(file, k)
      BY <3>1 DEF AtStart
    <3>3. up /\ k \in Hot \ apart
      BY <1>4, <2>2
    <3>4. \/ live[k] = AtStart(file, k)
          \/ Read(file, k) \in Ignored
          \/ Read(file, k) = Blank /\ live[k] = Zero
      BY <3>3 DEF LiveInv, LiveIsSaved
    <3> QED
      BY <3>1, <3>2, <3>4
  <2> QED
    BY <2>1, <2>2
<1>5. LiveIsSaved'
  BY <1>4 DEF LiveIsSaved
<1> QED
  BY <1>2, <1>3, <1>5 DEF LiveInv

\* Every request of an editor saves what it applies, and applies what it saves unless it
\* is a text the service ignores.
LEMMA LiveEdited ==
    ASSUME HotAlone, LiveInv, NEW c \in Editors, Editing(c)
    PROVE  LiveInv'
<1> DEFINE key == edit[c].key
           text == edit[c].text
<1>1. UNCHANGED up
  BY DEF Editing, Post, ConfigPost, ConfigFails, EnvPost, EnvFails, LoadPage, SaveList,
     Enter, fileVars, runVars
<1>2. live = [k \in Hot |-> live[k]]
  BY DEF LiveInv
<1>3. Zero # Blank
  BY DEF Zero, Blank
<1>4. ASSUME NEW v, live' = [live EXCEPT ![key] = v], key \in Hot
      PROVE  /\ live' = [k \in Hot |-> live'[k]] /\ live'[key] = v
             /\ \A k \in Hot \ {key} : live'[k] = live[k]
  BY <1>2, <1>4
<1>5. CASE ConfigPost(c)
  <2> DEFINE t == IF c \in Shells THEN text ELSE Applied(text)
  <2>1. /\ key \in Hot /\ apart' = apart \ {key}
        /\ live' = [live EXCEPT ![key] = Applied(text)]
        /\ file' = Persist(file, key, t, FALSE)
    BY <1>5 DEF ConfigPost
  <2>2. \/ Applied(text) = t /\ t # Blank
        \/ Applied(text) = Zero /\ t = Blank
    BY <1>3 DEF Applied
  <2>3. /\ live' = [k \in Hot |-> live'[k]] /\ live'[key] = Applied(text)
        /\ \A k \in Hot \ {key} : live'[k] = live[k]
    BY <1>4, <2>1
  <2> HIDE DEF t, key, text
  <2> QED
    BY <1>1, <2>1, <2>2, <2>3, SavedAsApplied
<1>6. CASE EnvPost(c)
  <2>1. file' = Persist(file, key, text, edit[c].raw) /\ apart' = apart \ {key}
    BY <1>6 DEF EnvPost
  <2>2. CASE key \in Hot /\ text \notin Ignored
    <3>1. live' = [live EXCEPT ![key] = Applied(text)]
      BY <1>6, <2>2 DEF EnvPost
    <3>2. \/ Applied(text) = text /\ text # Blank
          \/ Applied(text) = Zero /\ text = Blank
      BY DEF Applied
    <3>3. /\ live' = [k \in Hot |-> live'[k]] /\ live'[key] = Applied(text)
          /\ \A k \in Hot \ {key} : live'[k] = live[k]
      BY <1>4, <2>2, <3>1
    <3> HIDE DEF key, text
    <3> QED
      BY <1>1, <2>1, <3>2, <3>3, SavedAsApplied
  <2>3. CASE ~(key \in Hot /\ text \notin Ignored)
    <3>1. live' = live
      BY <1>6, <2>3 DEF EnvPost
    <3>2. live' = [k \in Hot |-> live'[k]] /\ \A k \in Hot : live'[k] = live[k]
      BY <1>2, <3>1
    <3> HIDE DEF key, text
    <3> QED
      BY <1>1, <2>1, <2>3, <3>2, SavedAsApplied
  <2> QED
    BY <2>2, <2>3
<1>7. CASE ~ConfigPost(c) /\ ~EnvPost(c)
  <2>1. UNCHANGED <<file, live, apart>>
    BY <1>7 DEF Editing, Post, ConfigFails, EnvFails, LoadPage, SaveList, Enter, fileVars,
       runVars
  <2> QED
    BY <1>1, <2>1 DEF LiveInv, LiveIsSaved, AtStart
<1> QED
  BY <1>5, <1>6, <1>7

\* A start runs what it reads, and the seed it may save is another line.
LEMMA LiveStarts == ASSUME HotAlone, LiveInv, Start PROVE LiveInv'
<1> DEFINE s == IF Read(file, Seed) = Blank THEN FreshSeed ELSE Read(file, Seed)
<1>1. /\ file' = SaveSeed(file, s)
      /\ up' => live' = [k \in Hot |-> AtStart(file, k)]
      /\ live' = [k \in Hot |-> AtStart(file, k)] \/ live' = live
  BY DEF Start
<1> HIDE DEF s
<1>2. IsFile(file) /\ ~ReadOnly /\ \A k \in Hot : OneLine(file, k) /\ k # Seed
  BY SettingsAssumption DEF LiveInv, HotAlone
<1>3. IsFile(file')
  <2>1. CASE Read(file, Seed) # Blank
    BY <1>1, <1>2, <2>1 DEF SaveSeed
  <2>2. CASE Read(file, Seed) = Blank
    BY <1>1, <1>2, <2>2, PutPlace DEF SaveSeed
  <2> QED
    BY <2>1, <2>2
<1>4. ASSUME NEW k \in Hot PROVE OneLine(file', k) /\ Read(file', k) = Read(file, k)
  BY <1>1, <1>2, SeedIsRead
<1>5. up' => \A k \in Hot : live'[k] = AtStart(file', k)
  BY <1>1, <1>4 DEF AtStart
<1>6. live' = [k \in Hot |-> live'[k]]
  BY <1>1 DEF LiveInv
<1> QED
  BY <1>3, <1>4, <1>5, <1>6 DEF LiveInv, LiveIsSaved

\* The boot screen changes the level only.
LEMMA LiveEntered == ASSUME LiveInv, PressEnter PROVE LiveInv'
<1>1. /\ live' = [k \in Hot |-> IF k = Level THEN atEnter ELSE live[k]]
      /\ apart' = apart \cup {Level} /\ UNCHANGED <<file, up>>
  BY DEF PressEnter, fileVars
<1>2. live' = [k \in Hot |-> live'[k]]
  BY <1>1
<1>3. \A k \in Hot \ apart' : k \in Hot \ apart /\ live'[k] = live[k]
  BY <1>1
<1>4. \A k \in Hot : AtStart(file', k) = AtStart(file, k) /\ Read(file', k) = Read(file, k)
  BY <1>1
<1>5. LiveIsSaved'
  BY <1>1, <1>3, <1>4 DEF LiveInv, LiveIsSaved
<1> QED
  BY <1>1, <1>2, <1>5 DEF LiveInv

\* Each step of the service, the wizard and the editors keeps file and memory the same.
LEMMA LiveStep ==
    ASSUME HotAlone
    PROVE  LiveInv /\ [Next]_vars => LiveInv'
<1> SUFFICES ASSUME LiveInv, [Next]_vars PROVE LiveInv'
  OBVIOUS
<1>1. CASE UNCHANGED <<file, live, apart>> /\ (up' => up)
  BY <1>1 DEF LiveInv, LiveIsSaved, AtStart
<1>2. CASE Start
  BY <1>2, LiveStarts
<1>3. CASE Stop
  BY <1>1, <1>3 DEF Stop, fileVars
<1>4. CASE PressEnter
  BY <1>4, LiveEntered
<1>5. CASE WizardBegin
  BY <1>1, <1>5 DEF WizardBegin, runVars
<1>6. CASE WizardWrite
  <2> DEFINE l == Line(MintUrl, Read(Installed, MintUrl))
  <2>1. file' = <<l>> /\ apart' = Hot /\ UNCHANGED live
    BY <1>6 DEF WizardWrite
  <2> HIDE DEF l
  <2>2. <<l>> \in Seq({l}) /\ DOMAIN <<l>> = {1}
    OBVIOUS
  <2>3. IsFile(file')
    BY <2>1, <2>2, OverItsLines
  <2>4. \A k \in Hot : OneLine(file', k)
    BY <2>1, <2>2 DEF OneLine
  <2> QED
    BY <2>1, <2>3, <2>4 DEF LiveInv, LiveIsSaved
<1>7. CASE \E c \in Editors : Editing(c)
  BY <1>7, LiveEdited
<1>8. CASE UNCHANGED setVars
  BY <1>1, <1>8 DEF setVars, fileVars, runVars
<1> QED
  BY <1>2, <1>3, <1>4, <1>5, <1>6, <1>7, <1>8, SettingsStep DEF Machine

\* What runs is what the next start reads, with any number of browsers and shells, in
\* whatever order the requests of their edits arrive between wizards, stops and starts;
\* or the file holds a text the service ignores, or an empty one, or the wizard or the
\* boot screen has set the two apart since the setting was last saved.
THEOREM LiveIsSavedTheorem == Spec => []LiveIsSaved
<1>1. CASE HotAlone
  <2>1. LiveInv => LiveIsSaved
    BY DEF LiveInv
  <2> QED
    BY <1>1, <2>1, LiveInit, LiveStep, PTL DEF Spec
<1>2. CASE ~HotAlone
  <2>1. LiveIsSaved
    BY <1>2 DEF LiveIsSaved
  <2>2. LiveIsSaved'
    BY <1>2 DEF LiveIsSaved
  <2> QED
    BY <2>1, <2>2, PTL
<1> QED
  BY <1>1, <1>2

-----------------------------------------------------------------------------
(* Commands act on what they showed *)

\* Records with these fields, whatever they hold.
IsCommand(c) ==
    c \in [kind : {c.kind}, step : {c.step}, want : {c.want}, arg : {c.arg}, force : {c.force},
           list : {c.list}, key : {c.key}, sum : {c.sum}]
IsPost(p) == p \in [by : {p.by}, c : {p.c}, nth : {p.nth}] /\ IsCommand(p.c)

\* The operator picked the connection from the list, or was asked about it by name.
Careful(c) == c.kind \in OnOne /\ (c.arg = 0 \/ (c.kind = "revoke" /\ ~c.force))

Meant(c) == Label[c.key] = Label[c.want]

Kinds == OnOne \cup {"connect", "restore"}

\* A list that is offered names the connections as they are called, and what has
\* been chosen with care is what was meant.
ChoiceKept(c) ==
    /\ IsCommand(c)
    /\ c.step # "shell" => c.kind \in Kinds
    /\ c.step = "selecting" => \A r \in c.list : r.label = Label[r.key]
    /\ Careful(c) /\ c.step \in {"amount", "sending", "waiting"} => Meant(c)

ShownInv ==
    /\ allot = [k \in Conns |-> allot[k]]
    /\ cmd = [s \in Operators |-> cmd[s]]
    /\ \A s \in Operators : ChoiceKept(cmd[s])
    /\ \A p \in posts : IsPost(p) /\ p.c.kind \in Kinds /\ (Careful(p.c) => Meant(p.c))

\* What the service does to balances it does to those of connections.
LEMMA AllotKept ==
    ASSUME allot = [k \in Conns |-> allot[k]], \A p \in posts : p.c.kind \in Kinds, CommandNext
    PROVE  allot' = [k \in Conns |-> allot'[k]]
<1>1. allot' = allot \/ \E k, n : allot' = [allot EXCEPT ![k] = n]
  <2>1. ASSUME ServiceSteps PROVE allot' = allot \/ \E k, n : allot' = [allot EXCEPT ![k] = n]
    <3>1. ASSUME NEW o, NEW n, Credit(o, n)
          PROVE  allot' = allot \/ \E k, m : allot' = [allot EXCEPT ![k] = m]
      BY <3>1 DEF Credit
    <3>2. ASSUME NEW o, NEW ok, Spend(o, ok)
          PROVE  allot' = allot \/ \E k, m : allot' = [allot EXCEPT ![k] = m]
      BY <3>1, <3>2 DEF Spend
    <3>3. ASSUME NEW i, Settles(i)
          PROVE  allot' = allot \/ \E k, m : allot' = [allot EXCEPT ![k] = m]
      BY <3>1, <3>3 DEF Settles
    <3> QED
      BY <2>1, <3>2, <3>3 DEF ServiceSteps, Invoice, GetBalance, Link, Failover, SetFees,
         ServiceStops, ServiceStarts
  <2>2. ASSUME NEW p \in posts, Serve(p)
        PROVE  allot' = allot \/ \E k, n : allot' = [allot EXCEPT ![k] = n]
    <3>1. CASE Done(p) /\ p.c.kind # "restore"
      <4>1. p.c.kind \in {"connect", "revoke", "fund", "withdraw"}
        BY <3>1 DEF Kinds, OnOne
      <4>2. CreateRow(Target(p)) \/ RevokeRow(Target(p)) \/ \E n : Allot(Target(p), n)
        BY <3>1, <4>1 DEF Done
      <4> QED
        BY <4>2 DEF CreateRow, RevokeRow, Allot
    <3>2. CASE RestoreBegins \/ RestoreEnds \/ StaysServed
      BY <3>2 DEF RestoreBegins, RestoreEnds, StaysServed, serviceVars
    <3> QED
      BY <2>2, <3>1, <3>2 DEF Serve
  <2> QED
    BY <2>1, <2>2 DEF CommandNext, CommandSteps, List, Detail, connect, restore, Type, Fetch,
       Select, Confirm, Amount, Send, TimesOut, Dropped, StaysServed, serviceVars
<1> QED
  BY <1>1

\* One shell moves on: it is enough to look at its command.
LEMMA ShellMoves ==
    ASSUME ShownInv, NEW s \in Operators, NEW c, Step(s, c), ChoiceKept(c)
    PROVE  /\ cmd' = [t \in Operators |-> cmd'[t]]
           /\ \A t \in Operators : ChoiceKept(cmd[t])'
<1>1. cmd' = [cmd EXCEPT ![s] = c]
  BY DEF Step
<1>2. \A t \in Operators : cmd'[t] = IF t = s THEN c ELSE cmd[t]
  BY <1>1 DEF ShownInv
<1>3. cmd' = [t \in Operators |-> cmd'[t]]
  BY <1>1 DEF ShownInv
<1>4. ASSUME NEW t \in Operators PROVE ChoiceKept(cmd'[t])
  BY <1>2 DEF ShownInv
<1> QED
  BY <1>3, <1>4 DEF ChoiceKept, IsCommand, Careful, Meant

\* Nothing is chosen yet.
LEMMA NoChoice == ChoiceKept(NoCommand) /\ IsCommand(NoCommand)
BY DEF ChoiceKept, IsCommand, NoCommand

\* What an operator does before the request is sent keeps to what he means.
LEMMA ChoosingStep ==
    ASSUME ShownInv, NEW s \in Operators,
           \/ Fetch(s) \/ Select(s) \/ Confirm(s) \/ Amount(s)
           \/ \E c \in Conns : connect(s, c)
           \/ restore(s)
           \/ \E kind \in OnOne : \E c, arg, force : Type(s, kind, c, arg, force)
    PROVE  \E c : Step(s, c) /\ ChoiceKept(c)
<1> DEFINE a == cmd[s]
<1>a. IsCommand(a) /\ ChoiceKept(a)
  BY DEF ShownInv, ChoiceKept
<1>b. ASSUME Back(s) PROVE \E c : Step(s, c) /\ ChoiceKept(c)
  BY <1>b, NoChoice DEF Back
<1>1. CASE \E kind \in OnOne : \E c, arg, force : Type(s, kind, c, arg, force)
  <2>0. PICK kind \in OnOne : \E c, arg, force : Type(s, kind, c, arg, force)
    BY <1>1
  <2>1. PICK c, arg, force : Type(s, kind, c, arg, force)
    BY <2>0
  <2> DEFINE b == [NoCommand EXCEPT !.kind = kind, !.step = "fetching", !.want = c, !.arg = arg,
                                    !.force = force]
  <2>2. Step(s, b)
    BY <2>1 DEF Type
  <2>3. IsCommand(b) /\ b.step = "fetching" /\ b.kind = kind
    BY NoChoice DEF IsCommand
  <2>4. ChoiceKept(b)
    BY <2>3 DEF ChoiceKept, Kinds
  <2> QED
    BY <2>2, <2>4
<1>2. CASE \E c \in Conns : connect(s, c)
  <2>1. PICK c \in Conns : connect(s, c)
    BY <1>2
  <2> DEFINE b == [NoCommand EXCEPT !.kind = "connect", !.step = "sending", !.want = c, !.key = c]
  <2>2. Step(s, b) \/ Back(s)
    BY <2>1 DEF connect
  <2>3. IsCommand(b) /\ b.step = "sending" /\ b.kind = "connect"
    BY NoChoice DEF IsCommand
  <2>4. ChoiceKept(b)
    BY <2>3 DEF ChoiceKept, Careful, OnOne, Kinds
  <2> QED
    BY <2>2, <2>4, <1>b
<1>3. CASE restore(s)
  <2> DEFINE b == [NoCommand EXCEPT !.kind = "restore", !.step = "sending"]
  <2>1. Step(s, b) \/ Back(s)
    BY <1>3 DEF restore
  <2>2. IsCommand(b) /\ b.step = "sending" /\ b.kind = "restore"
    BY NoChoice DEF IsCommand
  <2>3. ChoiceKept(b)
    BY <2>2 DEF ChoiceKept, Careful, OnOne, Kinds
  <2> QED
    BY <2>1, <2>3, <1>b
\* A connection is chosen by its number, without care; or the list is shown.
<1>4. CASE Fetch(s)
  <2> DEFINE L == Offered(a.kind)
             b == [a EXCEPT !.step = "selecting", !.list = L]
  <2>0. a.kind \in Kinds
    BY <1>4, <1>a DEF Fetch, ChoiceKept
  <2>1. \A r \in L : r.label = Label[r.key]
    <3>1. ASSUME NEW i \in DOMAIN Live
          PROVE  ConnectionsAnswer[i].label = Label[ConnectionsAnswer[i].key]
      BY DEF ConnectionsAnswer
    <3>2. DOMAIN ConnectionsAnswer = DOMAIN Live
      BY DEF ConnectionsAnswer
    <3> QED
      BY <3>1, <3>2 DEF Offered, ToSet
  <2>2. ChoiceKept(b)
    <3>1. IsCommand(b) /\ b.step = "selecting" /\ b.list = L /\ b.kind = a.kind
      BY <1>a DEF IsCommand
    <3> HIDE DEF b, L
    <3> QED
      BY <3>1, <2>0, <2>1 DEF ChoiceKept
  <2>3. ASSUME NEW r, a.arg # 0 PROVE ChoiceKept(Chosen(a, r))
    <3> DEFINE d == Chosen(a, r)
    <3>1. /\ IsCommand(d) /\ d.kind = a.kind /\ d.arg = a.arg /\ d.force = a.force
          /\ d.step = IF a.kind # "revoke" THEN "amount"
                      ELSE IF a.force THEN "sending" ELSE "confirming"
      BY <1>a DEF Chosen, IsCommand
    <3> HIDE DEF d
    <3>2. ChoiceKept(d)
      BY <2>0, <2>3, <3>1 DEF ChoiceKept, Careful
    <3> QED
      BY <3>2 DEF d
  <2>4. \/ a.arg = 0 /\ Step(s, b)
        \/ a.arg # 0 /\ \E r : Step(s, Chosen(a, r))
        \/ Back(s)
    BY <1>4 DEF Fetch
  <2> QED
    BY <2>2, <2>3, <2>4, <1>b
<1>5. CASE Select(s)
  <2>1. a.step = "selecting"
    BY <1>5 DEF Select
  <2>2. ASSUME NEW r \in a.list, r.label = Label[a.want]
        PROVE  ChoiceKept([Chosen(a, r) EXCEPT !.list = {}])
    <3> DEFINE e == Chosen(a, r)
               d == [e EXCEPT !.list = {}]
    <3>1. /\ IsCommand(e) /\ e.want = a.want /\ e.key = r.key /\ e.kind = a.kind
          /\ e.step \in {"amount", "sending", "confirming"}
      BY <1>a DEF Chosen, IsCommand
    <3> HIDE DEF e
    <3>2. /\ IsCommand(d) /\ d.want = a.want /\ d.key = r.key /\ d.kind = a.kind
          /\ d.step = e.step
      BY <3>1 DEF IsCommand
    <3>3. Label[r.key] = Label[a.want] /\ a.kind \in Kinds
      BY <1>a, <2>1, <2>2 DEF ChoiceKept
    <3>4. ChoiceKept(d)
      <4> HIDE DEF d
      <4> QED
        BY <3>1, <3>2, <3>3 DEF ChoiceKept, Meant
    <3> QED
      BY <3>4 DEF e
  <2>3. \/ Back(s)
        \/ \E r \in a.list : r.label = Label[a.want] /\ Step(s, [Chosen(a, r) EXCEPT !.list = {}])
    BY <1>5 DEF Select, select
  <2> QED
    BY <2>2, <2>3, <1>b
<1>6. CASE Confirm(s)
  <2> DEFINE b == [a EXCEPT !.step = "sending"]
  <2>1. /\ IsCommand(b) /\ b.want = a.want /\ b.key = a.key /\ b.step = "sending"
        /\ b.kind = a.kind /\ a.kind \in Kinds
    BY <1>6, <1>a DEF IsCommand, ChoiceKept, Confirm
  <2>2. Back(s) \/ (Label[a.key] = Label[a.want] /\ Step(s, b))
    BY <1>6 DEF Confirm
  <2>3. Label[a.key] = Label[a.want] => ChoiceKept(b)
    <3> HIDE DEF b
    <3> QED
      BY <2>1 DEF ChoiceKept, Meant
  <2> QED
    BY <2>2, <2>3, <1>b
<1>7. CASE Amount(s)
  <2>1. a.step = "amount" /\ (Back(s) \/ \E n : Step(s, [a EXCEPT !.step = "sending", !.sum = n]))
    BY <1>7 DEF Amount
  <2>2. ASSUME NEW n PROVE ChoiceKept([a EXCEPT !.step = "sending", !.sum = n])
    <3> DEFINE b == [a EXCEPT !.step = "sending", !.sum = n]
    <3>1. /\ IsCommand(b) /\ b.kind = a.kind /\ b.arg = a.arg /\ b.force = a.force
          /\ b.want = a.want /\ b.key = a.key /\ b.step = "sending"
      BY <1>a DEF IsCommand
    <3>2. (Careful(a) => Meant(a)) /\ a.kind \in Kinds
      BY <1>a, <2>1 DEF ChoiceKept
    <3> HIDE DEF b
    <3>3. ChoiceKept(b)
      BY <3>1, <3>2 DEF ChoiceKept, Careful, Meant
    <3> QED
      BY <3>3 DEF b
  <2> QED
    BY <2>1, <2>2, <1>b
<1> QED
  BY <1>1, <1>2, <1>3, <1>4, <1>5, <1>6, <1>7

\* From the prompt to the end of the request the choice stays what it was.
LEMMA ShownStep ==
    ASSUME ShownInv, [CommandNext]_<<serviceVars, commandVars>>
    PROVE  ShownInv'
<1> DEFINE Posts(P) == \A p \in P : IsPost(p) /\ p.c.kind \in Kinds /\ (Careful(p.c) => Meant(p.c))
<1>p. Posts(posts)
  BY DEF ShownInv
<1>1. CASE UNCHANGED <<serviceVars, commandVars>>
  BY <1>1 DEF serviceVars, commandVars, ShownInv, ChoiceKept, IsCommand, IsPost, Careful, Meant,
     Kinds, OnOne
<1>2. CASE CommandNext
  <2>a. allot' = [k \in Conns |-> allot'[k]]
    BY <1>2, AllotKept DEF ShownInv
  <2>s. ASSUME Posts(posts'), \/ cmd' = cmd
                              \/ \E s \in Operators : \E c : Step(s, c) /\ ChoiceKept(c)
        PROVE  ShownInv'
    <3>1. /\ cmd' = [t \in Operators |-> cmd'[t]]
          /\ \A t \in Operators : ChoiceKept(cmd[t])'
      <4>1. CASE cmd' = cmd
        BY <4>1 DEF ShownInv, ChoiceKept, IsCommand, Careful, Meant
      <4> QED
        BY <2>s, <4>1, ShellMoves
    <3>2. \A p \in posts' :
            IsPost(p)' /\ (p.c.kind \in Kinds)' /\ (Careful(p.c)' => Meant(p.c)')
      BY <2>s DEF IsPost, IsCommand, Careful, Meant, Kinds, OnOne
    <3> QED
      BY <2>a, <3>1, <3>2 DEF ShownInv
  <2>b. ASSUME NEW s \in Operators, Back(s) PROVE \E c : Step(s, c) /\ ChoiceKept(c)
    BY <2>b, NoChoice DEF Back
  <2>1. ASSUME NEW s \in Operators,
               \/ Fetch(s) \/ Select(s) \/ Confirm(s) \/ Amount(s)
               \/ \E c \in Conns : connect(s, c)
               \/ restore(s)
               \/ \E kind \in OnOne : \E c, arg, force : Type(s, kind, c, arg, force)
        PROVE  ShownInv'
    <3>1. posts' = posts
      BY <2>1 DEF Fetch, Select, Confirm, Amount, connect, restore, Type
    <3>2. \E c : Step(s, c) /\ ChoiceKept(c)
      BY <2>1, ChoosingStep
    <3> QED
      BY <3>1, <3>2, <2>s, <1>p
  <2>2. ASSUME NEW s \in Operators, List(s) \/ \E c \in Conns : Detail(s, c) PROVE ShownInv'
    BY <2>2, <2>s, <1>p DEF List, Detail
  <2>3. ASSUME NEW s \in Operators, Send(s) PROVE ShownInv'
    <3> DEFINE a == cmd[s]
               b == [a EXCEPT !.step = "waiting"]
               p == [by |-> s, c |-> a, nth |-> typed]
    <3>1. ChoiceKept(a) /\ a.step = "sending"
      BY <2>3 DEF ShownInv, Send
    <3>2. \/ posts' = posts \cup {p} /\ Step(s, b)
          \/ posts' = posts /\ Back(s)
      BY <2>3 DEF Send
    <3>3. /\ IsCommand(b) /\ b.kind = a.kind /\ b.arg = a.arg /\ b.force = a.force
          /\ b.want = a.want /\ b.key = a.key /\ b.step = "waiting"
      BY <3>1 DEF ChoiceKept, IsCommand
    <3>4. (Careful(a) => Meant(a)) /\ a.kind \in Kinds
      BY <3>1 DEF ChoiceKept
    <3>5. ChoiceKept(b)
      <4> HIDE DEF b
      <4> QED
        BY <3>3, <3>4 DEF ChoiceKept, Careful, Meant
    <3>6. IsPost(p) /\ p.c.kind \in Kinds /\ (Careful(p.c) => Meant(p.c))
      BY <3>1, <3>4 DEF IsPost, ChoiceKept
    <3>7. Posts(posts')
      BY <3>2, <3>6, <1>p
    <3>8. \E c : Step(s, c) /\ ChoiceKept(c)
      BY <3>2, <3>5, <2>b
    <3> QED
      BY <3>7, <3>8, <2>s
  <2>4. ASSUME NEW s \in Operators, TimesOut(s) PROVE ShownInv'
    <3>1. /\ posts' = {IF p.by = s THEN [p EXCEPT !.by = NoKey] ELSE p : p \in posts}
          /\ Back(s)
      BY <2>4 DEF TimesOut
    <3>2. ASSUME NEW p \in posts
          PROVE  LET q == [p EXCEPT !.by = NoKey]
                 IN  IsPost(q) /\ q.c.kind \in Kinds /\ (Careful(q.c) => Meant(q.c))
      <4> DEFINE q == [p EXCEPT !.by = NoKey]
      <4>1. IsPost(p) /\ p.c.kind \in Kinds /\ (Careful(p.c) => Meant(p.c))
        BY <1>p
      <4>2. q \in [by : {q.by}, c : {q.c}, nth : {q.nth}] /\ q.c = p.c
        BY <4>1 DEF IsPost
      <4> HIDE DEF q
      <4>3. IsPost(q) /\ q.c.kind \in Kinds /\ (Careful(q.c) => Meant(q.c))
        BY <4>1, <4>2 DEF IsPost
      <4> QED
        BY <4>3 DEF q
    <3>3. Posts(posts')
      BY <3>1, <3>2, <1>p
    <3> QED
      BY <3>1, <3>3, <2>s, <2>b
  <2>5. ASSUME NEW q \in posts, Serve(q) PROVE ShownInv'
    <3> DEFINE r == [q EXCEPT !.c.step = "running"]
    <3>1. /\ \/ posts' = posts \ {q}
             \/ q.c.kind = "restore" /\ posts' = (posts \ {q}) \cup {r}
          /\ cmd' = cmd \/ \E s \in Operators : Back(s)
      BY <2>5 DEF Serve, Reply
    <3>2. ASSUME q.c.kind = "restore" PROVE IsPost(r) /\ r.c.kind \in Kinds /\ ~Careful(r.c)
      <4>1. IsPost(q)
        BY <1>p
      <4> DEFINE d == [q.c EXCEPT !.step = "running"]
      <4>2. r \in [by : {r.by}, c : {r.c}, nth : {r.nth}] /\ r.c = d
        BY <4>1 DEF IsPost
      <4>3. IsCommand(d) /\ d.kind = "restore"
        BY <3>2, <4>1 DEF IsPost, IsCommand
      <4> HIDE DEF d, r
      <4> QED
        BY <4>2, <4>3 DEF IsPost, Careful, OnOne, Kinds
    <3>3. Posts(posts')
      BY <3>1, <3>2, <1>p
    <3> QED
      BY <3>1, <3>3, <2>s, <2>b
  <2>6. CASE Dropped
    <3>1. cmd' = cmd /\ posts' \subseteq posts
      BY <2>6 DEF Dropped
    <3> QED
      BY <3>1, <2>s, <1>p
  <2>7. CASE UNCHANGED commandVars
    BY <2>7, <2>s, <1>p DEF commandVars
  <2> QED
    BY <1>2, <2>1, <2>2, <2>3, <2>4, <2>5, <2>6, <2>7 DEF CommandNext, CommandSteps
<1> QED
  BY <1>1, <1>2

\* The request of a choice made with care touches what was chosen.
LEMMA ServedIsMeant ==
    ASSUME ShownInv, [CommandNext]_<<serviceVars, commandVars>>, NEW p \in posts, Served(p),
           Careful(p.c), NEW k \in Conns, Touched(k)
    PROVE  Label[k] = Label[p.c.want]
<1>1. Meant(p.c)
  BY DEF ShownInv
<1>2. revoked' # revoked \/ allot' # allot
  BY DEF Touched
<1>3. PICK q \in posts : Serve(q)
  <2>1. posts' # posts
    BY DEF Served
  <2> QED
    BY <2>1, <1>2 DEF CommandNext, CommandSteps, List, Detail, connect, restore, Type, Fetch,
       Select, Confirm, Amount, Send, TimesOut, Dropped, StaysServed, serviceVars, commandVars
<1>4. q = p
  BY <1>3 DEF Serve, Served
<1>5. /\ Done(p) /\ p.c.kind \in {"revoke", "fund", "withdraw"}
  BY <1>2, <1>3, <1>4 DEF Serve, RestoreBegins, RestoreEnds, StaysServed, serviceVars, Careful, OnOne
<1>6. \/ RevokeRow(p.c.key)
      \/ \E n : Allot(p.c.key, n)
  BY <1>5 DEF Done, Target
<1>7. \/ revoked' = revoked \cup {p.c.key} /\ \E n : allot' = [allot EXCEPT ![p.c.key] = n]
      \/ revoked' = revoked /\ \E n : allot' = [allot EXCEPT ![p.c.key] = n]
  BY <1>6 DEF RevokeRow, Allot
<1>8. k # p.c.key => allot'[k] = allot[k] /\ k \notin revoked' \ revoked
  BY <1>7 DEF ShownInv
<1>9. k = p.c.key
  BY <1>8 DEF Touched
<1> QED
  BY <1>1, <1>9 DEF Meant

\* A connection picked from a command's list, or named in its question, is the one that
\* is revoked, funded or withdrawn from, whatever is created, revoked or renumbered until
\* the request is carried out: any number of operators, connections and labels, requests
\* that are given up and carried out later, restarts.
THEOREM ActsOnShownTheorem == CommandSpec => ActsOnShown
<1>1. ServiceInit /\ CommandInit => ShownInv
  BY NoChoice DEF ServiceInit, CommandInit, ShownInv
<1>2. ShownInv /\ [CommandNext]_<<serviceVars, commandVars>> =>
        [\A p \in posts :
            /\ Served(p) /\ p.c.kind \in OnOne
            /\ p.c.arg = 0 \/ (p.c.kind = "revoke" /\ ~p.c.force)
            => \A k \in Conns : Touched(k) => Label[k] = Label[p.c.want]]_serviceVars
  BY ServedIsMeant DEF Careful
<1>3. ShownInv /\ [CommandNext]_<<serviceVars, commandVars>> => ShownInv'
  BY ShownStep
<1> QED
  BY <1>1, <1>2, <1>3, PTL DEF CommandSpec, ActsOnShown
=============================================================================
