------------------------------- MODULE Terminal -------------------------------
(***************************************************************************)
(* The terminal UI over Settings: frames drawn from panels that are fetched *)
(* over the API, a menu, a refresh every five seconds, and commands that    *)
(* take the terminal over - of which config set is one of Settings' shells. *)
(*                                                                         *)
(* Two panels stand for all: fees, where the UI starts, shows what runs and *)
(* refreshes itself, config runs its command on Enter.                      *)
(***************************************************************************)
EXTENDS Settings

CONSTANTS
    StaticToken,    \* NUTBITS_API_TOKEN is set: a restart makes no new one
    Tui,            \* the shell of the command the terminal UI runs
    Fee,            \* the hot key the fees panel shows
    MaxKeys         \* bound: keys pressed

ASSUME TerminalAssumption ==
    /\ StaticToken \in BOOLEAN /\ Tui \in Shells /\ Fee \in Hot /\ MaxKeys \in Nat

VARIABLES
    selected,   \* menuState
    current,    \* currentPanel
    cache,      \* panelCache
    drawing,    \* rendering: what the fetch under way has brought
    queued,     \* renderQueued
    again,      \* the second fetch of the panel the UI starts with
    collecting, \* the refresh timer has fired and awaits collectData
    inCommand,  \* inCommand
    showHelp,   \* showHelp
    frame,      \* the last frame: its panel and lines, and whether over a command
    presses

tuiVars == <<selected, current, cache, drawing, queued, again, collecting, inCommand, showHelp, frame, presses>>
vars == <<setVars, tuiVars>>

Panels == {"fees", "config"}
Actions == {"config"}
LivePanels == {"fees"}

Lines(k, t) == [is |-> k, lines |-> t]
Nothing == Lines("nothing", Blank)
Later   == Lines("later", Blank)
Asked   == Lines("asked", Blank)
Error   == Lines("error", Blank)
Empty   == [p \in Panels |-> Nothing]

TuiInit ==
    /\ Init
    /\ selected = "fees" /\ current = "fees"
    /\ cache = Empty /\ drawing = Asked /\ queued = FALSE /\ again = Later /\ collecting = FALSE
    /\ inCommand = FALSE /\ showHelp = FALSE
    /\ frame = [panel |-> "fees", lines |-> Nothing, over |-> FALSE]
    /\ presses = 0

-----------------------------------------------------------------------------
(* Frames *)

\* render, begun when none is under way, over the last frame: from the cache, or
\* by a fetch.
Begin(c, s, last) ==
    /\ current' = s
    /\ IF c[s] = Nothing
       THEN drawing' = Asked /\ frame' = last
       ELSE drawing' = Nothing /\ frame' = [panel |-> s, lines |-> c[s], over |-> FALSE]

\* render, with the cache and the selection its caller leaves: nothing in a
\* command, queued behind the one under way, or begun.
Render(c, s) ==
    /\ cache' = c
    /\ \/ inCommand' /\ UNCHANGED <<current, drawing, queued, frame>>
       \/ ~inCommand' /\ drawing # Nothing /\ queued' = TRUE /\ UNCHANGED <<current, drawing, frame>>
       \/ ~inCommand' /\ drawing = Nothing /\ Begin(c, s, frame) /\ UNCHANGED queued

\* What a panel's request brings, with the token the UI started with.
Brought(p) ==
    IF up /\ (StaticToken \/ stops = 0)
    THEN Lines("lines", IF p = "fees" THEN live[Fee] ELSE Blank)
    ELSE Error

Reach ==
    /\ drawing = Asked
    /\ drawing' = Brought(current)
    /\ UNCHANGED <<setVars, selected, current, cache, queued, again, collecting, inCommand, showHelp, frame, presses>>

\* Once the first render is over, the panel is asked for again, beside the others.
AskAgain == again' = IF again = Later THEN Asked ELSE again

\* Mutant: a panel that could not be loaded leaves the renderer busy.
DrawKeepsErrors ==
    /\ drawing.is = "lines"
    /\ cache' = [cache EXCEPT ![current] = drawing]
    /\ queued' = FALSE /\ drawing' = Nothing
    /\ frame' = [panel |-> current, lines |-> drawing, over |-> inCommand]
    /\ AskAgain
    /\ UNCHANGED <<setVars, selected, current, collecting, inCommand, showHelp, presses>>

\* What came, error or not, is cached and drawn, whatever has begun meanwhile;
\* then the render that is queued.
Draw ==
    /\ drawing.is \in {"lines", "error"}
    /\ cache' = [cache EXCEPT ![current] = drawing]
    /\ queued' = FALSE /\ AskAgain
    /\ LET drawn == [panel |-> current, lines |-> drawing, over |-> inCommand]
       IN  IF queued /\ ~inCommand /\ selected # current
           THEN Begin(cache', selected, drawn)
           ELSE drawing' = Nothing /\ frame' = drawn /\ UNCHANGED current
    /\ UNCHANGED <<setVars, selected, collecting, inCommand, showHelp, presses>>

ReachAgain ==
    /\ again = Asked
    /\ again' = Brought("fees")
    /\ UNCHANGED <<setVars, selected, current, cache, drawing, queued, collecting, inCommand, showHelp, frame, presses>>

\* It is cached over what came meanwhile, whatever is on the screen by now.
Land ==
    /\ again.is \in {"lines", "error"}
    /\ again' = Nothing
    /\ UNCHANGED inCommand
    /\ Render([cache EXCEPT !["fees"] = again], selected)
    /\ UNCHANGED <<setVars, selected, collecting, showHelp, presses>>

\* Every five seconds, but not over the help or a command, figures are asked for.
Collect ==
    /\ ~collecting /\ ~showHelp /\ ~inCommand
    /\ collecting' = TRUE
    /\ UNCHANGED <<setVars, selected, current, cache, drawing, queued, again, inCommand, showHelp, frame, presses>>

\* They have come, or not; help or a command may be over the panel by now.
Refresh ==
    /\ collecting /\ collecting' = FALSE
    /\ UNCHANGED inCommand
    /\ IF current \in LivePanels
       THEN Render([cache EXCEPT ![current] = Nothing], selected)
       ELSE UNCHANGED <<cache, current, drawing, queued, frame>>
    /\ UNCHANGED <<setVars, selected, again, showHelp, presses>>

-----------------------------------------------------------------------------
(* Keys *)

Press == ~inCommand /\ presses < MaxKeys /\ presses' = presses + 1

\* Up and down in the menu.
Move ==
    /\ Press /\ ~showHelp
    /\ \E s \in Panels \ {selected} : selected' = s
    /\ UNCHANGED inCommand
    /\ Render(cache, selected')
    /\ UNCHANGED <<setVars, again, collecting, showHelp>>

\* r, or Enter on a panel without a command.
Reread ==
    /\ Press /\ ~showHelp
    /\ UNCHANGED inCommand
    /\ \/ Render(Empty, selected)
       \/ current \notin Actions /\ Render([cache EXCEPT ![current] = Nothing], selected)
    /\ UNCHANGED <<setVars, selected, again, collecting, showHelp>>

Help ==
    /\ Press
    /\ showHelp' = ~showHelp
    /\ UNCHANGED inCommand
    /\ Render(cache, selected)
    /\ UNCHANGED <<setVars, selected, again, collecting>>

\* Enter on a panel with a command: the terminal is the command's.
Run ==
    /\ Press /\ ~showHelp /\ current \in Actions
    /\ inCommand' = TRUE
    /\ UNCHANGED <<setVars, selected, current, cache, drawing, queued, again, collecting, showHelp, frame>>

\* config set runs in the command, and the UI waits for it.
Command ==
    /\ inCommand
    /\ Post(Tui) \/ \E k \in DOMAIN Entered : Enter(Tui, k)
    /\ UNCHANGED tuiVars

\* Enter again: back to the dashboard, with nothing cached.
Return ==
    /\ inCommand /\ edit[Tui].step = "none"
    /\ inCommand' = FALSE
    /\ Render(Empty, selected)
    /\ UNCHANGED <<setVars, selected, again, collecting, showHelp, presses>>

-----------------------------------------------------------------------------
Rest ==
    \/ SetNext
    \/ \E c \in Shells \ {Tui} : Post(c) \/ \E k \in DOMAIN Entered : Enter(c, k)

Next ==
    \/ Rest /\ UNCHANGED tuiVars
    \/ Reach \/ Draw \/ ReachAgain \/ Land \/ Collect \/ Refresh
    \/ Move \/ Reread \/ Help \/ Run \/ Command \/ Return

Spec == TuiInit /\ [][Next]_vars

\* The refresh timer fires, requests are answered or time out.
Fairness ==
    /\ WF_vars(Reach) /\ WF_vars(Draw) /\ WF_vars(ReachAgain) /\ WF_vars(Land)
    /\ WF_vars(Collect) /\ WF_vars(Refresh)

FairSpec == Spec /\ Fairness

-----------------------------------------------------------------------------
(* Properties *)

\* Every variable holds a value of its kind.
TypeOK ==
    /\ SetTypeOK
    /\ {selected, current, frame.panel} \subseteq Panels
    /\ DOMAIN cache = Panels
    /\ drawing.is \in {"nothing", "asked", "lines", "error"}
    /\ again.is \in {"later", "nothing", "asked", "lines", "error"}
    /\ {queued, collecting, inCommand, showHelp, frame.over} \subseteq BOOLEAN
    /\ presses \in 0..MaxKeys

\* However keys, fetches, commands, other editors' changes and restarts fall
\* together, a dashboard left on a live panel ends up showing what runs.
LivePanelCatchesUp ==
    <>[](up /\ selected = "fees" /\ ~inCommand /\ ~showHelp)
        => <>[](frame.panel = "fees" /\ frame.lines = Lines("lines", live[Fee]))

\* No frame is drawn over a command's prompts.
NoFrameDuringCommand == ~frame.over
=============================================================================
