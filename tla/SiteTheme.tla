----------------------------- MODULE SiteTheme -----------------------------
(***************************************************************************)
(* The colour theme of the web pages.  The choice is kept in localStorage, *)
(* which all tabs of a browser share; the script of a tab turns it into    *)
(* the attribute data-bs-theme; and the ThemeToggle of the tab, a Blazor   *)
(* component that runs in the server, has its own copy of the choice.      *)
(* Component and script talk over the tab's circuit: calls one way, events *)
(* and replies the other, each in order, neither waiting for the other.    *)
(*                                                                         *)
(* Two things are assumptions of a configuration: whether another tab can  *)
(* run between the getItem and the setItem of one task of the script       *)
(* (Torn; browsers differ), and whether the user clicks before the script  *)
(* has answered the component's first question (Hasty).                    *)
(***************************************************************************)
EXTENDS Naturals, Sequences

CONSTANTS Tabs,       \* tabs of one browser
          Torn,       \* localStorage is shared without a lock
          Hasty,      \* a click may precede the answer to getTheme
          MaxOutside  \* bound on clicks, loads and changes of the scheme

ASSUME ThemeAssumption ==
    /\ "none" \notin Tabs
    /\ Torn \in BOOLEAN /\ Hasty \in BOOLEAN
    /\ MaxOutside \in Nat

VARIABLES
    stored,   \* localStorage 'throttlex-theme'
    scheme,   \* what the system prefers: prefers-color-scheme
    page,     \* per tab: "closed", "loading", "open" (no circuit yet) or "live"
    attr,     \* per tab: the attribute data-bs-theme
    task,     \* per tab: the theme its script has read and is about to set
    change,   \* per tab: a change event of matchMedia is pending
    toggle,   \* per tab: _currentTheme
    calls,    \* per tab: calls from the component to the script
    events,   \* per tab: clicks and replies from the page to the component
    writer,   \* the tab that has written the storage last
    chooser,  \* the tab whose click was carried out last
    outside   \* how often the user or the system has acted

browserVars == <<stored, attr, task, writer>>
themeVars == <<stored, scheme, page, attr, task, change, toggle, calls, events,
              writer, chooser, outside>>

Choices == {"auto", "dark", "light"}
None    == "none"
Ask     == "getTheme"

ThemeTypeOK ==
    /\ stored \in Choices \cup {None}
    /\ scheme \in {"dark", "light"}
    /\ page \in [Tabs -> {"closed", "loading", "open", "live"}]
    /\ attr \in [Tabs -> {"dark", "light"}]
    /\ task \in [Tabs -> Choices \cup {None}]
    /\ change \in [Tabs -> BOOLEAN]
    /\ toggle \in [Tabs -> Choices]
    /\ calls \in [Tabs -> Seq(Choices \cup {Ask})]
    /\ events \in [Tabs -> Seq([kind: {"click", "reply"}, theme: Choices])]
    /\ writer \in Tabs \cup {None}
    /\ chooser \in Tabs \cup {None}
    /\ outside \in Nat

ThemeInit ==
    /\ stored = None
    /\ scheme \in {"dark", "light"}
    /\ page = [t \in Tabs |-> "closed"]
    /\ attr = [t \in Tabs |-> "dark"]
    /\ task = [t \in Tabs |-> None]
    /\ change = [t \in Tabs |-> FALSE]
    /\ toggle = [t \in Tabs |-> "auto"]
    /\ calls = [t \in Tabs |-> <<>>]
    /\ events = [t \in Tabs |-> <<>>]
    /\ writer = None
    /\ chooser = None
    /\ outside = 0

GetTheme == IF stored = None THEN "auto" ELSE stored

Effective(theme) == IF theme = "auto" THEN scheme ELSE theme

SetTheme(t, theme) ==
    /\ stored' = theme
    /\ attr' = [attr EXCEPT ![t] = Effective(theme)]
    /\ writer' = t

\* The script of a tab runs one task at a time, and no other tab's script
\* comes in between unless the storage is torn.
MayRun(t) == task[t] = None /\ (Torn \/ \A u \in Tabs : task[u] = None)

Outside == outside < MaxOutside /\ outside' = outside + 1

----------------------------------------------------------------------------
\* The page is loaded or loaded again: _Host.cshtml is dark, a new component
\* begins with "auto", and initTheme reads the choice ...
Load(t) ==
    /\ Outside
    /\ MayRun(t)
    /\ page[t] # "loading"
    /\ page' = [page EXCEPT ![t] = "loading"]
    /\ attr' = [attr EXCEPT ![t] = "dark"]
    /\ task' = [task EXCEPT ![t] = GetTheme]
    /\ change' = [change EXCEPT ![t] = FALSE]
    /\ toggle' = [toggle EXCEPT ![t] = "auto"]
    /\ calls' = [calls EXCEPT ![t] = <<>>]
    /\ events' = [events EXCEPT ![t] = <<>>]
    /\ UNCHANGED <<stored, scheme, writer, chooser>>

\* ... and sets it, as the listener does.
Set(t) ==
    /\ task[t] # None
    /\ SetTheme(t, task[t])
    /\ task' = [task EXCEPT ![t] = None]
    /\ page' = [page EXCEPT ![t] = IF @ = "loading" THEN "open" ELSE @]
    /\ UNCHANGED <<scheme, change, toggle, calls, events, chooser, outside>>

\* Mutant: nobody listens.
OnChangeNever(t) ==
    /\ change[t]
    /\ MayRun(t)
    /\ change' = [change EXCEPT ![t] = FALSE]
    /\ UNCHANGED <<browserVars, scheme, page, toggle, calls, events, chooser, outside>>

\* Mutant: the listener does not look at the choice.
OnChangeAlways(t) ==
    /\ change[t]
    /\ MayRun(t)
    /\ change' = [change EXCEPT ![t] = FALSE]
    /\ task' = [task EXCEPT ![t] = "auto"]
    /\ UNCHANGED <<stored, scheme, page, attr, toggle, calls, events, writer, chooser,
                   outside>>

\* The listener of initTheme.
OnChange(t) ==
    /\ change[t]
    /\ MayRun(t)
    /\ change' = [change EXCEPT ![t] = FALSE]
    /\ task' = [task EXCEPT ![t] = IF GetTheme = "auto" THEN "auto" ELSE None]
    /\ UNCHANGED <<stored, scheme, page, attr, toggle, calls, events, writer, chooser,
                   outside>>

\* The circuit is up: after the first render the component asks for the theme.
OnAfterRender(t) ==
    /\ page[t] = "open"
    /\ page' = [page EXCEPT ![t] = "live"]
    /\ calls' = [calls EXCEPT ![t] = Append(@, Ask)]
    /\ UNCHANGED <<browserVars, scheme, change, toggle, events, chooser, outside>>

\* The script answers getTheme or carries out setTheme.
Call(t) ==
    /\ calls[t] # <<>>
    /\ MayRun(t)
    /\ calls' = [calls EXCEPT ![t] = Tail(@)]
    /\ LET call == Head(calls[t]) IN
       \/ /\ call = Ask
          /\ events' = [events EXCEPT ![t] = Append(@, [kind |-> "reply", theme |-> GetTheme])]
          /\ UNCHANGED <<stored, attr, writer, chooser>>
       \/ /\ call # Ask
          /\ SetTheme(t, call)
          /\ chooser' = t
          /\ UNCHANGED events
    /\ UNCHANGED <<scheme, page, task, change, toggle, outside>>

\* The user picks a theme from the menu.
Click(t) ==
    /\ Outside
    /\ page[t] = "live"
    /\ Hasty \/ \A i \in DOMAIN calls[t] : calls[t][i] # Ask
    /\ \E theme \in Choices :
         events' = [events EXCEPT ![t] = Append(@, [kind |-> "click", theme |-> theme])]
    /\ UNCHANGED <<browserVars, scheme, page, change, toggle, calls, chooser>>

\* Mutant: a click does not change the component's own copy.
ReceiveReply(t) ==
    /\ events[t] # <<>>
    /\ events' = [events EXCEPT ![t] = Tail(@)]
    /\ LET event == Head(events[t]) IN
       /\ toggle' = [toggle EXCEPT ![t] = IF event.kind = "reply" THEN event.theme ELSE @]
       /\ calls' = IF event.kind = "click"
                   THEN [calls EXCEPT ![t] = Append(@, event.theme)]
                   ELSE calls
    /\ UNCHANGED <<browserVars, scheme, page, change, chooser, outside>>

\* The component receives a click (its SetTheme) or the reply to its question.
Receive(t) ==
    /\ events[t] # <<>>
    /\ events' = [events EXCEPT ![t] = Tail(@)]
    /\ LET event == Head(events[t]) IN
       /\ toggle' = [toggle EXCEPT ![t] = event.theme]
       /\ calls' = IF event.kind = "click"
                   THEN [calls EXCEPT ![t] = Append(@, event.theme)]
                   ELSE calls
    /\ UNCHANGED <<browserVars, scheme, page, change, chooser, outside>>

\* The system goes from day to night or back; every listener will be called.
SchemeChanges ==
    /\ Outside
    /\ scheme' = IF scheme = "dark" THEN "light" ELSE "dark"
    /\ change' = [t \in Tabs |-> page[t] \in {"open", "live"}]
    /\ UNCHANGED <<browserVars, page, toggle, calls, events, chooser>>

Script(t)    == Set(t) \/ OnChange(t) \/ Call(t)
Component(t) == OnAfterRender(t) \/ Receive(t)

ThemeNext ==
    \/ SchemeChanges
    \/ \E t \in Tabs : Load(t) \/ Click(t) \/ Script(t) \/ Component(t)

ThemeSpec == ThemeInit /\ [][ThemeNext]_themeVars

\* Browser, circuit and server go on by themselves; the user and the system
\* need not do anything.
ThemeFairSpec ==
    /\ ThemeSpec
    /\ \A t \in Tabs : WF_themeVars(Script(t)) /\ WF_themeVars(Component(t))

----------------------------------------------------------------------------
\* The page that wrote the choice last shows it: dark or light as chosen, or
\* as the system has it, unless the script is about to set it or the news of a
\* change of the system's scheme is on its way (setTheme, initTheme).
LastWriterShows ==
    \A t \in Tabs :
        writer = t /\ task[t] = None /\ ~change[t] /\ page[t] # "loading"
            => attr[t] = IF stored = "auto" THEN scheme ELSE stored

\* What was chosen stays chosen: neither a page that loads, nor a listener, nor
\* a circuit that starts again replaces the stored choice; only a click does,
\* in whatever tab.
ChoiceStep  == stored # None /\ stored' # stored => \E t \in Tabs : Call(t)
ChoiceKept  == [][ChoiceStep]_themeVars

\* The toggle of the tab where the last choice was made shows that choice in
\* the end, whatever circuits end and pages load in between (ThemeToggle), if
\* the component had the answer to its first question before the click.  With
\* Hasty = TRUE it need not have: that answer then hides the choice.
ChooserShows == \A t \in Tabs : []<>(chooser = t => toggle[t] = stored)

=============================================================================
