--------------------------- MODULE WebPages_proofs ---------------------------
(***************************************************************************)
(* Proofs about what the web pages keep: the time alert (TimeSync) and the *)
(* colour theme (SiteTheme), for any number of pages and tabs.             *)
(*                                                                         *)
(* The theme, whatever is clicked, loaded or changed in the scheme: types; *)
(* the tab that wrote last shows what is stored; and, when no other tab    *)
(* runs inside a task of the script, only a click replaces a stored        *)
(* choice.                                                                 *)
(*                                                                         *)
(* The alert, whatever is loaded and however time passes: types; the       *)
(* clearing of an old success never takes a failure away; and, while       *)
(* browsers and host are prompt, a success is true.                        *)
(***************************************************************************)
EXTENDS SiteTheme, TimeSync, SequenceTheorems, TLAPS

(* The theme. *)

Event == [kind: {"click", "reply"}, theme: Choices]

LEMMA ReadIsChoice ==
    ASSUME ThemeTypeOK
    PROVE  GetTheme \in Choices
  BY DEF ThemeTypeOK, GetTheme, Choices, None

LEMMA ShownIsDarkOrLight ==
    ASSUME ThemeTypeOK, NEW theme \in Choices
    PROVE  Effective(theme) \in {"dark", "light"}
  BY DEF ThemeTypeOK, Effective, Choices

\* The sequences of the circuit.
LEMMA CallTypes ==
    ASSUME ThemeTypeOK, NEW t \in Tabs
    PROVE  /\ calls[t] \in Seq(Choices \cup {Ask})
           /\ calls[t] # <<>> => /\ Head(calls[t]) \in Choices \cup {Ask}
                                 /\ Tail(calls[t]) \in Seq(Choices \cup {Ask})
           /\ \A c \in Choices \cup {Ask} : Append(calls[t], c) \in Seq(Choices \cup {Ask})
<1>1. calls[t] \in Seq(Choices \cup {Ask}) BY DEF ThemeTypeOK
<1> QED BY <1>1, HeadTailProperties, AppendProperties

LEMMA EventTypes ==
    ASSUME ThemeTypeOK, NEW t \in Tabs
    PROVE  /\ events[t] \in Seq(Event)
           /\ events[t] # <<>> => Head(events[t]) \in Event /\ Tail(events[t]) \in Seq(Event)
           /\ \A e \in Event : Append(events[t], e) \in Seq(Event)
<1>1. events[t] \in Seq(Event) BY DEF ThemeTypeOK, Event
<1> QED BY <1>1, HeadTailProperties, AppendProperties

\* Every step keeps the types.
LEMMA ThemeTypeStep ==
    ASSUME ThemeTypeOK, [ThemeNext]_themeVars
    PROVE  ThemeTypeOK'
<1>1. CASE SchemeChanges
  <2>1. change' \in [Tabs -> BOOLEAN]
    <3>1. change' = [t \in Tabs |-> page[t] \in {"open", "live"}] BY <1>1 DEF SchemeChanges
    <3>2. \A t \in Tabs : (page[t] \in {"open", "live"}) \in BOOLEAN OBVIOUS
    <3> HIDE <1>1
    <3> QED BY <3>1, <3>2, Zenon
  <2>2. outside' \in Nat /\ scheme' \in {"dark", "light"}
    BY <1>1 DEF SchemeChanges, ThemeTypeOK, Outside
  <2>3. UNCHANGED <<stored, page, attr, task, toggle, calls, events, writer, chooser>>
    BY <1>1 DEF SchemeChanges, browserVars
  <2> QED BY <2>1, <2>2, <2>3 DEF ThemeTypeOK
<1>2. ASSUME NEW t \in Tabs, Load(t) PROVE ThemeTypeOK'
  BY <1>2, ReadIsChoice, ThemeAssumption DEF Load, ThemeTypeOK, Outside, Choices
<1>3. ASSUME NEW t \in Tabs, Click(t) PROVE ThemeTypeOK'
  <2>1. PICK theme \in Choices :
          events' = [events EXCEPT ![t] = Append(@, [kind |-> "click", theme |-> theme])]
    BY <1>3 DEF Click
  <2>2. Append(events[t], [kind |-> "click", theme |-> theme]) \in Seq(Event)
    BY EventTypes DEF Event
  <2>3. events' \in [Tabs -> Seq(Event)] BY <2>1, <2>2 DEF ThemeTypeOK, Event
  <2>4. outside' \in Nat BY <1>3 DEF Click, ThemeTypeOK, Outside
  <2>5. UNCHANGED <<stored, scheme, page, attr, task, change, toggle, calls, writer, chooser>>
    BY <1>3 DEF Click, browserVars
  <2> QED BY <2>3, <2>4, <2>5 DEF ThemeTypeOK, Event
<1>4. ASSUME NEW t \in Tabs, Set(t) PROVE ThemeTypeOK'
  <2>1. task[t] \in Choices BY <1>4 DEF Set, ThemeTypeOK
  <2> QED BY <1>4, <2>1, ShownIsDarkOrLight DEF Set, SetTheme, ThemeTypeOK
<1>5. ASSUME NEW t \in Tabs, OnChange(t) PROVE ThemeTypeOK'
  BY <1>5 DEF OnChange, ThemeTypeOK, Choices
<1>6. ASSUME NEW t \in Tabs, Call(t) PROVE ThemeTypeOK'
  <2>1. calls' \in [Tabs -> Seq(Choices \cup {Ask})]
    BY <1>6, CallTypes DEF Call, ThemeTypeOK
  <2>2. CASE Head(calls[t]) = Ask
    <3>1. Append(events[t], [kind |-> "reply", theme |-> GetTheme]) \in Seq(Event)
      BY EventTypes, ReadIsChoice DEF Event
    <3>2. events' \in [Tabs -> Seq(Event)] BY <1>6, <2>2, <3>1 DEF Call, ThemeTypeOK, Event
    <3> QED BY <1>6, <2>1, <2>2, <3>2 DEF Call, ThemeTypeOK, Event
  <2>3. CASE Head(calls[t]) # Ask
    <3>1. Head(calls[t]) \in Choices BY <1>6, <2>3, CallTypes DEF Call
    <3> QED BY <1>6, <2>1, <2>3, <3>1, ShownIsDarkOrLight DEF Call, SetTheme, ThemeTypeOK
  <2> QED BY <2>2, <2>3
<1>7. ASSUME NEW t \in Tabs, OnAfterRender(t) PROVE ThemeTypeOK'
  <2>1. calls' \in [Tabs -> Seq(Choices \cup {Ask})]
    BY <1>7, CallTypes DEF OnAfterRender, ThemeTypeOK
  <2> QED BY <1>7, <2>1 DEF OnAfterRender, ThemeTypeOK, browserVars
<1>8. ASSUME NEW t \in Tabs, Receive(t) PROVE ThemeTypeOK'
  <2>1. /\ Head(events[t]) \in Event
        /\ Tail(events[t]) \in Seq(Event)
    BY <1>8, EventTypes DEF Receive
  <2>2. events' \in [Tabs -> Seq(Event)] BY <1>8, <2>1 DEF Receive, ThemeTypeOK, Event
  <2>3. Head(events[t]).theme \in Choices BY <2>1 DEF Event
  <2>4. calls' \in [Tabs -> Seq(Choices \cup {Ask})]
    BY <1>8, <2>3, CallTypes DEF Receive, ThemeTypeOK
  <2> QED BY <1>8, <2>2, <2>3, <2>4 DEF Receive, ThemeTypeOK, browserVars, Event
<1>9. CASE UNCHANGED themeVars
  BY <1>9 DEF themeVars, ThemeTypeOK
<1> QED
  BY <1>1, <1>2, <1>3, <1>4, <1>5, <1>6, <1>7, <1>8, <1>9 DEF ThemeNext, Script, Component

\* Storage, attributes, components and the circuit between them keep their
\* types (site.js, ThemeToggle).
THEOREM ThemeTypes == ThemeSpec => []ThemeTypeOK
<1>1. ThemeInit => ThemeTypeOK
  BY ThemeAssumption DEF ThemeInit, ThemeTypeOK, Choices, None
<1>2. ThemeTypeOK /\ [ThemeNext]_themeVars => ThemeTypeOK' BY ThemeTypeStep
<1> QED BY <1>1, <1>2, PTL DEF ThemeSpec

----------------------------------------------------------------------------
\* What a page that is closed or being loaded has not: tasks, calls, events,
\* pending changes.
PageInv ==
    \A t \in Tabs :
        /\ task[t] # None => page[t] # "closed"
        /\ change[t] => page[t] \in {"open", "live"}
        /\ calls[t] # <<>> \/ events[t] # <<>> => page[t] = "live"
        /\ writer = t => page[t] # "closed" /\ stored # None

\* Where "dark" or "light" is stored, the writer shows it even while a change
\* of the scheme is pending: the listener will leave it alone.
WriterInv ==
    \A t \in Tabs :
        writer = t /\ task[t] = None /\ page[t] # "loading" /\ stored # "auto"
            => attr[t] = stored

ShowInv == ThemeTypeOK /\ PageInv /\ WriterInv /\ LastWriterShows

LEMMA ShowStep ==
    ASSUME ShowInv, [ThemeNext]_themeVars
    PROVE  ShowInv'
<1> USE DEF PageInv, WriterInv, LastWriterShows
<1>0. ThemeTypeOK /\ ThemeTypeOK' /\ PageInv /\ WriterInv /\ LastWriterShows
  BY ThemeTypeStep DEF ShowInv
<1>1. CASE SchemeChanges
  BY <1>0, <1>1 DEF SchemeChanges, ThemeTypeOK, browserVars, ShowInv
<1>2. ASSUME NEW t \in Tabs, Load(t) PROVE ShowInv'
  BY <1>0, <1>2 DEF Load, ThemeTypeOK, ShowInv
<1>3. ASSUME NEW t \in Tabs, Click(t) PROVE ShowInv'
  <2>1. \A u \in Tabs : u # t => events'[u] = events[u]
    BY <1>0, <1>3 DEF Click, ThemeTypeOK
  <2> QED BY <1>0, <1>3, <2>1 DEF Click, ThemeTypeOK, browserVars, ShowInv
<1>4. ASSUME NEW t \in Tabs, Set(t) PROVE ShowInv'
  BY <1>0, <1>4 DEF Set, SetTheme, Effective, ThemeTypeOK, ShowInv, Choices, None
<1>5. ASSUME NEW t \in Tabs, OnChange(t) PROVE ShowInv'
  <2>1. change[t] /\ task[t] = None /\ page[t] \in {"open", "live"}
    BY <1>0, <1>5 DEF OnChange, MayRun
  <2>2. UNCHANGED <<stored, scheme, page, attr, calls, events, writer>>
    BY <1>5 DEF OnChange
  <2>3. \A u \in Tabs : u # t => task'[u] = task[u] /\ change'[u] = change[u]
    BY <1>0, <1>5 DEF OnChange, ThemeTypeOK
  <2>4. ~change'[t] BY <1>0, <1>5 DEF OnChange, ThemeTypeOK
  <2>5. task'[t] = None => stored # "auto" \/ writer # t
    BY <1>0, <1>5 DEF OnChange, GetTheme, ThemeTypeOK, Choices, None
  <2>6. PageInv'
    <3> SUFFICES ASSUME NEW u \in Tabs
                 PROVE  /\ (task[u] # None => page[u] # "closed")'
                        /\ (change[u] => page[u] \in {"open", "live"})'
                        /\ (calls[u] # <<>> \/ events[u] # <<>> => page[u] = "live")'
                        /\ (writer = u => page[u] # "closed" /\ stored # None)'
      OBVIOUS
    <3>1. CASE u = t BY <1>0, <2>1, <2>2, <2>4, <3>1
    <3>2. CASE u # t BY <1>0, <2>2, <2>3, <3>2
    <3> QED BY <3>1, <3>2
  <2>7. WriterInv' BY <1>0, <2>1, <2>2, <2>3
  <2>8. LastWriterShows' BY <1>0, <2>1, <2>2, <2>3, <2>4, <2>5
  <2> QED BY <1>0, <2>6, <2>7, <2>8 DEF ShowInv
<1>6. ASSUME NEW t \in Tabs, Call(t) PROVE ShowInv'
  <2>1. page[t] = "live" /\ task[t] = None BY <1>0, <1>6 DEF Call, MayRun
  <2>2. CASE Head(calls[t]) = Ask
    <3>1. UNCHANGED <<stored, scheme, page, attr, task, change, writer>>
      BY <1>6, <2>2 DEF Call
    <3>2. \A u \in Tabs : u # t => calls'[u] = calls[u] /\ events'[u] = events[u]
      BY <1>0, <1>6, <2>2 DEF Call, ThemeTypeOK
    <3>3. PageInv' BY <1>0, <2>1, <3>1, <3>2
    <3>4. WriterInv' /\ LastWriterShows' BY <1>0, <3>1
    <3> QED BY <1>0, <3>3, <3>4 DEF ShowInv
  <2>3. CASE Head(calls[t]) # Ask
    <3>1. Head(calls[t]) \in Choices BY <1>0, <1>6, <2>3, CallTypes DEF Call
    <3> QED
      BY <1>0, <1>6, <2>1, <2>3, <3>1
         DEF Call, SetTheme, Effective, ThemeTypeOK, ShowInv, Choices, None
  <2> QED BY <2>2, <2>3
<1>7. ASSUME NEW t \in Tabs, OnAfterRender(t) PROVE ShowInv'
  BY <1>0, <1>7 DEF OnAfterRender, ThemeTypeOK, browserVars, ShowInv
<1>8. ASSUME NEW t \in Tabs, Receive(t) PROVE ShowInv'
  BY <1>0, <1>8 DEF Receive, ThemeTypeOK, browserVars, ShowInv
<1>9. CASE UNCHANGED themeVars
  BY <1>0, <1>9 DEF themeVars, ShowInv
<1> QED
  BY <1>1, <1>2, <1>3, <1>4, <1>5, <1>6, <1>7, <1>8, <1>9 DEF ThemeNext, Script, Component

\* The tab that wrote the storage last shows what is stored (setTheme and the
\* listener of initTheme), also when tabs run inside each other's tasks.
THEOREM WriterShows == ThemeSpec => []LastWriterShows
<1>1. ThemeInit => ShowInv
  BY ThemeAssumption
     DEF ThemeInit, ShowInv, ThemeTypeOK, PageInv, WriterInv, LastWriterShows, Choices, None
<1>2. ShowInv /\ [ThemeNext]_themeVars => ShowInv' BY ShowStep
<1> QED BY <1>1, <1>2, PTL DEF ThemeSpec, ShowInv

----------------------------------------------------------------------------
\* One task at a time, and what it has read is still stored.
TaskInv ==
    /\ \A t \in Tabs : task[t] # None => task[t] = GetTheme
    /\ \A t, u \in Tabs : task[t] # None /\ task[u] # None => t = u

KeepInv == ThemeTypeOK /\ TaskInv

LEMMA KeepStep ==
    ASSUME ~Torn, KeepInv, [ThemeNext]_themeVars
    PROVE  KeepInv' /\ (ChoiceStep \/ UNCHANGED themeVars)
<1> USE DEF TaskInv, ChoiceStep
<1>0. ThemeTypeOK /\ ThemeTypeOK' /\ TaskInv BY ThemeTypeStep DEF KeepInv
<1>1. CASE SchemeChanges
  BY <1>0, <1>1 DEF SchemeChanges, browserVars, KeepInv, GetTheme
<1>2. ASSUME NEW t \in Tabs, Load(t) PROVE KeepInv' /\ ChoiceStep
  <2>1. \A u \in Tabs : task[u] = None BY <1>2 DEF Load, MayRun
  <2>2. task' = [task EXCEPT ![t] = GetTheme] /\ stored' = stored BY <1>2 DEF Load
  <2>3. GetTheme' = GetTheme BY <2>2 DEF GetTheme
  <2> QED BY <1>0, <2>1, <2>2, <2>3 DEF ThemeTypeOK, KeepInv
<1>3. ASSUME NEW t \in Tabs, Click(t) \/ OnAfterRender(t) \/ Receive(t)
      PROVE  KeepInv' /\ ChoiceStep
  BY <1>0, <1>3 DEF Click, OnAfterRender, Receive, browserVars, KeepInv, GetTheme
<1>4. ASSUME NEW t \in Tabs, Set(t) PROVE KeepInv' /\ ChoiceStep
  <2>1. task[t] = GetTheme /\ stored' = GetTheme BY <1>0, <1>4 DEF Set, SetTheme
  <2>2. \A u \in Tabs : task'[u] = None BY <1>0, <1>4 DEF Set, ThemeTypeOK
  <2>3. stored # None => stored' = stored BY <2>1 DEF GetTheme
  <2> QED BY <1>0, <2>2, <2>3 DEF KeepInv
<1>5. ASSUME NEW t \in Tabs, OnChange(t) PROVE KeepInv' /\ ChoiceStep
  BY <1>0, <1>5 DEF OnChange, MayRun, ThemeTypeOK, KeepInv, GetTheme
<1>6. ASSUME NEW t \in Tabs, Call(t) PROVE KeepInv' /\ ChoiceStep
  <2>1. (\A u \in Tabs : task[u] = None) /\ task' = task
    BY <1>6 DEF Call, MayRun
  <2> QED BY <1>0, <1>6, <2>1 DEF KeepInv
<1>7. CASE UNCHANGED themeVars
  BY <1>0, <1>7 DEF themeVars, KeepInv, GetTheme
<1> QED
  BY <1>1, <1>2, <1>3, <1>4, <1>5, <1>6, <1>7 DEF ThemeNext, Script, Component

\* Only a click replaces what is stored, when no other tab runs between the
\* getItem and the setItem of a task (initTheme).
THEOREM ChoiceIsKept ==
    ASSUME ~Torn
    PROVE  ThemeSpec => ChoiceKept
<1>1. ThemeInit => KeepInv
  BY ThemeAssumption DEF ThemeInit, KeepInv, ThemeTypeOK, TaskInv, Choices, None
<1>2. KeepInv /\ [ThemeNext]_themeVars => KeepInv' BY KeepStep
<1>3. KeepInv /\ [ThemeNext]_themeVars => [ChoiceStep]_themeVars BY KeepStep
<1> QED BY <1>1, <1>2, <1>3, PTL DEF ThemeSpec, ChoiceKept

----------------------------------------------------------------------------
(* The alert. *)

\* Every step keeps the types.
LEMMA TimeTypeStep ==
    ASSUME TimeTypeOK, [TimeNext]_timeVars
    PROVE  TimeTypeOK'
<1> USE TimeAssumption DEF TimeTypeOK, Clocks, Message, clocks, flags, Away, getBrowserTimeIso
<1>1. ASSUME NEW p \in Pages, Open(p) PROVE TimeTypeOK'
  <2>1. reading' \in [Pages -> Int] BY <1>1 DEF Open
  <2>2. leftovers' \subseteq Int BY <1>1 DEF Open
  <2>3. timers' \subseteq Pages /\ away' \in Nat BY <1>1 DEF Open
  <2>4. /\ isTimeDifferent' \in [Pages -> BOOLEAN] /\ isDismissed' \in [Pages -> BOOLEAN]
        /\ isUpdating' \in [Pages -> BOOLEAN]
    BY <1>1 DEF Open
  <2> QED BY <1>1, <2>1, <2>2, <2>3, <2>4 DEF Open
<1>2. ASSUME NEW p \in Pages, CheckTime(p) PROVE TimeTypeOK'
  <2>1. IsTimeDifferent(reading[p]) \in BOOLEAN BY DEF IsTimeDifferent
  <2>2. isTimeDifferent' \in [Pages -> BOOLEAN] BY <1>2, <2>1 DEF CheckTime
  <2> QED BY <1>2, <2>2 DEF CheckTime
<1>3. ASSUME NEW p \in Pages, SyncTime(p) PROVE TimeTypeOK'
  BY <1>3 DEF SyncTime
<1>4. ASSUME NEW p \in Pages, Answer(p) \/ Succeed(p) \/ Fail(p) PROVE TimeTypeOK'
  <2>1. CASE Answer(p) BY <2>1 DEF Answer
  <2>2. CASE Succeed(p)
    <3>1. host' \in Int /\ setter' \in Pages \cup {Nobody} BY <2>2 DEF Succeed
    <3>2. /\ isTimeDifferent' \in [Pages -> BOOLEAN] /\ isDismissed' \in [Pages -> BOOLEAN]
          /\ isUpdating' \in [Pages -> BOOLEAN]
      BY <2>2 DEF Succeed
    <3> QED BY <2>2, <3>1, <3>2 DEF Succeed
  <2>3. CASE Fail(p) BY <2>3 DEF Fail
  <2> QED BY <1>4, <2>1, <2>2, <2>3
<1>5. ASSUME NEW p \in Pages, Clear(p) \/ Dismiss(p) \/ CloseMessage(p) PROVE TimeTypeOK'
  BY <1>5 DEF Clear, Dismiss, CloseMessage
<1>6. CASE TimePasses BY <1>6 DEF TimePasses
<1>7. CASE Leftover BY <1>7 DEF Leftover, Nobody
<1>8. CASE UNCHANGED timeVars BY <1>8 DEF timeVars
<1> QED
  BY <1>1, <1>2, <1>3, <1>4, <1>5, <1>6, <1>7, <1>8 DEF TimeNext, Handler, User

\* Clocks, flags and messages keep their types (TimeSyncAlert).
THEOREM TimeTypes == TimeSpec => []TimeTypeOK
<1>1. TimeInit => TimeTypeOK
  BY DEF TimeInit, TimeTypeOK, Clocks, Message
<1>2. TimeTypeOK /\ [TimeNext]_timeVars => TimeTypeOK' BY TimeTypeStep
<1> QED BY <1>1, <1>2, PTL DEF TimeSpec

----------------------------------------------------------------------------
\* While a clearing is pending the alert is not shown, so that nobody can start
\* another update that could fail; and an update begins by removing a failure.
Quiet(p) ==
    /\ p \in timers => /\ ~isTimeDifferent[p]
                       /\ step[p] = "idle"
                       /\ statusMessage[p] # "failure"
    /\ step[p] \in {"asking", "setting"} => statusMessage[p] # "failure"

QuietInv == TimeTypeOK /\ \A p \in Pages : Quiet(p)

LEMMA QuietStep ==
    ASSUME QuietInv, [TimeNext]_timeVars, NEW q \in Pages
    PROVE  Quiet(q)' /\ FailureStep(q)
<1>0. TimeTypeOK /\ Quiet(q) BY DEF QuietInv
<1> USE <1>0 DEF TimeTypeOK, Quiet, FailureStep, clocks, flags
<1>1. ASSUME NEW p \in Pages, Open(p) PROVE Quiet(q)' /\ FailureStep(q)
  BY <1>1 DEF Open
<1>2. ASSUME NEW p \in Pages, CheckTime(p) PROVE Quiet(q)' /\ FailureStep(q)
  BY <1>2 DEF CheckTime
<1>3. ASSUME NEW p \in Pages, SyncTime(p) PROVE Quiet(q)' /\ FailureStep(q)
  BY <1>3 DEF SyncTime, Visible
<1>4. ASSUME NEW p \in Pages, Answer(p) PROVE Quiet(q)' /\ FailureStep(q)
  BY <1>4 DEF Answer
<1>5. ASSUME NEW p \in Pages, Succeed(p) PROVE Quiet(q)' /\ FailureStep(q)
  <2>1. CASE p = q
    <3>1. ~isTimeDifferent'[q] /\ step'[q] = "idle" BY <1>5, <2>1 DEF Succeed
    <3>2. statusMessage'[q] = "success" BY <1>5, <2>1 DEF Succeed
    <3>3. statusMessage[q] # "failure" BY <1>5, <2>1 DEF Succeed
    <3> QED BY <3>1, <3>2, <3>3
  <2>2. CASE p # q
    <3>1. /\ isTimeDifferent'[q] = isTimeDifferent[q] /\ step'[q] = step[q]
          /\ statusMessage'[q] = statusMessage[q]
      BY <1>5, <2>2 DEF Succeed
    <3>2. q \in timers' => q \in timers BY <1>5, <2>2 DEF Succeed
    <3> QED BY <3>1, <3>2
  <2> QED BY <2>1, <2>2
<1>6. ASSUME NEW p \in Pages, Fail(p) PROVE Quiet(q)' /\ FailureStep(q)
  BY <1>6 DEF Fail
<1>7. ASSUME NEW p \in Pages, Clear(p) PROVE Quiet(q)' /\ FailureStep(q)
  BY <1>7 DEF Clear
<1>8. ASSUME NEW p \in Pages, Dismiss(p) PROVE Quiet(q)' /\ FailureStep(q)
  BY <1>8 DEF Dismiss
<1>9. ASSUME NEW p \in Pages, CloseMessage(p) PROVE Quiet(q)' /\ FailureStep(q)
  BY <1>9 DEF CloseMessage
<1>10. CASE TimePasses \/ Leftover
  BY <1>10 DEF TimePasses, Leftover
<1>11. CASE UNCHANGED timeVars
  BY <1>11 DEF timeVars
<1> QED
  BY <1>1, <1>2, <1>3, <1>4, <1>5, <1>6, <1>7, <1>8, <1>9, <1>10, <1>11
     DEF TimeNext, Handler, User

\* A failure stays until the user deals with it (the delayed clearing in
\* SyncTimeAsync).
THEOREM FailureIsKept == TimeSpec => FailureStays
<1>1. TimeInit => QuietInv
  BY DEF TimeInit, QuietInv, Quiet, TimeTypeOK, Clocks, Message
<1>2. QuietInv /\ [TimeNext]_timeVars => QuietInv' BY QuietStep, TimeTypeStep DEF QuietInv
<1>3. QuietInv /\ [TimeNext]_timeVars => [\A p \in Pages : FailureStep(p)]_timeVars
  BY QuietStep
<1> QED BY <1>1, <1>2, <1>3, PTL DEF TimeSpec, FailureStays

----------------------------------------------------------------------------
\* What is being set is still the time of the browser, if that could be read, and
\* the page does not speak of success yet.
FreshInv ==
    \A p \in Pages :
        /\ step[p] = "setting" /\ p \in parsed => reading[p] = browser[p]
        /\ step[p] \in {"asking", "setting"} => statusMessage[p] # "success"

TrueInv == TimeTypeOK /\ FreshInv /\ SuccessIsTrue

LEMMA TrueStep ==
    ASSUME Prompt, TrueInv, [TimeNext]_timeVars
    PROVE  TrueInv'
<1>0. TimeTypeOK /\ TimeTypeOK' /\ FreshInv /\ SuccessIsTrue BY TimeTypeStep DEF TrueInv
<1> USE <1>0 DEF TimeTypeOK, FreshInv, SuccessIsTrue, TrueInv, clocks, flags
<1>1. ASSUME NEW p \in Pages, Open(p) PROVE TrueInv'
  BY <1>1 DEF Open, getBrowserTimeIso
<1>2. ASSUME NEW p \in Pages, CheckTime(p) \/ SyncTime(p) PROVE TrueInv'
  BY <1>2 DEF CheckTime, SyncTime
<1>3. ASSUME NEW p \in Pages, Answer(p) PROVE TrueInv'
  BY <1>3 DEF Answer, getBrowserTimeIso
<1>4. ASSUME NEW p \in Pages, Succeed(p) PROVE TrueInv'
  BY <1>4 DEF Succeed
<1>5. ASSUME NEW p \in Pages, Fail(p) \/ Clear(p) \/ Dismiss(p) \/ CloseMessage(p)
      PROVE  TrueInv'
  BY <1>5 DEF Fail, Clear, Dismiss, CloseMessage
<1>6. CASE TimePasses BY <1>6 DEF TimePasses
<1>7. CASE Leftover BY <1>7, TimeAssumption DEF Leftover, Nobody
<1>8. CASE UNCHANGED timeVars BY <1>8 DEF timeVars
<1> QED
  BY <1>1, <1>2, <1>3, <1>4, <1>5, <1>6, <1>7, <1>8 DEF TimeNext, Handler, User

\* A page that says "set" is right as long as no other page sets the clock, if its
\* browser's answer is a time that parses (otherwise SyncTimeAsync sets the host's
\* own time and says the same), and when no noticeable time passes between the
\* reading of the browser's clock and the setting of the host's (SyncTimeAsync).
THEOREM SuccessHolds ==
    ASSUME Prompt
    PROVE  TimeSpec => []SuccessIsTrue
<1>1. TimeInit => TrueInv
  BY DEF TimeInit, TrueInv, FreshInv, SuccessIsTrue, TimeTypeOK, Clocks, Message
<1>2. TrueInv /\ [TimeNext]_timeVars => TrueInv' BY TrueStep
<1> QED BY <1>1, <1>2, PTL DEF TimeSpec, TrueInv
=============================================================================
