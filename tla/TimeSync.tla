------------------------------ MODULE TimeSync ------------------------------
(***************************************************************************)
(* The alert that offers to set the host's clock to the browser's: one     *)
(* component TimeSyncAlert per open page, all of them setting one clock.   *)
(* A component runs one handler at a time but not to its end: other clicks *)
(* and the delayed clearing of a message run at every await.               *)
(*                                                                         *)
(* A clock is its distance from the true time, in steps of the threshold   *)
(* of IsTimeDifferent: two clocks differ when these distances do.  A       *)
(* reading loses one step when that much time passes before it is used.    *)
(* A click is received while its button is part of the page, also when the *)
(* button has just been disabled, and not after the render that takes the  *)
(* button away.                                                            *)
(***************************************************************************)
EXTENDS Integers

CONSTANTS Pages,    \* open pages, each in its own browser
          Prompt,   \* a browser answers, and the host runs date, at once
          MaxAway   \* bound on reloads and on the passing of time

ASSUME TimeAssumption ==
    /\ "nobody" \notin Pages
    /\ Prompt \in BOOLEAN
    /\ MaxAway \in Nat

VARIABLES
    browser,        \* per page: its clock
    host,           \* the host's clock
    setter,         \* the page that has set it last
    step,           \* per page: "closed", "checking", "idle", "asking" or "setting"
    reading,        \* per page: the time that is to be set, as it is worth now
    parsed,         \* pages whose browser's answer was a time, when last asked for it
    isTimeDifferent, isDismissed, isUpdating, statusMessage,   \* per page, as in the code
    leftovers,      \* readings that SetHostTimeAsync still sets for pages that are gone
    timers,         \* pages with a pending clearing of the message
    away            \* how often time has passed or a page was opened

flags == <<isTimeDifferent, isDismissed, isUpdating, statusMessage>>
clocks == <<browser, host, setter, leftovers>>
timeVars == <<browser, host, setter, step, reading, parsed, isTimeDifferent, isDismissed,
              isUpdating, statusMessage, leftovers, timers, away>>

Clocks  == 0..1
Nobody  == "nobody"
Message == {"none", "success", "failure"}

TimeTypeOK ==
    /\ browser \in [Pages -> Clocks]
    /\ host \in Int
    /\ setter \in Pages \cup {Nobody}
    /\ step \in [Pages -> {"closed", "checking", "idle", "asking", "setting"}]
    /\ reading \in [Pages -> Int]
    /\ parsed \subseteq Pages
    /\ isTimeDifferent \in [Pages -> BOOLEAN]
    /\ isDismissed \in [Pages -> BOOLEAN]
    /\ isUpdating \in [Pages -> BOOLEAN]
    /\ statusMessage \in [Pages -> Message]
    /\ leftovers \subseteq Int
    /\ timers \subseteq Pages
    /\ away \in Nat

TimeInit ==
    /\ browser \in [Pages -> Clocks]
    /\ host \in Clocks
    /\ setter = Nobody
    /\ step = [p \in Pages |-> "closed"]
    /\ reading = [p \in Pages |-> 0]
    /\ parsed = {}
    /\ isTimeDifferent = [p \in Pages |-> FALSE]
    /\ isDismissed = [p \in Pages |-> FALSE]
    /\ isUpdating = [p \in Pages |-> FALSE]
    /\ statusMessage = [p \in Pages |-> "none"]
    /\ leftovers = {}
    /\ timers = {}
    /\ away = 0

IsTimeDifferent(browserTime) == host # browserTime

getBrowserTimeIso(p) == reading' = [reading EXCEPT ![p] = browser[p]]

Away == away < MaxAway /\ away' = away + 1

----------------------------------------------------------------------------
\* A page is opened, or loaded again with a new component; the old one is
\* disposed of, and its timers with it, but a call of date goes on.
Open(p) ==
    /\ Away
    /\ step' = [step EXCEPT ![p] = "checking"]
    /\ getBrowserTimeIso(p)
    /\ isTimeDifferent' = [isTimeDifferent EXCEPT ![p] = FALSE]
    /\ isDismissed' = [isDismissed EXCEPT ![p] = FALSE]
    /\ isUpdating' = [isUpdating EXCEPT ![p] = FALSE]
    /\ statusMessage' = [statusMessage EXCEPT ![p] = "none"]
    /\ timers' = timers \ {p}
    /\ leftovers' = IF step[p] = "setting" THEN leftovers \cup {reading[p]} ELSE leftovers
    /\ UNCHANGED <<browser, host, setter, parsed>>

\* CheckTimeAsync, which is called once; an exception, or an answer that is no
\* time, leaves all as it is.
CheckTime(p) ==
    /\ step[p] = "checking"
    /\ step' = [step EXCEPT ![p] = "idle"]
    /\ isTimeDifferent' \in {isTimeDifferent,
                             [isTimeDifferent EXCEPT ![p] = IsTimeDifferent(reading[p])]}
    /\ UNCHANGED <<clocks, reading, parsed, isDismissed, isUpdating, statusMessage, timers, away>>

Visible(p) == isTimeDifferent[p] /\ ~isDismissed[p]

\* SyncTimeAsync up to its first await.  A click during an update is ignored.
SyncTime(p) ==
    /\ Visible(p)
    /\ ~isUpdating[p]
    /\ step' = [step EXCEPT ![p] = "asking"]
    /\ isUpdating' = [isUpdating EXCEPT ![p] = TRUE]
    /\ statusMessage' = [statusMessage EXCEPT ![p] = "none"]
    /\ UNCHANGED <<clocks, reading, parsed, isTimeDifferent, isDismissed, timers, away>>

\* Mutant: the reading of the check is used again.
AnswerOld(p) ==
    /\ step[p] = "asking"
    /\ step' = [step EXCEPT ![p] = "setting"]
    /\ parsed' = parsed \cup {p}
    /\ UNCHANGED <<clocks, reading, flags, timers, away>>

\* The browser has answered; instead of an answer that does not parse the host's
\* own time is taken, and nothing is said of it.
Answer(p) ==
    /\ step[p] = "asking"
    /\ step' = [step EXCEPT ![p] = "setting"]
    /\ \/ getBrowserTimeIso(p) /\ parsed' = parsed \cup {p}
       \/ reading' = [reading EXCEPT ![p] = host] /\ parsed' = parsed \ {p}
    /\ UNCHANGED <<clocks, flags, timers, away>>

\* Mutant: the alert stays after a success.
SucceedShown(p) ==
    /\ step[p] = "setting"
    /\ host' = reading[p]
    /\ setter' = p
    /\ statusMessage' = [statusMessage EXCEPT ![p] = "success"]
    /\ isDismissed' = [isDismissed EXCEPT ![p] = FALSE]
    /\ isUpdating' = [isUpdating EXCEPT ![p] = FALSE]
    /\ timers' = timers \cup {p}
    /\ step' = [step EXCEPT ![p] = "idle"]
    /\ UNCHANGED <<browser, leftovers, reading, parsed, isTimeDifferent, away>>

\* SetHostTimeAsync has set the clock.
Succeed(p) ==
    /\ step[p] = "setting"
    /\ host' = reading[p]
    /\ setter' = p
    /\ statusMessage' = [statusMessage EXCEPT ![p] = "success"]
    /\ isTimeDifferent' = [isTimeDifferent EXCEPT ![p] = FALSE]
    /\ isDismissed' = [isDismissed EXCEPT ![p] = FALSE]
    /\ isUpdating' = [isUpdating EXCEPT ![p] = FALSE]
    /\ timers' = timers \cup {p}
    /\ step' = [step EXCEPT ![p] = "idle"]
    /\ UNCHANGED <<browser, leftovers, reading, parsed, away>>

\* Mutant: the flag is not reset when the attempt fails.
FailUpdating(p) ==
    /\ step[p] \in {"asking", "setting"}
    /\ statusMessage' = [statusMessage EXCEPT ![p] = "failure"]
    /\ step' = [step EXCEPT ![p] = "idle"]
    /\ UNCHANGED <<clocks, reading, parsed, isTimeDifferent, isDismissed, isUpdating, timers, away>>

\* The browser is out of reach, or date refuses (no right to set the clock).
Fail(p) ==
    /\ step[p] \in {"asking", "setting"}
    /\ statusMessage' = [statusMessage EXCEPT ![p] = "failure"]
    /\ isUpdating' = [isUpdating EXCEPT ![p] = FALSE]
    /\ step' = [step EXCEPT ![p] = "idle"]
    /\ UNCHANGED <<clocks, reading, parsed, isTimeDifferent, isDismissed, timers, away>>

\* Six seconds after a success the message goes, whatever it says by then.
Clear(p) ==
    /\ p \in timers
    /\ timers' = timers \ {p}
    /\ statusMessage' = [statusMessage EXCEPT ![p] = "none"]
    /\ UNCHANGED <<clocks, step, reading, parsed, isTimeDifferent, isDismissed, isUpdating, away>>

Dismiss(p) ==
    /\ Visible(p)
    /\ isDismissed' = [isDismissed EXCEPT ![p] = TRUE]
    /\ UNCHANGED <<clocks, step, reading, parsed, isTimeDifferent, isUpdating, statusMessage,
                   timers, away>>

CloseMessage(p) ==
    /\ statusMessage[p] # "none"
    /\ statusMessage' = [statusMessage EXCEPT ![p] = "none"]
    /\ UNCHANGED <<clocks, step, reading, parsed, isTimeDifferent, isDismissed, isUpdating,
                   timers, away>>

\* date for a page that is gone; it may also fail.
Leftover ==
    \E time \in leftovers :
        /\ leftovers' = leftovers \ {time}
        /\ \/ host' = time /\ setter' = Nobody
           \/ UNCHANGED <<host, setter>>
        /\ UNCHANGED <<browser, step, reading, parsed, flags, timers, away>>

\* A threshold's worth of time: every reading is that much behind.
TimePasses ==
    /\ Away
    /\ Prompt => leftovers = {} /\ \A p \in Pages : step[p] # "setting"
    /\ reading' = [p \in Pages |-> reading[p] - 1]
    /\ leftovers' = {time - 1 : time \in leftovers}
    /\ UNCHANGED <<browser, host, setter, step, parsed, flags, timers>>

Handler(p) == CheckTime(p) \/ Answer(p) \/ Succeed(p) \/ Fail(p) \/ Clear(p)
User(p)    == Open(p) \/ SyncTime(p) \/ Dismiss(p) \/ CloseMessage(p)

TimeNext == TimePasses \/ Leftover \/ \E p \in Pages : Handler(p) \/ User(p)

TimeSpec == TimeInit /\ [][TimeNext]_timeVars

\* What has been started goes on; the user need not do anything.
TimeFairSpec == TimeSpec /\ \A p \in Pages : WF_timeVars(Handler(p))

----------------------------------------------------------------------------
\* A failure stays on the page until the user closes it, tries again or loads
\* the page again: the clearing that an earlier success has started never takes
\* it away.  It would, could a component that has succeeded be used once more.
FailureStep(p) ==
    statusMessage[p] = "failure" /\ statusMessage'[p] # "failure"
        => CloseMessage(p) \/ SyncTime(p) \/ Open(p)
FailureStays == [][\A p \in Pages : FailureStep(p)]_timeVars

\* While a page says that the clock was set, its browser's answer did parse, and
\* no other page has set the clock since, the host has that browser's time and not
\* one that was read long before.  (After an answer that does not parse the page
\* says so too, with the clocks as far apart as before.)
SuccessIsTrue ==
    \A p \in Pages :
        statusMessage[p] = "success" /\ setter = p /\ p \in parsed => host = browser[p]

\* The button does not stay disabled: every update ends, in success or failure.
UpdateEnds == \A p \in Pages : isUpdating[p] ~> ~isUpdating[p]
=============================================================================
