--------------------------- MODULE LoconetClient ---------------------------
(***************************************************************************)
(* One LoconetOverTcp connection: a send thread that issues a SEND line    *)
(* and waits for the SENT line, and where it asks for it for the reply of  *)
(* the command station, and a receive thread that pairs the lines of the   *)
(* server with what the send thread waits for.  They share two events and  *)
(* a few fields, none of them under a lock that both take.                 *)
(*                                                                         *)
(* The server is modelled from how the code uses it: it answers a SEND     *)
(* with the echo (RECEIVE), SENT and, when the station replies, the reply  *)
(* (RECEIVE) without another device's message between SENT and reply, but  *)
(* perhaps an OPC_BUSY; or it refuses with SENT and an error.  The lines   *)
(* of a connection are neither lost nor reordered while it lasts.          *)
(***************************************************************************)
EXTENDS Naturals, Sequences

CONSTANTS Situations,  \* what is going on around the connection, see below
          Slow,        \* the waits of 3 s may end before an answer that comes
          Prompt,      \* OnSent is done before the send thread sends again
          MaxCalls,    \* bound: messages sent
          MaxForeign,  \* bound: messages of other devices
          MaxFails     \* bound: failures of the connection

ASSUME ClientAssumption ==
    /\ Situations \subseteq {"alone", "answered", "any"}
    /\ Slow \in BOOLEAN /\ Prompt \in BOOLEAN
    /\ MaxCalls \in Nat /\ MaxForeign \in Nat /\ MaxFails \in Nat

VARIABLES
    situation,   \* one of Situations, for good
    link,        \* "up", "dead" and not yet noticed, or "down" (_client is null)
    toServer,    \* SEND lines on their way: the call and whether it asks for a reply
    inbox,       \* lines from the server
    foreign, fails,
    n,           \* number of the message that is or was sent last
    asks,        \* it waits for a reply
    pc,          \* the send thread's place in BlockingSend and SendAndWaitReply
    result,      \* LoconetSendResult of the last call
    sentEvent,   \* _sentEvent is set
    replyEvent,  \* _replyEvent is set
    sentError,   \* _sentError
    nextReceiveIsReply,
    lastSent,    \* _lastSentHex: the message's number, 0 for null
    reply,       \* _reply
    setting,     \* OnSent has set the event, _nextReceiveIsReply comes next
    accepted     \* history: messages that the server answered with SENT OK

serverVars  == <<toServer, foreign, accepted>>
callVars    == <<n, asks, pc, result>>
sharedVars  == <<sentEvent, replyEvent, sentError, nextReceiveIsReply, lastSent, reply>>
vars == <<situation, link, inbox, fails, setting, serverVars, callVars, sharedVars>>

\* Alone: no other device is heard.  Answered: everything sent is a request, the
\* server accepts it, the station replies, and the connection lasts.
Forgets  == situation # "answered"  \* messages are also sent without waiting for a reply
Obliging == situation = "answered"
Crowded  == situation # "alone"

\* A received message: where it comes from, which call it belongs to and
\* whether it is of the type that a caller awaits.
Messages == [from : {"echo", "station", "other", "busy"}, of : 0 .. MaxCalls, awaited : BOOLEAN]
Received(from, m, awaited) ==
    [tag |-> "RECEIVE", msg |-> [from |-> from, of |-> m, awaited |-> awaited]]
Sent(ok) == [tag |-> "SENT", ok |-> ok]
NoReply  == [from |-> "nobody", of |-> 0, awaited |-> FALSE]

\* The send thread begins when the connection is established.
Init ==
    /\ situation \in Situations
    /\ link = "up" /\ toServer = <<>> /\ inbox = <<>>
    /\ foreign = 0 /\ fails = 0
    /\ n = 0 /\ asks = FALSE /\ pc = "idle" /\ result = "Invalid"
    /\ sentEvent = FALSE /\ replyEvent = FALSE /\ sentError = FALSE
    /\ nextReceiveIsReply = FALSE /\ lastSent = 0 /\ reply = NoReply
    /\ setting = FALSE /\ accepted = {}

----------------------------------------------------------------------------
(* The send thread. *)

Return(r) == pc' = "idle" /\ result' = r

\* SendAndWaitReply resets the event and calls BlockingSend, ...
Ask ==
    /\ pc = "idle" /\ n < MaxCalls
    /\ n' = n + 1 /\ asks' = TRUE /\ pc' = "prepare"
    /\ replyEvent' = FALSE
    /\ UNCHANGED <<situation, link, inbox, fails, setting, serverVars, result,
                   sentEvent, sentError, nextReceiveIsReply, lastSent, reply>>

\* ... other callers call it alone.
Forget ==
    /\ pc = "idle" /\ n < MaxCalls /\ Forgets
    /\ n' = n + 1 /\ asks' = FALSE /\ pc' = "prepare"
    /\ UNCHANGED <<situation, link, inbox, fails, setting, serverVars, result, sharedVars>>

\* Before the line is written, one after the other; the lock on _sentEvent keeps
\* out other calls, not the receive thread, which takes no lock.
Prepare ==
    /\ \/ /\ pc = "prepare" /\ pc' = "note"
          /\ ~(Prompt /\ setting)
          /\ nextReceiveIsReply' = FALSE
          /\ UNCHANGED <<lastSent, sentEvent>>
       \/ /\ pc = "note" /\ pc' = "reset"
          /\ lastSent' = n
          /\ UNCHANGED <<nextReceiveIsReply, sentEvent>>
       \/ /\ pc = "reset" /\ pc' = "send"
          /\ sentEvent' = FALSE
          /\ UNCHANGED <<nextReceiveIsReply, lastSent>>
    /\ UNCHANGED <<situation, link, inbox, fails, setting, serverVars, n, asks, result,
                   replyEvent, sentError, reply>>

\* The line is written; on a dead connection that may fail or go unnoticed.
Send ==
    /\ pc = "send"
    /\ \/ /\ link # "down" /\ pc' = "waitSent"
          /\ toServer' = IF link = "up" THEN Append(toServer, [of |-> n, asks |-> asks])
                         ELSE toServer
          /\ UNCHANGED result
       \/ link # "up" /\ Return("SocketError") /\ UNCHANGED toServer
    /\ UNCHANGED <<situation, link, inbox, fails, setting, foreign, accepted, n, asks, sharedVars>>

\* _sentEvent is set: it resets itself.
AfterSent ==
    /\ pc = "waitSent" /\ sentEvent
    /\ sentEvent' = FALSE
    /\ \/ sentError /\ Return("SentError")
       \/ ~sentError /\ asks /\ pc' = "waitReply" /\ UNCHANGED result
       \/ ~sentError /\ ~asks /\ Return("Success")
    /\ UNCHANGED <<situation, link, inbox, fails, setting, serverVars, n, asks, replyEvent,
                   sentError, nextReceiveIsReply, lastSent, reply>>

AfterReply ==
    /\ pc = "waitReply" /\ replyEvent
    /\ replyEvent' = FALSE
    /\ Return(IF reply.awaited THEN "Success" ELSE "UnexpectedReply")
    /\ UNCHANGED <<situation, link, inbox, fails, setting, serverVars, n, asks, sentEvent,
                   sentError, nextReceiveIsReply, lastSent, reply>>

\* A wait ends after 3 s: at once if Slow, otherwise when nothing comes.
Late == Slow \/ (toServer = <<>> /\ inbox = <<>> /\ ~setting)

SentTimeout ==
    /\ pc = "waitSent" /\ ~sentEvent /\ Late
    /\ Return("SentTimeout")
    /\ UNCHANGED <<situation, link, inbox, fails, setting, serverVars, n, asks, sharedVars>>

\* Mutant: the wait for the reply has no limit.
ReplyTimeoutNever == FALSE /\ UNCHANGED vars

ReplyTimeout ==
    /\ pc = "waitReply" /\ ~replyEvent /\ Late
    /\ Return("ReplyTimeout")
    /\ UNCHANGED <<situation, link, inbox, fails, setting, serverVars, n, asks, sharedVars>>

SendThread == \/ Ask \/ Forget \/ Prepare \/ Send
              \/ AfterSent \/ AfterReply \/ SentTimeout \/ ReplyTimeout

----------------------------------------------------------------------------
(* The receive thread. *)

Line(tag) == inbox # <<>> /\ Head(inbox).tag = tag

\* Mutant: the flag is not cleared by the reply.
OnReceiveKeepsFlag ==
    /\ Line("RECEIVE") /\ ~setting
    /\ inbox' = Tail(inbox)
    /\ LET msg == Head(inbox).msg
       IN  \/ /\ nextReceiveIsReply /\ msg.from # "busy"
              /\ reply' = msg /\ replyEvent' = TRUE
              /\ UNCHANGED <<nextReceiveIsReply, lastSent>>
           \/ /\ ~(nextReceiveIsReply /\ msg.from # "busy")
              /\ lastSent' = IF msg.from = "echo" /\ msg.of = lastSent THEN 0 ELSE lastSent
              /\ UNCHANGED <<nextReceiveIsReply, reply, replyEvent>>
    /\ UNCHANGED <<situation, link, fails, setting, serverVars, callVars, sentEvent, sentError>>

\* Mutant: a reply of a type that the program does not know is kept as null.
OnReceiveUnparsed ==
    /\ Line("RECEIVE") /\ ~setting
    /\ inbox' = Tail(inbox)
    /\ LET msg == Head(inbox).msg
       IN  \/ /\ nextReceiveIsReply /\ msg.from # "busy"
              /\ nextReceiveIsReply' = FALSE
              /\ reply' = IF msg.awaited THEN msg ELSE NoReply
              /\ replyEvent' = TRUE
              /\ UNCHANGED lastSent
           \/ /\ ~(nextReceiveIsReply /\ msg.from # "busy")
              /\ lastSent' = IF msg.from = "echo" /\ msg.of = lastSent THEN 0 ELSE lastSent
              /\ UNCHANGED <<nextReceiveIsReply, reply, replyEvent>>
    /\ UNCHANGED <<situation, link, fails, setting, serverVars, callVars, sentEvent, sentError>>

\* OnReceive guesses the origin: a reply, what was sent, or neither.
OnReceive ==
    /\ Line("RECEIVE") /\ ~setting
    /\ inbox' = Tail(inbox)
    /\ LET msg == Head(inbox).msg
       IN  \/ /\ nextReceiveIsReply /\ msg.from # "busy"
              /\ nextReceiveIsReply' = FALSE
              /\ reply' = msg /\ replyEvent' = TRUE
              /\ UNCHANGED lastSent
           \/ /\ ~(nextReceiveIsReply /\ msg.from # "busy")
              /\ lastSent' = IF msg.from = "echo" /\ msg.of = lastSent THEN 0 ELSE lastSent
              /\ UNCHANGED <<nextReceiveIsReply, reply, replyEvent>>
    /\ UNCHANGED <<situation, link, fails, setting, serverVars, callVars, sentEvent, sentError>>

\* Mutant: the event is set before _sentError is known.
OnSentEarly ==
    /\ Line("SENT") /\ ~setting
    /\ sentEvent' = TRUE
    /\ setting' = TRUE
    /\ UNCHANGED <<situation, link, inbox, fails, serverVars, callVars, sentError,
                   replyEvent, nextReceiveIsReply, lastSent, reply>>

\* OnSent wakes the send thread, ...
OnSent ==
    /\ Line("SENT") /\ ~setting
    /\ sentError' = ~Head(inbox).ok
    /\ sentEvent' = TRUE
    /\ setting' = TRUE
    /\ UNCHANGED <<situation, link, inbox, fails, serverVars, callVars,
                   replyEvent, nextReceiveIsReply, lastSent, reply>>

\* ... then expects a reply, whether anyone waits for one or not.
ExpectReply ==
    /\ setting
    /\ nextReceiveIsReply' = TRUE
    /\ inbox' = Tail(inbox) /\ setting' = FALSE
    /\ UNCHANGED <<situation, link, fails, serverVars, callVars,
                   sentEvent, replyEvent, sentError, lastSent, reply>>

\* End of file, after the lines that were there.
Eof ==
    /\ link = "dead" /\ inbox = <<>>
    /\ link' = "down"
    /\ UNCHANGED <<situation, inbox, fails, setting, serverVars, callVars, sharedVars>>

Reconnect ==
    /\ link = "down"
    /\ link' = "up"
    /\ UNCHANGED <<situation, inbox, fails, setting, serverVars, callVars, sharedVars>>

ReceiveThread == OnReceive \/ OnSent \/ ExpectReply \/ Eof \/ Reconnect

----------------------------------------------------------------------------
(* The server and the LocoNet behind it. *)

\* What comes of a SEND that the server accepts: its echo and SENT OK, then,
\* perhaps after an OPC_BUSY, the reply, or a LongAck instead of it, or nothing.
Accepted(line) == <<Received("echo", line.of, FALSE), Sent(TRUE)>>
Busy           == {<<>>, <<Received("busy", 0, FALSE)>>}
Reply(line)    == {<<Received("station", line.of, awaited)>> : awaited \in BOOLEAN}

Serve ==
    /\ toServer # <<>>
    /\ toServer' = Tail(toServer)
    /\ LET line == Head(toServer)
       IN  \/ /\ line.asks
              /\ \E busy \in Busy, answer \in Reply(line) :
                    inbox' = inbox \o Accepted(line) \o busy \o answer
              /\ accepted' = accepted \cup {line.of}
           \/ /\ ~(line.asks /\ Obliging)
              /\ inbox' = inbox \o Accepted(line)
              /\ accepted' = accepted \cup {line.of}
           \/ /\ ~Obliging
              /\ inbox' = Append(inbox, Sent(FALSE))
              /\ UNCHANGED accepted
    /\ UNCHANGED <<situation, link, fails, foreign, setting, callVars, sharedVars>>

\* Another device's slot is read out, or it sends something else.
OtherTalks ==
    /\ Crowded /\ link = "up" /\ foreign < MaxForeign
    /\ foreign' = foreign + 1
    /\ \E awaited \in BOOLEAN : inbox' = Append(inbox, Received("other", 0, awaited))
    /\ UNCHANGED <<situation, link, toServer, fails, setting, accepted, callVars, sharedVars>>

LinkFails ==
    /\ ~Obliging /\ link = "up" /\ fails < MaxFails
    /\ fails' = fails + 1
    /\ link' = "dead"
    /\ toServer' = <<>>
    /\ UNCHANGED <<situation, inbox, foreign, accepted, setting, callVars, sharedVars>>

----------------------------------------------------------------------------

Next == SendThread \/ ReceiveThread \/ Serve \/ OtherTalks \/ LinkFails

Spec == Init /\ [][Next]_vars

\* The threads run, and the server reads its lines.
FairSpec == Spec /\ WF_vars(SendThread) /\ WF_vars(ReceiveThread) /\ WF_vars(Serve)

----------------------------------------------------------------------------
(* Properties. *)

\* Every variable keeps its type; where the event says that a reply came, there
\* is one whose type SendAndWaitReply can look at (_reply!.GetType()).
TypeOK ==
    /\ situation \in Situations
    /\ link \in {"up", "dead", "down"}
    /\ toServer \in Seq([of : 1 .. MaxCalls, asks : BOOLEAN])
    /\ \A i \in 1 .. Len(inbox) :
          \/ inbox[i].tag = "RECEIVE" /\ inbox[i].msg \in Messages
          \/ inbox[i].tag = "SENT" /\ inbox[i].ok \in BOOLEAN
    /\ foreign \in 0 .. MaxForeign /\ fails \in 0 .. MaxFails
    /\ n \in 0 .. MaxCalls /\ asks \in BOOLEAN
    /\ pc \in {"idle", "prepare", "note", "reset", "send", "waitSent", "waitReply"}
    /\ result \in {"Invalid", "Success", "ReplyTimeout", "SocketError", "SentError",
                   "SentTimeout", "UnexpectedReply"}
    /\ {sentEvent, replyEvent, sentError, nextReceiveIsReply, setting} \subseteq BOOLEAN
    /\ lastSent \in 0 .. n /\ reply \in Messages \cup {NoReply}
    /\ replyEvent => reply # NoReply
    /\ accepted \subseteq 1 .. n

\* A reply that a caller gets is the station's reply to what it sent
\* (LoconetSendResult.Success: "an awaited reply was received").
ReplyIsOurs ==
    [][pc = "waitReply" /\ pc' = "idle" /\ result' = "Success"
          => reply.from = "station" /\ reply.of = n]_vars

\* A call that goes on after SENT, or returns Success, sent a message that the
\* server accepted (LoconetSendResult.Success: "SENT OK").
SentIsOurs ==
    [][pc = "waitSent" /\ (pc' = "waitReply" \/ (pc' = "idle" /\ result' = "Success"))
          => n \in accepted]_vars

\* A call returns, whatever the server and the station do.
CallReturns == pc # "idle" ~> pc = "idle"

\* The echo of a message is not taken for a reply (BlockingSend: "in order to
\* not take the echo mistakingly as a reply").
EchoIsNoReply == [][reply' # reply => reply'.from # "echo"]_vars

=============================================================================
