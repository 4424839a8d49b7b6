------------------------ MODULE CommandStationMirror ------------------------
(***************************************************************************)
(* What ThrottleX believes of the slots of a command station: a table that *)
(* follows the messages heard on the LocoNet, all but those that count as  *)
(* its own.  Which those are is a guess of LoconetClient, from the last    *)
(* line sent and a flag; here its threads are in step, as in LoconetClient *)
(* with Prompt, and no wait is given up.                                   *)
(*                                                                         *)
(* The station and the other devices are modelled from how the code uses   *)
(* them: a message changes a slot as it says, a request for an address is  *)
(* answered with the data of its slot, and a slot may be given to another  *)
(* address.  The lines come in the order of the changes.                   *)
(***************************************************************************)
EXTENDS Naturals, Sequences

CONSTANTS Slots,        \* slot numbers
          Addresses,    \* at first, a slot has the address of its number
          Fields,       \* Dirf, Speed, Sound, Status, and the Ids
          Values,
          Own,          \* ThrottleX sends, too
          Refuses,      \* the server may refuse to send
          MaxMessages   \* bound: messages of anyone

ASSUME MirrorAssumption ==
    /\ Slots \subseteq 0 .. 127 /\ Slots \subseteq Addresses /\ Addresses \subseteq Nat
    /\ 0 \in Values
    /\ Own \in BOOLEAN /\ Refuses \in BOOLEAN /\ MaxMessages \in Nat

VARIABLES
    station,    \* the slots as the command station has them
    lines,      \* lines from the server, to come
    bySlot,     \* _bySlot: the data of a tracked slot
    byAddress,  \* _byAddress: the slot whose data is entered for an address
    out,        \* the message that ThrottleX sends or sent last
    waiting,    \* what its send thread waits for: "server", "SENT", "reply" or "no"
    lastSent,   \* _lastSentHex
    nextReceiveIsReply,
    ours,       \* history: fields that ThrottleX changed last
    messages

tableVars  == <<bySlot, byAddress>>
clientVars == <<out, waiting, lastSent, nextReceiveIsReply>>
vars == <<station, lines, tableVars, clientVars, ours, messages>>

Nothing   == [kind |-> "null"]
Untracked == [adr |-> 128]
Nobody    == 128

\* _bySlot is an array of 127.
Table == Slots \cap 0 .. 126

SlotData == [adr : Addresses, data : [Fields -> Values]]

\* LocoBase messages, the two SlotDataBase messages, others, and the SENT line.
Loco(s, f, v)  == [kind |-> "Loco", slot |-> s, field |-> f, value |-> v]
SlRdData(s, d) == [kind |-> "SlRdData", slot |-> s, is |-> d]
WrSlData(s, d) == [kind |-> "WrSlData", slot |-> s, is |-> d]
SlotDataBase   == {"SlRdData", "WrSlData"}
LocoAdr(a)     == [kind |-> "LocoAdr", adr |-> a]
LongAck        == [kind |-> "LongAck"]
Sent(ok)       == [kind |-> "SENT", ok |-> ok]

Init ==
    /\ station = [s \in Slots |-> [adr |-> s, data |-> [f \in Fields |-> 0]]]
    /\ lines = <<>>
    /\ bySlot = [s \in Table |-> Untracked] /\ byAddress = [a \in Addresses |-> Nobody]
    /\ out = Nothing /\ waiting = "no" /\ lastSent = Nothing /\ nextReceiveIsReply = FALSE
    /\ ours = {} /\ messages = 0

----------------------------------------------------------------------------
(* The mirror. *)

\* Mutant: the data is entered by its address only.
AddIndexOnly(s, d) ==
    /\ UNCHANGED bySlot
    /\ byAddress' = [byAddress EXCEPT ![d.adr] = s]

Add(s, d) ==
    /\ bySlot' = [bySlot EXCEPT ![s] = d]
    /\ byAddress' = [byAddress EXCEPT ![d.adr] = s]

\* SetBySlotMsg takes every field over, the address too; the entry by address stays.
OnSlotMessage(msg) ==
    \/ bySlot[msg.slot] = Untracked /\ Add(msg.slot, msg.is)
    \/ /\ bySlot[msg.slot] # Untracked
       /\ bySlot' = [bySlot EXCEPT ![msg.slot] = msg.is] /\ UNCHANGED byAddress

OnLocoMessage(msg) ==
    /\ IF bySlot[msg.slot] # Untracked
       THEN bySlot' = [bySlot EXCEPT ![msg.slot].data[msg.field] = msg.value]
       ELSE UNCHANGED bySlot
    /\ UNCHANGED byAddress

\* A number beyond the table is an exception, which ProcessLine ignores.
OnMessage(origin, msg) ==
    IF origin # "Sent" /\ msg.kind \in SlotDataBase \cup {"Loco"} /\ msg.slot \in Table
    THEN \/ msg.kind \in SlotDataBase /\ OnSlotMessage(msg)
         \/ msg.kind = "Loco" /\ OnLocoMessage(msg)
    ELSE UNCHANGED tableVars

----------------------------------------------------------------------------
(* LoconetClient, the receive thread. *)

\* Mutant: what was sent last stays noted after its echo.
OnReceiveKeepsSent ==
    /\ lines # <<>> /\ Head(lines).kind # "SENT"
    /\ lines' = Tail(lines)
    /\ LET msg == Head(lines)
       IN  \/ /\ nextReceiveIsReply
              /\ nextReceiveIsReply' = FALSE
              /\ waiting' = IF waiting = "reply" THEN "no" ELSE waiting
              /\ OnMessage("Reply", msg) /\ UNCHANGED lastSent
           \/ /\ ~nextReceiveIsReply
              /\ OnMessage(IF msg = lastSent THEN "Sent" ELSE "FromNet", msg)
              /\ UNCHANGED <<nextReceiveIsReply, waiting, lastSent>>
    /\ UNCHANGED <<station, out, ours, messages>>

OnReceive ==
    /\ lines # <<>> /\ Head(lines).kind # "SENT"
    /\ lines' = Tail(lines)
    /\ LET msg == Head(lines)
       IN  \/ /\ nextReceiveIsReply
              /\ nextReceiveIsReply' = FALSE
              /\ waiting' = IF waiting = "reply" THEN "no" ELSE waiting
              /\ OnMessage("Reply", msg) /\ UNCHANGED lastSent
           \/ /\ ~nextReceiveIsReply /\ msg = lastSent
              /\ OnMessage("Sent", msg) /\ lastSent' = Nothing
              /\ UNCHANGED <<nextReceiveIsReply, waiting>>
           \/ /\ ~nextReceiveIsReply /\ msg # lastSent
              /\ OnMessage("FromNet", msg)
              /\ UNCHANGED <<nextReceiveIsReply, waiting, lastSent>>
    /\ UNCHANGED <<station, out, ours, messages>>

Asks(msg) == msg.kind \in {"LocoAdr", "WrSlData"}

\* A request waits for its reply, every other call returns.
OnSent ==
    /\ lines # <<>> /\ Head(lines).kind = "SENT"
    /\ lines' = Tail(lines)
    /\ nextReceiveIsReply' = TRUE
    /\ waiting' = IF Head(lines).ok /\ Asks(out) THEN "reply" ELSE "no"
    /\ UNCHANGED <<station, tableVars, out, lastSent, ours, messages>>

----------------------------------------------------------------------------
(* The send thread: BlockingSend and SendAndWaitReply. *)

BlockingSend(msg) ==
    /\ waiting = "no" /\ waiting' = "server"
    /\ messages < MaxMessages /\ messages' = messages + 1
    /\ nextReceiveIsReply' = FALSE /\ lastSent' = msg /\ out' = msg
    /\ UNCHANGED <<station, lines, tableVars, ours>>

\* A speed or a function, a request for an address, or an Id written into a slot
\* with the rest of its data as it was read.
Send ==
    /\ Own
    /\ \/ \E s \in Slots, f \in Fields, v \in Values : BlockingSend(Loco(s, f, v))
       \/ \E a \in Addresses : BlockingSend(LocoAdr(a))
       \/ \E s \in Slots, f \in Fields, v \in Values :
             BlockingSend(WrSlData(s, [station[s] EXCEPT !.data[f] = v]))

----------------------------------------------------------------------------
(* The server, the command station and the other devices. *)

After(msg) ==
    CASE msg.kind = "Loco"           -> [station EXCEPT ![msg.slot].data[msg.field] = msg.value]
      [] msg.kind \in SlotDataBase -> [station EXCEPT ![msg.slot] = msg.is]
      [] msg.kind = "LocoAdr"        -> station

Changes(msg) ==
    CASE msg.kind = "Loco"           -> {<<msg.slot, msg.field>>}
      [] msg.kind \in SlotDataBase -> {msg.slot} \X Fields
      [] msg.kind = "LocoAdr"        -> {}

Answer(msg) ==
    CASE msg.kind = "LocoAdr"  -> {<<SlRdData(s, station[s])>> :
                                      s \in {t \in Slots : station[t].adr = msg.adr}}
      [] msg.kind = "WrSlData" -> {<<LongAck>>}
      [] msg.kind = "Loco"     -> {<<>>}

\* Echo, SENT and the reply, or SENT with an error.
Serve ==
    /\ waiting = "server" /\ waiting' = "SENT"
    /\ \/ \E answer \in Answer(out) :
             /\ lines' = lines \o <<out, Sent(TRUE)>> \o answer
             /\ station' = After(out) /\ ours' = ours \cup Changes(out)
       \/ /\ Refuses \/ Answer(out) = {}
          /\ lines' = Append(lines, Sent(FALSE))
          /\ UNCHANGED <<station, ours>>
    /\ UNCHANGED <<tableVars, out, lastSent, nextReceiveIsReply, messages>>

OtherSends(msg) ==
    /\ messages < MaxMessages /\ messages' = messages + 1
    /\ lines' = Append(lines, msg)
    /\ station' = After(msg) /\ ours' = ours \ Changes(msg)
    /\ UNCHANGED <<tableVars, clientVars>>

\* Another throttle operates a slot, or writes into it, ...
Operate ==
    \E s \in Slots, f \in Fields, v \in Values :
        \/ OtherSends(Loco(s, f, v))
        \/ OtherSends(WrSlData(s, [station[s] EXCEPT !.data[f] = v]))

\* ... the station tells the data of one, ...
ReadSlot == \E s \in Slots : OtherSends(SlRdData(s, station[s]))

\* ... or gives it to a new address, unless ThrottleX is just writing into it.
Assign ==
    \E s \in Slots, a \in {b \in Addresses : \A t \in Slots : station[t].adr # b} :
        /\ ~(waiting = "server" /\ out.kind = "WrSlData" /\ out.slot = s)
        /\ OtherSends(SlRdData(s, [station[s] EXCEPT !.adr = a]))

----------------------------------------------------------------------------
Next == OnReceive \/ OnSent \/ Send \/ Serve \/ Operate \/ ReadSlot \/ Assign

Spec == Init /\ [][Next]_vars

----------------------------------------------------------------------------
\* Every variable keeps its type, and an address leads to a slot that is tracked.
TypeOK ==
    /\ station \in [Slots -> SlotData]
    /\ bySlot \in [Table -> SlotData \cup {Untracked}]
    /\ byAddress \in [Addresses -> Table \cup {Nobody}]
    /\ \A a \in Addresses : byAddress[a] # Nobody => bySlot[byAddress[a]] # Untracked
    /\ waiting \in {"no", "server", "SENT", "reply"} /\ nextReceiveIsReply \in BOOLEAN
    /\ messages \in 0 .. MaxMessages

\* Nothing is on its way, no echo either.
Heard == lines = <<>> /\ waiting = "no"

\* Once everything was heard, a tracked slot has its address and all that others
\* changed last, although some messages count as replies and some as ThrottleX's
\* own: none of another device is lost by the guess (OnMessage).
FollowsOthers ==
    Heard => \A s \in Table : bySlot[s] # Untracked =>
        /\ bySlot[s].adr = station[s].adr
        /\ \A f \in Fields : <<s, f>> \notin ours => bySlot[s].data[f] = station[s].data[f]

\* ... and what ThrottleX changed itself, "because we setting fields directly while
\* issuing send request" (OnMessage).
FollowsAll ==
    Heard => \A s \in Table : bySlot[s] # Untracked => bySlot[s] = station[s]

\* A tracked slot is found by its address, and no other is.
FoundByAddress ==
    Heard => \A s \in Table, a \in Addresses :
        bySlot[s] # Untracked => (byAddress[a] = s <=> bySlot[s].adr = a)
=============================================================================
