--------------------------- MODULE SlotOperation ---------------------------
(***************************************************************************)
(* How the wishes of a throttle for one loco reach the command stations    *)
(* while the loco is under control: speed and direction are values that    *)
(* every send thread compares with what it sent last, an emergency stop is *)
(* a counter that it compares with its own, functions go through a queue.  *)
(*                                                                         *)
(* The row is added by one task, which also issues the commands; every     *)
(* exchange that occupies a slot succeeds here, and the slots of an        *)
(* earlier session are released before the next one starts (SlotActivation *)
(* and LocoRow have the other cases).  A thread notes the slot when it     *)
(* looks it up and takes the row's values from its null move, later; it    *)
(* may operate before the other LocoNets have their slots.  Speeds are the *)
(* wiThrottle values of the row, -1 to 126, and LocoNet bytes at the       *)
(* stations: 0 stop, 1 emergency stop, n + 1 for speed n.                  *)
(***************************************************************************)
EXTENDS Integers, Sequences

CONSTANTS Loconets,    \* LocoNet connections, each with its send thread
          Last,        \* the one of the highest index: its slot fills the row
          Functions,   \* function numbers that the throttle uses
          SlotBits,    \* those that the slot has a bit for (F0 to F8)
          DirfBits,    \* those that share a byte with the direction (F0 to F4)
          Speeds,      \* speeds that throttles ask for, beside stop and emergency
          Lossy,       \* a message to a station may be lost
          MaxSessions, \* bound: times the loco is added
          MaxCommands  \* bound: commands of the throttle in all sessions

ASSUME OperationAssumption ==
    /\ Last \in Loconets
    /\ DirfBits \subseteq SlotBits /\ SlotBits \subseteq Functions
    /\ Speeds \subseteq 1 .. 126
    /\ Lossy \in BOOLEAN
    /\ MaxSessions \in Nat /\ MaxCommands \in Nat

VARIABLES
    active,     \* LocoRowImpl.IsActive
    speed,      \* RequestedSpeed._speed of the Speed object that the row has
    reverse,    \* LocoRowImpl.RequestedDirection is Reverse
    stops,      \* LocoRowImpl.EmergencyStopCounter
    on,         \* KnownFunction.On
    momentary,  \* KnownFunction.IsMomentary
    queue,      \* FunctionProcessing._functionQueue
    phase,      \* where the task is that adds, drives and removes the loco
    reply,      \* the OccupySlotReply of Last, from its null move
    sessions, commands,
    slotState,  \* SlotControl.SlotState, or "Found" between look-up and null move
    pc,         \* where a send thread is in Operate
    seen,       \* SlotControl._emergencyStopCounter
    last,       \* SlotControl.LastSentSpeed, LastSentDirf and LastSentSnd
    temp,       \* the local of Speed.LocoNet's getter, while it runs
    old,        \* the threads whose getter runs on a replaced Speed object
    station,    \* speed, direction and functions in the station's slot
    overtaken,  \* history: another throttle drove the loco after the look-up, and
                \* no speed was sent since
    stopAsked   \* history: the throttle asked for a stop in this session

rowVars  == <<active, speed, reverse, stops, on, momentary, queue>>
taskVars == <<phase, reply, sessions, commands>>
sendVars == <<slotState, pc, seen, last, temp, old>>
history  == <<overtaken, stopAsked>>
vars     == <<rowVars, taskVars, sendVars, station, history>>

Slots  == [speed : 0 .. 127, reverse : BOOLEAN, on : [Functions -> BOOLEAN]]
Idle   == [speed |-> 0, reverse |-> FALSE, on |-> [f \in Functions |-> FALSE]]
Phases == {"idle", "waiting", "direction", "speed", "functions", "commands",
           "stopping", "ending"}

Init ==
    /\ active = FALSE /\ speed = 0 /\ reverse = FALSE /\ stops = 0
    /\ on = Idle.on /\ momentary = [f \in Functions |-> FALSE] /\ queue = <<>>
    /\ phase = "idle" /\ reply = Idle
    /\ sessions = 0 /\ commands = 0
    /\ slotState = [l \in Loconets |-> "Inactive"]
    /\ pc = [l \in Loconets |-> "poll"]
    /\ seen = [l \in Loconets |-> 0]
    /\ last = [l \in Loconets |-> Idle]
    /\ temp = [l \in Loconets |-> 0] /\ old = {}
    /\ station = [l \in Loconets |-> Idle]
    /\ overtaken = [l \in Loconets |-> FALSE]
    /\ stopAsked = FALSE

\* Speed.LocoNet's setter: the wiThrottle value of a slot's speed byte.
ToWiThrottle(byte) == IF byte = 0 THEN 0 ELSE IF byte = 1 THEN -1 ELSE byte - 1

----------------------------------------------------------------------------
(* Sessions. *)

\* The row is activated and its task waits for the slots.
Begin ==
    /\ phase = "idle" /\ sessions < MaxSessions
    /\ \A l \in Loconets : slotState[l] = "Inactive"
    /\ sessions' = sessions + 1
    /\ active' = TRUE /\ phase' = "waiting"
    /\ stopAsked' = FALSE
    /\ UNCHANGED <<speed, reverse, stops, on, momentary, queue, reply, commands,
                   sendVars, station, overtaken>>

\* GetSlotByAddress: the thread takes what the slot has for what it sent last.
LookUp(l) ==
    /\ active /\ slotState[l] = "Inactive"
    /\ slotState' = [slotState EXCEPT ![l] = "Found"]
    /\ last' = [last EXCEPT ![l] = station[l]]
    /\ overtaken' = [overtaken EXCEPT ![l] = FALSE]
    /\ UNCHANGED <<rowVars, taskVars, pc, seen, temp, old, station, stopAsked>>

\* NullMove: its reply is the row's, and with the last one the wait ends.
Occupy(l) ==
    /\ slotState[l] = "Found"
    /\ slotState' = [slotState EXCEPT ![l] = "Active"]
    /\ reply' = IF l = Last THEN station[l] ELSE reply
    /\ phase' = IF \A k \in Loconets \ {l} : slotState[k] = "Active" THEN "direction" ELSE phase
    /\ UNCHANGED <<rowVars, sessions, commands, pc, seen, last, temp, old, station, history>>

\* InitializeFromSlot: the row takes the direction, then the speed, in a new
\* Speed object, then the functions.
InitializeFromSlot ==
    /\ \/ /\ phase = "direction" /\ phase' = "speed"
          /\ reverse' = reply.reverse
          /\ UNCHANGED <<speed, on, old>>
       \/ /\ phase = "speed" /\ phase' = "functions"
          /\ speed' = ToWiThrottle(reply.speed)
          /\ old' = {l \in Loconets : pc[l] = "byte"}
          /\ UNCHANGED <<reverse, on>>
       \/ /\ phase = "functions" /\ phase' = "commands"
          /\ on' = [f \in Functions |-> IF f \in SlotBits THEN reply.on[f] ELSE on[f]]
          /\ UNCHANGED <<reverse, speed, old>>
    /\ UNCHANGED <<active, stops, momentary, queue, reply, sessions, commands,
                   slotState, pc, seen, last, temp, station, history>>

\* Deactivate of the row: the stop is counted, then the row is inactive.
End ==
    /\ \/ phase = "commands" /\ phase' = "ending" /\ stops' = stops + 1 /\ UNCHANGED active
       \/ phase = "ending" /\ phase' = "idle" /\ active' = FALSE /\ UNCHANGED stops
    /\ UNCHANGED <<speed, reverse, on, momentary, queue, reply, sessions, commands,
                   sendVars, station, history>>

\* Deactivate(slot) of a send thread.
ReleaseSlot(l) ==
    /\ ~active /\ slotState[l] = "Active" /\ pc[l] = "poll"
    /\ slotState' = [slotState EXCEPT ![l] = "Inactive"]
    /\ UNCHANGED <<rowVars, taskVars, pc, seen, last, temp, old, station, history>>

\* Until the null move another throttle may drive the loco.
OtherDrives(l) ==
    /\ slotState[l] # "Active"
    /\ \E v \in Speeds : station' = [station EXCEPT ![l].speed = v + 1]
    /\ overtaken' = [overtaken EXCEPT ![l] = @ \/ slotState[l] = "Found"]
    /\ UNCHANGED <<rowVars, taskVars, sendVars, stopAsked>>

----------------------------------------------------------------------------
(* Commands of the throttle that has the loco. *)

Command == phase = "commands" /\ commands < MaxCommands /\ commands' = commands + 1

SetSpeed(v) ==
    /\ Command
    /\ speed' = v
    /\ stopAsked' = (stopAsked \/ v = -1)
    /\ UNCHANGED <<active, reverse, stops, on, momentary, queue, phase, reply, sessions,
                   sendVars, station, overtaken>>

SetDirection(r) ==
    /\ Command
    /\ reverse' = r
    /\ UNCHANGED <<active, speed, stops, on, momentary, queue, phase, reply, sessions,
                   sendVars, station, history>>

\* The stop is counted, then the speed is set to stop.
SetEmergencyStop ==
    /\ \/ /\ Command
          /\ phase' = "stopping"
          /\ stops' = stops + 1
          /\ stopAsked' = TRUE
          /\ UNCHANGED speed
       \/ /\ phase = "stopping" /\ phase' = "commands"
          /\ speed' = 0
          /\ UNCHANGED <<stops, stopAsked, commands>>
    /\ UNCHANGED <<active, reverse, on, momentary, queue, reply, sessions,
                   sendVars, station, overtaken>>

\* Mutant: the state is queued before it is changed.
QueueOldState(f, b) ==
    /\ on' = [on EXCEPT ![f] = b]
    /\ queue' = Append(queue, [number |-> f, isOn |-> on[f]])

\* SetNewState; ForceFunction is this alone.
SetNewState(f, b) ==
    /\ on' = [on EXCEPT ![f] = b]
    /\ queue' = Append(queue, [number |-> f, isOn |-> b])

ForceFunction(f, b) ==
    /\ Command
    /\ SetNewState(f, b)
    /\ UNCHANGED <<active, speed, reverse, stops, momentary, phase, reply, sessions,
                   sendVars, station, history>>

\* A momentary function follows its key, any other toggles when it is pressed.
SetFunctionKey(f, pressed) ==
    /\ Command
    /\ IF momentary[f] THEN SetNewState(f, pressed)
       ELSE IF pressed THEN SetNewState(f, ~on[f])
       ELSE UNCHANGED <<on, queue>>
    /\ UNCHANGED <<active, speed, reverse, stops, momentary, phase, reply, sessions,
                   sendVars, station, history>>

SetMomentaryFunction(f, b) ==
    /\ Command
    /\ momentary' = [momentary EXCEPT ![f] = b]
    /\ UNCHANGED <<active, speed, reverse, stops, on, queue, phase, reply, sessions,
                   sendVars, station, history>>

----------------------------------------------------------------------------
(* Operate: a send thread sends the first difference that it finds.  Once it *)
(* has begun, the row is not asked again whether it is active.               *)

Operating(l) == active /\ slotState[l] = "Active"

Goto(l, at) == pc' = [pc EXCEPT ![l] = at]

\* What the messages carry to the station's slot.
LocoSpd(slot, sent)  == [slot EXCEPT !.speed = sent.speed]
LocoDirf(slot, sent) ==
    [slot EXCEPT !.reverse = sent.reverse,
                 !.on = [f \in Functions |-> IF f \in DirfBits THEN sent.on[f] ELSE @[f]]]
LocoSnd(slot, sent)  ==
    [slot EXCEPT !.on = [f \in Functions |->
                           IF f \in SlotBits \ DirfBits THEN sent.on[f] ELSE @[f]]]

\* What is sent counts as sent before it is, and whatever becomes of it.
Send(l, sent, received) ==
    /\ last' = [last EXCEPT ![l] = sent]
    /\ \/ station' = [station EXCEPT ![l] = received]
       \/ Lossy /\ UNCHANGED station

SendSpeed(l, byte) ==
    LET sent == [last[l] EXCEPT !.speed = byte]
    IN  /\ Send(l, sent, LocoSpd(station[l], sent))
        /\ overtaken' = [overtaken EXCEPT ![l] = FALSE]

\* Mutant: a loco that stands is not sent an emergency stop.
SendStopIfMoving(l) ==
    /\ pc[l] = "poll" /\ Operating(l)
    /\ seen[l] # stops
    /\ seen' = [seen EXCEPT ![l] = stops]
    /\ IF last[l].speed = 0 THEN UNCHANGED <<last, station, overtaken>> ELSE SendSpeed(l, 1)
    /\ UNCHANGED <<rowVars, taskVars, slotState, pc, temp, old, stopAsked>>

\* Mutant: an emergency stop is not noted as the speed sent last.
SendStopUnnoted(l) ==
    /\ pc[l] = "poll" /\ Operating(l)
    /\ seen[l] # stops
    /\ seen' = [seen EXCEPT ![l] = stops]
    /\ station' = [station EXCEPT ![l].speed = 1]
    /\ UNCHANGED <<rowVars, taskVars, slotState, pc, last, temp, old, history>>

\* IsEmergencyStopRequested and SendSpeed(1) ...
SendStop(l) ==
    /\ pc[l] = "poll" /\ Operating(l)
    /\ seen[l] # stops
    /\ seen' = [seen EXCEPT ![l] = stops]
    /\ SendSpeed(l, 1)
    /\ UNCHANGED <<rowVars, taskVars, slotState, pc, temp, old, stopAsked>>

\* ... or nothing to stop for.
PassStop(l) ==
    /\ pc[l] = "poll" /\ Operating(l)
    /\ seen[l] = stops
    /\ Goto(l, "speed")
    /\ UNCHANGED <<rowVars, taskVars, slotState, seen, last, temp, old, station, history>>

\* The getter of Speed.LocoNet reads _speed into temp ...
ReadSpeed(l) ==
    /\ pc[l] = "speed"
    /\ temp' = [temp EXCEPT ![l] = speed]
    /\ Goto(l, "byte")
    /\ UNCHANGED <<rowVars, taskVars, slotState, seen, last, old, station, history>>

\* Mutant: the speed of the row is taken for a byte of the slot.
RequestedByteRaw(l) == IF temp[l] = 0 THEN 0 ELSE speed

\* ... and reads it once more, in the same object, for any value but -1 and 0.
RequestedByte(l) ==
    CASE temp[l] = -1 -> 1
      [] temp[l] = 0  -> 0
      [] OTHER        -> IF l \in old THEN temp[l] + 1 ELSE speed + 1

\* A speed other than the one sent last is sent.
CompareSpeed(l) ==
    /\ pc[l] = "byte"
    /\ \/ /\ last[l].speed # RequestedByte(l)
          /\ SendSpeed(l, RequestedByte(l))
          /\ Goto(l, "poll")
       \/ /\ last[l].speed = RequestedByte(l)
          /\ Goto(l, "direction")
          /\ UNCHANGED <<last, station, overtaken>>
    /\ temp' = [temp EXCEPT ![l] = 0]
    /\ old' = old \ {l}
    /\ UNCHANGED <<rowVars, taskVars, slotState, seen, stopAsked>>

\* So is another direction ...
CompareDirection(l) ==
    /\ pc[l] = "direction"
    /\ \/ /\ last[l].reverse # reverse
          /\ LET sent == [last[l] EXCEPT !.reverse = reverse]
             IN  Send(l, sent, LocoDirf(station[l], sent))
          /\ Goto(l, "poll")
       \/ /\ last[l].reverse = reverse
          /\ Goto(l, "function")
          /\ UNCHANGED <<last, station>>
    /\ UNCHANGED <<rowVars, taskVars, slotState, seen, temp, old, history>>

\* A function that the slot has no bit for is dropped.
SendFunction(l, f) ==
    LET sent == [last[l] EXCEPT !.on[f.number] = f.isOn]
    IN  \/ f.number \in DirfBits /\ Send(l, sent, LocoDirf(station[l], sent))
        \/ f.number \in SlotBits \ DirfBits /\ Send(l, sent, LocoSnd(station[l], sent))
        \/ f.number \notin SlotBits /\ UNCHANGED <<last, station>>

\* ... and the next function of the queue.
NextFunction(l) ==
    /\ pc[l] = "function"
    /\ \/ queue = <<>> /\ UNCHANGED <<queue, last, station>>
       \/ queue # <<>> /\ queue' = Tail(queue) /\ SendFunction(l, Head(queue))
    /\ Goto(l, "poll")
    /\ UNCHANGED <<active, speed, reverse, stops, on, momentary, taskVars, slotState,
                   seen, temp, old, history>>

----------------------------------------------------------------------------

Throttle ==
    \/ Begin \/ End \/ InitializeFromSlot \/ SetEmergencyStop
    \/ \E v \in Speeds \cup {-1, 0} : SetSpeed(v)
    \/ \E b \in BOOLEAN : SetDirection(b)
    \/ \E f \in Functions, b \in BOOLEAN :
          ForceFunction(f, b) \/ SetFunctionKey(f, b) \/ SetMomentaryFunction(f, b)

Operate(l) == SendStop(l) \/ PassStop(l) \/ ReadSpeed(l) \/ CompareSpeed(l)
                \/ CompareDirection(l) \/ NextFunction(l)

SendThread(l) == LookUp(l) \/ Occupy(l) \/ ReleaseSlot(l) \/ Operate(l)

Next == Throttle \/ \E l \in Loconets : SendThread(l) \/ OtherDrives(l)

Spec == Init /\ [][Next]_vars

\* The send threads poll for ever, and what the task has begun it finishes.
Finish == InitializeFromSlot \/ (phase # "commands" /\ (End \/ SetEmergencyStop))

FairSpec == /\ Spec
            /\ WF_vars(Finish)
            /\ \A l \in Loconets : WF_vars(SendThread(l))

----------------------------------------------------------------------------
(* Properties. *)

\* Every variable keeps its type.
TypeOK ==
    /\ active \in BOOLEAN /\ reverse \in BOOLEAN /\ stopAsked \in BOOLEAN
    /\ speed \in -1 .. 126
    /\ stops \in 0 .. MaxSessions + MaxCommands
    /\ on \in [Functions -> BOOLEAN] /\ momentary \in [Functions -> BOOLEAN]
    /\ queue \in Seq([number : Functions, isOn : BOOLEAN])
    /\ phase \in Phases /\ reply \in Slots
    /\ sessions \in 0 .. MaxSessions /\ commands \in 0 .. MaxCommands
    /\ slotState \in [Loconets -> {"Inactive", "Found", "Active"}]
    /\ pc \in [Loconets -> {"poll", "speed", "byte", "direction", "function"}]
    /\ seen \in [Loconets -> 0 .. MaxSessions + MaxCommands]
    /\ last \in [Loconets -> Slots] /\ station \in [Loconets -> Slots]
    /\ temp \in [Loconets -> -1 .. 126] /\ old \in SUBSET Loconets
    /\ overtaken \in [Loconets -> BOOLEAN]

\* The function number of queue entry i is f, and no later entry's is.
Latest(f, i) ==
    /\ queue[i].number = f
    /\ \A j \in i + 1 .. Len(queue) : queue[j].number # f

\* In the first session nothing of a function is lost or reordered on its way
\* to the only LocoNet: the last state queued is the row's, and once no state
\* is queued the row's is what was sent (FunctionProcessing._functionQueue:
\* "All detected function operations are enqueued here").
FunctionsPending ==
    sessions <= 1 =>
        \A f \in SlotBits :
            /\ \A i \in 1 .. Len(queue) : Latest(f, i) => queue[i].isOn = on[f]
            /\ (\A i \in 1 .. Len(queue) : queue[i].number # f)
                  => \A l \in Loconets : last[l].on[f] = on[f]

\* An emergency stop is never skipped by what the throttle asks later: every
\* LocoNet that operates the loco gets it (ILoconet2Row.EmergencyStopCounter:
\* "never skipped by a subsequent change in speed").  Not that it comes first:
\* a thread that has just found no stop reads and sends a speed set after one,
\* and sends the stop on its next pass; and after the stop it may send the
\* speed that the row had before, until the row's is set to stop.
StopIsSent ==
    \A l \in Loconets :
        (Operating(l) /\ seen[l] # stops)
            ~> (last[l].speed = 1 \/ ~active)

\* Once the throttle asks no more, speed and direction at every station that
\* is under control are those of the row, except where another throttle has
\* changed the speed between look-up and null move (LoconetSend.Activating)
\* and none was sent since.
SpeedConverges ==
    <>[](active => \A l \in Loconets :
            /\ overtaken[l] \/ ToWiThrottle(station[l].speed) = speed
            /\ station[l].reverse = reverse)

\* The same without the exception (ILoconet2Row.RequestedSpeed: "compares this
\* with its last update sent to the command station and sends it out").
SpeedIsRows ==
    <>[](active => \A l \in Loconets : ToWiThrottle(station[l].speed) = speed)

\* Once the throttle asks no more, the functions at every station that is
\* under control are those of the row (LocoRowImpl.InitializeFromSlot:
\* "anything that comes from the throttle is queued and propagated").
FunctionsConverge ==
    <>[](active => \A l \in Loconets : station[l].on = on)

\* A loco that is given back stands still (LocoRowImpl.Deactivate: "stop the
\* loco, now that we don't want to control it any longer").
StoppedOnRelease ==
    [][\A l \in Loconets :
          ReleaseSlot(l) => station[l].speed \in {0, 1}]_vars

\* A station is told an emergency stop only if the throttle asked for one in
\* this session (SlotControl.IsEmergencyStopRequested: "Did wiThrottle request
\* an emergency stop?").
StopWasAsked ==
    [][\A l \in Loconets :
          station[l].speed # 1 /\ station'[l].speed = 1 => stopAsked]_vars

\* The byte that the getter of Speed.LocoNet returns is that of the speed which
\* it read or of the one the row has now ("Only one access. Considering this
\* atomic").
ByteOfASpeed ==
    [][\A l \in Loconets :
          CompareSpeed(l) => ToWiThrottle(RequestedByte(l)) \in {temp[l], speed}]_vars

=============================================================================
