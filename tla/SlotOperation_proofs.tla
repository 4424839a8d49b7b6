----------------------- MODULE SlotOperation_proofs -----------------------
(***************************************************************************)
(* Proofs about SlotOperation: every variable keeps its type, and with one *)
(* LocoNet the queue of functions leads from what was sent to the state of *)
(* the row, as long as the loco is added once.                             *)
(***************************************************************************)
EXTENDS SlotOperation, SequenceTheorems, TLAPS

----------------------------------------------------------------------------
(* Types. *)

\* The wiThrottle value of a speed byte is a speed.
LEMMA ToWiThrottleType ==
    ASSUME NEW byte \in 0 .. 127
    PROVE  ToWiThrottle(byte) \in -1 .. 126
BY DEF ToWiThrottle

\* The getter returns a byte of seven bits, whatever it read.
LEMMA RequestedByteType ==
    ASSUME TypeOK, NEW l \in Loconets
    PROVE  RequestedByte(l) \in 0 .. 127
<1>1. temp[l] \in -1 .. 126 /\ speed \in -1 .. 126 BY DEF TypeOK
<1>2. CASE temp[l] = -1 BY <1>2 DEF RequestedByte
<1>3. CASE temp[l] = 0 BY <1>3 DEF RequestedByte
<1>4. CASE temp[l] # -1 /\ temp[l] # 0 BY <1>1, <1>4 DEF RequestedByte
<1> QED BY <1>2, <1>3, <1>4

\* What a message carries leaves a slot of the station a slot.
LEMMA MessageTypes ==
    ASSUME NEW slot \in Slots, NEW sent \in Slots
    PROVE  /\ LocoSpd(slot, sent) \in Slots
           /\ LocoDirf(slot, sent) \in Slots
           /\ LocoSnd(slot, sent) \in Slots
BY DEF LocoSpd, LocoDirf, LocoSnd, Slots

\* Sending a slot keeps the types of both ends.
LEMMA SendType ==
    ASSUME TypeOK, NEW l \in Loconets, NEW sent \in Slots, NEW received \in Slots,
           Send(l, sent, received)
    PROVE  last' \in [Loconets -> Slots] /\ station' \in [Loconets -> Slots]
BY DEF TypeOK, Send

\* So does sending a speed.
LEMMA SendSpeedType ==
    ASSUME TypeOK, NEW l \in Loconets, NEW byte \in 0 .. 127, SendSpeed(l, byte)
    PROVE  /\ last' \in [Loconets -> Slots] /\ station' \in [Loconets -> Slots]
           /\ overtaken' \in [Loconets -> BOOLEAN]
<1> DEFINE sent == [last[l] EXCEPT !.speed = byte]
<1>1. last[l] \in Slots /\ station[l] \in Slots BY DEF TypeOK
<1>2. sent \in Slots BY <1>1 DEF Slots
<1>3. LocoSpd(station[l], sent) \in Slots BY <1>1, <1>2, MessageTypes
<1>4. Send(l, sent, LocoSpd(station[l], sent)) /\ overtaken' = [overtaken EXCEPT ![l] = FALSE]
  BY DEF SendSpeed
<1> QED BY <1>2, <1>3, <1>4, SendType DEF TypeOK

\* And sending a function.
LEMMA SendFunctionType ==
    ASSUME TypeOK, NEW l \in Loconets, NEW f \in [number : Functions, isOn : BOOLEAN],
           SendFunction(l, f)
    PROVE  last' \in [Loconets -> Slots] /\ station' \in [Loconets -> Slots]
<1> DEFINE sent == [last[l] EXCEPT !.on[f.number] = f.isOn]
<1>1. last[l] \in Slots /\ station[l] \in Slots BY DEF TypeOK
<1>2. sent \in Slots BY <1>1 DEF Slots
<1>3. LocoDirf(station[l], sent) \in Slots /\ LocoSnd(station[l], sent) \in Slots
  BY <1>1, <1>2, MessageTypes
<1>4. \/ Send(l, sent, LocoDirf(station[l], sent))
      \/ Send(l, sent, LocoSnd(station[l], sent))
      \/ UNCHANGED <<last, station>>
  BY DEF SendFunction
<1>5. CASE Send(l, sent, LocoDirf(station[l], sent)) BY <1>2, <1>3, <1>5, SendType
<1>6. CASE Send(l, sent, LocoSnd(station[l], sent)) BY <1>2, <1>3, <1>6, SendType
<1>7. CASE UNCHANGED <<last, station>> BY <1>7 DEF TypeOK
<1> QED BY <1>4, <1>5, <1>6, <1>7

\* A new function state keeps the types of the row's functions and the queue.
LEMMA SetNewStateType ==
    ASSUME TypeOK, NEW f \in Functions, NEW b \in BOOLEAN, SetNewState(f, b)
    PROVE  /\ on' \in [Functions -> BOOLEAN]
           /\ queue' \in Seq([number : Functions, isOn : BOOLEAN])
BY DEF TypeOK, SetNewState

\* A command is counted while the bound allows.
LEMMA CommandType ==
    ASSUME TypeOK, Command
    PROVE  /\ commands < MaxCommands /\ commands' = commands + 1
           /\ commands' \in 0 .. MaxCommands
BY OperationAssumption DEF TypeOK, Command

\* Each stop is a command or the end of a session.
StopsBound ==
    /\ stops <= sessions + commands
    /\ phase \notin {"idle", "ending"} => stops < sessions + commands

TypeInv == TypeOK /\ StopsBound

\* Steps of a send thread and of the other throttle change nothing of the row but
\* its queue, and of its task at most the reply and the wait for the slots.
LEMMA ThreadStep ==
    ASSUME TypeInv,
           UNCHANGED <<active, speed, reverse, stops, on, momentary, sessions, commands, stopAsked>>,
           queue' \in Seq([number : Functions, isOn : BOOLEAN]),
           phase' = phase, reply' \in Slots,
           slotState' \in [Loconets -> {"Inactive", "Found", "Active"}],
           pc' \in [Loconets -> {"poll", "speed", "byte", "direction", "function"}],
           seen' \in [Loconets -> 0 .. MaxSessions + MaxCommands],
           last' \in [Loconets -> Slots], station' \in [Loconets -> Slots],
           temp' \in [Loconets -> -1 .. 126], old' \in SUBSET Loconets,
           overtaken' \in [Loconets -> BOOLEAN]
    PROVE  TypeInv'
BY DEF TypeInv, TypeOK, StopsBound

\* A command other than a stop changes nothing of the threads.
LEMMA CommandStep ==
    ASSUME TypeInv, Command,
           UNCHANGED <<active, stops, phase, reply, sessions, sendVars, station, overtaken>>,
           momentary' \in [Functions -> BOOLEAN],
           speed' \in -1 .. 126, reverse' \in BOOLEAN, stopAsked' \in BOOLEAN,
           on' \in [Functions -> BOOLEAN],
           queue' \in Seq([number : Functions, isOn : BOOLEAN])
    PROVE  TypeInv'
<1>1. TypeOK BY DEF TypeInv
<1>2. commands' = commands + 1 /\ commands' \in 0 .. MaxCommands BY <1>1, CommandType
<1>3. StopsBound' BY <1>1, <1>2 DEF TypeInv, TypeOK, StopsBound
<1>4. TypeOK' BY <1>1, <1>2 DEF TypeOK, sendVars
<1> QED BY <1>3, <1>4 DEF TypeInv

\* The row is active while its task is at work, and while it is not waiting any
\* more every thread has its slot: a slot is found only while the task waits.
SlotsWaited ==
    /\ active <=> phase # "idle"
    /\ phase \notin {"idle", "waiting"} => \A l \in Loconets : slotState[l] = "Active"
    /\ phase = "idle" => \A l \in Loconets : slotState[l] # "Found"

LEMMA SlotsStep ==
    ASSUME TypeOK, SlotsWaited, [Next]_vars
    PROVE  SlotsWaited'
<1>1. CASE Begin BY <1>1 DEF Begin, SlotsWaited
<1>2. CASE End BY <1>2 DEF End, SlotsWaited, sendVars
<1>3. CASE InitializeFromSlot BY <1>3 DEF InitializeFromSlot, SlotsWaited
<1>4. CASE SetEmergencyStop BY <1>4 DEF SetEmergencyStop, Command, SlotsWaited, sendVars
<1>5. CASE \/ \E v \in Speeds \cup {-1, 0} : SetSpeed(v)
           \/ \E b \in BOOLEAN : SetDirection(b)
           \/ \E f \in Functions, b \in BOOLEAN :
                 ForceFunction(f, b) \/ SetFunctionKey(f, b) \/ SetMomentaryFunction(f, b)
  <2>1. UNCHANGED <<active, phase, slotState>>
    BY <1>5 DEF SetSpeed, SetDirection, ForceFunction, SetFunctionKey,
                SetMomentaryFunction, sendVars
  <2> QED BY <2>1 DEF SlotsWaited
<1>6. ASSUME NEW l \in Loconets, LookUp(l) PROVE SlotsWaited'
  BY <1>6 DEF LookUp, SlotsWaited, TypeOK, rowVars, taskVars
<1>7. ASSUME NEW l \in Loconets, Occupy(l) PROVE SlotsWaited'
  <2>1. phase = "waiting" BY <1>7 DEF Occupy, SlotsWaited
  <2>2. /\ slotState' = [slotState EXCEPT ![l] = "Active"] /\ UNCHANGED active
        /\ phase' = IF \A k \in Loconets \ {l} : slotState[k] = "Active"
                    THEN "direction" ELSE phase
    BY <1>7 DEF Occupy, rowVars
  <2> QED BY <2>1, <2>2 DEF SlotsWaited, TypeOK
<1>8. ASSUME NEW l \in Loconets, ReleaseSlot(l) PROVE SlotsWaited'
  BY <1>8 DEF ReleaseSlot, SlotsWaited, TypeOK, rowVars, taskVars
<1>9. ASSUME NEW l \in Loconets, Operate(l) \/ OtherDrives(l) PROVE SlotsWaited'
  <2>1. UNCHANGED <<active, phase, slotState>>
    BY <1>9 DEF Operate, SendStop, PassStop, ReadSpeed, CompareSpeed, CompareDirection,
                NextFunction, OtherDrives, rowVars, taskVars, sendVars
  <2> QED BY <2>1 DEF SlotsWaited
<1>10. CASE UNCHANGED vars BY <1>10 DEF vars, rowVars, taskVars, sendVars, SlotsWaited
<1> QED BY <1>1, <1>2, <1>3, <1>4, <1>5, <1>6, <1>7, <1>8, <1>9, <1>10
        DEF Next, Throttle, SendThread

\* Every step of the task keeps the types.
LEMMA ThrottleStep ==
    ASSUME TypeInv, Throttle
    PROVE  TypeInv'
<1> USE OperationAssumption
<1>0. TypeOK BY DEF TypeInv
<1>1. CASE Begin
  <2>1. /\ sessions' = sessions + 1 /\ sessions < MaxSessions
        /\ phase = "idle" /\ phase' = "waiting" /\ active' = TRUE /\ stopAsked' = FALSE
        /\ UNCHANGED <<speed, reverse, stops, on, momentary, queue, reply, commands,
                       sendVars, station, overtaken>>
    BY <1>1 DEF Begin
  <2>2. StopsBound' BY <1>0, <2>1 DEF TypeInv, TypeOK, StopsBound
  <2>3. sessions' \in 0 .. MaxSessions BY <1>0, <2>1 DEF TypeOK
  <2>4. active' \in BOOLEAN /\ stopAsked' \in BOOLEAN BY <2>1
  <2>5. phase' \in Phases BY <2>1 DEF Phases
  <2>6. TypeOK' BY <1>0, <2>1, <2>3, <2>4, <2>5 DEF TypeOK, sendVars
  <2> QED BY <2>2, <2>6 DEF TypeInv
<1>2. CASE End
  <2>0. UNCHANGED <<speed, reverse, on, momentary, queue, reply, sessions, commands,
                    sendVars, station, history>>
    BY <1>2 DEF End
  <2>1. CASE phase = "commands" /\ phase' = "ending" /\ stops' = stops + 1 /\ UNCHANGED active
    <3>1. stops < sessions + commands BY <2>1 DEF TypeInv, StopsBound
    <3>2. StopsBound' /\ stops' \in 0 .. MaxSessions + MaxCommands
      BY <1>0, <2>0, <2>1, <3>1 DEF TypeOK, StopsBound
    <3>3. TypeOK' BY <1>0, <2>0, <2>1, <3>2 DEF TypeOK, Phases, sendVars, history
    <3> QED BY <3>2, <3>3 DEF TypeInv
  <2>2. CASE phase = "ending" /\ phase' = "idle" /\ active' = FALSE /\ UNCHANGED stops
    BY <1>0, <2>0, <2>2 DEF TypeInv, TypeOK, StopsBound, Phases, sendVars, history
  <2> QED BY <1>2, <2>1, <2>2 DEF End
<1>3. CASE InitializeFromSlot
  <2>0. UNCHANGED <<active, stops, momentary, queue, reply, sessions, commands,
                    slotState, pc, seen, last, temp, station, history>>
    BY <1>3 DEF InitializeFromSlot
  <2>1. /\ reply.reverse \in BOOLEAN /\ reply.on \in [Functions -> BOOLEAN]
        /\ ToWiThrottle(reply.speed) \in -1 .. 126
    BY <1>0, ToWiThrottleType DEF TypeOK, Slots
  <2>2. /\ reverse' \in BOOLEAN /\ speed' \in -1 .. 126
        /\ on' \in [Functions -> BOOLEAN] /\ old' \in SUBSET Loconets
    BY <1>0, <1>3, <2>1 DEF InitializeFromSlot, TypeOK
  <2>3. phase \notin {"idle", "ending"} /\ phase' \in Phases
    BY <1>3 DEF InitializeFromSlot, Phases
  <2>4. StopsBound' BY <2>0, <2>3 DEF TypeInv, StopsBound
  <2>5. TypeOK' BY <1>0, <2>0, <2>2, <2>3 DEF TypeOK, history
  <2> QED BY <2>4, <2>5 DEF TypeInv
<1>4. CASE SetEmergencyStop
  <2>0. UNCHANGED <<active, reverse, on, momentary, queue, reply, sessions,
                    sendVars, station, overtaken>>
    BY <1>4 DEF SetEmergencyStop
  <2>1. CASE Command /\ phase' = "stopping" /\ stops' = stops + 1 /\ stopAsked' = TRUE
             /\ UNCHANGED speed
    <3>1. phase = "commands" BY <2>1 DEF Command
    <3>2. commands' = commands + 1 /\ commands' \in 0 .. MaxCommands
      BY <1>0, <2>1, CommandType
    <3>3. StopsBound' /\ stops' \in 0 .. MaxSessions + MaxCommands
      BY <1>0, <2>0, <2>1, <3>1, <3>2 DEF TypeInv, TypeOK, StopsBound
    <3>4. TypeOK' BY <1>0, <2>0, <2>1, <3>2, <3>3 DEF TypeOK, Phases, sendVars
    <3> QED BY <3>3, <3>4 DEF TypeInv
  <2>2. CASE phase = "stopping" /\ phase' = "commands" /\ speed' = 0
             /\ UNCHANGED <<stops, stopAsked, commands>>
    BY <1>0, <2>0, <2>2 DEF TypeInv, TypeOK, StopsBound, Phases, sendVars
  <2> QED BY <1>4, <2>1, <2>2 DEF SetEmergencyStop
<1>5. ASSUME NEW v \in Speeds \cup {-1, 0}, SetSpeed(v) PROVE TypeInv'
  <2>1. v \in -1 .. 126 OBVIOUS
  <2> QED BY <1>0, <1>5, <2>1, CommandStep DEF SetSpeed, TypeOK
<1>6. ASSUME NEW b \in BOOLEAN, SetDirection(b) PROVE TypeInv'
  BY <1>0, <1>6, CommandStep DEF SetDirection, TypeOK, history
<1>7. ASSUME NEW f \in Functions, NEW b \in BOOLEAN, ForceFunction(f, b) PROVE TypeInv'
  <2>1. SetNewState(f, b) BY <1>7 DEF ForceFunction
  <2>2. on' \in [Functions -> BOOLEAN] /\ queue' \in Seq([number : Functions, isOn : BOOLEAN])
    BY <1>0, <2>1, SetNewStateType
  <2> QED BY <1>0, <1>7, <2>2, CommandStep DEF ForceFunction, TypeOK, history
<1>8. ASSUME NEW f \in Functions, NEW b \in BOOLEAN, SetFunctionKey(f, b) PROVE TypeInv'
  <2>1. (~on[f]) \in BOOLEAN OBVIOUS
  <2>2. \/ \E x \in BOOLEAN : SetNewState(f, x)
        \/ UNCHANGED <<on, queue>>
    BY <1>8, <2>1 DEF SetFunctionKey
  <2>3. on' \in [Functions -> BOOLEAN] /\ queue' \in Seq([number : Functions, isOn : BOOLEAN])
    <3>1. CASE \E x \in BOOLEAN : SetNewState(f, x) BY <1>0, <3>1, SetNewStateType
    <3>2. CASE UNCHANGED <<on, queue>> BY <1>0, <3>2 DEF TypeOK
    <3> QED BY <2>2, <3>1, <3>2
  <2>4. /\ Command
        /\ UNCHANGED <<active, speed, reverse, stops, momentary, phase, reply, sessions,
                       sendVars, station, history>>
    BY <1>8 DEF SetFunctionKey
  <2> QED BY <1>0, <2>3, <2>4, CommandStep DEF TypeOK, history
<1>9. ASSUME NEW f \in Functions, NEW b \in BOOLEAN, SetMomentaryFunction(f, b) PROVE TypeInv'
  BY <1>0, <1>9, CommandStep DEF SetMomentaryFunction, TypeOK, history
<1> QED BY <1>1, <1>2, <1>3, <1>4, <1>5, <1>6, <1>7, <1>8, <1>9 DEF Throttle

\* What a thread's step between two passes keeps.
LEMMA GotoType ==
    ASSUME TypeOK, NEW l \in Loconets,
           NEW at \in {"poll", "speed", "byte", "direction", "function"}, Goto(l, at)
    PROVE  pc' \in [Loconets -> {"poll", "speed", "byte", "direction", "function"}]
BY DEF Goto, TypeOK

\* Every step of a send thread keeps the types.
LEMMA SendThreadStep ==
    ASSUME TypeInv, SlotsWaited, NEW l \in Loconets, SendThread(l)
    PROVE  TypeInv'
<1>0. TypeOK BY DEF TypeInv
<1>1. CASE LookUp(l)
  BY <1>0, <1>1, ThreadStep DEF LookUp, TypeOK, rowVars, taskVars
<1>2. CASE Occupy(l)
  <2>1. phase = "waiting" BY <1>2 DEF Occupy, SlotsWaited
  <2>2. /\ slotState' = [slotState EXCEPT ![l] = "Active"]
        /\ phase' \in {"waiting", "direction"}
        /\ reply' = IF l = Last THEN station[l] ELSE reply
        /\ UNCHANGED <<rowVars, sessions, commands, pc, seen, last, temp, old, station, history>>
    BY <1>2, <2>1 DEF Occupy
  <2>3. StopsBound' BY <2>1, <2>2 DEF TypeInv, StopsBound, rowVars
  <2>4. reply' \in Slots /\ slotState' \in [Loconets -> {"Inactive", "Found", "Active"}]
    BY <1>0, <2>2 DEF TypeOK
  <2>5. TypeOK' BY <1>0, <2>2, <2>4 DEF TypeOK, rowVars, history, Phases
  <2> QED BY <2>3, <2>5 DEF TypeInv
<1>3. CASE ReleaseSlot(l)
  BY <1>0, <1>3, ThreadStep DEF ReleaseSlot, TypeOK, rowVars, taskVars, history
<1>4. CASE SendStop(l)
  <2>1. SendSpeed(l, 1) /\ seen' = [seen EXCEPT ![l] = stops] BY <1>4 DEF SendStop
  <2>2. /\ last' \in [Loconets -> Slots] /\ station' \in [Loconets -> Slots]
        /\ overtaken' \in [Loconets -> BOOLEAN]
    BY <1>0, <2>1, SendSpeedType
  <2>3. seen' \in [Loconets -> 0 .. MaxSessions + MaxCommands] BY <1>0, <2>1 DEF TypeOK
  <2> QED BY <1>0, <1>4, <2>2, <2>3, ThreadStep DEF SendStop, TypeOK, rowVars, taskVars
<1>5. CASE PassStop(l)
  <2>1. pc' \in [Loconets -> {"poll", "speed", "byte", "direction", "function"}]
    BY <1>0, <1>5, GotoType DEF PassStop
  <2> QED BY <1>0, <1>5, <2>1, ThreadStep DEF PassStop, TypeOK, rowVars, taskVars, history
<1>6. CASE ReadSpeed(l)
  <2>1. pc' \in [Loconets -> {"poll", "speed", "byte", "direction", "function"}]
    BY <1>0, <1>6, GotoType DEF ReadSpeed
  <2> QED BY <1>0, <1>6, <2>1, ThreadStep DEF ReadSpeed, TypeOK, rowVars, taskVars, history
<1>7. CASE CompareSpeed(l)
  <2>1. pc' \in [Loconets -> {"poll", "speed", "byte", "direction", "function"}]
    BY <1>0, <1>7, GotoType DEF CompareSpeed
  <2>2. /\ \/ SendSpeed(l, RequestedByte(l))
           \/ UNCHANGED <<last, station, overtaken>>
        /\ temp' = [temp EXCEPT ![l] = 0] /\ old' = old \ {l}
        /\ UNCHANGED <<rowVars, taskVars, slotState, seen, stopAsked>>
    BY <1>7 DEF CompareSpeed
  <2>3. RequestedByte(l) \in 0 .. 127 BY <1>0, RequestedByteType
  <2>4. /\ last' \in [Loconets -> Slots] /\ station' \in [Loconets -> Slots]
        /\ overtaken' \in [Loconets -> BOOLEAN]
    <3>1. CASE SendSpeed(l, RequestedByte(l)) BY <1>0, <2>3, <3>1, SendSpeedType
    <3>2. CASE UNCHANGED <<last, station, overtaken>> BY <1>0, <3>2 DEF TypeOK
    <3> QED BY <2>2, <3>1, <3>2
  <2>5. temp' \in [Loconets -> -1 .. 126] /\ old' \in SUBSET Loconets
    BY <1>0, <2>2 DEF TypeOK
  <2> QED BY <1>0, <2>1, <2>2, <2>4, <2>5, ThreadStep DEF TypeOK, rowVars, taskVars
<1>8. CASE CompareDirection(l)
  <2>1. pc' \in [Loconets -> {"poll", "speed", "byte", "direction", "function"}]
    BY <1>0, <1>8, GotoType DEF CompareDirection
  <2> DEFINE sent == [last[l] EXCEPT !.reverse = reverse]
  <2>2. /\ \/ Send(l, sent, LocoDirf(station[l], sent))
           \/ UNCHANGED <<last, station>>
        /\ UNCHANGED <<rowVars, taskVars, slotState, seen, temp, old, history>>
    BY <1>8 DEF CompareDirection
  <2>3. sent \in Slots /\ LocoDirf(station[l], sent) \in Slots
    <3>1. last[l] \in Slots /\ station[l] \in Slots /\ reverse \in BOOLEAN BY <1>0 DEF TypeOK
    <3>2. sent \in Slots BY <3>1 DEF Slots
    <3> QED BY <3>1, <3>2, MessageTypes
  <2>4. last' \in [Loconets -> Slots] /\ station' \in [Loconets -> Slots]
    <3>1. CASE Send(l, sent, LocoDirf(station[l], sent)) BY <1>0, <2>3, <3>1, SendType
    <3>2. CASE UNCHANGED <<last, station>> BY <1>0, <3>2 DEF TypeOK
    <3> QED BY <2>2, <3>1, <3>2
  <2> HIDE DEF sent
  <2> QED BY <1>0, <2>1, <2>2, <2>4, ThreadStep DEF TypeOK, rowVars, taskVars, history
<1>9. CASE NextFunction(l)
  <2>1. pc' \in [Loconets -> {"poll", "speed", "byte", "direction", "function"}]
    BY <1>0, <1>9, GotoType DEF NextFunction
  <2>2. UNCHANGED <<active, speed, reverse, stops, on, momentary, taskVars, slotState,
                    seen, temp, old, history>>
    BY <1>9 DEF NextFunction
  <2>3. /\ last' \in [Loconets -> Slots] /\ station' \in [Loconets -> Slots]
        /\ queue' \in Seq([number : Functions, isOn : BOOLEAN])
    <3>1. CASE UNCHANGED <<queue, last, station>> BY <1>0, <3>1 DEF TypeOK
    <3>2. CASE queue # <<>> /\ queue' = Tail(queue) /\ SendFunction(l, Head(queue))
      <4>1. queue \in Seq([number : Functions, isOn : BOOLEAN]) BY <1>0 DEF TypeOK
      <4>2. /\ Head(queue) \in [number : Functions, isOn : BOOLEAN]
            /\ Tail(queue) \in Seq([number : Functions, isOn : BOOLEAN])
        BY <3>2, <4>1, HeadTailProperties
      <4> QED BY <1>0, <3>2, <4>2, SendFunctionType
    <3> QED BY <1>9, <3>1, <3>2 DEF NextFunction
  <2> QED BY <1>0, <2>1, <2>2, <2>3, ThreadStep DEF TypeOK, taskVars, history
<1> QED BY <1>1, <1>2, <1>3, <1>4, <1>5, <1>6, <1>7, <1>8, <1>9 DEF SendThread, Operate

\* So does every other step.
LEMMA TypeStep ==
    ASSUME TypeInv, SlotsWaited, [Next]_vars
    PROVE  TypeInv'
<1>0. TypeOK BY DEF TypeInv
<1>1. CASE Throttle BY <1>1, ThrottleStep
<1>2. ASSUME NEW l \in Loconets, SendThread(l) PROVE TypeInv' BY <1>2, SendThreadStep
<1>3. ASSUME NEW l \in Loconets, OtherDrives(l) PROVE TypeInv'
  <2>1. PICK v \in Speeds : station' = [station EXCEPT ![l].speed = v + 1]
    BY <1>3 DEF OtherDrives
  <2>2. v + 1 \in 0 .. 127 BY <2>1, OperationAssumption
  <2>3. station[l] \in Slots BY <1>0 DEF TypeOK
  <2>4. [station[l] EXCEPT !.speed = v + 1] \in Slots BY <2>2, <2>3 DEF Slots
  <2>5. station' = [station EXCEPT ![l] = [station[l] EXCEPT !.speed = v + 1]]
    BY <1>0, <2>1 DEF TypeOK
  <2>6. station' \in [Loconets -> Slots] BY <1>0, <2>4, <2>5 DEF TypeOK
  <2>7. overtaken' \in [Loconets -> BOOLEAN] BY <1>0, <1>3 DEF OtherDrives, TypeOK
  <2> QED BY <1>0, <1>3, <2>6, <2>7, ThreadStep
          DEF OtherDrives, TypeOK, rowVars, taskVars, sendVars
<1>4. CASE UNCHANGED vars
  BY <1>0, <1>4, ThreadStep DEF vars, rowVars, taskVars, sendVars, history, TypeOK
<1> QED BY <1>1, <1>2, <1>3, <1>4 DEF Next

\* Every variable keeps its type (LocoRowImpl, FunctionProcessing, SlotControl):
\* the getter of Speed.LocoNet always gives a byte of seven bits, even when the
\* speed changes between its two reads.
THEOREM OperationTypes == Spec => []TypeOK
<1>1. Init => TypeInv /\ SlotsWaited
  <2> SUFFICES ASSUME Init PROVE TypeInv /\ SlotsWaited OBVIOUS
  <2>1. Idle \in Slots /\ Idle.on \in [Functions -> BOOLEAN] BY DEF Idle, Slots
  <2>2. StopsBound /\ SlotsWaited BY DEF Init, StopsBound, SlotsWaited
  <2>3. active \in BOOLEAN /\ reverse \in BOOLEAN /\ stopAsked \in BOOLEAN BY DEF Init
  <2>4. TypeOK BY OperationAssumption, <2>1, <2>3 DEF Init, TypeOK, Phases
  <2> QED BY <2>2, <2>4 DEF TypeInv
<1>2. TypeInv /\ SlotsWaited /\ [Next]_vars => TypeInv' /\ SlotsWaited'
  BY TypeStep, SlotsStep DEF TypeInv
<1>3. TypeInv => TypeOK BY DEF TypeInv
<1> QED BY <1>1, <1>2, <1>3, PTL DEF Spec

\* A slot is looked up only while the task waits for it.
LEMMA AlwaysSlotsWaited == Spec => []SlotsWaited
<1>1. Init => SlotsWaited BY DEF Init, SlotsWaited
<1>2. TypeOK /\ SlotsWaited /\ [Next]_vars => SlotsWaited' BY SlotsStep
<1> QED BY <1>1, <1>2, OperationTypes, PTL DEF Spec

----------------------------------------------------------------------------
(* Functions on their way to the only LocoNet. *)

\* The row was never added, or its task has not yet taken what the slot has.
Fresh ==
    \/ sessions = 0
    \/ sessions = 1 /\ phase \in {"waiting", "direction", "speed", "functions"}

\* Until then no function is on, anywhere, and none is queued.
QueueStarts ==
    /\ sessions = 0 => phase = "idle"
    /\ Fresh => /\ queue = <<>> /\ on = Idle.on /\ reply.on = Idle.on
                /\ \A l \in Loconets : station[l].on = Idle.on /\ last[l].on = Idle.on

LEMMA FreshPends ==
    ASSUME QueueStarts, Fresh
    PROVE  FunctionsPending
BY DEF QueueStarts, FunctionsPending

\* No speed, direction or stop touches a function of a fresh row.
LEMMA FreshSend ==
    ASSUME TypeOK, NEW l \in Loconets, NEW sent \in Slots, NEW received \in Slots,
           sent.on = Idle.on, received.on = Idle.on,
           \A k \in Loconets : station[k].on = Idle.on /\ last[k].on = Idle.on,
           Send(l, sent, received)
    PROVE  \A k \in Loconets : station'[k].on = Idle.on /\ last'[k].on = Idle.on
BY DEF Send, TypeOK

\* What the messages leave of the functions.
LEMMA MessageFunctions ==
    ASSUME NEW slot \in Slots, NEW sent \in Slots, slot.on = Idle.on, sent.on = Idle.on
    PROVE  LocoSpd(slot, sent).on = Idle.on /\ LocoDirf(slot, sent).on = Idle.on
<1>1. LocoSpd(slot, sent).on = Idle.on BY DEF LocoSpd, Slots
<1>2. LocoDirf(slot, sent).on = [f \in Functions |-> IF f \in DirfBits THEN sent.on[f] ELSE slot.on[f]]
  BY DEF LocoDirf, Slots
<1>3. \A f \in Functions : sent.on[f] = FALSE /\ slot.on[f] = FALSE BY DEF Idle
<1>4. Idle.on = [f \in Functions |-> FALSE] BY DEF Idle
<1> QED BY <1>1, <1>2, <1>3, <1>4

LEMMA FreshStep ==
    ASSUME TypeOK, SlotsWaited, QueueStarts, [Next]_vars
    PROVE  QueueStarts'
<1>1. CASE Begin
  <2>1. sessions = 0 \/ sessions' # 1 BY <1>1 DEF Begin, TypeOK
  <2>2. sessions' # 0 BY <1>1 DEF Begin, TypeOK
  <2>3. UNCHANGED <<queue, on, reply, station, last>> BY <1>1 DEF Begin, sendVars
  <2> QED BY <2>1, <2>2, <2>3 DEF QueueStarts, Fresh
<1>2. CASE \/ End \/ SetEmergencyStop
           \/ \E v \in Speeds \cup {-1, 0} : SetSpeed(v)
           \/ \E b \in BOOLEAN : SetDirection(b)
           \/ \E f \in Functions, b \in BOOLEAN :
                 ForceFunction(f, b) \/ SetFunctionKey(f, b) \/ SetMomentaryFunction(f, b)
  <2>1. /\ phase \in {"commands", "stopping", "ending"} /\ UNCHANGED sessions
        /\ phase' \in {"commands", "stopping", "ending", "idle"}
    BY <1>2 DEF End, SetEmergencyStop, SetSpeed, SetDirection, ForceFunction,
                SetFunctionKey, SetMomentaryFunction, Command
  <2>2. sessions # 0 BY <2>1 DEF QueueStarts
  <2> QED BY <2>1, <2>2 DEF QueueStarts, Fresh
<1>3. CASE InitializeFromSlot
  <2>1. /\ UNCHANGED <<sessions, queue, reply, station, last>>
        /\ phase \in {"direction", "speed", "functions"}
    BY <1>3 DEF InitializeFromSlot
  <2>2. sessions # 0 BY <2>1 DEF QueueStarts
  <2>3. phase' = "commands" \/ UNCHANGED on BY <1>3 DEF InitializeFromSlot
  <2> QED BY <2>1, <2>2, <2>3 DEF QueueStarts, Fresh
<1>4. ASSUME NEW l \in Loconets, LookUp(l) PROVE QueueStarts'
  <2>1. /\ last' = [last EXCEPT ![l] = station[l]]
        /\ UNCHANGED <<sessions, phase, queue, on, reply, station>>
    BY <1>4 DEF LookUp, rowVars, taskVars
  <2> QED BY <2>1 DEF QueueStarts, Fresh, TypeOK
<1>5. ASSUME NEW l \in Loconets, Occupy(l) PROVE QueueStarts'
  <2>1. phase = "waiting" BY <1>5 DEF Occupy, SlotsWaited
  <2>2. /\ reply' = IF l = Last THEN station[l] ELSE reply
        /\ UNCHANGED <<sessions, queue, on, last, station>>
    BY <1>5 DEF Occupy, rowVars
  <2> QED BY <2>1, <2>2, OperationAssumption DEF QueueStarts, Fresh
<1>6. ASSUME NEW l \in Loconets,
             ReleaseSlot(l) \/ PassStop(l) \/ ReadSpeed(l)
      PROVE  QueueStarts'
  <2>1. UNCHANGED <<sessions, phase, queue, on, reply, station, last>>
    BY <1>6 DEF ReleaseSlot, PassStop, ReadSpeed, rowVars, taskVars
  <2> QED BY <2>1 DEF QueueStarts, Fresh
<1>7. ASSUME NEW l \in Loconets, SendStop(l) \/ CompareSpeed(l) \/ CompareDirection(l)
      PROVE  QueueStarts'
  <2>1. UNCHANGED <<sessions, phase, queue, on, reply>>
    BY <1>7 DEF SendStop, CompareSpeed, CompareDirection, rowVars, taskVars
  <2> SUFFICES ASSUME Fresh
               PROVE  \A k \in Loconets : station'[k].on = Idle.on /\ last'[k].on = Idle.on
    BY <2>1 DEF QueueStarts, Fresh
  <2>2. \A k \in Loconets : station[k].on = Idle.on /\ last[k].on = Idle.on
    BY DEF QueueStarts
  <2>3. /\ last[l] \in Slots /\ station[l] \in Slots /\ reverse \in BOOLEAN
        /\ RequestedByte(l) \in 0 .. 127
    BY RequestedByteType DEF TypeOK
  <2>4. ASSUME NEW byte \in 0 .. 127, SendSpeed(l, byte)
        PROVE  \A k \in Loconets : station'[k].on = Idle.on /\ last'[k].on = Idle.on
    <3> DEFINE sent == [last[l] EXCEPT !.speed = byte]
    <3>1. sent \in Slots /\ sent.on = Idle.on BY <2>2, <2>3 DEF Slots
    <3>2. LocoSpd(station[l], sent) \in Slots /\ LocoSpd(station[l], sent).on = Idle.on
      BY <2>2, <2>3, <3>1, MessageTypes, MessageFunctions
    <3>3. Send(l, sent, LocoSpd(station[l], sent)) BY <2>4 DEF SendSpeed
    <3> QED BY <2>2, <3>1, <3>2, <3>3, FreshSend
  <2>5. CASE SendStop(l) BY <2>4, <2>5 DEF SendStop
  <2>6. CASE CompareSpeed(l)
    <3>1. SendSpeed(l, RequestedByte(l)) \/ UNCHANGED <<last, station>>
      BY <2>6 DEF CompareSpeed
    <3> QED BY <2>2, <2>3, <2>4, <3>1
  <2>7. CASE CompareDirection(l)
    <3> DEFINE sent == [last[l] EXCEPT !.reverse = reverse]
    <3>1. sent \in Slots /\ sent.on = Idle.on BY <2>2, <2>3 DEF Slots
    <3>2. LocoDirf(station[l], sent) \in Slots /\ LocoDirf(station[l], sent).on = Idle.on
      BY <2>2, <2>3, <3>1, MessageTypes, MessageFunctions
    <3>3. Send(l, sent, LocoDirf(station[l], sent)) \/ UNCHANGED <<last, station>>
      BY <2>7 DEF CompareDirection
    <3> HIDE DEF sent
    <3> QED BY <2>2, <3>1, <3>2, <3>3, FreshSend
  <2> QED BY <1>7, <2>5, <2>6, <2>7
<1>8. ASSUME NEW l \in Loconets, NextFunction(l) PROVE QueueStarts'
  <2>1. UNCHANGED <<sessions, phase, on, reply>> BY <1>8 DEF NextFunction, taskVars
  <2>2. Fresh => UNCHANGED <<queue, last, station>> BY <1>8 DEF NextFunction, QueueStarts
  <2> QED BY <2>1, <2>2 DEF QueueStarts, Fresh
<1>9. ASSUME NEW l \in Loconets, OtherDrives(l) PROVE QueueStarts'
  <2>1. UNCHANGED <<sessions, phase, queue, on, reply, last>>
    BY <1>9 DEF OtherDrives, rowVars, taskVars, sendVars
  <2>2. PICK v \in Speeds : station' = [station EXCEPT ![l].speed = v + 1]
    BY <1>9 DEF OtherDrives
  <2>3. \A k \in Loconets : station[k] \in Slots BY DEF TypeOK
  <2>4. \A k \in Loconets : station'[k].on = station[k].on
    BY <2>2, <2>3 DEF Slots, TypeOK
  <2> QED BY <2>1, <2>4 DEF QueueStarts, Fresh
<1>10. CASE UNCHANGED vars
  BY <1>10 DEF vars, rowVars, taskVars, sendVars, QueueStarts, Fresh
<1> QED BY <1>1, <1>2, <1>3, <1>4, <1>5, <1>6, <1>7, <1>8, <1>9, <1>10
        DEF Next, Throttle, SendThread, Operate

\* A function state is queued as it is set.
LEMMA EnqueueStep ==
    ASSUME TypeOK, FunctionsPending, NEW f \in Functions, NEW b \in BOOLEAN,
           SetNewState(f, b), UNCHANGED <<sessions, last>>
    PROVE  FunctionsPending'
<1> DEFINE Entries == [number : Functions, isOn : BOOLEAN]
<1>1. queue \in Seq(Entries) /\ [number |-> f, isOn |-> b] \in Entries BY DEF TypeOK
<1>2. /\ Len(queue) \in Nat
      /\ Len(queue') = Len(queue) + 1
      /\ \A i \in 1 .. Len(queue) : queue'[i] = queue[i]
      /\ queue'[Len(queue) + 1] = [number |-> f, isOn |-> b]
  BY <1>1 DEF SetNewState
<1>3. on' = [on EXCEPT ![f] = b] /\ on \in [Functions -> BOOLEAN]
  BY DEF SetNewState, TypeOK
<1>4. ASSUME sessions' <= 1, NEW g \in SlotBits, NEW i \in 1 .. Len(queue'), Latest(g, i)'
      PROVE  queue'[i].isOn = on'[g]
  <2>1. CASE i = Len(queue) + 1 BY <1>2, <1>3, <1>4, <2>1 DEF Latest
  <2>2. CASE i \in 1 .. Len(queue)
    <3>1. f # g
      <4>1. Len(queue) + 1 \in i + 1 .. Len(queue') BY <1>2, <2>2
      <4> QED BY <1>2, <1>4, <4>1 DEF Latest
    <3>2. Latest(g, i)
      <4>1. queue[i].number = g BY <1>2, <1>4, <2>2 DEF Latest
      <4>2. ASSUME NEW j \in i + 1 .. Len(queue) PROVE queue[j].number # g
        <5>1. j \in 1 .. Len(queue) /\ j \in i + 1 .. Len(queue') BY <1>2, <2>2, <4>2
        <5> QED BY <1>2, <1>4, <5>1 DEF Latest
      <4> QED BY <4>1, <4>2 DEF Latest
    <3> QED BY <1>2, <1>3, <1>4, <2>2, <3>1, <3>2 DEF FunctionsPending
  <2> QED BY <1>2, <1>4, <2>1, <2>2
<1>5. ASSUME sessions' <= 1, NEW g \in SlotBits,
             \A i \in 1 .. Len(queue') : queue'[i].number # g
      PROVE  \A l \in Loconets : last'[l].on[g] = on'[g]
  <2>1. Len(queue) + 1 \in 1 .. Len(queue') BY <1>2
  <2>2. f # g BY <1>2, <1>5, <2>1
  <2>3. \A i \in 1 .. Len(queue) : queue[i].number # g
    <3>1. \A i \in 1 .. Len(queue) : i \in 1 .. Len(queue') BY <1>2
    <3> QED BY <1>2, <1>5, <3>1
  <2> QED BY <1>3, <1>5, <2>2, <2>3 DEF FunctionsPending
<1> QED BY <1>4, <1>5 DEF FunctionsPending

\* The head of the queue is what is sent next.
LEMMA DequeueStep ==
    ASSUME TypeOK, FunctionsPending, NEW l, Loconets = {l}, queue # <<>>,
           IF Head(queue).number \in SlotBits
           THEN last' = [last EXCEPT ![l].on[Head(queue).number] = Head(queue).isOn]
           ELSE last' = last,
           queue' = Tail(queue), UNCHANGED <<sessions, on>>
    PROVE  FunctionsPending'
<1> DEFINE Entries == [number : Functions, isOn : BOOLEAN]
           f == queue[1].number
           b == queue[1].isOn
<1>1. queue \in Seq(Entries) BY DEF TypeOK
<1>2. /\ Len(queue) \in Nat /\ Len(queue) > 0
      /\ Len(queue') = Len(queue) - 1
      /\ \A i \in 1 .. Len(queue') : queue'[i] = queue[i + 1]
      /\ Head(queue) = queue[1]
  BY <1>1, HeadTailProperties
<1>3. queue[1] \in Entries BY <1>1, <1>2, HeadTailProperties
<1>4. /\ last'[l].on = IF f \in SlotBits THEN [last[l].on EXCEPT ![f] = b] ELSE last[l].on
      /\ last[l].on \in [Functions -> BOOLEAN]
  <2>1. last[l] \in Slots /\ last \in [Loconets -> Slots] BY DEF TypeOK
  <2> QED BY <1>2, <1>3, <2>1 DEF Slots
<1>5. ASSUME sessions' <= 1, NEW g \in SlotBits, NEW i \in 1 .. Len(queue'), Latest(g, i)'
      PROVE  queue'[i].isOn = on'[g]
  <2>1. i + 1 \in 1 .. Len(queue) BY <1>2
  <2>2. queue[i + 1].number = g BY <1>2, <1>5 DEF Latest
  <2>3. ASSUME NEW j \in (i + 1) + 1 .. Len(queue) PROVE queue[j].number # g
    <3>1. j - 1 \in i + 1 .. Len(queue') /\ j - 1 \in 1 .. Len(queue') /\ (j - 1) + 1 = j
      BY <1>2
    <3> QED BY <1>2, <1>5, <3>1 DEF Latest
  <2>4. Latest(g, i + 1) BY <2>2, <2>3 DEF Latest
  <2> QED BY <1>2, <1>5, <2>1, <2>4 DEF FunctionsPending
<1>6. ASSUME sessions' <= 1, NEW g \in SlotBits,
             \A i \in 1 .. Len(queue') : queue'[i].number # g
      PROVE  last'[l].on[g] = on'[g]
  <2>1. ASSUME NEW j \in 2 .. Len(queue) PROVE queue[j].number # g
    <3>1. j - 1 \in 1 .. Len(queue') /\ (j - 1) + 1 = j BY <1>2
    <3> QED BY <1>2, <1>6, <3>1
  <2>2. CASE f = g
    <3>1. Latest(g, 1) /\ 1 \in 1 .. Len(queue) BY <1>2, <2>1, <2>2 DEF Latest
    <3>2. b = on[g] BY <1>6, <3>1 DEF FunctionsPending
    <3> QED BY <1>3, <1>4, <2>2, <3>2
  <2>3. CASE f # g
    <3>1. \A i \in 1 .. Len(queue) : i = 1 \/ i \in 2 .. Len(queue) BY <1>2
    <3>2. \A i \in 1 .. Len(queue) : queue[i].number # g BY <2>1, <2>3, <3>1
    <3>3. last[l].on[g] = on[g] BY <1>6, <3>2 DEF FunctionsPending
    <3> QED BY <1>3, <1>4, <2>3, <3>3
  <2> QED BY <2>2, <2>3
<1> QED BY <1>5, <1>6 DEF FunctionsPending

\* A step that leaves the queue, the row's functions and those sent alone.
LEMMA QuietStep ==
    ASSUME FunctionsPending, UNCHANGED <<sessions, on, queue>>,
           \A l \in Loconets : last'[l].on = last[l].on
    PROVE  FunctionsPending'
BY DEF FunctionsPending, QueueStarts, FunctionsPending, Latest

LEMMA PendingStep ==
    ASSUME TypeOK, SlotsWaited, QueueStarts, FunctionsPending, NEW l, Loconets = {l},
           [Next]_vars
    PROVE  FunctionsPending'
<1>0. l \in Loconets /\ last \in [Loconets -> Slots] /\ last[l] \in Slots BY DEF TypeOK
<1>1. QueueStarts' BY FreshStep
<1>2. CASE Begin \/ InitializeFromSlot
  <2>1. CASE sessions' <= 1
    <3>1. CASE Begin
      <4>1. sessions' = 1 /\ phase' = "waiting" BY <2>1, <3>1 DEF Begin, TypeOK
      <4>2. Fresh' BY <4>1 DEF Fresh
      <4> QED BY <1>1, <4>2 DEF QueueStarts, FunctionsPending
    <3>2. CASE InitializeFromSlot
      <4>1. phase \in {"direction", "speed", "functions"} /\ UNCHANGED <<sessions, queue, last>>
        BY <3>2 DEF InitializeFromSlot
      <4>2. sessions = 1 BY <2>1, <4>1 DEF QueueStarts, TypeOK
      <4>3. Fresh BY <4>1, <4>2 DEF Fresh
      <4>4. queue = <<>> /\ on = Idle.on /\ reply.on = Idle.on /\ last[l].on = Idle.on
        BY <1>0, <4>3 DEF QueueStarts
      <4>5. \A f \in SlotBits : on'[f] = on[f]
        BY <3>2, <4>4, OperationAssumption DEF InitializeFromSlot
      <4> QED BY <1>0, <4>1, <4>4, <4>5 DEF FunctionsPending
    <3> QED BY <1>2, <3>1, <3>2
  <2>2. CASE ~(sessions' <= 1) BY <2>2 DEF FunctionsPending
  <2> QED BY <2>1, <2>2
<1>3. CASE \/ End \/ SetEmergencyStop
           \/ \E v \in Speeds \cup {-1, 0} : SetSpeed(v)
           \/ \E b \in BOOLEAN : SetDirection(b)
           \/ \E f \in Functions, b \in BOOLEAN : SetMomentaryFunction(f, b)
  <2>1. UNCHANGED <<sessions, on, queue, last>>
    BY <1>3 DEF End, SetEmergencyStop, SetSpeed, SetDirection, SetMomentaryFunction, sendVars
  <2> QED BY <2>1, QuietStep
<1>4. ASSUME NEW f \in Functions, NEW b \in BOOLEAN, ForceFunction(f, b)
      PROVE  FunctionsPending'
  BY <1>4, EnqueueStep DEF ForceFunction, sendVars
<1>5. ASSUME NEW f \in Functions, NEW b \in BOOLEAN, SetFunctionKey(f, b)
      PROVE  FunctionsPending'
  <2>1. UNCHANGED <<sessions, last>> BY <1>5 DEF SetFunctionKey, sendVars
  <2>2. (~on[f]) \in BOOLEAN OBVIOUS
  <2>3. \/ \E x \in BOOLEAN : SetNewState(f, x)
        \/ UNCHANGED <<on, queue>>
    BY <1>5, <2>2 DEF SetFunctionKey
  <2> QED BY <2>1, <2>3, EnqueueStep, QuietStep
<1>6. CASE LookUp(l)
  <2>1. CASE sessions' <= 1
    <3>1. phase = "waiting" /\ UNCHANGED <<sessions, phase>>
      BY <1>0, <1>6 DEF LookUp, SlotsWaited, taskVars
    <3>2. sessions = 1 BY <2>1, <3>1 DEF QueueStarts, TypeOK
    <3>3. Fresh' BY <3>1, <3>2 DEF Fresh
    <3> QED BY <1>1, <3>3 DEF QueueStarts, FunctionsPending
  <2>2. CASE ~(sessions' <= 1) BY <2>2 DEF FunctionsPending
  <2> QED BY <2>1, <2>2
<1>7. CASE \/ Occupy(l) \/ ReleaseSlot(l) \/ PassStop(l) \/ ReadSpeed(l) \/ OtherDrives(l)
           \/ UNCHANGED vars
  <2>1. UNCHANGED <<sessions, on, queue, last>>
    BY <1>7 DEF Occupy, ReleaseSlot, PassStop, ReadSpeed, OtherDrives, vars, rowVars,
                taskVars, sendVars
  <2> QED BY <2>1, QuietStep
<1>8. CASE SendStop(l) \/ CompareSpeed(l) \/ CompareDirection(l)
  <2>1. UNCHANGED <<sessions, on, queue>>
    BY <1>8 DEF SendStop, CompareSpeed, CompareDirection, rowVars, taskVars
  <2>2. \/ \E byte : last' = [last EXCEPT ![l] = [last[l] EXCEPT !.speed = byte]]
        \/ last' = [last EXCEPT ![l] = [last[l] EXCEPT !.reverse = reverse]]
        \/ UNCHANGED last
    BY <1>8 DEF SendStop, CompareSpeed, CompareDirection, SendSpeed, Send
  <2>3. last'[l].on = last[l].on BY <1>0, <2>2 DEF Slots
  <2> QED BY <2>1, <2>3, QuietStep
<1>9. CASE NextFunction(l)
  <2>1. UNCHANGED <<sessions, on>> BY <1>9 DEF NextFunction, taskVars
  <2>2. CASE UNCHANGED <<queue, last, station>> BY <2>1, <2>2, QuietStep
  <2>3. CASE queue # <<>> /\ queue' = Tail(queue) /\ SendFunction(l, Head(queue))
    <3>1. IF Head(queue).number \in SlotBits
          THEN last' = [last EXCEPT ![l].on[Head(queue).number] = Head(queue).isOn]
          ELSE last' = last
      BY <1>0, <2>3, OperationAssumption DEF Send, SendFunction
    <3> QED BY <2>1, <2>3, <3>1, DequeueStep
  <2> QED BY <1>9, <2>2, <2>3 DEF NextFunction
<1> QED BY <1>2, <1>3, <1>4, <1>5, <1>6, <1>7, <1>8, <1>9
        DEF Next, Throttle, SendThread, Operate

\* With one LocoNet, and as long as the loco is added once, no function state is
\* lost or overtaken between the row and what was sent, however long the queue
\* is (FunctionProcessing._functionQueue, LoconetSend.Operate).
THEOREM FunctionsReachOnlyLoconet ==
    ASSUME NEW l, Loconets = {l}
    PROVE  Spec => []FunctionsPending
<1>1. Init => QueueStarts /\ FunctionsPending
  <2> SUFFICES ASSUME Init PROVE QueueStarts /\ FunctionsPending OBVIOUS
  <2>1. QueueStarts BY DEF Init, QueueStarts
  <2>2. Fresh BY DEF Init, Fresh
  <2> QED BY <2>1, <2>2, FreshPends
<1>2. TypeOK /\ SlotsWaited /\ QueueStarts /\ FunctionsPending /\ [Next]_vars
         => QueueStarts' /\ FunctionsPending'
  BY FreshStep, PendingStep
<1> QED BY <1>1, <1>2, OperationTypes, AlwaysSlotsWaited, PTL DEF Spec

=============================================================================
