------------------------------ MODULE LocoRow ------------------------------
(***************************************************************************)
(* One row of the loco table: the object through which the throttles       *)
(* (WiThrottle side) and the LocoNet send threads share one loco.  Rows of *)
(* different addresses share nothing, so one row stands for all of them.   *)
(*                                                                         *)
(* Throttle side: a WifredClient keeps the loco in _myLocos (holds) and    *)
(* its connection in _customTcpClient (current); every accepted connection *)
(* runs one processing loop (a task), and a loop outlives its connection.  *)
(* LocoNet side: every LocoNet has a send thread that polls the row and    *)
(* follows it with a slot state of its own.  The two sides meet in         *)
(* IsActive and in the AllLoconetsReply object (a wait) that the adding    *)
(* task creates and the send threads fill in.                              *)
(***************************************************************************)
EXTENDS Naturals, FiniteSets

CONSTANTS Clients,   \* WifredClient objects, one per throttle uid
          Tasks,     \* processing loops; a task also names its connection
          Loconets,  \* LocoNet connections, each with its send thread
          Last,      \* the one of the highest index: its slot fills the row
          MaxAdds,   \* bound: "+address" commands that reach the row
          NoTask     \* _customTcpClient is null

ASSUME ConstantsAssumption ==
    /\ MaxAdds \in Nat \ {0}
    /\ NoTask \notin Tasks
    /\ Last \in Loconets

VARIABLES
    isActive,   \* LocoRowImpl.IsActive
    loaded,     \* RequestedSpeed/-Direction came from a station or a throttle
    pending,    \* LocoRowImpl._allLoconetsReply, 0 for null
    adds,       \* number of wait objects named so far
    results,    \* AllLoconetsReply._results of every wait object
    filled,     \* the wait objects in whose _slots Last has put its slot
    reply,      \* the result of every wait object's _tcs
    known,      \* the client objects in the WifredClientStore
    holds,      \* the row is in _myLocos of this client
    current,    \* the connection in _customTcpClient of this client
    pc,         \* where a task is
    owner,      \* the client a task runs for
    wait,       \* the wait object of a task's MtAddAsync, 0 outside of it
    sendPc,     \* where a send thread is
    slotState,  \* SlotControl.SlotState of this loco at a LocoNet
    outcome,    \* what Activating returned or threw, while Activate runs
    snap,       \* ForwardReply's local "pending", 0 outside of it
    taken       \* the station of this LocoNet has granted us the slot and we have
                \* not sent its release since.  (That a lost release or a failed
                \* activation leaves the slot IN_USE is SlotActivation's part.)

rowVars    == <<isActive, loaded, pending>>
waitVars   == <<adds, results, filled, reply>>
clientVars == <<known, holds, current>>
taskVars   == <<pc, owner, wait>>
sendVars   == <<sendPc, slotState, outcome, snap, taken>>
vars       == <<rowVars, waitVars, clientVars, taskVars, sendVars>>

WaitIds  == 1 .. MaxAdds
Answers  == {"Success", "Failure", "Occupied"}
\* A reply is Empty when it is Success and has no slot.
Replies  == Answers \cup {"Empty"}
TaskPcs  == {"unused", "top", "reading", "adding", "activated", "registered",
             "waiting", "thrown", "granted", "unfilled", "refused", "failed",
             "ended", "dead"}
SendPcs  == {"poll", "acquiring", "reporting", "writing", "filling", "checking",
             "assigning", "releasing", "exception"}

Init ==
    /\ isActive = FALSE /\ loaded = FALSE /\ pending = 0
    /\ adds = 0 /\ filled = {}
    /\ reply = [w \in WaitIds |-> "Requesting"]
    /\ results = [w \in WaitIds |-> [l \in Loconets |-> "Requesting"]]
    /\ known = Clients
    /\ holds = [c \in Clients |-> FALSE]
    /\ current = [c \in Clients |-> NoTask]
    /\ pc = [t \in Tasks |-> "unused"]
    /\ owner \in [Tasks -> Clients]
    /\ wait = [t \in Tasks |-> 0]
    /\ sendPc = [l \in Loconets |-> "poll"]
    /\ slotState = [l \in Loconets |-> "None"]
    /\ outcome = [l \in Loconets |-> "None"]
    /\ snap = [l \in Loconets |-> 0]
    /\ taken = [l \in Loconets |-> FALSE]

Goto(t, at)     == pc' = [pc EXCEPT ![t] = at]
LeaveAdd(t, at) == Goto(t, at) /\ wait' = [wait EXCEPT ![t] = 0]
SendGoto(l, at) == sendPc' = [sendPc EXCEPT ![l] = at]

(***************************************************************************)
(* Connections.                                                            *)
(***************************************************************************)

\* HandleClientAsync: UpdateConnection drops the old connection, forgets
\* _myLocos (the rows are not told) and the new processing loop starts.
Connect(t) ==
    /\ pc[t] = "unused"
    /\ owner[t] \in known
    /\ current' = [current EXCEPT ![owner[t]] = t]
    /\ holds' = [holds EXCEPT ![owner[t]] = FALSE]
    /\ Goto(t, "top")
    /\ UNCHANGED <<rowVars, waitVars, known, owner, wait, sendVars>>

\* WifredClientStore.ForgetClient: the object leaves the store and is
\* disconnected; the same uid would get a new object (another client).
ForgetClient(c) ==
    /\ c \in known
    /\ known' = known \ {c}
    /\ current' = [current EXCEPT ![c] = NoTask]
    /\ UNCHANGED <<rowVars, waitVars, holds, taskVars, sendVars>>

(***************************************************************************)
(* The processing loop of a task.                                          *)
(***************************************************************************)

\* The loop condition of StartProcessingAsync.
LoopTop(t) ==
    /\ pc[t] = "top"
    /\ Goto(t, IF current[owner[t]] = NoTask THEN "ended" ELSE "reading")
    /\ UNCHANGED <<rowVars, waitVars, clientVars, owner, wait, sendVars>>

\* "Q": Disconnect acts on the client's connection, whichever it is by now.
QuitRequest(t) ==
    /\ pc[t] = "reading"
    /\ current' = [current EXCEPT ![owner[t]] = NoTask]
    /\ Goto(t, "top")
    /\ UNCHANGED <<rowVars, waitVars, known, holds, owner, wait, sendVars>>

\* "A": a throttle sets speed or direction of a loco in _myLocos; any other
\* message, and an action on a loco that is not held, changes nothing here.
ActionRequest(t) ==
    /\ pc[t] = "reading"
    /\ loaded' = (loaded \/ holds[owner[t]])
    /\ Goto(t, "top")
    /\ UNCHANGED <<isActive, pending, waitVars, clientVars, owner, wait, sendVars>>

\* "-": MtRemoveAsync gives the row back if the client holds it.
RemoveRequest(t) ==
    /\ pc[t] = "reading"
    /\ isActive' = (isActive /\ ~holds[owner[t]])
    /\ holds' = [holds EXCEPT ![owner[t]] = FALSE]
    /\ Goto(t, "top")
    /\ UNCHANGED <<loaded, pending, waitVars, known, current, owner, wait, sendVars>>

\* "+": MtAddAsync up to its lock.  An address held already ends the loop
\* (Panic).  An active row is answered with a refusal and added all the same;
\* that answer has no connection to go to when the client was disconnected.
AddRequest(t) ==
    /\ pc[t] = "reading"
    /\ adds < MaxAdds
    /\ adds' = adds + 1
    /\ LET noReply == isActive /\ current[owner[t]] = NoTask
       IN  IF holds[owner[t]] \/ noReply
           THEN LeaveAdd(t, "dead")
           ELSE Goto(t, "adding") /\ wait' = [wait EXCEPT ![t] = adds + 1]
    /\ UNCHANGED <<rowVars, results, filled, reply, clientVars, owner, sendVars>>

\* The locked part of MtAddAsync; Dictionary.Add throws on a second entry.
Activate(t) ==
    /\ pc[t] = "adding"
    /\ IF holds[owner[t]]
       THEN /\ LeaveAdd(t, "dead")
            /\ UNCHANGED <<isActive, holds>>
       ELSE /\ isActive' = TRUE
            /\ holds' = [holds EXCEPT ![owner[t]] = TRUE]
            /\ Goto(t, "activated") /\ UNCHANGED wait
    /\ UNCHANGED <<loaded, pending, waitVars, known, current, owner, sendVars>>

\* WaitForSlotsAsync stores a new wait object, or throws on an inactive row ...
Register(t) ==
    /\ pc[t] = "activated"
    /\ IF isActive
       THEN pending' = wait[t] /\ Goto(t, "registered") /\ UNCHANGED wait
       ELSE LeaveAdd(t, "dead") /\ UNCHANGED pending
    /\ UNCHANGED <<isActive, loaded, waitVars, clientVars, owner, sendVars>>

\* ... and awaits what the field holds now: its own, that of another task, or
\* null, as the finally clause of another task left it.
Await(t) ==
    /\ pc[t] = "registered"
    /\ \/ pending = 0 /\ Goto(t, "thrown") /\ UNCHANGED wait
       \/ pending # 0 /\ Goto(t, "waiting") /\ wait' = [wait EXCEPT ![t] = pending]
    /\ UNCHANGED <<rowVars, waitVars, clientVars, owner, sendVars>>

\* How MtAddAsync goes on with a reply.
After(r) == CASE r = "Success"  -> "granted"
              [] r = "Empty"    -> "unfilled"
              [] r = "Occupied" -> "refused"
              [] OTHER          -> "failed"

\* The await found the result there already, or null: the row takes the slot,
\* and the finally clause clears the field, whatever is in it by now.
Proceed(t) ==
    /\ \/ /\ pc[t] = "waiting" /\ reply[wait[t]] # "Requesting"
          /\ LeaveAdd(t, After(reply[wait[t]]))
          /\ loaded' = (loaded \/ reply[wait[t]] = "Success")
       \/ pc[t] = "thrown" /\ LeaveAdd(t, "dead") /\ UNCHANGED loaded
    /\ pending' = 0
    /\ UNCHANGED <<isActive, waitVars, clientVars, owner, sendVars>>

\* Mutant: no finally clause.
TimeoutKeepsPending(t) ==
    /\ pc[t] = "waiting" /\ reply[wait[t]] = "Requesting"
    /\ LeaveAdd(t, "failed")
    /\ UNCHANGED <<rowVars, waitVars, clientVars, owner, sendVars>>

\* Mutant: the wait has no time limit.
TimeoutNever(t) == pc[t] = "waiting" /\ FALSE /\ UNCHANGED vars

\* WaitAsync gives up after 5 s, with the same finally clause.
Timeout(t) ==
    /\ pc[t] = "waiting" /\ reply[wait[t]] = "Requesting"
    /\ pending' = 0
    /\ LeaveAdd(t, "failed")
    /\ UNCHANGED <<isActive, loaded, waitVars, clientVars, owner, sendVars>>

\* The answer to the throttle: without a connection the send throws, without
\* a slot the look at its value does.
Confirm(t) ==
    /\ pc[t] \in {"granted", "unfilled"}
    /\ Goto(t, IF pc[t] = "unfilled" \/ current[owner[t]] = NoTask THEN "dead" ELSE "top")
    /\ UNCHANGED <<rowVars, waitVars, clientVars, owner, wait, sendVars>>

Refuse(t) ==
    /\ pc[t] = "refused"
    /\ Goto(t, IF current[owner[t]] = NoTask THEN "dead" ELSE "failed")
    /\ UNCHANGED <<rowVars, waitVars, clientVars, owner, wait, sendVars>>

\* Mutant: a failed add leaves the loco in _myLocos.
ReleaseKeepsLoco(t) ==
    /\ pc[t] = "failed"
    /\ isActive' = FALSE
    /\ Goto(t, "top")
    /\ UNCHANGED <<loaded, pending, waitVars, clientVars, owner, wait, sendVars>>

\* The locked end of MtAddAsync after a refusal or a failure.
Release(t) ==
    /\ pc[t] = "failed"
    /\ isActive' = FALSE
    /\ holds' = [holds EXCEPT ![owner[t]] = FALSE]
    /\ Goto(t, "top")
    /\ UNCHANGED <<loaded, pending, waitVars, known, current, owner, wait, sendVars>>

(***************************************************************************)
(* The send thread of a LocoNet: its loop's work on this row.              *)
(***************************************************************************)

\* (true, None) and (true, Inactive): Activate(row, slot) starts.
PollActivate(l) ==
    /\ sendPc[l] = "poll" /\ isActive /\ slotState[l] \in {"None", "Inactive"}
    /\ SendGoto(l, "acquiring")
    /\ UNCHANGED <<rowVars, waitVars, clientVars, taskVars, slotState, outcome, snap, taken>>

\* (false, Active): Deactivate(slot) starts.
PollDeactivate(l) ==
    /\ sendPc[l] = "poll" /\ ~isActive /\ slotState[l] = "Active"
    /\ SendGoto(l, "releasing")
    /\ UNCHANGED <<rowVars, waitVars, clientVars, taskVars, slotState, outcome, snap, taken>>

\* Mutant: (false, Active) falls through to the case that only forgets.
PollForgetActive(l) ==
    /\ sendPc[l] = "poll" /\ ~isActive
    /\ slotState[l] \in {"Active", "Failed", "Occupied"}
    /\ slotState' = [slotState EXCEPT ![l] = "Inactive"]
    /\ UNCHANGED <<rowVars, waitVars, clientVars, taskVars, sendPc, outcome, snap, taken>>

\* (false, Failed) and (false, Occupied).
PollForget(l) ==
    /\ sendPc[l] = "poll" /\ ~isActive /\ slotState[l] \in {"Failed", "Occupied"}
    /\ slotState' = [slotState EXCEPT ![l] = "Inactive"]
    /\ UNCHANGED <<rowVars, waitVars, clientVars, taskVars, sendPc, outcome, snap, taken>>

\* Activating: the exchanges with the command station (see SlotActivation).  A
\* slot that is ours already is not found occupied.
Acquire(l) ==
    /\ sendPc[l] = "acquiring"
    /\ \E answer \in Answers :
          /\ taken[l] => answer # "Occupied"
          /\ outcome' = [outcome EXCEPT ![l] = answer]
          /\ taken' = [taken EXCEPT ![l] = taken[l] \/ answer = "Success"]
    /\ SendGoto(l, "reporting")
    /\ UNCHANGED <<rowVars, waitVars, clientVars, taskVars, slotState, snap>>

\* ForwardReply takes its snapshot; without a wait object the reply is lost.
Report(l) ==
    /\ sendPc[l] = "reporting"
    /\ snap' = [snap EXCEPT ![l] = pending]
    /\ SendGoto(l, IF pending = 0 THEN "assigning" ELSE "writing")
    /\ UNCHANGED <<rowVars, waitVars, clientVars, taskVars, slotState, outcome, taken>>

\* SlotSuccess, SlotFailed and SlotOccupied write the result before they lock ...
WriteResult(l) ==
    /\ sendPc[l] = "writing"
    /\ results' = [results EXCEPT ![snap[l]][l] = outcome[l]]
    /\ SendGoto(l, IF outcome[l] = "Success" THEN "filling" ELSE "checking")
    /\ UNCHANGED <<rowVars, adds, filled, reply, clientVars, taskVars, slotState, outcome, snap, taken>>

\* ... and SlotSuccess then the slot; the last one filled in is the reply's.
WriteSlot(l) ==
    /\ sendPc[l] = "filling"
    /\ filled' = IF l = Last THEN filled \cup {snap[l]} ELSE filled
    /\ SendGoto(l, "checking")
    /\ UNCHANGED <<rowVars, adds, results, reply, clientVars, taskVars, slotState, outcome, snap, taken>>

\* Mutant: a LocoNet that found the slot occupied is not asked.
VerdictIgnoresOccupied(w) ==
    LET given == {results[w][l] : l \in Loconets}
    IN  CASE "Requesting" \in given -> "Requesting"
          [] "Requesting" \notin given /\ "Failure" \in given -> "Failure"
          [] OTHER -> IF w \in filled THEN "Success" ELSE "Empty"

Verdict(w) ==
    LET given == {results[w][l] : l \in Loconets}
    IN  CASE "Requesting" \in given -> "Requesting"
          [] "Requesting" \notin given /\ "Failure" \in given -> "Failure"
          [] given \cap {"Requesting", "Failure"} = {} /\ "Occupied" \in given -> "Occupied"
          [] OTHER -> IF w \in filled THEN "Success" ELSE "Empty"

\* The tasks that await w go on inside SetResult, on the send thread: the row
\* takes the slot and the field is cleared.
Resume(w) ==
    LET waiting == {t \in Tasks : pc[t] = "waiting" /\ wait[t] = w}
    IN  /\ pc' = [t \in Tasks |-> IF t \in waiting THEN After(Verdict(w)) ELSE pc[t]]
        /\ wait' = [t \in Tasks |-> IF t \in waiting THEN 0 ELSE wait[t]]
        /\ pending' = IF waiting = {} THEN pending ELSE 0
        /\ loaded' = (loaded \/ (waiting # {} /\ Verdict(w) = "Success"))

\* Check, under lock(this): nothing while a LocoNet is still requesting,
\* otherwise SetResult, which throws when the result is there already.
Check(l) ==
    /\ sendPc[l] = "checking"
    /\ LET w == snap[l]
       IN  \/ /\ Verdict(w) = "Requesting"
              /\ SendGoto(l, "assigning")
              /\ UNCHANGED <<loaded, pending, reply, pc, wait>>
           \/ /\ Verdict(w) # "Requesting" /\ reply[w] # "Requesting"
              /\ SendGoto(l, "exception")
              /\ UNCHANGED <<loaded, pending, reply, pc, wait>>
           \/ /\ Verdict(w) # "Requesting" /\ reply[w] = "Requesting"
              /\ reply' = [reply EXCEPT ![w] = Verdict(w)]
              /\ Resume(w)
              /\ SendGoto(l, "assigning")
    /\ UNCHANGED <<isActive, adds, results, filled, clientVars, owner, slotState, outcome, snap, taken>>

LeaveActivate(l) ==
    /\ SendGoto(l, "poll")
    /\ outcome' = [outcome EXCEPT ![l] = "None"]
    /\ snap' = [snap EXCEPT ![l] = 0]

\* Mutant: the result of the activation is taken for a slot state.
AssignOutcome(l) ==
    /\ sendPc[l] = "assigning"
    /\ slotState' = [slotState EXCEPT ![l] = outcome[l]]
    /\ LeaveActivate(l)
    /\ UNCHANGED <<rowVars, waitVars, clientVars, taskVars, taken>>

\* The value Activate(row, slot) returns is assigned in NormalOperation.
Assign(l) ==
    /\ sendPc[l] = "assigning"
    /\ slotState' = [slotState EXCEPT ![l] =
                        CASE outcome[l] = "Success" -> "Active"
                          [] outcome[l] = "Failure" -> "Failed"
                          [] OTHER -> "Occupied"]
    /\ LeaveActivate(l)
    /\ UNCHANGED <<rowVars, waitVars, clientVars, taskVars, taken>>

\* Deactivate(slot): OPC_SLOT_STAT1 is sent, and forgotten.
ReleaseSlot(l) ==
    /\ sendPc[l] = "releasing"
    /\ taken' = [taken EXCEPT ![l] = FALSE]
    /\ slotState' = [slotState EXCEPT ![l] = "Inactive"]
    /\ SendGoto(l, "poll")
    /\ UNCHANGED <<rowVars, waitVars, clientVars, taskVars, outcome, snap>>

\* Mutant: an exception ends the send thread.
RecoverNever(l) == sendPc[l] = "exception" /\ FALSE /\ UNCHANGED vars

\* SendThreadMain logs the exception, waits a second and polls again.
Recover(l) ==
    /\ sendPc[l] = "exception"
    /\ LeaveActivate(l)
    /\ UNCHANGED <<rowVars, waitVars, clientVars, taskVars, slotState, taken>>

----------------------------------------------------------------------------

\* What throttles and operators ask for; nothing obliges them to.
Request(t) == Connect(t) \/ QuitRequest(t) \/ ActionRequest(t)
                \/ RemoveRequest(t) \/ AddRequest(t)
\* What a task does on its own.
TaskStep(t) == LoopTop(t) \/ Activate(t) \/ Register(t) \/ Await(t)
                \/ Proceed(t) \/ Timeout(t) \/ Confirm(t) \/ Refuse(t) \/ Release(t)
\* What a send thread does on its own.
SendStep(l) == PollActivate(l) \/ PollDeactivate(l) \/ PollForget(l)
                \/ Acquire(l) \/ Report(l) \/ WriteResult(l) \/ WriteSlot(l)
                \/ Check(l) \/ Assign(l) \/ ReleaseSlot(l) \/ Recover(l)

Next == \/ \E t \in Tasks : Request(t) \/ TaskStep(t)
        \/ \E c \in Clients : ForgetClient(c)
        \/ \E l \in Loconets : SendStep(l)

Spec == Init /\ [][Next]_vars

\* Tasks and send threads are scheduled; throttles and operators are free.
FairSpec == /\ Spec
            /\ \A t \in Tasks : WF_vars(TaskStep(t))
            /\ \A l \in Loconets : WF_vars(SendStep(l))

----------------------------------------------------------------------------
(***************************************************************************)
(* Properties.                                                             *)
(***************************************************************************)

\* Every variable keeps its type.
TypeOK ==
    /\ isActive \in BOOLEAN /\ loaded \in BOOLEAN
    /\ pending \in 0 .. MaxAdds /\ adds \in 0 .. MaxAdds
    /\ results \in [WaitIds -> [Loconets -> Answers \cup {"Requesting"}]]
    /\ filled \in SUBSET WaitIds
    /\ reply \in [WaitIds -> Replies \cup {"Requesting"}]
    /\ known \in SUBSET Clients
    /\ holds \in [Clients -> BOOLEAN]
    /\ current \in [Clients -> Tasks \cup {NoTask}]
    /\ pc \in [Tasks -> TaskPcs]
    /\ owner \in [Tasks -> Clients]
    /\ wait \in [Tasks -> 0 .. MaxAdds]
    /\ sendPc \in [Loconets -> SendPcs]
    /\ slotState \in [Loconets -> {"None", "Inactive", "Active", "Failed", "Occupied"}]
    /\ outcome \in [Loconets -> Answers \cup {"None"}]
    /\ snap \in [Loconets -> 0 .. MaxAdds]
    /\ taken \in [Loconets -> BOOLEAN]

\* A wait object that the row still offers to the send threads belongs to a
\* task that is between its creation and its end: no late reply can reach a
\* caller that is gone (the finally clause of WaitForSlotsAsync, with several
\* tasks at work, each of which clears what another has put there).
PendingIsWaited ==
    pending # 0 => \E t \in Tasks : pc[t] \in {"registered", "waiting"} /\ wait[t] = pending

\* No send thread dies of a wait object that already has its result
\* (SetResult in AllLoconetsReply.Check).
NoDoubleCompletion == \A l \in Loconets : sendPc[l] # "exception"

\* A throttle is told "you have the loco" only at a moment when the station
\* of every LocoNet has granted the slot, however the send threads' results
\* of this and of earlier adds interleave (AllLoconetsReply.Check).
GrantedMeansTaken ==
    [][\A t \in Tasks : pc[t] = "waiting" /\ pc'[t] \in {"granted", "unfilled"}
            => \A l \in Loconets : taken[l]]_vars

\* What a client holds, it controls: a row in the _myLocos of the only client
\* is active, so the commands of its throttle are not ignored (the locked
\* sections of WifredClient, with loops of dropped connections at work).
HeldRowIsActive == \A c \in Clients : holds[c] => isActive

\* Every "+address" is decided: a loop always gets back to its next message,
\* or ends (MtAddAsync).
AddIsDecided == \A t \in Tasks : []<>(pc[t] \in {"unused", "reading", "ended", "dead"})

\* A slot that a send thread counts as its own does not outlive the throttle's
\* interest: once the row is inactive its release is sent, unless it is wanted
\* again (NormalOperation, "stopping to control loco").
SlotIsReleased ==
    \A l \in Loconets : (slotState[l] = "Active" /\ ~isActive) ~> (~taken[l] \/ isActive)

\* The send thread of every LocoNet follows the row: an activated row gets a
\* decision about its slot on each, exceptions on the way included
\* (NormalOperation, SendThreadMain).
RowIsFollowed ==
    \A l \in Loconets :
        []<>(~isActive \/ slotState[l] \in {"Active", "Failed", "Occupied"})

\* The same of every slot that was granted, counted or not
\* (SlotControl.State.Inactive: "We released control of the slot as requested
\* by loco table (or at least we tried to release it)").
NothingForgotten ==
    \A l \in Loconets : (taken[l] /\ ~isActive) ~> (~taken[l] \/ isActive)

\* An active row is in the set of controlled addresses of at most one client
\* (IThrottle2Row.IsActive).
AtMostOneOwner ==
    isActive => Cardinality({c \in Clients : holds[c]}) <= 1

\* An active row is in the set of controlled addresses of some client
\* (IThrottle2Row.IsActive).
ActiveHasOwner == isActive => \E c \in Clients : holds[c]

\* A task does not give up on an address that every LocoNet controls for the
\* active row (IThrottle2Row.WaitForSlotsAsync).
ControlIsNoticed ==
    [][\A t \in Tasks : Timeout(t) /\ isActive
            => \E l \in Loconets : slotState[l] # "Active"]_vars

\* Operate sends values only that a station or a throttle gave to the row
\* (ILoconet2Row.RequestedSpeed).
DrivesKnownValues ==
    \A l \in Loconets :
        (sendPc[l] = "poll" /\ isActive /\ slotState[l] = "Active") => loaded

=============================================================================
