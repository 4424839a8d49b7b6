--------------------------- MODULE LocoRow_proofs ---------------------------
(***************************************************************************)
(* Proofs about LocoRow, for any number of clients, tasks and LocoNets and *)
(* for any bound on the adds: the type invariant, that a wait object on    *)
(* offer is waited for, and that with a single client what it holds is     *)
(* active; if only one loop works on the row, that a throttle is told that *)
(* it has the loco only when it has it on every LocoNet and, with a single *)
(* LocoNet, that no wait object is completed twice.                        *)
(***************************************************************************)
EXTENDS LocoRow, TLAPS

\* A send thread that works on a wait object has one.
SnapInUse ==
    \A l \in Loconets : sendPc[l] \in {"writing", "filling", "checking"} => snap[l] # 0

\* A send thread that knows its outcome is about to report or to assign it.
OutcomeKnown ==
    \A l \in Loconets :
        /\ sendPc[l] \in {"reporting", "writing", "filling", "checking", "assigning"}
              => outcome[l] \in Answers
        /\ sendPc[l] = "filling" => outcome[l] = "Success"

TypeInv == TypeOK /\ SnapInUse /\ OutcomeKnown

\* What Check does with the wait object of its snapshot keeps the types.
LEMMA VerdictType == \A w : Verdict(w) \in Replies \cup {"Requesting"}
  BY DEF Verdict, Replies, Answers

LEMMA AfterType == \A r : After(r) \in {"granted", "unfilled", "refused", "failed"}
  BY DEF After

LEMMA ResumeType ==
    ASSUME TypeOK, NEW w \in WaitIds, Resume(w)
    PROVE  /\ pc' \in [Tasks -> TaskPcs]
           /\ wait' \in [Tasks -> 0 .. MaxAdds]
           /\ pending' \in 0 .. MaxAdds
           /\ loaded' \in BOOLEAN
<1>1. pc' \in [Tasks -> TaskPcs] BY AfterType DEF Resume, TypeOK, TaskPcs
<1>2. wait' \in [Tasks -> 0 .. MaxAdds] BY ConstantsAssumption DEF Resume, TypeOK
<1>3. pending' \in 0 .. MaxAdds /\ loaded' \in BOOLEAN
  BY ConstantsAssumption DEF Resume, TypeOK
<1> QED BY <1>1, <1>2, <1>3

USE DEF rowVars, waitVars, clientVars, taskVars, sendVars, Goto, SendGoto,
        LeaveAdd, LeaveActivate, WaitIds, Answers, Replies, TaskPcs, SendPcs

\* Every request of a throttle keeps the type invariant.
LEMMA RequestType ==
    ASSUME TypeInv, NEW t \in Tasks, Request(t)
    PROVE  TypeInv'
<1> USE ConstantsAssumption DEF TypeInv, SnapInUse, OutcomeKnown
<1>1. CASE Connect(t)       BY <1>1 DEF Connect, TypeOK
<1>2. CASE QuitRequest(t)   BY <1>2 DEF QuitRequest, TypeOK
<1>3. CASE ActionRequest(t) BY <1>3 DEF ActionRequest, TypeOK
<1>4. CASE RemoveRequest(t) BY <1>4 DEF RemoveRequest, TypeOK
<1>5. CASE AddRequest(t)
  <2>1. /\ adds' \in 0 .. MaxAdds
        /\ pc' \in [Tasks -> TaskPcs]
        /\ wait' \in [Tasks -> 0 .. MaxAdds]
    <3>1. adds + 1 \in 0 .. MaxAdds BY <1>5 DEF AddRequest, TypeOK
    <3>2. CASE LeaveAdd(t, "dead") BY <1>5, <3>1, <3>2 DEF AddRequest, TypeOK
    <3>3. CASE Goto(t, "adding") /\ wait' = [wait EXCEPT ![t] = adds + 1]
      BY <1>5, <3>1, <3>3 DEF AddRequest, TypeOK
    <3> QED BY <1>5, <3>2, <3>3 DEF AddRequest
  <2> QED BY <1>5, <2>1 DEF AddRequest, TypeOK
<1> QED BY <1>1, <1>2, <1>3, <1>4, <1>5 DEF Request

\* Every step of a processing loop keeps the type invariant.
LEMMA TaskStepType ==
    ASSUME TypeInv, NEW t \in Tasks, TaskStep(t)
    PROVE  TypeInv'
<1> USE ConstantsAssumption DEF TypeInv, SnapInUse, OutcomeKnown
<1>1. CASE LoopTop(t)  BY <1>1 DEF LoopTop, TypeOK
<1>2. CASE Activate(t)
  <2>1. /\ isActive' \in BOOLEAN
        /\ holds' \in [Clients -> BOOLEAN]
        /\ pc' \in [Tasks -> TaskPcs]
        /\ wait' \in [Tasks -> 0 .. MaxAdds]
    <3>1. \/ LeaveAdd(t, "dead") /\ UNCHANGED <<isActive, holds>>
          \/ /\ isActive' = TRUE
             /\ holds' = [holds EXCEPT ![owner[t]] = TRUE]
             /\ Goto(t, "activated") /\ UNCHANGED wait
      BY <1>2, Zenon DEF Activate
    <3>2. CASE LeaveAdd(t, "dead") /\ UNCHANGED <<isActive, holds>>
      BY <3>2 DEF TypeOK
    <3>3. CASE /\ isActive' = TRUE
               /\ holds' = [holds EXCEPT ![owner[t]] = TRUE]
               /\ Goto(t, "activated") /\ UNCHANGED wait
      BY <3>3 DEF TypeOK
    <3> QED BY <3>1, <3>2, <3>3
  <2> QED BY <1>2, <2>1 DEF Activate, TypeOK
<1>3. CASE Register(t)
  <2>1. /\ pending' \in 0 .. MaxAdds
        /\ pc' \in [Tasks -> TaskPcs]
        /\ wait' \in [Tasks -> 0 .. MaxAdds]
    <3>1. \/ pending' = wait[t] /\ Goto(t, "registered") /\ UNCHANGED wait
          \/ LeaveAdd(t, "dead") /\ UNCHANGED pending
      BY <1>3, Zenon DEF Register
    <3>2. CASE pending' = wait[t] /\ Goto(t, "registered") /\ UNCHANGED wait
      BY <3>2 DEF TypeOK
    <3>3. CASE LeaveAdd(t, "dead") /\ UNCHANGED pending
      BY <3>3 DEF TypeOK
    <3> QED BY <3>1, <3>2, <3>3
  <2> QED BY <1>3, <2>1 DEF Register, TypeOK
<1>4. CASE Timeout(t)  BY <1>4 DEF Timeout, TypeOK
<1>5. CASE Confirm(t)  BY <1>5 DEF Confirm, TypeOK
<1>6. CASE Refuse(t)   BY <1>6 DEF Refuse, TypeOK
<1>7. CASE Release(t)  BY <1>7 DEF Release, TypeOK
<1>8. CASE Await(t)
  <2>1. CASE pending = 0 /\ Goto(t, "thrown") /\ UNCHANGED wait
    BY <1>8, <2>1 DEF Await, TypeOK
  <2>2. CASE Goto(t, "waiting") /\ wait' = [wait EXCEPT ![t] = pending]
    BY <1>8, <2>2 DEF Await, TypeOK
  <2> QED BY <1>8, <2>1, <2>2, Zenon DEF Await
<1>9. CASE Proceed(t)
  <2>1. \E at \in TaskPcs : LeaveAdd(t, at)
    <3>1. CASE LeaveAdd(t, "dead") BY <3>1
    <3>2. CASE LeaveAdd(t, After(reply[wait[t]])) BY <3>2, AfterType
    <3> QED BY <1>9, <3>1, <3>2 DEF Proceed
  <2>2. loaded' \in BOOLEAN BY <1>9 DEF Proceed, TypeOK
  <2>3. pending' = 0 /\ UNCHANGED <<isActive, waitVars, clientVars, owner, sendVars>>
    BY <1>9 DEF Proceed
  <2> QED BY <2>1, <2>2, <2>3 DEF TypeOK
<1> QED BY <1>1, <1>2, <1>3, <1>4, <1>5, <1>6, <1>7, <1>8, <1>9 DEF TaskStep

\* Every step of a send thread keeps the type invariant.
LEMMA SendStepType ==
    ASSUME TypeInv, NEW l \in Loconets, SendStep(l)
    PROVE  TypeInv'
<1> USE ConstantsAssumption DEF TypeInv, SnapInUse, OutcomeKnown
<1>1. CASE PollActivate(l)   BY <1>1 DEF PollActivate, TypeOK
<1>2. CASE PollDeactivate(l) BY <1>2 DEF PollDeactivate, TypeOK
<1>3. CASE PollForget(l)     BY <1>3 DEF PollForget, TypeOK
<1>4. CASE Acquire(l)        BY <1>4 DEF Acquire, TypeOK
<1>5. CASE Report(l)         BY <1>5 DEF Report, TypeOK
<1>6. CASE WriteResult(l)    BY <1>6 DEF WriteResult, TypeOK
<1>7. CASE Check(l)
  <2>1. snap[l] \in WaitIds BY <1>7 DEF Check, TypeOK
  <2>2. \/ UNCHANGED <<loaded, pending, reply, pc, wait>>
        \/ reply' = [reply EXCEPT ![snap[l]] = Verdict(snap[l])] /\ Resume(snap[l])
    BY <1>7 DEF Check
  <2>3. SendGoto(l, "assigning") \/ SendGoto(l, "exception") BY <1>7 DEF Check
  <2>4. reply' \in [WaitIds -> Replies \cup {"Requesting"}]
    <3> DEFINE v == Verdict(snap[l])
    <3>1. v \in Replies \cup {"Requesting"} BY VerdictType
    <3>2. UNCHANGED reply \/ reply' = [reply EXCEPT ![snap[l]] = v] BY <2>2
    <3> HIDE DEF v
    <3> QED BY <3>1, <3>2 DEF TypeOK
  <2>5. /\ pc' \in [Tasks -> TaskPcs] /\ wait' \in [Tasks -> 0 .. MaxAdds]
        /\ pending' \in 0 .. MaxAdds /\ loaded' \in BOOLEAN
    BY <2>1, <2>2, ResumeType DEF TypeOK
  <2>6. /\ sendPc' \in [Loconets -> SendPcs]
        /\ \A k \in Loconets : sendPc'[k] = sendPc[k] \/ sendPc'[k] \in {"assigning", "exception"}
        /\ sendPc[l] = "checking"
    BY <1>7, <2>3 DEF Check, TypeOK
  <2>7. UNCHANGED <<isActive, adds, results, filled, clientVars, owner, slotState, outcome,
                    snap, taken>>
    BY <1>7 DEF Check
  <2>8. TypeOK' BY <2>4, <2>5, <2>6, <2>7 DEF TypeOK
  <2>9. SnapInUse' BY <2>6, <2>7
  <2>10. OutcomeKnown' BY <2>3, <2>6, <2>7 DEF TypeOK
  <2> QED BY <2>8, <2>9, <2>10
<1>8. CASE Assign(l)         BY <1>8 DEF Assign, TypeOK
<1>9. CASE ReleaseSlot(l)    BY <1>9 DEF ReleaseSlot, TypeOK
<1>10. CASE Recover(l)       BY <1>10 DEF Recover, TypeOK
<1>11. CASE WriteSlot(l)
  <2>1. filled' \in SUBSET WaitIds
    <3>1. snap[l] \in WaitIds BY <1>11 DEF WriteSlot, TypeOK
    <3>2. filled' \in {filled, filled \cup {snap[l]}} BY <1>11 DEF WriteSlot
    <3> QED BY <3>1, <3>2 DEF TypeOK
  <2> QED BY <1>11, <2>1 DEF WriteSlot, TypeOK
<1> QED
  BY <1>1, <1>2, <1>3, <1>4, <1>5, <1>6, <1>7, <1>8, <1>9, <1>10, <1>11 DEF SendStep

LEMMA TypeInvInductive == Spec => []TypeInv
<1>1. Init => TypeInv
  <2> SUFFICES ASSUME Init PROVE TypeInv OBVIOUS
  <2>1. 0 \in 0 .. MaxAdds BY ConstantsAssumption
  <2>2. TypeOK BY <2>1 DEF Init, TypeOK
  <2>3. SnapInUse /\ OutcomeKnown BY DEF Init, SnapInUse, OutcomeKnown
  <2> QED BY <2>2, <2>3 DEF TypeInv
<1>2. TypeInv /\ [Next]_vars => TypeInv'
  <2> SUFFICES ASSUME TypeInv, [Next]_vars PROVE TypeInv' OBVIOUS
  <2>1. ASSUME NEW c \in Clients, ForgetClient(c) PROVE TypeInv'
    BY <2>1 DEF ForgetClient, TypeInv, TypeOK, SnapInUse, OutcomeKnown
  <2>2. CASE UNCHANGED vars
    BY <2>2 DEF vars, TypeInv, TypeOK, SnapInUse, OutcomeKnown
  <2> QED BY <2>1, <2>2, RequestType, TaskStepType, SendStepType DEF Next
<1> QED BY <1>1, <1>2, PTL DEF Spec

\* Every variable of the row, the throttles and the send threads keeps its
\* type (LocoRowImpl, WifredClient, AllLoconetsReply, LoconetSend).
THEOREM TypeCorrect == Spec => []TypeOK
  BY TypeInvInductive, PTL DEF TypeInv

----------------------------------------------------------------------------

\* A step that leaves the field and the tasks that wait for an object alone.
WaitersKept ==
    /\ pending' = pending
    /\ \A u \in Tasks : pc[u] \in {"registered", "waiting"}
                          => pc'[u] = pc[u] /\ wait'[u] = wait[u]

\* The requests of a throttle leave them alone ...
LEMMA RequestKeepsWaiters ==
    ASSUME TypeInv, NEW t \in Tasks, Request(t)
    PROVE  WaitersKept
<1> USE DEF WaitersKept, TypeInv, TypeOK
<1>1. CASE Connect(t)       BY <1>1 DEF Connect
<1>2. CASE QuitRequest(t)   BY <1>2 DEF QuitRequest
<1>3. CASE ActionRequest(t) BY <1>3 DEF ActionRequest
<1>4. CASE RemoveRequest(t) BY <1>4 DEF RemoveRequest
<1>5. CASE AddRequest(t)
  <2>1. \/ LeaveAdd(t, "dead")
        \/ Goto(t, "adding") /\ wait' = [wait EXCEPT ![t] = adds + 1]
    BY <1>5, Zenon DEF AddRequest
  <2> QED BY <1>5, <2>1 DEF AddRequest
<1> QED BY <1>1, <1>2, <1>3, <1>4, <1>5 DEF Request

\* ... and so does a loop outside of WaitForSlotsAsync ...
LEMMA TaskStepKeepsWaiters ==
    ASSUME TypeInv, NEW t \in Tasks, TaskStep(t),
           ~Register(t), ~Await(t), ~Proceed(t), ~Timeout(t)
    PROVE  WaitersKept
<1> USE DEF WaitersKept, TypeInv, TypeOK
<1>1. CASE LoopTop(t)  BY <1>1 DEF LoopTop
<1>2. CASE Activate(t)
  <2>1. \/ LeaveAdd(t, "dead")
        \/ Goto(t, "activated") /\ UNCHANGED wait
    BY <1>2, Zenon DEF Activate
  <2> QED BY <1>2, <2>1 DEF Activate
<1>3. CASE Confirm(t)  BY <1>3 DEF Confirm
<1>4. CASE Refuse(t)   BY <1>4 DEF Refuse
<1>5. CASE Release(t)  BY <1>5 DEF Release
<1> QED BY <1>1, <1>2, <1>3, <1>4, <1>5 DEF TaskStep

\* ... and a send thread outside of Check.
LEMMA SendStepKeepsWaiters ==
    ASSUME NEW l \in Loconets, SendStep(l), ~Check(l)
    PROVE  /\ WaitersKept
           /\ UNCHANGED <<isActive, pending, adds, reply, taskVars, clientVars>>
BY DEF WaitersKept, SendStep, PollActivate, PollDeactivate, PollForget,
       Acquire, Report, WriteResult, WriteSlot, Assign, ReleaseSlot, Recover

\* A wait object on offer stays waited for.
LEMMA PendingStep ==
    ASSUME TypeInv, PendingIsWaited, [Next]_vars
    PROVE  PendingIsWaited'
<1>1. ASSUME WaitersKept PROVE PendingIsWaited'
  BY <1>1 DEF WaitersKept, PendingIsWaited
<1>2. ASSUME NEW t \in Tasks, Register(t) PROVE PendingIsWaited'
  <2>1. CASE pending' = wait[t] /\ Goto(t, "registered") /\ UNCHANGED wait
    BY <2>1 DEF PendingIsWaited, TypeInv, TypeOK
  <2>2. CASE LeaveAdd(t, "dead") /\ UNCHANGED pending
    <3>1. pc[t] = "activated" BY <1>2 DEF Register
    <3> QED BY <2>2, <3>1, <1>1 DEF WaitersKept, TypeInv, TypeOK
  <2> QED BY <1>2, <2>1, <2>2, Zenon DEF Register
<1>3. ASSUME NEW t \in Tasks, Await(t) PROVE PendingIsWaited'
  <2>1. UNCHANGED pending BY <1>3 DEF Await
  <2>2. CASE pending = 0 BY <2>1, <2>2 DEF PendingIsWaited
  <2>3. CASE Goto(t, "waiting") /\ wait' = [wait EXCEPT ![t] = pending]
    BY <2>1, <2>3 DEF PendingIsWaited, TypeInv, TypeOK
  <2> QED BY <1>3, <2>2, <2>3, Zenon DEF Await
<1>4. ASSUME NEW t \in Tasks, Proceed(t) \/ Timeout(t) PROVE PendingIsWaited'
  BY <1>4 DEF Proceed, Timeout, PendingIsWaited
<1>5. ASSUME NEW l \in Loconets, Check(l) PROVE PendingIsWaited'
  <2>1. CASE Resume(snap[l])
    <3> DEFINE waiting == {t \in Tasks : pc[t] = "waiting" /\ wait[t] = snap[l]}
    <3>1. CASE waiting = {}
      BY <2>1, <3>1, <1>1 DEF Resume, WaitersKept, TypeInv, TypeOK
    <3>2. CASE waiting # {}
      BY <2>1, <3>2 DEF Resume, PendingIsWaited
    <3> QED BY <3>1, <3>2
  <2>2. CASE UNCHANGED <<loaded, pending, reply, pc, wait>>
    BY <2>2, <1>1 DEF WaitersKept
  <2> QED BY <1>5, <2>1, <2>2 DEF Check
<1>6. ASSUME NEW c \in Clients, ForgetClient(c) PROVE PendingIsWaited'
  BY <1>6, <1>1 DEF ForgetClient, WaitersKept
<1>7. CASE UNCHANGED vars BY <1>7, <1>1 DEF vars, WaitersKept
<1> QED
  BY <1>1, <1>2, <1>3, <1>4, <1>5, <1>6, <1>7,
     RequestKeepsWaiters, TaskStepKeepsWaiters, SendStepKeepsWaiters DEF Next

\* A wait object that the row offers is one that a task still waits for,
\* whatever timeouts, removals and reconnections came before
\* (LocoRowImpl.WaitForSlotsAsync).
THEOREM PendingWaited == Spec => []PendingIsWaited
<1>1. Init => PendingIsWaited BY DEF Init, PendingIsWaited
<1>2. TypeInv /\ PendingIsWaited /\ [Next]_vars => PendingIsWaited' BY PendingStep
<1> QED BY <1>1, <1>2, TypeInvInductive, PTL DEF Spec

----------------------------------------------------------------------------

----------------------------------------------------------------------------
(* With several loops a task may await the object of another add, or one that  *)
(* is complete by the time it awaits it.  With a single loop the field holds   *)
(* its own object or null, and the row stays active until the wait is over.    *)

\* Nobody but its creator has seen this wait object.
Untouched(w) ==
    /\ pending # w /\ reply[w] = "Requesting"
    /\ \A l \in Loconets : snap[l] # w /\ results[w][l] = "Requesting"

\* The loop has created this wait object and not registered it.
Unregistered(t, w) == pc[t] \in {"adding", "activated"} /\ wait[t] = w

LoopInv(t) ==
    /\ pc[t] \in {"activated", "registered", "waiting"} => isActive
    /\ pc[t] \in {"adding", "activated", "registered", "waiting"} => wait[t] \in 1 .. adds
    /\ \A w \in WaitIds : w > adds \/ Unregistered(t, w) => Untouched(w)

\* Tasks and operators leave the send threads and the contents of the wait
\* objects alone.
LEMMA OthersKeepSends ==
    ASSUME [Next]_vars
    PROVE  UNCHANGED <<sendVars, results, filled, reply>> \/ \E l \in Loconets : SendStep(l)
  BY DEF Next, Request, Connect, QuitRequest, ActionRequest, RemoveRequest, AddRequest,
     TaskStep, LoopTop, Activate, Register, Await, Proceed, Timeout, Confirm, Refuse,
     Release, ForgetClient, vars

\* Only the field makes a wait object known to a send thread.
LEMMA UntouchedStep ==
    ASSUME TypeInv, NEW w \in WaitIds, Untouched(w), [Next]_vars, pending' # w
    PROVE  Untouched(w)'
<1> USE ConstantsAssumption DEF Untouched, TypeInv, TypeOK
<1>1. CASE UNCHANGED <<sendVars, results, filled, reply>> BY <1>1
<1>2. ASSUME NEW l \in Loconets, SendStep(l) PROVE Untouched(w)'
  <2>1. CASE WriteResult(l)
    <3>1. /\ results' = [results EXCEPT ![snap[l]][l] = outcome[l]]
          /\ UNCHANGED <<snap, reply>>
      BY <2>1 DEF WriteResult
    <3>2. results'[w] = results[w] BY <3>1
    <3> QED BY <3>1, <3>2
  <2>2. CASE Check(l)
    <3>1. UNCHANGED <<snap, results>> BY <2>2 DEF Check
    <3>2. UNCHANGED reply \/ reply' = [reply EXCEPT ![snap[l]] = Verdict(snap[l])]
      BY <2>2 DEF Check
    <3>3. reply'[w] = reply[w] BY <3>2
    <3> QED BY <3>1, <3>3
  <2>3. CASE Report(l)
    <3>1. UNCHANGED <<reply, results, pending>> /\ snap' = [snap EXCEPT ![l] = pending]
      BY <2>3 DEF Report
    <3> QED BY <3>1
  <2>4. CASE Assign(l) \/ Recover(l)
    <3>1. UNCHANGED <<reply, results, pending>> /\ snap' = [snap EXCEPT ![l] = 0]
      BY <2>4 DEF Assign, Recover
    <3> QED BY <3>1
  <2>5. CASE \/ PollActivate(l) \/ PollDeactivate(l) \/ PollForget(l)
             \/ Acquire(l) \/ WriteSlot(l) \/ ReleaseSlot(l)
    <3>1. UNCHANGED <<reply, results, pending, snap>>
      BY <2>5 DEF PollActivate, PollDeactivate, PollForget, Acquire, WriteSlot, ReleaseSlot
    <3> QED BY <3>1
  <2> QED BY <1>2, <2>1, <2>2, <2>3, <2>4, <2>5 DEF SendStep
<1> QED BY <1>1, <1>2, OthersKeepSends

\* What Check changes of a loop that is inside WaitForSlotsAsync, or not.
LEMMA CheckMoves ==
    ASSUME TypeInv, NEW t \in Tasks, NEW l \in Loconets, Check(l)
    PROVE  /\ UNCHANGED <<isActive, adds, results, snap, taken, slotState>>
           /\ pending' \in {pending, 0}
           /\ \/ pc'[t] = pc[t] /\ wait'[t] = wait[t]
              \/ /\ pc[t] = "waiting" /\ wait[t] = snap[l]
                 /\ pc'[t] = After(Verdict(snap[l]))
                 /\ pc'[t] \in {"granted", "unfilled", "refused", "failed"}
           /\ sendPc[l] = "checking" /\ sendPc'[l] \in {"assigning", "exception"}
           /\ \A k \in Loconets \ {l} : sendPc'[k] = sendPc[k]
<1> USE DEF TypeInv, TypeOK
<1>1. /\ UNCHANGED <<isActive, adds, results, snap, taken, slotState>>
      /\ sendPc[l] = "checking" /\ (SendGoto(l, "assigning") \/ SendGoto(l, "exception"))
  BY DEF Check
<1>2. UNCHANGED <<pending, pc, wait>> \/ Resume(snap[l]) BY DEF Check
<1>3. pending' \in {pending, 0} BY <1>2 DEF Resume
<1>4. \/ pc'[t] = pc[t] /\ wait'[t] = wait[t]
      \/ /\ pc[t] = "waiting" /\ wait[t] = snap[l]
         /\ pc'[t] = After(Verdict(snap[l]))
         /\ pc'[t] \in {"granted", "unfilled", "refused", "failed"}
  BY <1>2, AfterType DEF Resume
<1> QED BY <1>1, <1>3, <1>4

LEMMA LoopStep ==
    ASSUME NEW t, Tasks = {t}, TypeInv, PendingIsWaited, LoopInv(t), [Next]_vars
    PROVE  LoopInv(t)'
<1> USE DEF TypeInv, TypeOK
<1> DEFINE Inside == {"activated", "registered", "waiting"}
           Adding == Inside \cup {"adding"}
\* The objects that nobody has seen are still unseen, or are registered now.
<1>1. ASSUME adds' \in Nat, adds <= adds',
             \A w \in WaitIds : Unregistered(t, w)' => Unregistered(t, w) \/ w > adds,
             \A w \in WaitIds : w > adds \/ Unregistered(t, w)' => pending' # w
      PROVE  \A w \in WaitIds : (w > adds \/ Unregistered(t, w))' => Untouched(w)'
  <2> SUFFICES ASSUME NEW w \in WaitIds, (w > adds \/ Unregistered(t, w))'
               PROVE  Untouched(w)'
    OBVIOUS
  <2>1. w > adds \/ Unregistered(t, w) BY <1>1
  <2>2. Untouched(w) BY <2>1 DEF LoopInv
  <2>3. pending' # w BY <1>1
  <2> QED BY <2>2, <2>3, UntouchedStep
\* Nobody offers what is unseen.
<1>2. \A w \in WaitIds : w > adds \/ Unregistered(t, w) => pending # w
  BY DEF LoopInv, Untouched
<1>3. CASE AddRequest(t)
  <2>1. pc[t] = "reading" /\ adds' = adds + 1 /\ UNCHANGED pending BY <1>3 DEF AddRequest
  <2>2. CASE LeaveAdd(t, "dead")
    <3>1. pc'[t] = "dead" BY <2>2
    <3>2. \A w \in WaitIds : ~Unregistered(t, w)' BY <3>1 DEF Unregistered
    <3> QED BY <1>1, <1>2, <2>1, <3>1, <3>2 DEF LoopInv
  <2>3. CASE Goto(t, "adding") /\ wait' = [wait EXCEPT ![t] = adds + 1]
    <3>1. pc'[t] = "adding" /\ wait'[t] = adds + 1 BY <2>3
    <3>2. \A w \in WaitIds : Unregistered(t, w)' => w > adds BY <3>1 DEF Unregistered
    <3> QED BY <1>1, <1>2, <2>1, <3>1, <3>2 DEF LoopInv
  <2> QED BY <1>3, <2>2, <2>3, Zenon DEF AddRequest
<1>4. CASE Request(t) /\ ~AddRequest(t)
  <2>1. pc'[t] = "top" /\ UNCHANGED <<adds, pending>>
    BY <1>4 DEF Request, Connect, QuitRequest, ActionRequest, RemoveRequest
  <2>2. \A w \in WaitIds : ~Unregistered(t, w)' BY <2>1 DEF Unregistered
  <2> QED BY <1>1, <1>2, <2>1, <2>2 DEF LoopInv
<1>5. CASE Activate(t)
  <2>1. pc[t] = "adding" /\ UNCHANGED <<adds, pending>> BY <1>5 DEF Activate
  <2>2. CASE LeaveAdd(t, "dead")
    <3>1. pc'[t] = "dead" BY <2>2
    <3>2. \A w \in WaitIds : ~Unregistered(t, w)' BY <3>1 DEF Unregistered
    <3> QED BY <1>1, <1>2, <2>1, <3>1, <3>2 DEF LoopInv
  <2>3. CASE isActive' = TRUE /\ Goto(t, "activated") /\ UNCHANGED wait
    <3>1. pc'[t] = "activated" /\ wait'[t] = wait[t] /\ isActive' BY <2>3
    <3>2. \A w \in WaitIds : Unregistered(t, w)' => Unregistered(t, w)
      BY <2>1, <3>1 DEF Unregistered
    <3> QED BY <1>1, <1>2, <2>1, <3>1, <3>2 DEF LoopInv
  <2> QED BY <1>5, <2>2, <2>3, Zenon DEF Activate
<1>6. CASE Register(t)
  <2>1. /\ pc[t] = "activated" /\ wait[t] \in 1 .. adds /\ isActive
        /\ UNCHANGED <<adds, isActive>>
    BY <1>6 DEF Register, LoopInv
  <2>2. pending' = wait[t] /\ Goto(t, "registered") /\ UNCHANGED wait
    BY <1>6, <2>1, Zenon DEF Register
  <2>3. pc'[t] = "registered" /\ wait'[t] = wait[t] BY <2>2
  <2>4. \A w \in WaitIds : ~Unregistered(t, w)' BY <2>3 DEF Unregistered
  <2> QED BY <1>1, <2>1, <2>2, <2>3, <2>4 DEF LoopInv
<1>7. CASE Await(t)
  <2>1. pc[t] = "registered" /\ UNCHANGED <<adds, pending, isActive>> BY <1>7 DEF Await
  <2>2. CASE Goto(t, "thrown")
    <3>1. pc'[t] = "thrown" BY <2>2
    <3>2. \A w \in WaitIds : ~Unregistered(t, w)' BY <3>1 DEF Unregistered
    <3> QED BY <1>1, <1>2, <2>1, <3>1, <3>2 DEF LoopInv
  <2>3. CASE pending # 0 /\ Goto(t, "waiting") /\ wait' = [wait EXCEPT ![t] = pending]
    <3>1. pc'[t] = "waiting" /\ wait'[t] = pending BY <2>3
    <3>2. wait[t] = pending BY <2>3 DEF PendingIsWaited
    <3>3. \A w \in WaitIds : ~Unregistered(t, w)' BY <3>1 DEF Unregistered
    <3> QED BY <1>1, <1>2, <2>1, <3>1, <3>2, <3>3 DEF LoopInv
  <2> QED BY <1>7, <2>2, <2>3, Zenon DEF Await
<1>8. CASE Proceed(t) \/ Timeout(t)
  <2>1. pc'[t] \notin Adding
    <3>1. CASE Timeout(t) BY <3>1 DEF Timeout
    <3>2. CASE Proceed(t)
      <4>1. LeaveAdd(t, "dead") \/ LeaveAdd(t, After(reply[wait[t]]))
        BY <3>2 DEF Proceed
      <4>2. pc'[t] = "dead" \/ pc'[t] = After(reply[wait[t]]) BY <4>1
      <4> QED BY <4>2, AfterType
    <3> QED BY <1>8, <3>1, <3>2
  <2>2. UNCHANGED adds /\ pending' = 0 BY <1>8 DEF Proceed, Timeout
  <2>3. \A w \in WaitIds : ~Unregistered(t, w)' BY <2>1 DEF Unregistered
  <2> QED BY <1>1, <2>1, <2>2, <2>3 DEF LoopInv
<1>9. CASE LoopTop(t) \/ Confirm(t) \/ Refuse(t) \/ Release(t)
  <2>1. pc'[t] \notin Adding /\ UNCHANGED <<adds, pending>>
    BY <1>9 DEF LoopTop, Confirm, Refuse, Release
  <2>2. \A w \in WaitIds : ~Unregistered(t, w)' BY <2>1 DEF Unregistered
  <2> QED BY <1>1, <1>2, <2>1, <2>2 DEF LoopInv
<1>10. ASSUME NEW l \in Loconets, SendStep(l) PROVE LoopInv(t)'
  <2>1. CASE Check(l)
    <3>1. UNCHANGED <<isActive, adds>> /\ pending' \in {pending, 0} BY <2>1, CheckMoves
    <3>2. \/ pc'[t] = pc[t] /\ wait'[t] = wait[t]
          \/ pc'[t] \in {"granted", "unfilled", "refused", "failed"}
      BY <2>1, CheckMoves
    <3>3. \A w \in WaitIds : Unregistered(t, w)' => Unregistered(t, w)
      BY <3>2 DEF Unregistered
    <3> QED BY <1>1, <1>2, <3>1, <3>2, <3>3 DEF LoopInv
  <2>2. CASE ~Check(l)
    <3>1. UNCHANGED <<isActive, pending, adds, pc, wait>>
      BY <1>10, <2>2, SendStepKeepsWaiters
    <3>2. \A w \in WaitIds : Unregistered(t, w)' => Unregistered(t, w)
      BY <3>1 DEF Unregistered
    <3> QED BY <1>1, <1>2, <3>1, <3>2 DEF LoopInv
  <2> QED BY <2>1, <2>2
<1>11. CASE UNCHANGED <<isActive, pending, waitVars, taskVars>>
  <2>1. \A w \in WaitIds : Unregistered(t, w)' => Unregistered(t, w)
    BY <1>11 DEF Unregistered
  <2> QED BY <1>1, <1>2, <1>11, <2>1 DEF LoopInv
<1>12. CASE UNCHANGED vars BY <1>11, <1>12 DEF vars
<1>13. ASSUME NEW c \in Clients, ForgetClient(c) PROVE LoopInv(t)'
  BY <1>11, <1>13 DEF ForgetClient
<1> HIDE DEF Inside, Adding
<1> QED
  BY <1>3, <1>4, <1>5, <1>6, <1>7, <1>8, <1>9, <1>10, <1>12, <1>13
  DEF Next, TaskStep

\* A single loop finds its own wait object in the field, or null: it begins so.
LEMMA LoopStart ==
    ASSUME NEW t, Tasks = {t}, Init
    PROVE  LoopInv(t)
BY ConstantsAssumption DEF Init, LoopInv, Unregistered, Untouched

----------------------------------------------------------------------------

\* A single send thread works on wait objects without a result.  When it gives
\* the field's object its result before the loop awaits it, it does not report
\* again while the row is active.
Solo(l) ==
    /\ sendPc[l] # "exception"
    /\ sendPc[l] \in {"writing", "filling", "checking"} => reply[snap[l]] = "Requesting"
    /\ pending # 0 /\ reply[pending] # "Requesting" =>
          \/ sendPc[l] = "assigning"
          \/ sendPc[l] = "poll" /\ slotState[l] \in {"Active", "Failed", "Occupied"}

LEMMA SoloStep ==
    ASSUME NEW t, Tasks = {t}, NEW l, Loconets = {l},
           TypeInv, PendingIsWaited, LoopInv(t), Solo(l), [Next]_vars
    PROVE  Solo(l)'
<1> USE DEF Solo, TypeInv, TypeOK
<1>1. ASSUME UNCHANGED <<sendVars, reply>>, pending' \in {pending, 0} PROVE Solo(l)'
  BY <1>1
<1>2. CASE Register(t)
  <2>1. pc[t] = "activated" /\ UNCHANGED <<sendVars, reply>> BY <1>2 DEF Register
  <2>2. pending' = wait[t] /\ wait[t] \in WaitIds
    <3>1. isActive /\ wait[t] \in WaitIds BY <2>1 DEF LoopInv
    <3> QED BY <1>2, <3>1 DEF Register
  <2>3. reply[wait[t]] = "Requesting" BY <2>1, <2>2 DEF LoopInv, Unregistered, Untouched
  <2> QED BY <2>1, <2>2, <2>3
<1>3. CASE Request(t)
  BY <1>1, <1>3 DEF Request, Connect, QuitRequest, ActionRequest, RemoveRequest, AddRequest
<1>4. CASE TaskStep(t) /\ ~Register(t)
  BY <1>1, <1>4 DEF TaskStep, LoopTop, Activate, Await, Proceed, Timeout, Confirm,
     Refuse, Release
<1>5. ASSUME NEW c \in Clients, ForgetClient(c) PROVE Solo(l)'
  BY <1>1, <1>5 DEF ForgetClient
<1>6. CASE UNCHANGED vars BY <1>1, <1>6 DEF vars
\* While the field holds an object the row is active.
<1>7. pending # 0 => isActive
  BY DEF PendingIsWaited, LoopInv
<1>8. CASE SendStep(l)
  <2>1. CASE Check(l)
    <3>1. sendPc[l] = "checking" /\ reply[snap[l]] = "Requesting" BY <2>1 DEF Check
    <3>2. SendGoto(l, "assigning") BY <2>1, <3>1 DEF Check
    <3>3. sendPc'[l] = "assigning" BY <3>2
    <3> QED BY <3>3
  <2>2. CASE PollForget(l) \/ PollDeactivate(l)
    BY <1>7, <2>2 DEF PollForget, PollDeactivate
  <2>3. CASE Assign(l)
    <3>1. slotState'[l] \in {"Active", "Failed", "Occupied"} /\ sendPc'[l] = "poll"
      BY <2>3 DEF Assign
    <3> QED BY <3>1
  <2>4. CASE Report(l) BY <2>4 DEF Report
  <2>5. CASE ~Check(l) /\ ~PollForget(l) /\ ~PollDeactivate(l) /\ ~Assign(l) /\ ~Report(l)
    BY <1>8, <2>5 DEF SendStep, PollActivate, Acquire, WriteResult, WriteSlot,
       ReleaseSlot, Recover
  <2> QED BY <2>1, <2>2, <2>3, <2>4, <2>5
<1> QED BY <1>2, <1>3, <1>4, <1>5, <1>6, <1>8 DEF Next

\* With a single LocoNet and a single loop no send thread dies of a wait object
\* that has its result already (AllLoconetsReply.Check), whatever the order of
\* timeouts, removals and late results, and although the result may come between
\* the two lines with which WaitForSlotsAsync offers and awaits the object; with
\* two LocoNets, or two loops, it can.
THEOREM CompletedOnce ==
    ASSUME NEW t, Tasks = {t}, NEW l, Loconets = {l}
    PROVE  Spec => []NoDoubleCompletion
<1>1. Init => Solo(l) BY DEF Init, Solo
<1>2. TypeInv /\ PendingIsWaited /\ LoopInv(t) /\ Solo(l) /\ [Next]_vars => Solo(l)'
  BY SoloStep
<1>3. Solo(l) => NoDoubleCompletion BY DEF Solo, NoDoubleCompletion
<1>4. Init => LoopInv(t) BY LoopStart
<1>5. TypeInv /\ PendingIsWaited /\ LoopInv(t) /\ [Next]_vars => LoopInv(t)' BY LoopStep
<1> QED
  BY <1>1, <1>2, <1>3, <1>4, <1>5, TypeInvInductive, PendingWaited, PTL DEF Spec

----------------------------------------------------------------------------
(* A throttle is told that it has the loco when the wait object holds only     *)
(* successes.  A success is true when its send thread writes it, and the slot  *)
(* is kept while the row is active.                                            *)

\* The slot is granted and not about to be given back.
Held(l) == taken[l] /\ sendPc[l] # "releasing"

\* A success on its way to the wait object is a slot that the station granted.
SuccessGranted ==
    \A l \in Loconets :
        /\ sendPc[l] \in {"reporting", "writing", "filling", "checking", "assigning"}
        /\ outcome[l] = "Success"
        => taken[l]

LEMMA SuccessStep ==
    ASSUME TypeInv, SuccessGranted, [Next]_vars
    PROVE  SuccessGranted'
<1> USE DEF SuccessGranted, TypeInv, TypeOK
<1>1. CASE UNCHANGED sendVars BY <1>1
<1>2. ASSUME NEW l \in Loconets, SendStep(l) PROVE SuccessGranted'
  <2>1. CASE Acquire(l)
    <3>1. PICK answer \in Answers :
             /\ outcome' = [outcome EXCEPT ![l] = answer]
             /\ taken' = [taken EXCEPT ![l] = taken[l] \/ answer = "Success"]
      BY <2>1 DEF Acquire
    <3>2. SendGoto(l, "reporting") BY <2>1 DEF Acquire
    <3>3. outcome'[l] = answer /\ taken'[l] = (taken[l] \/ answer = "Success") BY <3>1
    <3>4. \A k \in Loconets \ {l} :
             outcome'[k] = outcome[k] /\ taken'[k] = taken[k] /\ sendPc'[k] = sendPc[k]
      BY <3>1, <3>2
    <3> QED BY <3>3, <3>4
  <2>2. CASE Check(l)
    <3>1. UNCHANGED <<outcome, taken>> /\ sendPc[l] = "checking" BY <2>2 DEF Check
    <3>2. SendGoto(l, "assigning") \/ SendGoto(l, "exception") BY <2>2 DEF Check
    <3> QED BY <3>1, <3>2
  <2>3. CASE ~Acquire(l) /\ ~Check(l)
    BY <1>2, <2>3 DEF SendStep, PollActivate, PollDeactivate, PollForget, Report,
       WriteResult, WriteSlot, Assign, ReleaseSlot, Recover
  <2> QED BY <2>1, <2>2, <2>3
<1> QED BY <1>1, <1>2, OthersKeepSends

\* What the loop's wait object says of success is true and stands.
GrantInv(t) ==
    pc[t] \in {"registered", "waiting"} =>
        /\ \A l \in Loconets : results[wait[t]][l] = "Success" => Held(l)
        /\ reply[wait[t]] \in {"Success", "Empty"} => \A l \in Loconets : Held(l)

\* A verdict of success needs a success from every LocoNet.
LEMMA VerdictSuccess ==
    ASSUME TypeInv, NEW w \in WaitIds, Verdict(w) \in {"Success", "Empty"}
    PROVE  \A l \in Loconets : results[w][l] = "Success"
<1> SUFFICES ASSUME NEW l \in Loconets, results[w][l] # "Success" PROVE FALSE OBVIOUS
<1> DEFINE given == {results[w][k] : k \in Loconets}
<1>1. results[w][l] \in given OBVIOUS
<1>2. results[w][l] \in {"Requesting", "Failure", "Occupied"}
  <2>1. results[w] \in [Loconets -> Answers \cup {"Requesting"}] BY DEF TypeInv, TypeOK
  <2> QED BY <2>1
<1>3. given \cap {"Requesting", "Failure", "Occupied"} # {} BY <1>1, <1>2
<1> HIDE DEF given
<1>4. Verdict(w) = CASE "Requesting" \in given -> "Requesting"
                     [] "Requesting" \notin given /\ "Failure" \in given -> "Failure"
                     [] given \cap {"Requesting", "Failure"} = {} /\ "Occupied" \in given
                          -> "Occupied"
                     [] OTHER -> IF w \in filled THEN "Success" ELSE "Empty"
  BY DEF Verdict, given
<1> QED BY <1>3, <1>4

\* What a send thread does while the only loop waits does not undo a success.
LEMMA SuccessStands ==
    ASSUME TypeInv, SuccessGranted, NEW t \in Tasks, LoopInv(t), GrantInv(t),
           pc[t] \in {"registered", "waiting"}, pc'[t] = pc[t], wait'[t] = wait[t],
           NEW l \in Loconets, SendStep(l)
    PROVE  GrantInv(t)'
<1> USE DEF TypeInv, TypeOK
<1> DEFINE w == wait[t]
<1>1. w \in WaitIds /\ isActive BY DEF LoopInv
<1>2. \A k \in Loconets : Held(k) => Held(k)'
  <2> SUFFICES ASSUME NEW k \in Loconets, Held(k) PROVE Held(k)' OBVIOUS
  <2>1. CASE Check(l)
    <3>1. UNCHANGED taken /\ (SendGoto(l, "assigning") \/ SendGoto(l, "exception"))
      BY <2>1 DEF Check
    <3> QED BY <3>1 DEF Held
  <2>2. CASE Acquire(l)
    <3>1. PICK answer \in Answers :
             taken' = [taken EXCEPT ![l] = taken[l] \/ answer = "Success"]
      BY <2>2 DEF Acquire
    <3>2. SendGoto(l, "reporting") BY <2>2 DEF Acquire
    <3> QED BY <3>1, <3>2 DEF Held
  <2>3. CASE ReleaseSlot(l) BY <2>3 DEF ReleaseSlot, Held
  <2>4. CASE ~Check(l) /\ ~Acquire(l) /\ ~ReleaseSlot(l)
    BY <1>1, <2>4 DEF SendStep, PollActivate, PollDeactivate, PollForget, Report,
       WriteResult, WriteSlot, Assign, Recover, Held
  <2> QED BY <2>1, <2>2, <2>3, <2>4
<1>3. CASE WriteResult(l)
  <2>1. /\ results' = [results EXCEPT ![snap[l]] = [results[snap[l]] EXCEPT ![l] = outcome[l]]]
        /\ sendPc[l] = "writing" /\ UNCHANGED <<reply, taken>>
        /\ SendGoto(l, "filling") \/ SendGoto(l, "checking")
    BY <1>3 DEF WriteResult
  <2>2. outcome[l] = "Success" => Held(l)'
    BY <2>1 DEF SuccessGranted, Held
  <2>3. ASSUME NEW k \in Loconets, results'[w][k] = "Success" PROVE Held(k)'
    <3>1. results[w][k] = "Success" \/ (k = l /\ outcome[l] = "Success")
      <4>1. results[w] \in [Loconets -> Answers \cup {"Requesting"}] BY <1>1
      <4> HIDE DEF w, TypeOK
      <4>2. CASE snap[l] = w BY <1>1, <2>1, <2>3, <4>1, <4>2 DEF TypeOK
      <4>3. CASE snap[l] # w BY <1>1, <2>1, <2>3, <4>3 DEF TypeOK
      <4> QED BY <4>2, <4>3
    <3> QED BY <1>2, <2>2, <3>1 DEF GrantInv
  <2> QED BY <1>2, <2>1, <2>3 DEF GrantInv
<1>4. CASE Check(l)
  <2>1. UNCHANGED results BY <1>4 DEF Check
  <2>2. snap[l] \in WaitIds BY <1>4 DEF Check, SnapInUse
  <2>3. UNCHANGED reply \/ reply' = [reply EXCEPT ![snap[l]] = Verdict(snap[l])]
    BY <1>4 DEF Check
  <2>4. reply'[w] = reply[w] \/ (snap[l] = w /\ reply'[w] = Verdict(w))
    <3> HIDE DEF w
    <3>1. CASE snap[l] = w BY <1>1, <2>3, <3>1
    <3>2. CASE snap[l] # w BY <1>1, <2>3, <3>2
    <3> QED BY <3>1, <3>2
  <2>5. ASSUME reply'[w] \in {"Success", "Empty"} PROVE \A k \in Loconets : Held(k)'
    <3>1. CASE reply'[w] = reply[w] BY <1>2, <2>5, <3>1 DEF GrantInv
    <3>2. CASE Verdict(w) \in {"Success", "Empty"}
      BY <1>1, <1>2, <3>2, VerdictSuccess DEF GrantInv
    <3> QED BY <2>4, <2>5, <3>1, <3>2
  <2> QED BY <1>2, <2>1, <2>5 DEF GrantInv
<1>5. CASE ~WriteResult(l) /\ ~Check(l)
  <2>1. UNCHANGED <<results, reply>>
    BY <1>5 DEF SendStep, PollActivate, PollDeactivate, PollForget, Acquire, Report,
       WriteSlot, Assign, ReleaseSlot, Recover
  <2> QED BY <1>2, <2>1 DEF GrantInv
<1> QED BY <1>3, <1>4, <1>5

LEMMA GrantStep ==
    ASSUME NEW t, Tasks = {t}, TypeInv, PendingIsWaited, SuccessGranted,
           LoopInv(t), GrantInv(t), [Next]_vars
    PROVE  GrantInv(t)'
<1> USE DEF TypeInv, TypeOK
<1>1. CASE Register(t)
  <2>1. pc[t] = "activated" /\ UNCHANGED <<results, reply>> /\ wait[t] \in WaitIds
    BY <1>1 DEF Register, LoopInv
  <2>2. UNCHANGED wait BY <1>1, <2>1 DEF Register, LoopInv
  <2>3. Untouched(wait[t]) BY <2>1 DEF LoopInv, Unregistered
  <2> QED BY <2>1, <2>2, <2>3 DEF Untouched, GrantInv
<1>2. CASE Await(t)
  <2>1. pc[t] = "registered" /\ UNCHANGED <<results, reply, taken, sendPc>> BY <1>2 DEF Await
  <2>2. CASE Goto(t, "thrown") BY <2>2 DEF GrantInv
  <2>3. CASE pending # 0 /\ Goto(t, "waiting") /\ wait' = [wait EXCEPT ![t] = pending]
    <3>1. wait[t] = pending BY <2>3 DEF PendingIsWaited
    <3>2. wait'[t] = wait[t] BY <2>3, <3>1
    <3> QED BY <2>1, <3>2 DEF GrantInv, Held
  <2> QED BY <1>2, <2>2, <2>3, Zenon DEF Await
<1>3. CASE Request(t) \/ (TaskStep(t) /\ ~Register(t) /\ ~Await(t))
  <2>1. pc'[t] \notin {"registered", "waiting"}
    <3>1. CASE AddRequest(t)
      <4>1. LeaveAdd(t, "dead") \/ Goto(t, "adding") BY <3>1, Zenon DEF AddRequest
      <4> QED BY <4>1
    <3>2. CASE Activate(t)
      <4>1. LeaveAdd(t, "dead") \/ Goto(t, "activated") BY <3>2, Zenon DEF Activate
      <4> QED BY <4>1
    <3>3. CASE Proceed(t)
      <4>1. LeaveAdd(t, "dead") \/ LeaveAdd(t, After(reply[wait[t]])) BY <3>3 DEF Proceed
      <4>2. pc'[t] = "dead" \/ pc'[t] = After(reply[wait[t]]) BY <4>1
      <4> QED BY <4>2, AfterType
    <3>4. CASE Request(t) /\ ~AddRequest(t)
      BY <3>4 DEF Request, Connect, QuitRequest, ActionRequest, RemoveRequest
    <3>5. CASE LoopTop(t) \/ Timeout(t) \/ Confirm(t) \/ Refuse(t) \/ Release(t)
      BY <3>5 DEF LoopTop, Timeout, Confirm, Refuse, Release
    <3> QED BY <1>3, <3>1, <3>2, <3>3, <3>4, <3>5 DEF TaskStep
  <2> QED BY <2>1 DEF GrantInv
<1>4. ASSUME NEW l \in Loconets, SendStep(l) PROVE GrantInv(t)'
  <2>1. \/ pc'[t] = pc[t] /\ wait'[t] = wait[t]
        \/ pc'[t] \in {"granted", "unfilled", "refused", "failed"}
    <3>1. CASE Check(l) BY <3>1, CheckMoves
    <3>2. CASE ~Check(l) BY <1>4, <3>2, SendStepKeepsWaiters
    <3> QED BY <3>1, <3>2
  <2>2. CASE pc[t] \in {"registered", "waiting"} /\ pc'[t] = pc[t] /\ wait'[t] = wait[t]
    BY <1>4, <2>2, SuccessStands
  <2>3. CASE pc'[t] \notin {"registered", "waiting"} BY <2>3 DEF GrantInv
  <2> QED BY <2>1, <2>2, <2>3
<1>5. ASSUME NEW c \in Clients, ForgetClient(c) PROVE GrantInv(t)'
  BY <1>5 DEF ForgetClient, GrantInv, Held
<1>6. CASE UNCHANGED vars BY <1>6 DEF vars, GrantInv, Held
<1> QED BY <1>1, <1>2, <1>3, <1>4, <1>5, <1>6 DEF Next

\* The loop is told by the result it finds, or by a Check of its wait object.
LEMMA ToldBy ==
    ASSUME NEW t, Tasks = {t}, TypeInv, Next,
           pc[t] = "waiting", pc'[t] \in {"granted", "unfilled"}
    PROVE  \/ reply[wait[t]] \in {"Success", "Empty"}
           \/ wait[t] \in WaitIds /\ Verdict(wait[t]) \in {"Success", "Empty"}
<1> USE DEF TypeInv, TypeOK
<1>1. CASE Proceed(t)
  <2>1. LeaveAdd(t, After(reply[wait[t]])) BY <1>1 DEF Proceed
  <2>2. After(reply[wait[t]]) \in {"granted", "unfilled"} BY <2>1
  <2> QED BY <2>2 DEF After
<1>2. CASE Timeout(t) BY <1>2 DEF Timeout
<1>3. CASE Register(t) \/ Await(t) BY <1>3 DEF Register, Await
<1>4. ASSUME NEW l \in Loconets, Check(l)
      PROVE  wait[t] \in WaitIds /\ Verdict(wait[t]) \in {"Success", "Empty"}
  <2>1. wait[t] = snap[l] /\ After(Verdict(snap[l])) \in {"granted", "unfilled"}
    BY <1>4, CheckMoves
  <2>2. Verdict(snap[l]) \in {"Success", "Empty"} BY <2>1 DEF After
  <2>3. snap[l] \in WaitIds BY <1>4 DEF Check, SnapInUse
  <2> QED BY <2>1, <2>2, <2>3
<1>5. ~WaitersKept BY DEF WaitersKept
<1>6. ASSUME NEW c \in Clients, ForgetClient(c) PROVE FALSE
  BY <1>6 DEF ForgetClient
<1> QED
  BY <1>1, <1>2, <1>3, <1>4, <1>5, <1>6,
     RequestKeepsWaiters, TaskStepKeepsWaiters, SendStepKeepsWaiters DEF Next

\* GrantedMeansTaken of LocoRow, for any number of LocoNets: a throttle is told
\* that it has the loco only when the station of every LocoNet has granted the
\* slot, whatever attempts and results came before (AllLoconetsReply.Check) and
\* although the object is offered before it is awaited, if only one loop works on
\* the row; with two, TLC finds that it is not so.
THEOREM ToldMeansTaken ==
    ASSUME NEW x, Tasks = {x}
    PROVE  Spec => GrantedMeansTaken
<1> DEFINE Told == \A t \in Tasks : pc[t] = "waiting" /\ pc'[t] \in {"granted", "unfilled"}
                      => \A l \in Loconets : taken[l]
<1>1. Init => SuccessGranted /\ GrantInv(x)
  BY DEF Init, SuccessGranted, GrantInv
<1>2. TypeInv /\ PendingIsWaited /\ SuccessGranted /\ LoopInv(x) /\ GrantInv(x) /\ [Next]_vars
         => SuccessGranted' /\ GrantInv(x)'
  BY SuccessStep, GrantStep
<1>3. TypeInv /\ GrantInv(x) /\ [Next]_vars => [Told]_vars
  <2> SUFFICES ASSUME TypeInv, GrantInv(x), Next,
                      pc[x] = "waiting", pc'[x] \in {"granted", "unfilled"},
                      NEW k \in Loconets
               PROVE  taken[k]
    OBVIOUS
  <2>1. CASE reply[wait[x]] \in {"Success", "Empty"} BY <2>1 DEF GrantInv, Held
  <2>2. CASE wait[x] \in WaitIds /\ Verdict(wait[x]) \in {"Success", "Empty"}
    BY <2>2, VerdictSuccess DEF GrantInv, Held
  <2> QED BY <2>1, <2>2, ToldBy
<1>4. Init => LoopInv(x) BY LoopStart
<1>5. TypeInv /\ PendingIsWaited /\ LoopInv(x) /\ [Next]_vars => LoopInv(x)' BY LoopStep
<1>6. Spec => [](TypeInv /\ SuccessGranted /\ GrantInv(x))
  <2> HIDE DEF Told
  <2> QED BY <1>1, <1>2, <1>4, <1>5, TypeInvInductive, PendingWaited, PTL DEF Spec
<1>7. Spec => [][Told]_vars
  <2> HIDE DEF Told
  <2> QED BY <1>3, <1>6, PTL DEF Spec
<1> QED BY <1>7 DEF GrantedMeansTaken

----------------------------------------------------------------------------
\* A step that changes neither the row's activity nor what clients hold.
HoldingKept == UNCHANGED <<isActive, holds>>

\* Every step either leaves both alone or changes both for the only client.
LEMMA HeldStep ==
    ASSUME NEW c, Clients = {c}, TypeInv, HeldRowIsActive, [Next]_vars
    PROVE  HeldRowIsActive'
<1>0. ASSUME HoldingKept PROVE HeldRowIsActive'
  BY <1>0 DEF HoldingKept, HeldRowIsActive
<1>1. ASSUME NEW t \in Tasks, Request(t) PROVE HeldRowIsActive'
  <2> owner[t] = c BY DEF TypeInv, TypeOK
  <2>1. CASE Connect(t)       BY <2>1 DEF Connect, HeldRowIsActive, TypeInv, TypeOK
  <2>2. CASE QuitRequest(t)   BY <2>2, <1>0 DEF QuitRequest, HoldingKept
  <2>3. CASE ActionRequest(t) BY <2>3, <1>0 DEF ActionRequest, HoldingKept
  <2>4. CASE RemoveRequest(t) BY <2>4 DEF RemoveRequest, HeldRowIsActive, TypeInv, TypeOK
  <2>5. CASE AddRequest(t)    BY <2>5, <1>0 DEF AddRequest, HoldingKept, rowVars, clientVars
  <2> QED BY <1>1, <2>1, <2>2, <2>3, <2>4, <2>5 DEF Request
<1>2. ASSUME NEW t \in Tasks, TaskStep(t) PROVE HeldRowIsActive'
  <2> owner[t] = c BY DEF TypeInv, TypeOK
  <2>1. CASE LoopTop(t)  BY <2>1, <1>0 DEF LoopTop, HoldingKept, rowVars, clientVars
  <2>2. CASE Activate(t)
    <3>1. UNCHANGED <<isActive, holds>> \/ isActive' = TRUE BY <2>2 DEF Activate
    <3> QED BY <3>1, <1>0 DEF HoldingKept, HeldRowIsActive
  <2>3. CASE Register(t) BY <2>3, <1>0 DEF Register, HoldingKept, clientVars
  <2>4. CASE Await(t) \/ Proceed(t) \/ Timeout(t)
    BY <2>4, <1>0 DEF Await, Proceed, Timeout, HoldingKept, rowVars, clientVars
  <2>5. CASE Confirm(t) \/ Refuse(t)
    BY <2>5, <1>0 DEF Confirm, Refuse, HoldingKept, rowVars, clientVars
  <2>6. CASE Release(t)  BY <2>6 DEF Release, HeldRowIsActive, TypeInv, TypeOK
  <2> QED BY <1>2, <2>1, <2>2, <2>3, <2>4, <2>5, <2>6 DEF TaskStep
<1>3. ASSUME NEW l \in Loconets, SendStep(l) PROVE HeldRowIsActive'
  BY <1>3, <1>0 DEF SendStep, PollActivate, PollDeactivate, PollForget, Acquire, Report,
     WriteResult, WriteSlot, Check, Assign, ReleaseSlot, Recover, HoldingKept, rowVars, clientVars
<1>4. ASSUME NEW d \in Clients, ForgetClient(d) PROVE HeldRowIsActive'
  BY <1>4, <1>0 DEF ForgetClient, HoldingKept, rowVars
<1>5. CASE UNCHANGED vars
  BY <1>5, <1>0 DEF vars, HoldingKept, rowVars, clientVars
<1> QED BY <1>1, <1>2, <1>3, <1>4, <1>5 DEF Next

\* With a single client, whatever its old and new loops do between their locked
\* sections, a row in its _myLocos is active (WifredClient.MtAddAsync).
THEOREM HeldIsActive ==
    ASSUME NEW c, Clients = {c}
    PROVE  Spec => []HeldRowIsActive
<1>1. Init => HeldRowIsActive BY DEF Init, HeldRowIsActive
<1>2. TypeInv /\ HeldRowIsActive /\ [Next]_vars => HeldRowIsActive' BY HeldStep
<1> QED BY <1>1, <1>2, TypeInvInductive, PTL DEF Spec

=============================================================================
