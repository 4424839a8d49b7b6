------------------------ MODULE SendLifeCycle_proofs ------------------------
(***************************************************************************)
(* Proofs about SendLifeCycle, for any number of LocoNets and exceptions,  *)
(* and whenever the service is stopped: types, and the receive thread      *)
(* never reads from a client that is null.                                 *)
(***************************************************************************)
EXTENDS SendLifeCycle, TLAPS

LEMMA OrderLength == Len(Order) = 4
  BY DEF Order

\* One call of the disposal.
LEMMA DisposeTypes ==
    ASSUME TypeOK, NEW n \in Nets, NEW what, MayDispose(n, what)
    PROVE  disposing' \in [Nets -> 0 .. Len(Order)]
<1>1. disposing[n] \in 0 .. 4 /\ disposing[n] < 4
  BY OrderLength DEF TypeOK, MayDispose
<1>2. disposing[n] + 1 \in 0 .. 4 BY <1>1
<1>3. disposing' = [disposing EXCEPT ![n] = disposing[n] + 1] BY DEF MayDispose
<1>4. disposing \in [Nets -> 0 .. 4] BY OrderLength DEF TypeOK
<1> QED BY <1>2, <1>3, <1>4, OrderLength

\* The receive thread has a client where it needs one.
LEMMA ReceiveStep ==
    ASSUME TypeOK, NEW n \in Nets, ReceiveThread(n) \/ ReadLine(n) \/ ServerGoes(n)
    PROVE  TypeOK'
<1> USE DEF TypeOK, Receive, Client, stopVars, sendVars
<1>1. CASE Connect(n)                 BY <1>1 DEF Connect
<1>2. CASE Connected(n)               BY <1>2 DEF Connected
<1>3. CASE ConnectFails(n)            BY <1>3 DEF ConnectFails
<1>4. CASE OnConnectionEstablished(n) BY <1>4 DEF OnConnectionEstablished
<1>5. CASE Operation(n)               BY <1>5 DEF Operation
<1>6. CASE InnerLoop(n)               BY <1>6 DEF InnerLoop
<1>7. CASE ReadFails(n)               BY <1>7 DEF ReadFails
<1>8. CASE ReadLine(n)                BY <1>8 DEF ReadLine
<1>9. CASE ServerGoes(n)              BY <1>9 DEF ServerGoes
<1> QED BY <1>1, <1>2, <1>3, <1>4, <1>5, <1>6, <1>7, <1>8, <1>9 DEF ReceiveThread

\* The send thread and its exceptions touch neither connection nor disposal.
LEMMA SendStep ==
    ASSUME TypeOK, NEW n \in Nets, SendThread(n) \/ Fault(n)
    PROVE  TypeOK'
<1> USE DEF TypeOK, Send, receiveVars, stopVars
<1>1. CASE Begin(n)              BY <1>1 DEF Begin
<1>2. CASE LookAtState(n)        BY <1>2 DEF LookAtState
<1>3. CASE WaitForOperational(n) BY <1>3 DEF WaitForOperational
<1>4. CASE Initialize(n)         BY <1>4 DEF Initialize
<1>5. CASE Fault(n)
  <2>1. faults' \in 0 .. MaxFaults BY <1>5, LifeAssumption DEF Fault
  <2> QED BY <1>5, <2>1 DEF Fault
<1> QED BY <1>1, <1>2, <1>3, <1>4, <1>5 DEF SendThread

\* The disposal leaves a client that was there.
LEMMA DisposeStep ==
    ASSUME TypeOK, NEW n \in Nets, Dispose(n)
    PROVE  TypeOK'
<1> USE DEF receiveVars, sendVars, stopVars
<1>1. disposing' \in [Nets -> 0 .. Len(Order)]
  BY DisposeTypes DEF Dispose, DisposeSend, Cancel, DisposeSocket, Join
<1>2. CASE DisposeSend(n)   BY <1>1, <1>2 DEF DisposeSend, TypeOK
<1>3. CASE Cancel(n)        BY <1>1, <1>3 DEF Cancel, TypeOK
<1>4. CASE DisposeSocket(n) BY <1>1, <1>4 DEF DisposeSocket, Client, TypeOK
<1>5. CASE Join(n)          BY <1>1, <1>5 DEF Join, TypeOK
<1> QED BY <1>2, <1>3, <1>4, <1>5 DEF Dispose

\* Every variable keeps its type, and a receive thread that is about to read has
\* a client to read from (the "_client!" of ReceiveLineIntoBuffer).
THEOREM LifeCycleTypes == Spec => []TypeOK
<1>1. Init => TypeOK
  <2> SUFFICES ASSUME Init PROVE TypeOK OBVIOUS
  <2>1. disposing \in [Nets -> 0 .. Len(Order)] BY OrderLength DEF Init
  <2>2. faults \in 0 .. MaxFaults BY LifeAssumption DEF Init
  <2> QED BY <2>1, <2>2 DEF Init, TypeOK
<1>2. TypeOK /\ [Next]_vars => TypeOK'
  <2> SUFFICES ASSUME TypeOK, [Next]_vars PROVE TypeOK' OBVIOUS
  <2>1. ASSUME NEW n \in Nets, ReceiveThread(n) \/ SendThread(n) \/ Dispose(n) \/ Outside(n)
        PROVE  TypeOK'
    BY <2>1, ReceiveStep, SendStep, DisposeStep DEF Outside
  <2>2. CASE Stop
    BY <2>2 DEF Stop, TypeOK, receiveVars, sendVars
  <2>3. CASE UNCHANGED vars
    BY <2>3 DEF vars, TypeOK
  <2> QED BY <2>1, <2>2, <2>3 DEF Next
<1> QED BY <1>1, <1>2, PTL DEF Spec
=============================================================================
