--------------------------- MODULE SendLifeCycle ---------------------------
(***************************************************************************)
(* The two threads of every configured LocoNet, from the start of the      *)
(* service to its end: the receive thread connects, reads and connects     *)
(* again; the send thread waits for a connection, asks for the system slot *)
(* and operates; the service stops them, one LocoNet after the other, and  *)
(* waits for each receive thread.  Connecting and reading block, and no    *)
(* cancellation reaches them: a read ends only with its socket.            *)
(*                                                                         *)
(* What the send thread sends is in SlotActivation and SlotOperation, how  *)
(* a message is exchanged in LoconetClient: here an exchange just returns. *)
(***************************************************************************)
EXTENDS Naturals, Sequences

CONSTANTS Nets,       \* the configured LocoNets
          MaxFaults,  \* bound on exceptions in send threads
          Prompt      \* after the event, a receive thread gets to Operation within
                      \* the second that the send thread waits after an exception

ASSUME LifeAssumption == MaxFaults \in Nat /\ Prompt \in BOOLEAN

VARIABLES
    receive,    \* per LocoNet: where the receive thread is
    client,     \* per LocoNet: _client: "null", "alive", "lost" or "disposed"
    cancelled,  \* LocoNets whose LoconetClient is cancelled
    wake,       \* LocoNets whose _wake is set
    send,       \* per LocoNet: where the send thread is
    sendCancelled,  \* LocoNets whose LoconetSend is cancelled
    stopping,   \* the service is being stopped
    disposing,  \* per LocoNet: how much of its Dispose calls is done
    closed,     \* LocoNets whose cancellation source is disposed of
    faults

receiveVars == <<receive, client>>
sendVars    == <<send, faults>>
stopVars    == <<cancelled, sendCancelled, stopping, disposing, closed>>
vars == <<receive, client, cancelled, wake, send, sendCancelled, stopping, disposing,
          closed, faults>>

\* Mutant: the socket is closed before the cancellation is known.
OrderSocketFirst == <<"send", "socket", "client", "join">>

\* DisposeClients and LoconetClient.Dispose.
Order == <<"send", "client", "socket", "join">>

TypeOK ==
    /\ receive \in [Nets -> {"start", "connect", "init", "established", "operation",
                             "reading", "wait", "ended"}]
    /\ client \in [Nets -> {"null", "alive", "lost", "disposed"}]
    /\ cancelled \subseteq Nets /\ sendCancelled \subseteq Nets
    /\ wake \subseteq Nets /\ closed \subseteq Nets
    /\ send \in [Nets -> {"start", "WaitForOperational", "waiting", "Initialize",
                          "NormalOperation", "Exception", "ended"}]
    /\ stopping \in BOOLEAN
    /\ disposing \in [Nets -> 0 .. Len(Order)]
    /\ faults \in 0 .. MaxFaults
    /\ \A n \in Nets :   \* the "_client!" of ReceiveLineIntoBuffer
          receive[n] \in {"init", "established", "operation", "reading"} => client[n] # "null"

Init ==
    /\ receive = [n \in Nets |-> "start"] /\ client = [n \in Nets |-> "null"]
    /\ cancelled = {} /\ sendCancelled = {} /\ wake = {} /\ closed = {}
    /\ send = [n \in Nets |-> "start"]
    /\ stopping = FALSE /\ disposing = [n \in Nets |-> 0]
    /\ faults = 0

Receive(n, place) == receive' = [receive EXCEPT ![n] = place]
Client(n, state)  == client' = [client EXCEPT ![n] = state]
Send(n, place)    == send' = [send EXCEPT ![n] = place]

----------------------------------------------------------------------------
(* The receive thread. *)

\* The thread starts, or its second of waiting is over, or cut short.
Connect(n) ==
    /\ receive[n] \in {"start", "wait"}
    /\ Receive(n, IF n \in cancelled THEN "ended" ELSE "connect")
    /\ UNCHANGED <<client, wake, sendVars, stopVars>>

\* The constructor of TcpClient returns, perhaps after a cancellation ...
Connected(n) ==
    /\ receive[n] = "connect"
    /\ Receive(n, "init") /\ Client(n, "alive")
    /\ UNCHANGED <<wake, sendVars, stopVars>>

\* ... or throws.
ConnectFails(n) ==
    /\ receive[n] = "connect"
    /\ Receive(n, IF n \in cancelled THEN "ended" ELSE "wait")
    /\ UNCHANGED <<client, wake, sendVars, stopVars>>

\* Mutant: only a send thread that waits already is woken.
OnConnectionEstablishedPulse(n) ==
    /\ receive[n] = "init"
    /\ wake' = IF send[n] = "waiting" THEN wake \cup {n} ELSE wake
    /\ Receive(n, "established")
    /\ UNCHANGED <<client, sendVars, stopVars>>

OnConnectionEstablished(n) ==
    /\ receive[n] = "init"
    /\ wake' = wake \cup {n}
    /\ Receive(n, "established")
    /\ UNCHANGED <<client, sendVars, stopVars>>

\* State = Operation.
Operation(n) ==
    /\ receive[n] = "established"
    /\ Receive(n, "operation")
    /\ UNCHANGED <<client, wake, sendVars, stopVars>>

\* The inner loop: a look at the cancellation, then a read that blocks.
InnerLoop(n) ==
    /\ receive[n] = "operation"
    /\ IF n \in cancelled
       THEN Receive(n, "wait") /\ Client(n, "null")
       ELSE Receive(n, "reading") /\ UNCHANGED client
    /\ UNCHANGED <<wake, sendVars, stopVars>>

\* The rest of a line, or a part of one: after a part the cancellation is seen.
ReadLine(n) ==
    /\ receive[n] = "reading" /\ client[n] = "alive"
    /\ \/ Receive(n, "operation")
       \/ n \in cancelled /\ Receive(n, "ended")
    /\ UNCHANGED <<client, wake, sendVars, stopVars>>

\* End of file or an exception: while shutting down the thread just ends.
ReadFails(n) ==
    /\ receive[n] = "reading" /\ client[n] \in {"lost", "disposed"}
    /\ IF client[n] = "disposed" /\ n \in cancelled
       THEN Receive(n, "ended") /\ UNCHANGED client
       ELSE Receive(n, "wait") /\ Client(n, "null")
    /\ UNCHANGED <<wake, sendVars, stopVars>>

ServerGoes(n) ==
    /\ client[n] = "alive"
    /\ Client(n, "lost")
    /\ UNCHANGED <<receive, wake, sendVars, stopVars>>

----------------------------------------------------------------------------
(* The send thread. *)

IsOperational(n) == receive[n] \in {"operation", "reading"}

\* The top of the loop in SendThreadMain: at the start, after an exception, and
\* after NormalOperation, which returns only when cancelled.
Begin(n) ==
    /\ \/ send[n] = "start"
       \/ send[n] = "Exception" /\ (Prompt => receive[n] # "established")
       \/ send[n] = "NormalOperation" /\ n \in sendCancelled
    /\ Send(n, IF n \in sendCancelled THEN "ended" ELSE "WaitForOperational")
    /\ UNCHANGED <<faults, wake, receiveVars, stopVars>>

LookAtState(n) ==
    /\ send[n] = "WaitForOperational"
    /\ Send(n, IF IsOperational(n) THEN "Initialize" ELSE "waiting")
    /\ UNCHANGED <<faults, wake, receiveVars, stopVars>>

\* WaitAny: the cancellation comes first, _wake resets itself.
WaitForOperational(n) ==
    /\ send[n] = "waiting"
    /\ \/ n \in sendCancelled /\ Send(n, "ended") /\ UNCHANGED wake
       \/ n \notin sendCancelled /\ n \in wake /\ Send(n, "Initialize") /\ wake' = wake \ {n}
    /\ UNCHANGED <<faults, receiveVars, stopVars>>

\* The system slot is read, or not: the result makes no difference here.
Initialize(n) ==
    /\ send[n] = "Initialize"
    /\ Send(n, "NormalOperation")
    /\ UNCHANGED <<faults, wake, receiveVars, stopVars>>

\* An exception somewhere in the work, as LocoRow has one.
Fault(n) ==
    /\ send[n] \in {"Initialize", "NormalOperation"} /\ faults < MaxFaults
    /\ faults' = faults + 1
    /\ Send(n, "Exception")
    /\ UNCHANGED <<wake, receiveVars, stopVars>>

----------------------------------------------------------------------------
(* The service stops. *)

Stop ==
    /\ ~stopping /\ stopping' = TRUE
    /\ UNCHANGED <<receiveVars, wake, sendVars, cancelled, sendCancelled, disposing, closed>>

\* One LocoNet after the other, in whatever order they are configured.
MayDispose(n, what) ==
    /\ stopping /\ disposing[n] < Len(Order) /\ Order[disposing[n] + 1] = what
    /\ \A m \in Nets \ {n} : disposing[m] \in {0, Len(Order)}
    /\ disposing' = [disposing EXCEPT ![n] = @ + 1]

DisposeSend(n) ==
    /\ MayDispose(n, "send")
    /\ sendCancelled' = sendCancelled \cup {n}
    /\ UNCHANGED <<receiveVars, wake, sendVars, cancelled, stopping, closed>>

Cancel(n) ==
    /\ MayDispose(n, "client")
    /\ cancelled' = cancelled \cup {n}
    /\ UNCHANGED <<receiveVars, wake, sendVars, sendCancelled, stopping, closed>>

\* Mutant: the client is forgotten as well.
DisposeSocketForgets(n) ==
    /\ MayDispose(n, "socket")
    /\ Client(n, "null")
    /\ UNCHANGED <<receive, wake, sendVars, cancelled, sendCancelled, stopping, closed>>

\* _client?.Dispose(): there may be no client yet.
DisposeSocket(n) ==
    /\ MayDispose(n, "socket")
    /\ Client(n, IF client[n] = "null" THEN "null" ELSE "disposed")
    /\ UNCHANGED <<receive, wake, sendVars, cancelled, sendCancelled, stopping, closed>>

\* The thread is waited for before the cancellation source, which it asks and
\* waits on, is disposed of.
Join(n) ==
    /\ MayDispose(n, "join")
    /\ receive[n] = "ended"
    /\ closed' = closed \cup {n}
    /\ UNCHANGED <<receiveVars, wake, sendVars, cancelled, sendCancelled, stopping>>

----------------------------------------------------------------------------
ReceiveThread(n) ==
    \/ Connect(n) \/ Connected(n) \/ ConnectFails(n) \/ OnConnectionEstablished(n)
    \/ Operation(n) \/ InnerLoop(n) \/ ReadFails(n)
SendThread(n) ==
    Begin(n) \/ LookAtState(n) \/ WaitForOperational(n) \/ Initialize(n)
Dispose(n) == DisposeSend(n) \/ Cancel(n) \/ DisposeSocket(n) \/ Join(n)
Outside(n) == ReadLine(n) \/ ServerGoes(n) \/ Fault(n)

Next == Stop \/ \E n \in Nets : ReceiveThread(n) \/ SendThread(n) \/ Dispose(n) \/ Outside(n)

Spec == Init /\ [][Next]_vars

\* The threads run, an attempt to connect ends some time, and the stop goes on;
\* no line need come, no connection be lost, and nobody need stop the service.
FairSpec ==
    /\ Spec
    /\ \A n \in Nets : /\ WF_vars(ReceiveThread(n))
                       /\ WF_vars(SendThread(n))
                       /\ WF_vars(Dispose(n))

----------------------------------------------------------------------------
\* No wake-up is lost: when a connection is up and stays up, the send thread
\* gets to its normal operation, whether it came to wait before or after the
\* event was set, and also after an exception.
SendStarts ==
    \A n \in Nets :
        IsOperational(n) ~> (send[n] = "NormalOperation" \/ ~IsOperational(n) \/ stopping)

\* The stop ends all threads and returns, wherever they are: before, in and
\* after an attempt to connect, in a read, in the wait for the next attempt.
StopEnds ==
    stopping ~> (closed = Nets /\ \A n \in Nets : send[n] = "ended")
=============================================================================
