-------------------------- MODULE ThrottleSession --------------------------
(***************************************************************************)
(* The connections of one throttle (one uid): the service accepts them and *)
(* reads who it is, the store has the WifredClient for the uid, the client *)
(* has its current connection, and each connection has started one         *)
(* processing loop, which reads from whatever connection is current when   *)
(* it comes to read.  Nothing tells the loop of a replaced connection.     *)
(* What the commands do to the locos is in LocoRow.                        *)
(*                                                                         *)
(* All of this runs in tasks of a thread pool without a common lock, so    *)
(* Disconnect and UpdateConnection, which many call, take several steps.   *)
(***************************************************************************)
EXTENDS Naturals, Sequences

CONSTANTS Conns,      \* connections of the throttle, one after the other or not
          MaxClients, \* bound on the WifredClient objects made for it
          Careful,    \* values of careful
          MaxOutside  \* bound on the throttle's lines and uses of the page's button

ASSUME SessionAssumption ==
    /\ "null" \notin Conns
    /\ MaxClients \in Nat /\ MaxOutside \in Nat
    /\ Careful \subseteq BOOLEAN

VARIABLES
    careful,    \* the throttle comes back, and is forgotten, only at rest, and
                \* sends nothing over a connection that is being closed
    store,      \* the client of the uid in WifredClientStore
    made,       \* how many WifredClient objects there are
    current,    \* per client: _customTcpClient
    conn,       \* per connection: "none", "open", "ended" by the throttle, "broken"
                \* (so that Connected is false), "closing" in Dispose, or "disposed"
    lines,      \* per connection: its channel
    pc,         \* per connection: where its handler, and then its loop, is
    owner,      \* per connection: the client its handler got from the store
    from,       \* per connection: the one its loop reads from, or that its
                \* handler or loop disposes of
    line,       \* per connection: the line its loop handles
    remover,    \* the connection that ForgetClient or StopAsync disposes of
    outside,    \* how often throttle and page have acted
    service     \* "accepting", "disconnecting" or "stopped" (token cancelled)

netVars  == <<conn, lines>>
loopVars == <<pc, owner, from, line>>
restVars == <<careful, service>>
vars == <<careful, store, made, current, conn, lines, pc, owner, from,
          line, remover, outside, service>>

Null  == "null"
NoClient == 0
Clients == 1..MaxClients
Lines == {"command", "add", "bad", "Q"}

\* Where a handler or loop may be: in the handshake, in UpdateConnection, ...
Handshake == {"hello", "got"}
Updating  == {"nullBeforeAssign", "assign"}
Reading   == {"read", "switch", "adding"}
Looping   == {"while", "use", "nullAfterQuit"} \cup Reading
Over      == {"none", "refused", "returned", "thrown"}

\* A client's connection is one whose handler got this client from the store,
\* and who reads, reads from a connection.
TypeOK ==
    /\ careful \in Careful
    /\ store \in 0..MaxClients
    /\ made \in 0..MaxClients
    /\ current \in [Clients -> Conns \cup {Null}]
    /\ conn \in [Conns -> {"none", "open", "ended", "broken", "closing", "disposed"}]
    /\ lines \in [Conns -> Seq(Lines)]
    /\ pc \in [Conns -> Handshake \cup Updating \cup Looping \cup Over]
    /\ owner \in [Conns -> 0..MaxClients]
    /\ from \in [Conns -> Conns \cup {Null}]
    /\ line \in [Conns -> Lines \cup {Null}]
    /\ remover \in Conns \cup {Null}
    /\ outside \in Nat
    /\ service \in {"accepting", "disconnecting", "stopped"}
    /\ \A w \in Clients : current[w] # Null => owner[current[w]] = w
    /\ \A c \in Conns : pc[c] \in Reading => from[c] # Null

Init ==
    /\ careful \in Careful
    /\ store = NoClient
    /\ made = 0
    /\ current = [w \in Clients |-> Null]
    /\ conn = [c \in Conns |-> "none"]
    /\ lines = [c \in Conns |-> <<>>]
    /\ pc = [c \in Conns |-> "none"]
    /\ owner = [c \in Conns |-> NoClient]
    /\ from = [c \in Conns |-> Null]
    /\ line = [c \in Conns |-> Null]
    /\ remover = Null
    /\ outside = 0
    /\ service = "accepting"

\* TcpClient.Connected says nothing of an end that the throttle has sent, nor
\* of a Dispose that has not come to the socket.
Connected(c)   == conn[c] \in {"open", "ended", "closing"}
IsCurrent(c)   == owner[c] # NoClient /\ current[owner[c]] = c
IsConnected(w) == current[w] # Null /\ Connected(current[w])

Goto(c, place)  == pc' = [pc EXCEPT ![c] = place]
Leave(c, place) == Goto(c, place) /\ from' = [from EXCEPT ![c] = Null]

\* Disconnect of a connected client: Dispose waits for the listening task, which
\* the other threads may see connected, and only then the field is set to null,
\* whatever it has become meanwhile.
DisposeCurrent(w) == conn' = [conn EXCEPT ![current[w]] = "closing"]
SetNull(w) == current' = [current EXCEPT ![w] = Null]

\* Every loop waits for a line, and no connection is being replaced or removed.
AtRest ==
    /\ remover = Null
    /\ \A c \in Conns :
         pc[c] \notin Over \cup {"hello"} => pc[c] = "read" /\ lines[from[c]] = <<>>

----------------------------------------------------------------------------
\* The throttle and its network.
Accept(c) ==
    /\ service = "accepting"
    /\ conn[c] = "none"
    /\ conn' = [conn EXCEPT ![c] = "open"]
    /\ Goto(c, "hello")
    /\ UNCHANGED <<restVars, store, made, current, lines, owner, from, line,
                   remover, outside>>

\* A line may still come while Dispose waits for the listening task.
Listen(c) ==
    /\ conn[c] \in IF careful THEN {"open"} ELSE {"open", "closing"}
    /\ pc[c] # "hello"
    /\ outside < MaxOutside /\ outside' = outside + 1
    /\ careful => \A d \in Conns : pc[d] # "got"
    /\ \E text \in Lines : lines' = [lines EXCEPT ![c] = Append(@, text)]
    /\ UNCHANGED <<restVars, store, made, current, conn, loopVars, remover>>

ThrottleGoes(c) ==
    /\ conn[c] = "open"
    /\ \E way \in {"ended", "broken"} : conn' = [conn EXCEPT ![c] = way]
    /\ UNCHANGED <<restVars, store, made, current, lines, loopVars, remover,
                   outside>>

\* The listening task has ended, and Dispose comes to the socket.
Closed(c) ==
    /\ conn[c] = "closing"
    /\ conn' = [conn EXCEPT ![c] = "disposed"]
    /\ UNCHANGED <<restVars, store, made, current, lines, loopVars, remover, outside>>

----------------------------------------------------------------------------
\* HandleClientAsync: name and uid, or the connection is refused, or stays open
\* without a client when a malformed line throws.
Hello(c) ==
    /\ pc[c] = "hello"
    /\ \/ /\ Goto(c, "refused")
          /\ conn' = [conn EXCEPT ![c] = "disposed"]
          /\ UNCHANGED <<store, made, owner>>
       \/ Goto(c, "thrown") /\ UNCHANGED <<conn, store, made, owner>>
       \/ /\ careful => AtRest
          /\ Goto(c, "got")
          /\ \/ store # NoClient /\ owner' = [owner EXCEPT ![c] = store] /\ UNCHANGED <<store, made>>
             \/ /\ store = NoClient
                /\ made < MaxClients
                /\ made' = made + 1
                /\ store' = made'
                /\ owner' = [owner EXCEPT ![c] = made']
          /\ UNCHANGED conn
    /\ UNCHANGED <<restVars, current, lines, from, line, remover, outside>>

\* Mutant: the old connection is not disposed of.
UpdateConnectionKeeps(c) ==
    /\ pc[c] = "got"
    /\ Goto(c, "assign")
    /\ UNCHANGED <<restVars, store, made, current, netVars, owner, from, line,
                   remover, outside>>

\* UpdateConnection, up to the field's old value being gone ...
UpdateConnection(c) ==
    /\ pc[c] = "got"
    /\ IF IsConnected(owner[c])
       THEN /\ Goto(c, "nullBeforeAssign")
            /\ DisposeCurrent(owner[c])
            /\ from' = [from EXCEPT ![c] = current[owner[c]]]
       ELSE Goto(c, "assign") /\ UNCHANGED <<conn, from>>
    /\ UNCHANGED <<restVars, store, made, current, lines, owner, line, remover,
                   outside>>

NullBeforeAssign(c) ==
    /\ pc[c] = "nullBeforeAssign" /\ conn[from[c]] = "disposed"
    /\ SetNull(owner[c])
    /\ Leave(c, "assign")
    /\ UNCHANGED <<restVars, store, made, netVars, owner, line, remover,
                   outside>>

\* Mutant: one loop for a client is thought to be enough.
AssignOnly(c) ==
    /\ pc[c] = "assign"
    /\ current' = [current EXCEPT ![owner[c]] = c]
    /\ Goto(c, IF \E d \in Conns : owner[d] = owner[c] /\ pc[d] \in Looping
               THEN "returned" ELSE "while")
    /\ UNCHANGED <<restVars, store, made, netVars, owner, from, line, remover,
                   outside>>

\* Mutant: the handler looks the client up again.
AssignStored(c) ==
    /\ pc[c] = "assign"
    /\ current' = [current EXCEPT ![store] = c]
    /\ Goto(c, "while")
    /\ UNCHANGED <<restVars, store, made, netVars, owner, from, line, remover,
                   outside>>

\* ... and the rest of it, and the start of StartProcessingAsync.
Assign(c) ==
    /\ pc[c] = "assign"
    /\ current' = [current EXCEPT ![owner[c]] = c]
    /\ Goto(c, "while")
    /\ UNCHANGED <<restVars, store, made, netVars, owner, from, line, remover,
                   outside>>

----------------------------------------------------------------------------
\* The processing loop.
\* Also the first check, which waits for the battery's answer.
While(c) ==
    /\ pc[c] = "while"
    /\ Goto(c, IF service # "stopped" /\ IsConnected(owner[c]) THEN "use" ELSE "returned")
    /\ UNCHANGED <<restVars, store, made, current, netVars, owner, from, line,
                   remover, outside>>

\* What the check has seen may be gone, or another connection by now.
Use(c) ==
    /\ pc[c] = "use"
    /\ from' = [from EXCEPT ![c] = current[owner[c]]]
    /\ Goto(c, IF current[owner[c]] = Null THEN "thrown" ELSE "read")
    /\ UNCHANGED <<restVars, store, made, current, netVars, owner, line, remover,
                   outside>>

ReadNextMessage(c) ==
    /\ pc[c] = "read"
    /\ lines[from[c]] # <<>>
    /\ line' = [line EXCEPT ![c] = Head(lines[from[c]])]
    /\ lines' = [lines EXCEPT ![from[c]] = Tail(@)]
    /\ Goto(c, "switch")
    /\ UNCHANGED <<restVars, store, made, current, conn, owner, from,
                   remover, outside>>

\* A bad line (a speed over 126, an address added twice) throws: nobody
\* catches it, the loop is over and the connection stays open.
Switch(c) ==
    /\ pc[c] = "switch"
    /\ line' = [line EXCEPT ![c] = Null]
    /\ \/ line[c] = "command" /\ Leave(c, "while") /\ UNCHANGED conn
       \/ line[c] = "add"     /\ Goto(c, "adding") /\ UNCHANGED <<conn, from>>
       \/ line[c] = "bad"     /\ Leave(c, "thrown") /\ UNCHANGED conn
       \/ /\ line[c] = "Q" /\ ~IsConnected(owner[c])
          /\ Leave(c, "while") /\ UNCHANGED conn
       \/ /\ line[c] = "Q" /\ IsConnected(owner[c])
          /\ Goto(c, "nullAfterQuit")
          /\ DisposeCurrent(owner[c])
          /\ from' = [from EXCEPT ![c] = current[owner[c]]]
    /\ UNCHANGED <<restVars, store, made, current, lines, owner, remover, outside>>

\* MtAddAsync ends within 5 s, or at the stop.  Its answer to a client without
\* a connection throws, and so may one to a throttle that has gone or over a
\* connection that is being disposed of.
AddEnds(c) ==
    /\ pc[c] = "adding"
    /\ LET to == current[owner[c]] IN
       \/ service # "stopped" /\ Leave(c, "while") /\ UNCHANGED conn
       \/ to = Null /\ Leave(c, "thrown") /\ UNCHANGED conn
       \/ service = "stopped" /\ Leave(c, "thrown") /\ UNCHANGED conn
       \/ to # Null /\ conn[to] = "closing" /\ Leave(c, "thrown") /\ UNCHANGED conn
       \/ /\ to # Null /\ conn[to] = "ended"
          /\ conn' = [conn EXCEPT ![to] = "broken"]
          /\ Leave(c, "thrown")
    /\ UNCHANGED <<restVars, store, made, current, lines, owner, line,
                   remover, outside>>

NullAfterQuit(c) ==
    /\ pc[c] = "nullAfterQuit" /\ conn[from[c]] = "disposed"
    /\ SetNull(owner[c])
    /\ Leave(c, "while")
    /\ UNCHANGED <<restVars, store, made, netVars, owner, line, remover,
                   outside>>

\* Mutant: the handshake does not listen to the token.
CancelledRead(c) ==
    /\ service = "stopped"
    /\ pc[c] = "read"
    /\ Leave(c, "thrown")
    /\ UNCHANGED <<restVars, store, made, current, netVars, owner, line, remover, outside>>

\* The token ends a read, in the handshake too.
Cancelled(c) ==
    /\ service = "stopped"
    /\ pc[c] \in {"hello", "read"}
    /\ Leave(c, "thrown")
    /\ UNCHANGED <<restVars, store, made, current, netVars, owner, line, remover, outside>>

----------------------------------------------------------------------------
\* Mutant: the client is only taken out of the store.
ForgetClientOnly ==
    /\ store # NoClient /\ remover = Null
    /\ outside < MaxOutside /\ outside' = outside + 1
    /\ careful => AtRest
    /\ store' = NoClient
    /\ UNCHANGED <<restVars, made, current, netVars, loopVars, remover>>

\* ForgetClient: the page's button.
ForgetClient ==
    /\ store # NoClient /\ remover = Null
    /\ outside < MaxOutside /\ outside' = outside + 1
    /\ careful => AtRest
    /\ store' = NoClient
    /\ IF IsConnected(store)
       THEN remover' = current[store] /\ DisposeCurrent(store)
       ELSE UNCHANGED <<remover, conn>>
    /\ UNCHANGED <<restVars, made, current, lines, loopVars>>

\* StopAsync: no more connections, the store's clients are disconnected ...
StopAsync ==
    /\ service = "accepting" /\ remover = Null
    /\ service' = "disconnecting"
    /\ IF store # NoClient /\ IsConnected(store)
       THEN remover' = current[store] /\ DisposeCurrent(store)
       ELSE UNCHANGED <<remover, conn>>
    /\ UNCHANGED <<careful, store, made, current, lines, loopVars, outside>>

NullAfterRemove ==
    /\ remover # Null /\ conn[remover] = "disposed"
    /\ SetNull(owner[remover])
    /\ remover' = Null
    /\ UNCHANGED <<restVars, store, made, netVars, loopVars, outside>>

\* ... and then BackgroundService.StopAsync cancels the token.
CancelToken ==
    /\ service = "disconnecting" /\ remover = Null
    /\ service' = "stopped"
    /\ UNCHANGED <<careful, store, made, current, netVars, loopVars, remover, outside>>

Update(c) == UpdateConnection(c) \/ NullBeforeAssign(c) \/ Assign(c)
Loop(c)   == \/ While(c) \/ Use(c) \/ ReadNextMessage(c) \/ Switch(c)
             \/ AddEnds(c) \/ NullAfterQuit(c)
Task(c)   == Update(c) \/ Loop(c) \/ Cancelled(c)
Remove    == NullAfterRemove \/ CancelToken

Next ==
    \/ \E c \in Conns : \/ Accept(c) \/ Listen(c) \/ ThrottleGoes(c) \/ Hello(c)
                        \/ Closed(c) \/ Task(c)
    \/ ForgetClient \/ StopAsync \/ Remove

Spec == Init /\ [][Next]_vars

\* Tasks run, and a cancelled listening task ends; the throttle, the user of the page and the operator may be idle.
FairSpec ==
    /\ Spec
    /\ WF_vars(Remove)
    /\ \A c \in Conns : WF_vars(Task(c)) /\ WF_vars(Closed(c))

----------------------------------------------------------------------------
\* The throttle comes back at rest, and nobody stops the service, which may cut
\* a replacement in two.
Calm == careful /\ service = "accepting"

\* One loop reads from a connection, so its lines are handled one after the
\* other and in order.  The loop of a replaced connection is still there, but it
\* waits at a channel into which nothing comes.
Serves(c, x)    == pc[c] \in Reading /\ from[c] = x
OneReaderAlways == \A c, d, x \in Conns : Serves(c, x) /\ Serves(d, x) => c = d
OneReader       == Calm => OneReaderAlways

\* A connection that is open once its loop has begun is the current one of the
\* client in the store: the throttle at its other end is not talking to nobody.
AttachedAlways ==
    service = "accepting" /\ remover = Null =>
        \A c \in Conns : Connected(c) /\ pc[c] \notin Handshake \cup Updating \cup Over
                             => owner[c] = store /\ IsCurrent(c)
Attached == careful => AttachedAlways

\* Q ends the connection over which it came, not one that has replaced it.
QuitStep(c)   == pc[c] = "switch" /\ pc'[c] = "nullAfterQuit" => current[owner[c]] = from[c]
QuitOwnAlways == [][\A c \in Conns : QuitStep(c)]_vars
QuitOwn       == [][Calm => \A c \in Conns : QuitStep(c)]_vars

\* Lines that wait at the current connection are handled, however often and in
\* whatever way the throttle has come back, unless the connection's own loop has
\* ended with an exception.
Served ==
    \A c \in Conns :
        IsCurrent(c) /\ lines[c] # <<>>
            ~> \/ lines[c] = <<>>
               \/ ~Connected(c)
               \/ ~IsCurrent(c)
               \/ pc[c] = "thrown"
               \/ service # "accepting"

\* The stop ends every handler and every loop, those of replaced connections too.
StopEnds ==
    service = "stopped" ~> \A c \in Conns : pc[c] \in Over
=============================================================================
