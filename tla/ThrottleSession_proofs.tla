----------------------- MODULE ThrottleSession_proofs -----------------------
(***************************************************************************)
(* Proofs about ThrottleSession, for any number of connections, clients    *)
(* and lines: types; and, when the throttle comes back and is forgotten    *)
(* only at rest and nobody stops the service, that one loop reads a        *)
(* connection, that Q ends the connection it came over, and that an open   *)
(* connection is the current one of the client in the store.               *)
(***************************************************************************)
EXTENDS ThrottleSession, SequenceTheorems, TLAPS

USE DEF Reading

Begun   == Looping \cup {"returned", "thrown"}
Updates == {"got"} \cup Updating
Closing == {"nullBeforeAssign", "nullAfterQuit"}
States  == {"none", "open", "ended", "broken", "closing", "disposed"}

\* Who needs a client, a connection to read from or to dispose of, or a line to
\* handle, has it.
PlaceInv ==
    /\ \A c \in Conns : /\ pc[c] \in Updates \cup Looping => owner[c] \in Clients
                        /\ pc[c] \in Reading \cup Closing => from[c] \in Conns
                        /\ pc[c] = "switch" => line[c] \in Lines
                        /\ conn[c] = "none" => pc[c] = "none"
                        /\ pc[c] \in {"none", "hello"} => owner[c] = NoClient
    /\ remover # Null => owner[remover] \in Clients

SessionInv == TypeOK /\ PlaceInv

----------------------------------------------------------------------------
\* While a connection is being replaced, everything else is at rest, and no
\* line can come to a loop.
UpdateInv ==
    \A e \in Conns : pc[e] \in Updates =>
        /\ remover = Null /\ owner[e] = store
        /\ \A d \in Conns : d # e =>
              pc[d] \in Over \cup {"hello"} \/ (pc[d] = "read" /\ lines[from[d]] = <<>>)

ReplacedInv ==
    \A e, d \in Conns :
        /\ pc[e] \in Updating /\ pc[d] = "read" => conn[from[d]] # "open"
        /\ pc[e] = "assign" /\ pc[d] \in Looping => ~Connected(d)

\* What is current, or is read from, was assigned.
CurrentInv ==
    /\ \A w \in Clients : current[w] # Null =>
          /\ pc[current[w]] \in Begun
          /\ conn[current[w]] = "open" => w = store
    /\ \A c \in Conns : pc[c] \in Reading => pc[from[c]] \in Begun

\* The connection that a loop reads from, or is going to read from: no other does.
Holds(c, x) == \/ pc[c] \in Reading /\ from[c] = x
               \/ pc[c] \in {"while", "use", "nullAfterQuit"} /\ current[owner[c]] = x

HoldInv == \A c, d, x \in Conns : Holds(c, x) /\ Holds(d, x) => c = d

\* A loop that waits at a replaced connection waits in vain; one that handles
\* a line has it from the current connection, if there is one.
ReadInv ==
    \A c \in Conns :
        /\ pc[c] = "read" /\ from[c] # current[owner[c]] =>
              conn[from[c]] # "open" /\ (current[owner[c]] # Null => lines[from[c]] = <<>>)
        /\ pc[c] \in {"switch", "adding"} => current[owner[c]] \in {from[c], Null}

\* Who is between the two halves of Disconnect disposes of its client's connection.
Disposes(w, x) == current[w] \in {x, Null} /\ conn[x] \in {"closing", "disposed"}

DisconnectInv ==
    /\ \A c \in Conns : pc[c] \in Closing => Disposes(owner[c], from[c])
    /\ remover # Null => Disposes(owner[remover], remover)

\* A loop whose connection is there, and not about to be removed, has it as the
\* current one of the store's client.
StoreInv ==
    \A c \in Conns : pc[c] \in Looping /\ Connected(c) =>
        c = remover \/ (owner[c] = store /\ current[store] = c)

Peace   == /\ UpdateInv /\ ReplacedInv /\ CurrentInv /\ HoldInv
           /\ ReadInv /\ DisconnectInv /\ StoreInv
CalmInv == Calm => Peace

----------------------------------------------------------------------------
(* Types. *)

LEMMA LinesTypes ==
    ASSUME TypeOK, NEW c \in Conns
    PROVE  /\ lines[c] # <<>> => Head(lines[c]) \in Lines /\ Tail(lines[c]) \in Seq(Lines)
           /\ \A text \in Lines : Append(lines[c], text) \in Seq(Lines)
<1>1. lines[c] \in Seq(Lines) BY DEF TypeOK
<1> QED BY <1>1, HeadTailProperties, AppendProperties

\* The connection that Disconnect disposes of.
LEMMA DisposeTypes ==
    ASSUME TypeOK, NEW w \in Clients, IsConnected(w), DisposeCurrent(w)
    PROVE  /\ current[w] \in Conns /\ owner[current[w]] = w
           /\ conn' \in [Conns -> States]
           /\ \A d \in Conns : conn'[d] = "none" => conn[d] = "none"
  BY DEF TypeOK, IsConnected, DisposeCurrent, States

\* The steps of the throttle and the handshake.
LEMMA OutsideTypes ==
    ASSUME SessionInv, NEW c \in Conns,
           Accept(c) \/ Listen(c) \/ ThrottleGoes(c) \/ Hello(c) \/ Closed(c)
    PROVE  SessionInv'
<1> USE SessionAssumption DEF SessionInv, TypeOK, PlaceInv, Clients, Handshake, Updating,
        Looping, Over, Updates, Closing, States, loopVars, restVars, Goto, NoClient
<1>1. CASE Accept(c) BY <1>1 DEF Accept
<1>2. CASE Listen(c)
  <2>1. lines' \in [Conns -> Seq(Lines)] BY <1>2, LinesTypes DEF Listen
  <2> QED BY <1>2, <2>1 DEF Listen
<1>3. CASE ThrottleGoes(c) BY <1>3 DEF ThrottleGoes
<1>4. CASE Hello(c)
  <2>1. CASE Goto(c, "refused") /\ conn' = [conn EXCEPT ![c] = "disposed"]
             /\ UNCHANGED <<store, made, owner>>
    BY <1>4, <2>1 DEF Hello
  <2>4. CASE Goto(c, "thrown") /\ UNCHANGED <<conn, store, made, owner>>
    BY <1>4, <2>4 DEF Hello
  <2>2. CASE Goto(c, "got") /\ store # NoClient /\ owner' = [owner EXCEPT ![c] = store]
             /\ UNCHANGED <<store, made, conn>>
    BY <1>4, <2>2 DEF Hello
  <2>3. CASE /\ Goto(c, "got") /\ made < MaxClients /\ made' = made + 1 /\ store' = made'
             /\ owner' = [owner EXCEPT ![c] = made'] /\ UNCHANGED conn
    <3>1. made' \in 1 .. MaxClients BY <2>3
    <3> QED BY <1>4, <2>3, <3>1 DEF Hello
  <2> QED BY <1>4, <2>1, <2>2, <2>3, <2>4 DEF Hello
<1>5. CASE Closed(c) BY <1>5 DEF Closed
<1> QED BY <1>1, <1>2, <1>3, <1>4, <1>5

\* What a step of the handler or the loop of c leaves alone, and has to keep.
Places   == Handshake \cup Updating \cup Looping \cup Over
Moves(c, place) ==
    /\ UNCHANGED <<careful, store, made, owner, remover, outside, service>>
    /\ pc[c] # "none"
    /\ pc' = [pc EXCEPT ![c] = place]
    /\ place \in Updates \cup Looping => owner[c] \in Clients
    /\ place \in Reading \cup Closing => from'[c] \in Conns
    /\ place = "switch" => line'[c] \in Lines
    /\ from' \in [Conns -> Conns \cup {Null}]
    /\ line' \in [Conns -> Lines \cup {Null}]
    /\ lines' \in [Conns -> Seq(Lines)]
    /\ \A d \in Conns : d # c => from'[d] = from[d] /\ line'[d] = line[d]
    /\ conn' \in [Conns -> States]
    /\ \A d \in Conns : conn'[d] = "none" => conn[d] = "none"
    /\ \/ current' = current
       \/ \E w \in Clients : current' = [current EXCEPT ![w] = Null]
       \/ owner[c] \in Clients /\ current' = [current EXCEPT ![owner[c]] = c]

LEMMA MovesTypes ==
    ASSUME SessionInv, NEW c \in Conns, NEW place \in Places \ {"none", "hello"}, Moves(c, place)
    PROVE  SessionInv'
<1> USE SessionAssumption DEF SessionInv, TypeOK, PlaceInv, Clients, NoClient, Moves
<1>1. pc' \in [Conns -> Places] /\ pc'[c] = place /\ \A d \in Conns : d # c => pc'[d] = pc[d]
  BY DEF Places
<1>2. /\ current' \in [Clients -> Conns \cup {Null}]
      /\ \A w \in Clients : current'[w] # Null => owner'[current'[w]] = w
  <2>1. CASE current' = current BY <2>1
  <2>2. CASE \E w \in Clients : current' = [current EXCEPT ![w] = Null] BY <2>2
  <2>3. CASE owner[c] \in Clients /\ current' = [current EXCEPT ![owner[c]] = c] BY <2>3
  <2> QED BY <2>1, <2>2, <2>3
<1>3. \A d \in Conns : pc'[d] \in Reading => from'[d] # Null
  <2>1. \A d \in Conns : pc'[d] \in Reading => from'[d] \in Conns BY <1>1
  <2> QED BY <2>1 DEF Null
<1>4. TypeOK' BY <1>1, <1>2, <1>3 DEF Places, States
<1>5. PlaceInv'
  <2>1. remover' # Null => owner'[remover'] \in Clients OBVIOUS
  <2>2. ASSUME NEW d \in Conns
        PROVE  /\ pc'[d] \in Updates \cup Looping => owner'[d] \in Clients
               /\ pc'[d] \in Reading \cup Closing => from'[d] \in Conns
               /\ pc'[d] = "switch" => line'[d] \in Lines
               /\ conn'[d] = "none" => pc'[d] = "none"
               /\ pc'[d] \in {"none", "hello"} => owner'[d] = NoClient
    <3>1. CASE d = c BY <1>1, <3>1
    <3>2. CASE d # c BY <1>1, <3>2
    <3> QED BY <3>1, <3>2
  <2> QED BY <2>1, <2>2
<1> QED BY <1>4, <1>5

\* The steps of a replacement.
LEMMA UpdateTypes ==
    ASSUME SessionInv, NEW c \in Conns, Update(c)
    PROVE  SessionInv'
<1> USE SessionAssumption DEF SessionInv, TypeOK, PlaceInv, netVars, restVars, Goto, Leave,
        Places, Updating, Looping, Updates, Closing
<1>1. owner[c] \in Clients
  BY DEF Update, UpdateConnection, NullBeforeAssign, Assign
<1>2. CASE UpdateConnection(c)
  <2>1. CASE IsConnected(owner[c])
    <3>1. DisposeCurrent(owner[c]) /\ Goto(c, "nullBeforeAssign")
          /\ from' = [from EXCEPT ![c] = current[owner[c]]]
      BY <1>2, <2>1 DEF UpdateConnection
    <3>2. /\ current[owner[c]] \in Conns /\ conn' \in [Conns -> States]
          /\ \A d \in Conns : conn'[d] = "none" => conn[d] = "none"
      BY <1>1, <2>1, <3>1, DisposeTypes
    <3>3. Moves(c, "nullBeforeAssign") BY <1>1, <1>2, <3>1, <3>2 DEF UpdateConnection, Moves
    <3> QED BY <3>3, MovesTypes
  <2>2. CASE ~IsConnected(owner[c])
    <3>1. Moves(c, "assign") BY <1>1, <1>2, <2>2 DEF UpdateConnection, Moves, States
    <3> QED BY <3>1, MovesTypes
  <2> QED BY <2>1, <2>2
<1>3. CASE NullBeforeAssign(c)
  <2>1. Moves(c, "assign") BY <1>1, <1>3 DEF NullBeforeAssign, SetNull, Moves, States
  <2> QED BY <2>1, MovesTypes
<1>4. CASE Assign(c)
  <2>1. Moves(c, "while") BY <1>1, <1>4 DEF Assign, Moves, States
  <2> QED BY <2>1, MovesTypes
<1> QED BY <1>2, <1>3, <1>4 DEF Update

\* The steps of a loop.
LEMMA LoopTypes ==
    ASSUME SessionInv, NEW c \in Conns, Loop(c) \/ Cancelled(c)
    PROVE  \E place \in Places \ {"none", "hello"} : Moves(c, place)
<1> USE SessionAssumption DEF SessionInv, TypeOK, PlaceInv, netVars, restVars, Goto, Leave,
        Places, Looping, Updates, Updating, Closing, Over
<1>1. pc[c] \in Looping => owner[c] \in Clients OBVIOUS
<1>2. CASE While(c)
  <2>1. pc' = [pc EXCEPT ![c] = "use"] \/ pc' = [pc EXCEPT ![c] = "returned"]
    BY <1>2 DEF While
  <2>2. Moves(c, "use") \/ Moves(c, "returned") BY <1>1, <1>2, <2>1 DEF While, Moves, States
  <2> QED BY <2>2
<1>3. CASE Use(c)
  <2>1. owner[c] \in Clients BY <1>3 DEF Use
  <2>2. current[owner[c]] \in Conns \cup {Null} BY <2>1
  <2>3. from' \in [Conns -> Conns \cup {Null}] /\ from'[c] = current[owner[c]]
    BY <1>3, <2>2 DEF Use
  <2>4. \/ pc' = [pc EXCEPT ![c] = "read"] /\ from'[c] \in Conns
        \/ pc' = [pc EXCEPT ![c] = "thrown"]
    BY <1>3, <2>2, <2>3 DEF Use
  <2>5. Moves(c, "read") \/ Moves(c, "thrown")
    BY <1>3, <2>1, <2>3, <2>4 DEF Use, Moves, States
  <2> QED BY <2>5
<1>4. CASE ReadNextMessage(c)
  <2>1. from[c] \in Conns /\ owner[c] \in Clients BY <1>4 DEF ReadNextMessage
  <2>2. Head(lines[from[c]]) \in Lines /\ Tail(lines[from[c]]) \in Seq(Lines)
    BY <1>4, <2>1, LinesTypes DEF ReadNextMessage
  <2>3. lines' \in [Conns -> Seq(Lines)] /\ line' \in [Conns -> Lines \cup {Null}]
        /\ line'[c] \in Lines
    BY <1>4, <2>1, <2>2 DEF ReadNextMessage
  <2>4. Moves(c, "switch") BY <1>4, <2>1, <2>3 DEF ReadNextMessage, Moves, States
  <2> QED BY <2>4
<1>5. CASE Switch(c)
  <2>1. owner[c] \in Clients /\ from[c] \in Conns BY <1>5 DEF Switch
  <2>2. \/ Leave(c, "while") /\ UNCHANGED conn
        \/ Goto(c, "adding") /\ UNCHANGED <<conn, from>>
        \/ Leave(c, "thrown") /\ UNCHANGED conn
        \/ /\ IsConnected(owner[c]) /\ Goto(c, "nullAfterQuit") /\ DisposeCurrent(owner[c])
           /\ from' = [from EXCEPT ![c] = current[owner[c]]]
    BY <1>5 DEF Switch
  <2>3. /\ line' = [line EXCEPT ![c] = Null] /\ pc[c] = "switch"
        /\ UNCHANGED <<restVars, store, made, current, lines, owner, remover, outside>>
    BY <1>5 DEF Switch
  <2>4. CASE /\ IsConnected(owner[c]) /\ Goto(c, "nullAfterQuit") /\ DisposeCurrent(owner[c])
             /\ from' = [from EXCEPT ![c] = current[owner[c]]]
    <3>1. /\ current[owner[c]] \in Conns /\ conn' \in [Conns -> States]
          /\ \A d \in Conns : conn'[d] = "none" => conn[d] = "none"
      BY <2>1, <2>4, DisposeTypes
    <3>2. /\ from' \in [Conns -> Conns \cup {Null}] /\ from'[c] \in Conns
          /\ \A d \in Conns : d # c => from'[d] = from[d]
      BY <2>4, <3>1
    <3>3. /\ line' \in [Conns -> Lines \cup {Null}]
          /\ \A d \in Conns : d # c => line'[d] = line[d]
      BY <2>3
    <3>4. pc' = [pc EXCEPT ![c] = "nullAfterQuit"] BY <2>4
    <3>5. Moves(c, "nullAfterQuit") BY <2>1, <2>3, <3>1, <3>2, <3>3, <3>4 DEF Moves
    <3> QED BY <3>5
  <2>5. CASE Goto(c, "adding") /\ UNCHANGED <<conn, from>>
    <3>1. Moves(c, "adding") BY <2>1, <2>3, <2>5 DEF Moves, States
    <3> QED BY <3>1
  <2>6. CASE Leave(c, "while") /\ UNCHANGED conn
    <3>1. Moves(c, "while") BY <2>1, <2>3, <2>6 DEF Moves, States
    <3> QED BY <3>1
  <2>7. CASE Leave(c, "thrown") /\ UNCHANGED conn
    <3>1. Moves(c, "thrown") BY <2>1, <2>3, <2>7 DEF Moves, States
    <3> QED BY <3>1
  <2> QED BY <2>2, <2>4, <2>5, <2>6, <2>7
<1>6. CASE AddEnds(c)
  <2>1. owner[c] \in Clients BY <1>6 DEF AddEnds
  <2>2. /\ conn' \in [Conns -> States]
        /\ \A d \in Conns : conn'[d] = "none" => conn[d] = "none"
    <3>1. conn' = conn \/ \E to \in Conns : conn' = [conn EXCEPT ![to] = "broken"]
      BY <1>6, <2>1 DEF AddEnds
    <3> QED BY <3>1 DEF States
  <2>3. Leave(c, "while") \/ Leave(c, "thrown") BY <1>6 DEF AddEnds
  <2>4. UNCHANGED <<restVars, store, made, current, lines, owner, line, remover, outside>>
        /\ pc[c] = "adding"
    BY <1>6 DEF AddEnds
  <2>5. CASE Leave(c, "while")
    <3>1. Moves(c, "while") BY <2>1, <2>2, <2>4, <2>5 DEF Moves
    <3> QED BY <3>1
  <2>6. CASE Leave(c, "thrown")
    <3>1. Moves(c, "thrown") BY <2>1, <2>2, <2>4, <2>6 DEF Moves
    <3> QED BY <3>1
  <2> QED BY <2>3, <2>5, <2>6
<1>7. CASE NullAfterQuit(c)
  <2>1. owner[c] \in Clients BY <1>7 DEF NullAfterQuit
  <2>2. Moves(c, "while") BY <2>1, <1>7 DEF NullAfterQuit, SetNull, Moves, States
  <2> QED BY <2>2
<1>8. CASE Cancelled(c)
  <2>1. Moves(c, "thrown") BY <1>8 DEF Cancelled, Moves, States
  <2> QED BY <2>1
<1> QED BY <1>2, <1>3, <1>4, <1>5, <1>6, <1>7, <1>8 DEF Loop

\* The page's button and the stop.
LEMMA RemoveTypes ==
    ASSUME SessionInv, ForgetClient \/ StopAsync \/ Remove
    PROVE  SessionInv'
<1> USE SessionAssumption DEF SessionInv, TypeOK, PlaceInv, Clients, netVars, loopVars,
        restVars, NoClient, States
<1>1. ASSUME store \in Clients, IsConnected(store), DisposeCurrent(store)
      PROVE  /\ current[store] \in Conns /\ owner[current[store]] = store
             /\ conn' \in [Conns -> States]
             /\ \A d \in Conns : conn'[d] = "none" => conn[d] = "none"
  BY <1>1, DisposeTypes
<1>2. CASE ForgetClient
  <2>1. store \in Clients BY <1>2 DEF ForgetClient
  <2>2. CASE IsConnected(store) BY <1>1, <1>2, <2>1, <2>2 DEF ForgetClient
  <2>3. CASE ~IsConnected(store) BY <1>2, <2>1, <2>3 DEF ForgetClient
  <2> QED BY <2>2, <2>3
<1>3. CASE StopAsync
  <2>1. CASE store \in Clients /\ IsConnected(store) BY <1>1, <1>3, <2>1 DEF StopAsync
  <2>2. CASE ~(store \in Clients /\ IsConnected(store)) BY <1>3, <2>2 DEF StopAsync
  <2> QED BY <2>1, <2>2
<1>4. CASE NullAfterRemove
  <2>1. \A w \in Clients : current'[w] \in {current[w], Null}
        /\ current' \in [Clients -> Conns \cup {Null}]
    BY <1>4 DEF NullAfterRemove, SetNull
  <2> QED BY <1>4, <2>1 DEF NullAfterRemove
<1>5. CASE CancelToken     BY <1>5 DEF CancelToken
<1> QED BY <1>2, <1>3, <1>4, <1>5 DEF Remove

LEMMA InitTypes == Init => SessionInv
<1> SUFFICES ASSUME Init PROVE SessionInv OBVIOUS
<1>1. lines \in [Conns -> Seq(Lines)]
  <2>1. <<>> \in Seq(Lines) OBVIOUS
  <2> QED BY <2>1 DEF Init
<1>2. current \in [Clients -> Conns \cup {Null}] /\ from \in [Conns -> Conns \cup {Null}]
      /\ line \in [Conns -> Lines \cup {Null}]
  BY DEF Init
<1> QED
  BY <1>1, <1>2, SessionAssumption DEF Init, SessionInv, TypeOK, PlaceInv, Clients, Handshake,
     Updating, Looping, Over, Updates, Closing, States, NoClient

LEMMA StepTypes == SessionInv /\ [Next]_vars => SessionInv'
<1>1. ASSUME SessionInv, UNCHANGED vars PROVE SessionInv'
  BY <1>1 DEF vars, SessionInv, TypeOK, PlaceInv
<1> QED BY <1>1, OutsideTypes, UpdateTypes, LoopTypes, MovesTypes, RemoveTypes DEF Next, Task

\* TypeOK of ThrottleSession: connections, loops, clients and lines keep their
\* types, whenever the throttle comes back, is forgotten, or the service stops.
THEOREM SessionTypes == Spec => []TypeOK
<1>1. SessionInv => TypeOK BY DEF SessionInv
<1> QED BY <1>1, InitTypes, StepTypes, PTL DEF Spec

----------------------------------------------------------------------------
(* One reader, calm throttle and service.  Most steps leave alone what the *)
(* invariants are about: first what such a step has to keep.               *)

\* A loop that is not waiting for a line: nobody is being replaced.
LEMMA LoopUpdates ==
    ASSUME UpdateInv, NEW c \in Conns, pc[c] \in Looping \ {"read"},
           pc'[c] \notin Updates, \A d \in Conns : d # c => pc'[d] = pc[d]
    PROVE  UpdateInv' /\ ReplacedInv'
<1>1. \A e \in Conns : pc[e] \notin Updates
  BY DEF UpdateInv, Updates, Updating, Looping, Over
<1>2. \A e \in Conns : pc'[e] \notin Updates BY <1>1
<1> QED BY <1>2 DEF UpdateInv, ReplacedInv, Updates, Updating

\* What is current becomes null at most, nothing is opened, and nobody starts to read.
LEMMA CurrentKept ==
    ASSUME SessionInv, CurrentInv,
           \A d \in Conns : /\ pc[d] \in Begun => pc'[d] \in Begun
                            /\ conn'[d] = "open" => conn[d] = "open"
                            /\ pc'[d] \in Reading =>
                                  pc[d] \in Reading /\ from'[d] = from[d],
           \A w \in Clients : current'[w] \in {current[w], Null},
           store' = store
    PROVE  CurrentInv'
<1>1. ASSUME NEW w \in Clients, current'[w] # Null
      PROVE  pc'[current'[w]] \in Begun /\ (conn'[current'[w]] = "open" => w = store')
  <2>1. current'[w] = current[w] /\ current[w] \in Conns BY <1>1 DEF SessionInv, TypeOK
  <2> QED BY <1>1, <2>1 DEF CurrentInv
<1>2. ASSUME NEW c \in Conns, pc'[c] \in Reading PROVE pc'[from'[c]] \in Begun
  <2>1. from[c] \in Conns /\ pc[c] \in Reading BY <1>2 DEF SessionInv, PlaceInv
  <2> QED BY <1>2, <2>1 DEF CurrentInv
<1> QED BY <1>1, <1>2 DEF CurrentInv

\* Nobody makes a connection that is disposed of current, or opens it.
LEMMA DisconnectKept ==
    ASSUME SessionInv, DisconnectInv,
           \A w \in Clients : current'[w] \in {current[w], Null},
           \A d \in Conns : /\ conn[d] \in {"closing", "disposed"} =>
                                  conn'[d] \in {"closing", "disposed"}
                            /\ pc'[d] \in Closing =>
                                  \/ Disposes(owner[d], from[d])'
                                  \/ pc[d] \in Closing /\ UNCHANGED <<owner[d], from[d]>>,
           remover' # Null => \/ Disposes(owner[remover], remover)'
                              \/ UNCHANGED <<remover, owner[remover]>>
    PROVE  DisconnectInv'
<1>1. ASSUME NEW w \in Clients, NEW x \in Conns, Disposes(w, x)
      PROVE  current'[w] \in {x, Null} /\ conn'[x] \in {"closing", "disposed"}
  BY <1>1 DEF Disposes
<1>2. ASSUME NEW d \in Conns, pc'[d] \in Closing PROVE Disposes(owner[d], from[d])'
  <2>1. CASE pc[d] \in Closing /\ UNCHANGED <<owner[d], from[d]>>
    <3>1. owner[d] \in Clients /\ from[d] \in Conns
      BY <2>1 DEF SessionInv, PlaceInv, Closing, Updates, Updating, Looping
    <3> QED BY <1>1, <2>1, <3>1 DEF DisconnectInv, Disposes
  <2> QED BY <1>2, <2>1
<1>3. ASSUME remover' # Null PROVE Disposes(owner[remover], remover)'
  <2>1. CASE UNCHANGED <<remover, owner[remover]>>
    <3>1. owner[remover] \in Clients /\ remover \in Conns
      BY <1>3, <2>1 DEF SessionInv, PlaceInv, TypeOK
    <3> QED BY <1>1, <1>3, <2>1, <3>1 DEF DisconnectInv, Disposes
  <2> QED BY <1>3, <2>1
<1> QED BY <1>2, <1>3 DEF DisconnectInv

\* The beginning of a loop's turn: it looks at the connection once ...
LEMMA WhileCalm ==
    ASSUME SessionInv, Peace, NEW c \in Conns, While(c)
    PROVE  Peace'
<1> USE DEF Peace
<1>1. /\ pc[c] = "while" /\ pc'[c] \in {"use", "returned"}
      /\ UNCHANGED <<store, current, conn, lines, owner, from, remover>>
      /\ \A d \in Conns : d # c => pc'[d] = pc[d]
  BY DEF While, Goto, netVars, SessionInv, TypeOK
<1>2. UpdateInv' /\ ReplacedInv' BY <1>1, LoopUpdates DEF Looping, Updates, Updating
<1>3. CurrentInv' BY <1>1, CurrentKept DEF Begun, Looping
<1>4. HoldInv'
  <2>1. \A d, x \in Conns : Holds(d, x)' => Holds(d, x) BY <1>1 DEF Holds
  <2> QED BY <2>1 DEF HoldInv
<1>5. ReadInv' BY <1>1 DEF ReadInv
<1>6. DisconnectInv' BY <1>1, DisconnectKept DEF Closing
<1>7. StoreInv' BY <1>1 DEF StoreInv, Connected, Looping
<1> QED BY <1>2, <1>3, <1>4, <1>5, <1>6, <1>7

\* ... and again, to read from it.
LEMMA UseCalm ==
    ASSUME SessionInv, Peace, NEW c \in Conns, Use(c)
    PROVE  Peace'
<1> USE DEF Peace
<1>1. /\ pc[c] = "use" /\ owner[c] \in Clients
      /\ UNCHANGED <<store, current, conn, lines, owner, remover>>
      /\ pc'[c] \in {"read", "thrown"}
      /\ pc'[c] = "read" => /\ from'[c] = current[owner[c]]
                            /\ current[owner[c]] \in Conns /\ current[owner[c]] # Null
      /\ \A d \in Conns : d # c => pc'[d] = pc[d] /\ from'[d] = from[d]
  BY DEF Use, Goto, netVars, SessionInv, TypeOK, PlaceInv, Looping
<1>2. UpdateInv' /\ ReplacedInv' BY <1>1, LoopUpdates DEF Looping, Updates, Updating
<1>3. CurrentInv'
  <2>1. \A d \in Conns : pc[d] \in Begun => pc'[d] \in Begun BY <1>1 DEF Begun, Looping
  <2>2. ASSUME NEW d \in Conns, pc'[d] \in Reading PROVE pc'[from'[d]] \in Begun
    <3>1. CASE d = c BY <1>1, <2>1, <2>2, <3>1 DEF CurrentInv
    <3>2. CASE d # c
      BY <1>1, <2>1, <2>2, <3>2 DEF CurrentInv, SessionInv, PlaceInv
    <3> QED BY <3>1, <3>2
  <2>3. \A w \in Clients : current[w] # Null => current[w] \in Conns BY DEF SessionInv, TypeOK
  <2> QED BY <1>1, <2>1, <2>2, <2>3 DEF CurrentInv
<1>4. HoldInv'
  <2>1. \A d, x \in Conns : Holds(d, x)' => Holds(d, x)
    BY <1>1 DEF Holds
  <2> QED BY <2>1 DEF HoldInv
<1>5. ReadInv' BY <1>1 DEF ReadInv
<1>6. DisconnectInv' BY <1>1, DisconnectKept DEF Closing
<1>7. StoreInv' BY <1>1 DEF StoreInv, Connected, Looping
<1> QED BY <1>2, <1>3, <1>4, <1>5, <1>6, <1>7

\* A line is taken, from a connection that is current or from nowhere.
LEMMA ReadCalm ==
    ASSUME SessionInv, Peace, NEW c \in Conns, ReadNextMessage(c)
    PROVE  Peace'
<1> USE DEF Peace
<1>1. /\ pc[c] = "read" /\ owner[c] \in Clients /\ from[c] \in Conns
      /\ UNCHANGED <<store, current, conn, owner, from, remover>>
      /\ lines[from[c]] # <<>> /\ pc'[c] = "switch"
      /\ \A d \in Conns : d # c => pc'[d] = pc[d]
      /\ \A x \in Conns : x # from[c] => lines'[x] = lines[x]
  BY DEF ReadNextMessage, Goto, SessionInv, TypeOK, PlaceInv, Looping, Reading
<1>2. UpdateInv' /\ ReplacedInv'
  <2>1. \A e \in Conns : pc[e] \notin Updates
    BY <1>1 DEF UpdateInv, Updates, Updating, Over
  <2>2. \A e \in Conns : pc'[e] \notin Updates BY <1>1, <2>1 DEF Updates, Updating
  <2> QED BY <2>2 DEF UpdateInv, ReplacedInv, Updates, Updating
<1>3. CurrentInv' BY <1>1, CurrentKept DEF Begun, Looping, Reading
<1>4. HoldInv'
  <2>1. \A d, x \in Conns : Holds(d, x)' => Holds(d, x) BY <1>1 DEF Holds, Reading
  <2> QED BY <2>1 DEF HoldInv
<1>5. ReadInv'
  <2>1. current[owner[c]] \in {from[c], Null} BY <1>1 DEF ReadInv
  <2>2. ASSUME NEW d \in Conns, d # c, pc[d] = "read" PROVE from[d] # from[c] /\ from[d] \in Conns
    BY <1>1, <2>2 DEF HoldInv, Holds, Reading, SessionInv, PlaceInv
  <2> QED BY <1>1, <2>1, <2>2 DEF ReadInv
<1>6. DisconnectInv' BY <1>1, DisconnectKept DEF Closing
<1>7. StoreInv' BY <1>1 DEF StoreInv, Connected, Looping
<1> QED BY <1>2, <1>3, <1>4, <1>5, <1>6, <1>7

\* A line is handled: the current connection may be disposed of.
LEMMA SwitchCalm ==
    ASSUME SessionInv, Peace, NEW c \in Conns, Switch(c)
    PROVE  Peace'
<1> USE DEF Peace
<1>1. /\ pc[c] = "switch" /\ owner[c] \in Clients
      /\ UNCHANGED <<store, current, lines, owner, remover>>
      /\ pc'[c] \in {"while", "adding", "thrown", "nullAfterQuit"}
      /\ \A d \in Conns : d # c => pc'[d] = pc[d] /\ from'[d] = from[d]
      /\ pc'[c] = "adding" => from'[c] = from[c]
  BY DEF Switch, Goto, Leave, SessionInv, TypeOK, PlaceInv, Looping
<1>2. \A d \in Conns : conn'[d] = conn[d] \/ (Connected(d) /\ conn'[d] = "closing")
  BY <1>1 DEF Switch, DisposeCurrent, IsConnected, SessionInv, TypeOK
<1>3. pc'[c] = "nullAfterQuit" => Disposes(owner[c], from[c])'
  BY <1>1 DEF Switch, Goto, Leave, DisposeCurrent, IsConnected, Disposes, SessionInv, TypeOK
<1>4. UpdateInv' /\ ReplacedInv' BY <1>1, LoopUpdates DEF Looping, Updates, Updating
<1>5. CurrentInv' BY <1>1, <1>2, CurrentKept DEF Begun, Looping, Reading
<1>6. HoldInv'
  <2>1. current[owner[c]] \in {from[c], Null} BY <1>1 DEF ReadInv
  <2>2. \A d, x \in Conns : Holds(d, x)' => Holds(d, x)
    BY <1>1, <2>1, SessionAssumption DEF Holds, Reading, Null
  <2> QED BY <2>2 DEF HoldInv
<1>7. ReadInv'
  <2>1. \A d \in Conns : pc[d] = "read" => from[d] \in Conns
    BY DEF SessionInv, PlaceInv, Reading
  <2> QED BY <1>1, <1>2, <2>1 DEF ReadInv
<1>8. DisconnectInv' BY <1>1, <1>2, <1>3, DisconnectKept DEF Closing, Connected
<1>9. StoreInv' BY <1>1, <1>2 DEF StoreInv, Connected, Looping
<1> QED BY <1>4, <1>5, <1>6, <1>7, <1>8, <1>9

\* An add ends, perhaps by an exception that shows the connection to be broken.
LEMMA AddEndsCalm ==
    ASSUME SessionInv, Peace, NEW c \in Conns, AddEnds(c)
    PROVE  Peace'
<1> USE DEF Peace
<1>1. /\ pc[c] = "adding" /\ owner[c] \in Clients
      /\ UNCHANGED <<store, current, lines, owner, remover>>
      /\ pc'[c] \in {"while", "thrown"}
      /\ \A d \in Conns : d # c => pc'[d] = pc[d] /\ from'[d] = from[d]
  BY DEF AddEnds, Goto, Leave, SessionInv, TypeOK, PlaceInv, Looping
<1>2. \A d \in Conns : conn'[d] = conn[d] \/ (conn[d] = "ended" /\ conn'[d] = "broken")
  BY <1>1 DEF AddEnds, SessionInv, TypeOK
<1>3. UpdateInv' /\ ReplacedInv' BY <1>1, LoopUpdates DEF Looping, Updates, Updating
<1>4. CurrentInv' BY <1>1, <1>2, CurrentKept DEF Begun, Looping, Reading
<1>5. HoldInv'
  <2>1. current[owner[c]] \in {from[c], Null} BY <1>1 DEF ReadInv
  <2>2. \A d, x \in Conns : Holds(d, x)' => Holds(d, x)
    BY <1>1, <2>1, SessionAssumption DEF Holds, Reading, Null
  <2> QED BY <2>2 DEF HoldInv
<1>6. ReadInv'
  <2>1. \A d \in Conns : pc[d] = "read" => from[d] \in Conns
    BY DEF SessionInv, PlaceInv, Reading
  <2> QED BY <1>1, <1>2, <2>1 DEF ReadInv
<1>7. DisconnectInv' BY <1>1, <1>2, DisconnectKept DEF Closing
<1>8. StoreInv' BY <1>1, <1>2 DEF StoreInv, Connected, Looping
<1> QED BY <1>3, <1>4, <1>5, <1>6, <1>7, <1>8

\* A step that only sets the current connection of a client to null, which has
\* been disposed of or lost.
LEMMA NullCalm ==
    ASSUME SessionInv, Peace, NEW w \in Clients, SetNull(w), ~IsConnected(w),
           UNCHANGED <<store, conn, lines, owner>>,
           \A d \in Conns : \/ pc'[d] = pc[d] /\ from'[d] = from[d]
                            \/ pc[d] = "nullAfterQuit" /\ pc'[d] = "while",
           remover' = remover \/ (conn[remover] = "disposed" /\ remover' = Null),
           \A e \in Conns : pc[e] \notin Updates
    PROVE  Peace'
<1> USE DEF Peace
<1>1. current' = [current EXCEPT ![w] = Null] /\ current \in [Clients -> Conns \cup {Null}]
  BY DEF SetNull, SessionInv, TypeOK
<1>2. \A v \in Clients : current'[v] = IF v = w THEN Null ELSE current[v] BY <1>1
<1> HIDE DEF SetNull
<1>3. UpdateInv' /\ ReplacedInv'
  <2>1. \A e \in Conns : pc'[e] \notin Updates BY DEF Updates, Updating
  <2> QED BY <2>1 DEF UpdateInv, ReplacedInv, Updates, Updating
<1>4. CurrentInv' BY <1>2, CurrentKept DEF Begun, Looping, Reading
<1>5. \A d \in Conns : pc[d] \in Looping => owner[d] \in Clients
  BY DEF SessionInv, PlaceInv
<1>6. HoldInv'
  <2>1. \A d, x \in Conns : Holds(d, x)' => Holds(d, x)
    BY <1>2, <1>5, SessionAssumption DEF Holds, Reading, Null, Looping
  <2> QED BY <2>1 DEF HoldInv
<1>7. ReadInv'
  <2>1. ASSUME NEW d \in Conns, pc'[d] = "read", from'[d] # current'[owner[d]]
        PROVE  conn[from'[d]] # "open" /\ (current'[owner[d]] # Null => lines[from'[d]] = <<>>)
    <3>1. pc[d] = "read" /\ from'[d] = from[d] /\ owner[d] \in Clients BY <1>5, <2>1 DEF Looping
    <3>2. CASE from[d] # current[owner[d]] BY <1>2, <3>1, <3>2 DEF ReadInv
    <3>3. CASE from[d] = current[owner[d]]
      <4>1. owner[d] = w BY <1>2, <2>1, <3>1, <3>3
      <4>2. from[d] \in Conns BY <3>1 DEF SessionInv, PlaceInv, Reading
      <4>3. ~Connected(current[w])
        BY <3>3, <4>1, <4>2, SessionAssumption DEF IsConnected, Null
      <4>4. conn[from[d]] # "open" BY <3>3, <4>1, <4>3 DEF Connected
      <4>5. current'[owner[d]] = Null BY <1>2, <3>1, <4>1
      <4> QED BY <3>1, <4>4, <4>5
    <3> QED BY <3>2, <3>3
  <2>2. ASSUME NEW d \in Conns, pc'[d] \in {"switch", "adding"}
        PROVE  current'[owner[d]] \in {from'[d], Null}
    <3>1. pc[d] \in {"switch", "adding"} /\ from'[d] = from[d] /\ owner[d] \in Clients
      BY <1>5, <2>2 DEF Looping
    <3> QED BY <1>2, <3>1 DEF ReadInv
  <2> QED BY <2>1, <2>2 DEF ReadInv
<1>8. DisconnectInv' BY <1>2, DisconnectKept DEF Closing
<1>9. StoreInv'
  <2>1. ASSUME NEW d \in Conns, pc'[d] \in Looping, Connected(d), d # remover'
        PROVE  owner[d] = store /\ current'[store] = d
    <3>1. pc[d] \in Looping /\ owner[d] \in Clients BY <1>5, <2>1 DEF Looping
    <3>2. d # remover BY <2>1 DEF Connected
    <3>3. owner[d] = store /\ current[store] = d BY <2>1, <3>1, <3>2 DEF StoreInv
    <3>4. store # w BY <2>1, <3>3, SessionAssumption DEF IsConnected, Null
    <3> QED BY <1>2, <3>1, <3>3, <3>4
  <2> QED BY <2>1 DEF StoreInv, Connected
<1> QED BY <1>3, <1>4, <1>6, <1>7, <1>8, <1>9

LEMMA NullAfterCalm ==
    ASSUME SessionInv, Peace, NullAfterRemove \/ \E c \in Conns : NullAfterQuit(c)
    PROVE  Peace'
<1>1. ASSUME NEW w \in Clients, NEW x \in Conns, Disposes(w, x), conn[x] = "disposed"
      PROVE  ~IsConnected(w)
  BY <1>1 DEF Disposes, IsConnected, Connected
<1>2. CASE NullAfterRemove
  <2>1. /\ remover \in Conns /\ owner[remover] \in Clients
        /\ conn[remover] = "disposed" /\ Disposes(owner[remover], remover)
    BY <1>2 DEF NullAfterRemove, Peace, DisconnectInv, SessionInv, TypeOK, PlaceInv
  <2>2. ~IsConnected(owner[remover]) BY <1>1, <2>1
  <2>3. \A e \in Conns : pc[e] \notin Updates BY <1>2 DEF NullAfterRemove, Peace, UpdateInv
  <2> QED BY <1>2, <2>1, <2>2, <2>3, NullCalm DEF NullAfterRemove, netVars, loopVars
<1>3. ASSUME NEW c \in Conns, NullAfterQuit(c) PROVE Peace'
  <2>1. /\ pc[c] = "nullAfterQuit" /\ owner[c] \in Clients /\ from[c] \in Conns
        /\ conn[from[c]] = "disposed" /\ Disposes(owner[c], from[c])
        /\ pc' = [pc EXCEPT ![c] = "while"] /\ from' = [from EXCEPT ![c] = Null]
    BY <1>3 DEF NullAfterQuit, Goto, Leave, Peace, DisconnectInv, SessionInv, PlaceInv, Looping,
       Closing
  <2>2. ~IsConnected(owner[c]) BY <1>1, <2>1
  <2>3. \A e \in Conns : pc[e] \notin Updates
    BY <2>1 DEF Peace, UpdateInv, Updates, Updating, Over
  <2>4. \A d \in Conns : \/ pc'[d] = pc[d] /\ from'[d] = from[d]
                         \/ pc[d] = "nullAfterQuit" /\ pc'[d] = "while"
    BY <2>1 DEF SessionInv, TypeOK
  <2> QED BY <1>3, <2>1, <2>2, <2>3, <2>4, NullCalm DEF NullAfterQuit, netVars
<1> QED BY <1>2, <1>3

\* A replacement begins: what the old connection's loop waits for cannot come.
LEMMA UpdateConnectionCalm ==
    ASSUME SessionInv, Peace, NEW e \in Conns, UpdateConnection(e)
    PROVE  Peace'
<1> USE DEF Peace
<1>1. /\ pc[e] = "got" /\ owner[e] \in Clients /\ owner[e] = store
      /\ UNCHANGED <<store, current, lines, owner, remover>>
      /\ pc'[e] \in Updating
      /\ \A d \in Conns : d # e => pc'[d] = pc[d] /\ from'[d] = from[d]
  BY DEF UpdateConnection, Goto, UpdateInv, SessionInv, TypeOK, PlaceInv, Updates, Updating
<1>2. \A d \in Conns : conn'[d] = conn[d] \/ (Connected(d) /\ conn'[d] = "closing")
  BY <1>1 DEF UpdateConnection, DisposeCurrent, IsConnected, SessionInv, TypeOK
<1>3. current[store] # Null =>
         current[store] \in Conns /\ conn'[current[store]] \notin {"open", "ended"}
  BY <1>1 DEF UpdateConnection, DisposeCurrent, IsConnected, Connected, SessionInv, TypeOK
<1>4. UpdateInv'
  <2>1. \A d \in Conns : d # e => pc'[d] \notin Updates
    BY <1>1 DEF UpdateInv, Updates, Updating, Over
  <2> QED BY <1>1, <2>1 DEF UpdateInv, Updates
<1>5. ReplacedInv'
  <2>1. ASSUME NEW d \in Conns, pc'[d] = "read" PROVE conn'[from'[d]] # "open"
    <3>1. pc[d] = "read" /\ from'[d] = from[d] /\ owner[d] \in Clients /\ from[d] \in Conns
      BY <1>1, <2>1 DEF Updating, SessionInv, PlaceInv, Looping, Reading
    <3>2. CASE from[d] # current[owner[d]] BY <1>2, <3>1, <3>2 DEF ReadInv
    <3>3. CASE from[d] = current[owner[d]] /\ owner[d] = store
      <4>1. current[store] # Null BY <3>1, <3>3, SessionAssumption DEF Null
      <4>2. conn'[current[store]] # "open" BY <1>3, <4>1
      <4> QED BY <3>1, <3>3, <4>2
    <3>4. CASE from[d] = current[owner[d]] /\ owner[d] # store
      BY <1>2, <3>1, <3>4, SessionAssumption DEF CurrentInv, Null
    <3> QED BY <3>2, <3>3, <3>4
  <2>2. ASSUME NEW d \in Conns, pc'[d] \in Looping, pc'[e] = "assign" PROVE ~Connected(d)'
    <3>1. pc[d] \in Looping BY <1>1, <2>2 DEF Updating, Looping
    <3>2. ~IsConnected(store) /\ conn' = conn
      BY <1>1, <2>2 DEF UpdateConnection, Goto, SessionInv, TypeOK
    <3>3. d # Null /\ remover = Null
      BY <1>1, SessionAssumption DEF Null, UpdateInv, Updates
    <3> QED BY <3>1, <3>2, <3>3 DEF StoreInv, IsConnected, Connected
  <2>3. \A d \in Conns : d # e => pc'[d] \notin Updating
    BY <1>1 DEF UpdateInv, Updates, Updating, Over
  <2> QED BY <1>1, <2>1, <2>2, <2>3 DEF ReplacedInv, Updating
<1>6. CurrentInv'
  BY <1>1, <1>2, CurrentKept DEF Begun, Looping, Reading, Updating
<1>7. HoldInv'
  <2>1. \A d, x \in Conns : Holds(d, x)' => Holds(d, x)
    BY <1>1 DEF Holds, Reading, Updating
  <2> QED BY <2>1 DEF HoldInv
<1>8. ReadInv'
  <2>1. \A d \in Conns : pc[d] = "read" => from[d] \in Conns
    BY DEF SessionInv, PlaceInv, Reading
  <2> QED BY <1>1, <1>2, <2>1 DEF ReadInv, Updating
<1>9. DisconnectInv'
  <2>1. remover = Null BY <1>1 DEF UpdateInv, Updates
  <2>2. \A d \in Conns : d # e => pc'[d] \notin Closing
    BY <1>1 DEF UpdateInv, Updates, Updating, Closing, Over
  <2>3. pc'[e] \in Closing => Disposes(owner[e], from[e])'
    BY <1>1 DEF UpdateConnection, Goto, DisposeCurrent, IsConnected, Disposes, Closing,
                SessionInv, TypeOK
  <2> QED BY <1>1, <2>1, <2>2, <2>3 DEF DisconnectInv
<1>10. StoreInv' BY <1>1, <1>2 DEF StoreInv, Connected, Looping, Updating
<1> QED BY <1>4, <1>5, <1>6, <1>7, <1>8, <1>9, <1>10

\* The replacement goes on, and ends with the new connection as the current one.
LEMMA AssignCalm ==
    ASSUME SessionInv, Peace, NEW e \in Conns, NullBeforeAssign(e) \/ Assign(e)
    PROVE  Peace'
<1> USE DEF Peace
<1>1. /\ pc[e] \in Updating /\ owner[e] \in Clients /\ owner[e] = store
      /\ UNCHANGED <<store, conn, lines, owner, remover>> /\ remover = Null
      /\ \/ pc'[e] = "assign" /\ current'[store] = Null
         \/ pc'[e] = "while" /\ current'[store] = e
      /\ \A d \in Conns : d # e => pc'[d] = pc[d] /\ from'[d] = from[d]
      /\ \A w \in Clients : w # store => current'[w] = current[w]
  BY DEF NullBeforeAssign, Assign, SetNull, Goto, Leave, netVars, UpdateInv, SessionInv, TypeOK,
         PlaceInv, Updates, Updating
<1>2. \A d \in Conns : d # e => \/ pc[d] \in Over \cup {"hello"}
                                \/ pc[d] = "read" /\ lines[from[d]] = <<>>
  BY <1>1 DEF UpdateInv, Updates
<1>3. \A d \in Conns : pc[d] = "read" => /\ from[d] \in Conns /\ owner[d] \in Clients
                                        /\ conn[from[d]] # "open" /\ pc[from[d]] \in Begun
  BY <1>1 DEF SessionInv, PlaceInv, Reading, Looping, ReplacedInv, CurrentInv
<1>4. ASSUME NEW d \in Conns, pc[d] \in Looping PROVE ~Connected(d)
  <2>1. CASE pc[e] = "assign" BY <1>4, <2>1 DEF ReplacedInv
  <2>2. CASE pc[e] = "nullBeforeAssign"
    <3>1. conn[from[e]] = "disposed" BY <2>2 DEF NullBeforeAssign, Assign
    <3>2. current[store] \in {from[e], Null}
      BY <1>1, <2>2 DEF DisconnectInv, Disposes, Closing
    <3>3. d # Null BY SessionAssumption DEF Null
    <3> QED BY <1>1, <1>4, <3>1, <3>2, <3>3 DEF StoreInv, Connected
  <2> QED BY <1>1, <2>1, <2>2 DEF Updating
<1>5. UpdateInv'
  <2>1. \A d \in Conns : d # e => pc'[d] \notin Updates
    BY <1>1, <1>2 DEF Updates, Updating, Over
  <2> QED BY <1>1, <1>2, <2>1 DEF UpdateInv
<1>6. ReplacedInv'
  <2>1. \A d \in Conns : d # e => pc'[d] \notin Updating
    BY <1>1, <1>2 DEF Updating, Over
  <2>2. pc'[e] \in Updating => pc'[e] = "assign" BY <1>1 DEF Updating
  <2>3. \A d \in Conns : d # e /\ pc'[d] = "read" => conn[from'[d]] # "open"
    BY <1>1, <1>3
  <2>4. \A d \in Conns : d # e /\ pc'[d] \in Looping => ~Connected(d)
    BY <1>1, <1>4
  <2> QED BY <1>1, <2>1, <2>2, <2>3, <2>4 DEF ReplacedInv, Connected, Looping, Updating
<1>7. \A d \in Conns : pc[d] \in Begun => pc'[d] \in Begun
  BY <1>1 DEF Begun, Looping, Updating
<1>8. CurrentInv'
  <2>1. pc'[e] = "while" => pc'[e] \in Begun BY DEF Begun, Looping
  <2>2. \A w \in Clients : current[w] # Null => current[w] \in Conns BY DEF SessionInv, TypeOK
  <2>3. \A w \in Clients : current'[w] # Null =>
           pc'[current'[w]] \in Begun /\ (conn[current'[w]] = "open" => w = store)
    BY <1>1, <1>7, <2>1, <2>2 DEF CurrentInv
  <2>4. \A d \in Conns : pc'[d] \in Reading => pc'[from'[d]] \in Begun
    BY <1>1, <1>2, <1>3, <1>7 DEF Reading, Over
  <2> QED BY <1>1, <2>3, <2>4 DEF CurrentInv
<1>9. HoldInv'
  <2>1. \A d, x \in Conns : Holds(d, x)' => IF d = e THEN x = e ELSE x # e /\ Holds(d, x)
    <3>1. ASSUME NEW x \in Conns, Holds(e, x)' PROVE x = e
      BY <1>1, <3>1, SessionAssumption DEF Holds, Reading
    <3>2. ASSUME NEW d \in Conns, NEW x \in Conns, d # e, Holds(d, x)'
          PROVE  x # e /\ Holds(d, x)
      <4>1. pc[d] = "read" /\ from[d] = x
        BY <1>1, <1>2, <3>2 DEF Holds, Reading, Over
      <4>2. pc[e] \notin Begun BY <1>1 DEF Updating, Begun, Looping
      <4> QED BY <1>3, <4>1, <4>2 DEF Holds, Reading
    <3> QED BY <3>1, <3>2
  <2> QED BY <2>1 DEF HoldInv
<1>10. ReadInv' BY <1>1, <1>2, <1>3 DEF ReadInv, Over
<1>11. DisconnectInv'
  <2>1. \A d \in Conns : pc'[d] \notin Closing
    BY <1>1, <1>2 DEF Closing, Over
  <2> QED BY <1>1, <2>1 DEF DisconnectInv
<1>12. StoreInv'
  <2>1. \A d \in Conns : d # e /\ pc'[d] \in Looping => ~Connected(d)' BY <1>1, <1>4 DEF Connected
  <2> QED BY <1>1, <2>1 DEF StoreInv, Looping
<1> QED BY <1>5, <1>6, <1>8, <1>9, <1>10, <1>11, <1>12

\* A throttle connects, or ends or loses a connection: no loop has one more that is there.
LEMMA NetworkCalm ==
    ASSUME SessionInv, Peace, NEW c \in Conns, Accept(c) \/ ThrottleGoes(c) \/ Closed(c)
    PROVE  Peace'
<1> USE DEF Peace
<1>1. /\ UNCHANGED <<store, current, lines, owner, from, remover>>
      /\ \A d \in Conns : d # c => pc'[d] = pc[d] /\ conn'[d] = conn[d]
      /\ \/ pc[c] = "none" /\ pc'[c] = "hello"
         \/ pc'[c] = pc[c] /\ conn[c] = "open" /\ conn'[c] \in {"ended", "broken"}
         \/ pc'[c] = pc[c] /\ conn[c] = "closing" /\ conn'[c] = "disposed"
      /\ conn[c] = "none" \/ pc'[c] = pc[c]
  BY DEF Accept, ThrottleGoes, Closed, Goto, loopVars, SessionInv, TypeOK, PlaceInv
<1>2. \A d \in Conns : pc[d] \notin {"none", "hello"} =>
         /\ pc'[d] = pc[d]
         /\ conn'[d] = "open" => conn[d] = "open"
         /\ Connected(d)' => Connected(d)
  BY <1>1 DEF Connected
<1>3. \A d \in Conns : /\ pc'[d] \notin {"none", "hello"} => pc'[d] = pc[d]
                       /\ pc[d] \in Over \cup {"hello"} => pc'[d] \in Over \cup {"hello"}
  BY <1>1 DEF Over
<1>4. \A d \in Conns : pc[d] \in Reading => /\ from[d] \in Conns
                                           /\ pc[from[d]] \notin {"none", "hello"}
  BY DEF SessionInv, PlaceInv, CurrentInv, Begun, Looping, Reading
<1>5. \A w \in Clients : current[w] # Null => /\ current[w] \in Conns
                                             /\ pc[current[w]] \notin {"none", "hello"}
  BY DEF SessionInv, TypeOK, CurrentInv, Begun, Looping
<1>6. UpdateInv' BY <1>1, <1>3 DEF UpdateInv, Updates, Updating
<1>7. ReplacedInv' BY <1>1, <1>2, <1>3, <1>4 DEF ReplacedInv, Updating, Looping, Reading
<1>8. CurrentInv' BY <1>1, <1>2, <1>3, <1>4, <1>5 DEF CurrentInv, Reading
<1>9. HoldInv'
  <2>1. \A d, x \in Conns : Holds(d, x)' => Holds(d, x) BY <1>1, <1>3 DEF Holds, Reading
  <2> QED BY <2>1 DEF HoldInv
<1>10. ReadInv' BY <1>1, <1>2, <1>3, <1>4 DEF ReadInv, Reading
<1>11. DisconnectInv'
  <2>1. \A d \in Conns : conn[d] \in {"closing", "disposed"} =>
           conn'[d] \in {"closing", "disposed"}
    BY DEF Accept, ThrottleGoes, Closed, SessionInv, TypeOK
  <2> QED BY <1>1, <1>3, <2>1, DisconnectKept DEF Closing
<1>12. StoreInv' BY <1>1, <1>2, <1>3 DEF StoreInv, Looping
<1> QED BY <1>6, <1>7, <1>8, <1>9, <1>10, <1>11, <1>12

\* A line arrives: nobody waits for it at a connection that has been replaced.
LEMMA ListenCalm ==
    ASSUME SessionInv, Peace, careful, NEW c \in Conns, Listen(c)
    PROVE  Peace'
<1> USE DEF Peace
<1>1. /\ conn[c] = "open" /\ UNCHANGED <<store, current, conn, pc, owner, from, remover>>
      /\ \A d \in Conns : pc[d] # "got"
      /\ \A x \in Conns : x # c => lines'[x] = lines[x]
  BY DEF Listen, loopVars, SessionInv, TypeOK
<1>2. \A d \in Conns : pc[d] \in Reading => from[d] \in Conns
  BY DEF SessionInv, PlaceInv
<1>3. UpdateInv'
  <2>1. ASSUME NEW e \in Conns, pc[e] \in Updates, NEW d \in Conns, pc[d] = "read"
        PROVE  lines'[from[d]] = lines[from[d]]
    BY <1>1, <1>2, <2>1 DEF ReplacedInv, Updates, Reading
  <2> QED BY <1>1, <2>1 DEF UpdateInv
<1>4. ReplacedInv' BY <1>1 DEF ReplacedInv, Connected
<1>5. CurrentInv' BY <1>1 DEF CurrentInv
<1>6. HoldInv' BY <1>1 DEF HoldInv, Holds
<1>7. ReadInv'
  <2>1. ASSUME NEW d \in Conns, pc[d] = "read", from[d] # current[owner[d]]
        PROVE  conn[from[d]] # "open" /\ lines'[from[d]] = lines[from[d]]
    BY <1>1, <1>2, <2>1 DEF ReadInv, Reading
  <2> QED BY <1>1, <2>1 DEF ReadInv
<1>8. DisconnectInv' BY <1>1, DisconnectKept
<1>9. StoreInv' BY <1>1 DEF StoreInv, Connected
<1> QED BY <1>3, <1>4, <1>5, <1>6, <1>7, <1>8, <1>9

\* The handshake: the connection is refused, or is going to replace the one
\* there is, at a time when every loop waits.
LEMMA HelloCalm ==
    ASSUME SessionInv, Peace, careful, NEW c \in Conns, Hello(c)
    PROVE  Peace'
<1> USE DEF Peace
<1>1. /\ pc[c] = "hello" /\ UNCHANGED <<current, lines, from, remover>>
      /\ \A d \in Conns : d # c => pc'[d] = pc[d] /\ owner'[d] = owner[d] /\ conn'[d] = conn[d]
      /\ \/ pc'[c] = "refused" /\ conn'[c] = "disposed" /\ owner'[c] = owner[c] /\ store' = store
         \/ pc'[c] = "thrown" /\ conn'[c] = conn[c] /\ owner'[c] = owner[c] /\ store' = store
         \/ /\ pc'[c] = "got" /\ conn'[c] = conn[c] /\ owner'[c] = store' /\ AtRest
            /\ store \in Clients => store' = store
  BY DEF Hello, Goto, SessionInv, TypeOK, NoClient, Clients
<1>2. \A d \in Conns : /\ pc[d] # "hello" => pc'[d] = pc[d] /\ owner'[d] = owner[d]
                       /\ pc'[d] \notin {"refused", "thrown", "got"} => pc'[d] = pc[d] /\ owner'[d] = owner[d]
                       /\ conn'[d] = "open" => conn[d] = "open"
                       /\ Connected(d)' => Connected(d)
  <2>1. ASSUME NEW d \in Conns, d # c PROVE Connected(d)' => Connected(d)
    BY <1>1, <2>1 DEF Connected
  <2>2. Connected(c)' => Connected(c) BY <1>1 DEF Connected
  <2>3. \A d \in Conns : conn'[d] = "open" => conn[d] = "open" BY <1>1
  <2>4. \A d \in Conns : Connected(d)' => Connected(d) BY <2>1, <2>2
  <2>5. \A d \in Conns : pc[d] # "hello" => pc'[d] = pc[d] /\ owner'[d] = owner[d] BY <1>1
  <2>6. \A d \in Conns : pc'[d] \notin {"refused", "thrown", "got"} => pc'[d] = pc[d] /\ owner'[d] = owner[d]
    <3>1. ASSUME NEW d \in Conns, pc'[d] \notin {"refused", "thrown", "got"} PROVE d # c BY <1>1, <3>1
    <3> QED BY <1>1, <3>1
  <2> QED BY <2>3, <2>4, <2>5, <2>6
<1>3. \A d \in Conns : pc[d] \in Reading => from[d] \in Conns /\ pc[from[d]] \in Begun
  BY DEF SessionInv, PlaceInv, CurrentInv
<1>4. \A w \in Clients : current[w] # Null => current[w] \in Conns
  BY DEF SessionInv, TypeOK
<1>5. \A d \in Conns : pc[d] \in Looping => owner[d] \in Clients BY DEF SessionInv, PlaceInv
<1>6. \A d \in Conns : pc[d] \in Begun => pc'[d] \in Begun BY <1>1 DEF Begun, Looping
<1>7. UpdateInv' /\ ReplacedInv'
  <2>1. CASE AtRest /\ pc'[c] = "got" /\ owner'[c] = store'
    <3>1. \A d \in Conns : pc[d] \notin Over \cup {"hello"} => pc[d] = "read" /\ lines[from[d]] = <<>>
      BY <2>1 DEF AtRest
    <3>2. remover = Null BY <2>1 DEF AtRest
    <3>3. \A d \in Conns : d # c => pc'[d] \notin Updates
      BY <1>1, <3>1 DEF Updates, Updating, Over
    <3> QED BY <1>1, <2>1, <3>1, <3>2, <3>3 DEF UpdateInv, ReplacedInv, Updates, Updating
  <2>2. CASE pc'[c] \in {"refused", "thrown"} /\ store' = store
    <3>1. \A d \in Conns : pc'[d] \in Updates => pc[d] = pc'[d] /\ owner'[d] = owner[d]
      BY <1>1, <1>2, <2>2 DEF Updates, Updating
    <3>2. UpdateInv' BY <1>1, <2>2, <3>1 DEF UpdateInv, Over
    <3>3. ReplacedInv'
      BY <1>1, <1>2, <1>3, <2>2, <3>1 DEF ReplacedInv, Updates, Updating, Looping, Reading
    <3> QED BY <3>2, <3>3
  <2> QED BY <1>1, <2>1, <2>2
<1>8. CurrentInv'
  <2>1. ASSUME NEW w \in Clients, current[w] # Null
        PROVE  pc'[current[w]] \in Begun /\ (conn'[current[w]] = "open" => w = store')
    BY <1>1, <1>2, <1>4, <1>6, <2>1 DEF CurrentInv
  <2>2. \A d \in Conns : pc'[d] \in Reading => pc'[from[d]] \in Begun
    BY <1>1, <1>2, <1>3, <1>6 DEF Reading
  <2> QED BY <1>1, <2>1, <2>2 DEF CurrentInv
<1>9. HoldInv'
  <2>1. \A d, x \in Conns : Holds(d, x)' => Holds(d, x) BY <1>1, <1>2 DEF Holds, Reading
  <2> QED BY <2>1 DEF HoldInv
<1>10. ReadInv' BY <1>1, <1>2, <1>3 DEF ReadInv, Reading
<1>11. DisconnectInv'
  <2>1. \A d \in Conns : conn[d] \in {"closing", "disposed"} =>
           conn'[d] \in {"closing", "disposed"}
    BY <1>1
  <2>2. remover # Null => remover # c
    BY <1>1 DEF SessionInv, PlaceInv, NoClient, Clients
  <2>3. remover # Null => remover \in Conns BY DEF SessionInv, TypeOK
  <2> QED BY <1>1, <1>2, <2>1, <2>2, <2>3, DisconnectKept DEF Closing
<1>12. StoreInv'
  <2>1. ASSUME NEW d \in Conns, pc'[d] \in Looping, Connected(d)', d # remover
        PROVE  owner'[d] = store' /\ current[store'] = d
    <3>1. pc[d] \in Looping /\ Connected(d) /\ owner'[d] = owner[d]
      BY <1>2, <2>1 DEF Looping
    <3>2. owner[d] = store /\ current[store] = d /\ store \in Clients
      BY <1>5, <2>1, <3>1 DEF StoreInv
    <3> QED BY <1>1, <3>1, <3>2
  <2> QED BY <1>1, <2>1 DEF StoreInv
<1> QED BY <1>7, <1>8, <1>9, <1>10, <1>11, <1>12

\* The page's button: the client leaves the store, and its connection is disposed of.
LEMMA ForgetCalm ==
    ASSUME SessionInv, Peace, careful, ForgetClient
    PROVE  Peace'
<1> USE DEF Peace
<1>1. /\ AtRest /\ store \in Clients /\ store' = NoClient
      /\ UNCHANGED <<current, lines, pc, owner, from>>
      /\ remover' \in {Null, current[store]}
  BY DEF ForgetClient, AtRest, loopVars, SessionInv, TypeOK, NoClient, Clients
<1>2. \A d \in Conns : conn'[d] = conn[d] \/ (Connected(d) /\ conn'[d] = "closing")
  BY <1>1 DEF ForgetClient, DisposeCurrent, IsConnected, SessionInv, TypeOK
<1>3. current[store] # Null => /\ current[store] \in Conns
                               /\ \/ conn' = conn /\ ~Connected(current[store])
                                  \/ /\ conn'[current[store]] = "closing"
                                     /\ remover' = current[store]
                                     /\ owner[remover'] = store
  BY <1>1 DEF ForgetClient, DisposeCurrent, IsConnected, SessionInv, TypeOK
<1>4. \A d \in Conns : pc[d] \in Over \cup {"hello", "read"} BY <1>1 DEF AtRest
<1>5. UpdateInv' /\ ReplacedInv'
  <2>1. \A d \in Conns : pc'[d] \notin Updates BY <1>1, <1>4 DEF Updates, Updating, Over
  <2> QED BY <2>1 DEF UpdateInv, ReplacedInv, Updates, Updating
<1>6. CurrentInv'
  <2>1. \A w \in Clients : current[w] # Null => current[w] \in Conns
    BY DEF SessionInv, TypeOK
  <2>2. ASSUME NEW w \in Clients, current[w] # Null PROVE conn'[current[w]] # "open"
    BY <1>2, <1>3, <2>1, <2>2 DEF CurrentInv, Connected
  <2> QED BY <1>1, <2>2 DEF CurrentInv
<1>7. HoldInv' BY <1>1 DEF HoldInv, Holds
<1>8. ReadInv'
  <2>1. \A d \in Conns : pc[d] = "read" => from[d] \in Conns
    BY DEF SessionInv, PlaceInv, Reading
  <2> QED BY <1>1, <1>2, <2>1 DEF ReadInv
<1>9. DisconnectInv'
  <2>1. \A d \in Conns : pc'[d] \notin Closing BY <1>1, <1>4 DEF Closing, Over
  <2>2. ASSUME remover' # Null PROVE Disposes(owner[remover], remover)'
    <3>1. remover' = current[store] /\ current[store] # Null BY <1>1, <2>2
    <3>2. conn'[remover'] = "closing" /\ owner[remover'] = store
      BY <1>1, <1>3, <2>2, <3>1 DEF ForgetClient, IsConnected, AtRest
    <3> QED BY <1>1, <3>1, <3>2 DEF Disposes
  <2> QED BY <2>1, <2>2 DEF DisconnectInv
<1>10. StoreInv'
  <2>1. remover = Null BY <1>1 DEF AtRest
  <2>2. ASSUME NEW d \in Conns, pc[d] \in Looping, Connected(d)' PROVE d = remover'
    <3>1. Connected(d) /\ d # Null
      BY <1>2, <2>2, SessionAssumption DEF Connected, Null
    <3>2. current[store] = d BY <2>1, <2>2, <3>1 DEF StoreInv
    <3> QED BY <1>3, <3>1, <3>2
  <2> QED BY <1>1, <2>2 DEF StoreInv
<1> QED BY <1>5, <1>6, <1>7, <1>8, <1>9, <1>10

LEMMA InitCalm == Init => CalmInv
<1> SUFFICES ASSUME Init PROVE Peace BY DEF CalmInv
<1>1. \A c \in Conns : pc[c] = "none" BY DEF Init
<1>2. \A w \in Clients : current[w] = Null BY DEF Init
<1>3. remover = Null BY DEF Init
<1>4. UpdateInv /\ ReplacedInv BY <1>1 DEF UpdateInv, ReplacedInv, Updates, Updating
<1>5. CurrentInv BY <1>1, <1>2 DEF CurrentInv, Reading
<1>6. HoldInv BY <1>1 DEF HoldInv, Holds, Reading
<1>7. ReadInv BY <1>1 DEF ReadInv
<1>8. DisconnectInv BY <1>1, <1>3 DEF DisconnectInv, Closing
<1>9. StoreInv BY <1>1 DEF StoreInv, Looping
<1> QED BY <1>4, <1>5, <1>6, <1>7, <1>8, <1>9 DEF Peace

\* Once the service stops, or if the throttle is not careful, it is not calm again.
LEMMA CalmStays == Next /\ Calm' => Calm
  BY DEF Next, Task, Update, Loop, Remove, Accept, Listen, ThrottleGoes, Hello, Closed,
     UpdateConnection, NullBeforeAssign, Assign, While, Use, ReadNextMessage, Switch, AddEnds,
     NullAfterQuit, Cancelled, ForgetClient, StopAsync, NullAfterRemove, CancelToken,
     restVars, Calm

LEMMA StepCalm == SessionInv /\ CalmInv /\ [Next]_vars => CalmInv'
<1> SUFFICES ASSUME SessionInv, CalmInv, [Next]_vars, Calm' PROVE Peace'
  BY DEF CalmInv
<1>1. CASE UNCHANGED vars
  BY <1>1 DEF vars, CalmInv, Calm, Peace, UpdateInv, ReplacedInv, CurrentInv, HoldInv, Holds,
     ReadInv, DisconnectInv, Disposes, StoreInv, IsConnected, Connected
<1>2. CASE Next
  <2>1. Peace /\ careful /\ service = "accepting" BY <1>2, CalmStays DEF CalmInv, Calm
  <2>2. ~CancelToken /\ ~StopAsync /\ \A c \in Conns : ~Cancelled(c)
    BY <2>1 DEF Calm, CancelToken, StopAsync, Cancelled
  <2> QED
    BY <1>2, <2>1, <2>2, NetworkCalm, ListenCalm, HelloCalm, UpdateConnectionCalm, AssignCalm,
       WhileCalm, UseCalm, ReadCalm, SwitchCalm, AddEndsCalm, NullAfterCalm, ForgetCalm
    DEF Next, Task, Update, Loop, Remove
<1> QED BY <1>1, <1>2

----------------------------------------------------------------------------
LEMMA SpecCalm == Spec => [](SessionInv /\ CalmInv)
  BY InitTypes, StepTypes, InitCalm, StepCalm, PTL DEF Spec

\* OneReader of ThrottleSession: two loops never take lines from one connection.
THEOREM SessionOneReader == Spec => []OneReader
<1>1. SessionInv /\ CalmInv => OneReader
  BY DEF CalmInv, OneReader, OneReaderAlways, Peace, HoldInv, Holds, Serves, Reading
<1> QED BY <1>1, SpecCalm, PTL

\* Attached of ThrottleSession needs a service that accepts only, so Calm is enough.
THEOREM SessionAttached == Spec => []Attached
<1>1. ASSUME SessionInv, CalmInv, careful, service = "accepting", remover = Null,
             NEW c \in Conns, Connected(c), pc[c] \notin Handshake \cup Updating \cup Over
      PROVE  owner[c] = store /\ IsCurrent(c)
  <2>1. pc[c] \in Looping /\ owner[c] \in Clients
    BY <1>1 DEF SessionInv, TypeOK, PlaceInv
  <2>2. StoreInv /\ c # Null
    BY <1>1, SessionAssumption DEF CalmInv, Calm, Peace, Null
  <2>3. owner[c] = store /\ current[store] = c BY <1>1, <2>1, <2>2 DEF StoreInv
  <2> QED BY <2>1, <2>3 DEF IsCurrent, Clients, NoClient
<1>2. SessionInv /\ CalmInv => Attached BY <1>1 DEF Attached, AttachedAlways
<1> QED BY <1>2, SpecCalm, PTL

\* Who is about to set its client's connection to null has handled a Q.
LEMMA OnlySwitch ==
    ASSUME TypeOK, [Next]_vars, NEW c \in Conns, pc[c] = "switch", pc'[c] = "nullAfterQuit"
    PROVE  Switch(c)
<1> USE DEF TypeOK, Goto, Leave
<1>1. ~UNCHANGED vars BY DEF vars
<1>2. ASSUME NEW d \in Conns, Accept(d) \/ Listen(d) \/ ThrottleGoes(d) \/ Hello(d) \/ Closed(d)
      PROVE  FALSE
  BY <1>2 DEF Accept, Listen, ThrottleGoes, Hello, Closed, loopVars
<1>3. ASSUME NEW d \in Conns, Update(d) PROVE FALSE
  BY <1>3 DEF Update, UpdateConnection, NullBeforeAssign, Assign
<1>4. ASSUME NEW d \in Conns, Cancelled(d) PROVE FALSE
  BY <1>4 DEF Cancelled
<1>5. ASSUME NEW d \in Conns, While(d) \/ Use(d) \/ ReadNextMessage(d) \/ AddEnds(d) \/ NullAfterQuit(d)
      PROVE  FALSE
  BY <1>5 DEF While, Use, ReadNextMessage, AddEnds, NullAfterQuit
<1>6. ASSUME NEW d \in Conns, Switch(d) PROVE d = c
  BY <1>6 DEF Switch
<1>7. ~(ForgetClient \/ StopAsync \/ Remove)
  BY DEF ForgetClient, StopAsync, Remove, NullAfterRemove, CancelToken, loopVars
<1> QED BY <1>1, <1>2, <1>3, <1>4, <1>5, <1>6, <1>7 DEF Next, Task, Loop

\* QuitOwn of ThrottleSession: Q ends the connection it came over.
THEOREM SessionQuitOwn == Spec => QuitOwn
<1>1. ASSUME SessionInv, CalmInv, [Next]_vars, Calm, NEW c \in Conns PROVE QuitStep(c)
  <2>1. CASE pc[c] = "switch" /\ pc'[c] = "nullAfterQuit"
    <3>1. current[owner[c]] \in {from[c], Null}
      BY <1>1, <2>1 DEF CalmInv, Peace, ReadInv
    <3>2. Switch(c) BY <1>1, <2>1, OnlySwitch DEF SessionInv
    <3>3. current[owner[c]] # Null
      BY <2>1, <1>1, <3>2 DEF Switch, Goto, Leave, IsConnected, SessionInv, TypeOK
    <3> QED BY <3>1, <3>3 DEF QuitStep
  <2> QED BY <2>1 DEF QuitStep
<1>2. SessionInv /\ CalmInv /\ [Next]_vars => [Calm => \A c \in Conns : QuitStep(c)]_vars
  BY <1>1
<1> QED BY <1>2, SpecCalm, PTL DEF QuitOwn, Spec
=============================================================================
