------------------------ MODULE LoconetClient_proofs ------------------------
(***************************************************************************)
(* Proofs about LoconetClient, in every situation and for any number of    *)
(* messages, other devices' messages and failures of the connection:       *)
(* types; and, when answers are not late and OnSent is done before the     *)
(* next message, that SENT goes to the call that it belongs to, and, when  *)
(* no other device is heard or every message is a request that is          *)
(* answered, that the reply goes to the call that asked for it.            *)
(***************************************************************************)
EXTENDS LoconetClient, SequenceTheorems, TLAPS

Lines == [tag : {"RECEIVE"}, msg : Messages] \cup [tag : {"SENT"}, ok : BOOLEAN]

\* What the server still has to answer was sent by now, and OnSent is about a
\* SENT line.
TypeInv ==
    /\ TypeOK
    /\ inbox \in Seq(Lines)
    /\ \A i \in 1 .. Len(toServer) : toServer[i].of \in 1 .. n
    /\ pc # "idle" => n >= 1
    /\ setting => inbox # <<>> /\ inbox[1].tag = "SENT"

Alone           == situation = "alone"
BusyLine(x)     == x.tag = "RECEIVE" /\ x.msg.from = "busy"
ReplyLine(x, m) == x.tag = "RECEIVE" /\ x.msg.from = "station" /\ x.msg.of = m

\* Behind position k nothing but an OPC_BUSY comes before the reply to message m;
\* alone, the reply may be missing, but nothing comes after it.
Ahead(s, k, m, alone) ==
    \E r \in k + 1 .. Len(s) + 1 :
        /\ \A i \in k + 1 .. r - 1 : BusyLine(s[i])
        /\ r <= Len(s) => ReplyLine(s[r], m)
        /\ IF alone THEN r >= Len(s) ELSE r <= Len(s)

LEMMA One ==
    ASSUME NEW S, NEW a \in S
    PROVE  <<a>> \in Seq(S) /\ Len(<<a>>) = 1 /\ <<a>>[1] = a
  OBVIOUS

LEMMA Two ==
    ASSUME NEW S, NEW a \in S, NEW b \in S
    PROVE  <<a, b>> \in Seq(S) /\ Len(<<a, b>>) = 2 /\ <<a, b>>[1] = a /\ <<a, b>>[2] = b
  OBVIOUS

\* The lines that the server makes.
LEMMA AcceptedLines ==
    ASSUME NEW line, line.of \in 0 .. MaxCalls
    PROVE  \E e, t \in Lines : /\ Accepted(line) = <<e, t>>
                             /\ e.tag = "RECEIVE" /\ t.tag = "SENT" /\ t.ok
<1> DEFINE e == [tag |-> "RECEIVE", msg |-> [from |-> "echo", of |-> line.of, awaited |-> FALSE]]
           t == [tag |-> "SENT", ok |-> TRUE]
<1>1. e \in Lines /\ t \in Lines BY DEF Lines, Messages
<1>2. Accepted(line) = <<e, t>> BY DEF Accepted, Received, Sent
<1> QED BY <1>1, <1>2

LEMMA BusyLines ==
    ASSUME NEW busy \in Busy
    PROVE  busy = <<>> \/ \E b \in Lines : busy = <<b>> /\ BusyLine(b)
<1> DEFINE b == [tag |-> "RECEIVE", msg |-> [from |-> "busy", of |-> 0, awaited |-> FALSE]]
<1>1. b \in Lines BY ClientAssumption DEF Lines, Messages
<1>2. busy = <<>> \/ busy = <<b>> BY DEF Busy, Received
<1>3. BusyLine(b) BY DEF BusyLine
<1> QED BY <1>1, <1>2, <1>3

LEMMA ReplyLines ==
    ASSUME NEW line, line.of \in 0 .. MaxCalls, NEW answer \in Reply(line)
    PROVE  \E a \in Lines : answer = <<a>> /\ ReplyLine(a, line.of)
<1>1. PICK awaited \in BOOLEAN : answer = <<Received("station", line.of, awaited)>>
  BY DEF Reply
<1> DEFINE a == [tag |-> "RECEIVE",
                 msg |-> [from |-> "station", of |-> line.of, awaited |-> awaited]]
<1>2. a \in Lines BY DEF Lines, Messages
<1>3. answer = <<a>> BY <1>1 DEF Received
<1>4. ReplyLine(a, line.of) BY DEF ReplyLine
<1> QED BY <1>2, <1>3, <1>4

LEMMA RefusedLine ==
    \E r \in Lines : Sent(FALSE) = r /\ r.tag = "SENT" /\ ~r.ok
<1> DEFINE r == [tag |-> "SENT", ok |-> FALSE]
<1>1. r \in Lines /\ Sent(FALSE) = r BY DEF Lines, Sent
<1>2. r.tag = "SENT" /\ ~r.ok OBVIOUS
<1> QED BY <1>1, <1>2

LEMMA OtherLines ==
    ASSUME NEW awaited \in BOOLEAN
    PROVE  \E r \in Lines : Received("other", 0, awaited) = r /\ r.tag = "RECEIVE"
<1> DEFINE r == [tag |-> "RECEIVE", msg |-> [from |-> "other", of |-> 0, awaited |-> awaited]]
<1>1. r \in Lines BY ClientAssumption DEF Lines, Messages
<1>2. Received("other", 0, awaited) = r BY DEF Received
<1> QED BY <1>1, <1>2

\* The lines of an inbox have the types that TypeOK asks for.
LEMMA InboxTypes ==
    ASSUME NEW s \in Seq(Lines)
    PROVE  \A i \in 1 .. Len(s) :
              \/ s[i].tag = "RECEIVE" /\ s[i].msg \in Messages
              \/ s[i].tag = "SENT" /\ s[i].ok \in BOOLEAN
<1> TAKE i \in 1 .. Len(s)
<1>1. s[i] \in Lines BY ElementOfSeq
<1> QED BY <1>1 DEF Lines

\* The first line, and what is left of the others.
LEMMA TailTypes ==
    ASSUME TypeInv, inbox # <<>>
    PROVE  /\ Head(inbox) \in Lines
           /\ Head(inbox) = inbox[1]
           /\ Tail(inbox) \in Seq(Lines)
           /\ Len(inbox) \in Nat /\ Len(Tail(inbox)) = Len(inbox) - 1
           /\ \A i \in 1 .. Len(Tail(inbox)) : Tail(inbox)[i] = inbox[i + 1]
<1>1. inbox \in Seq(Lines) BY DEF TypeInv
<1> QED BY <1>1, HeadTailProperties, LenProperties

\* The steps of the send thread.
LEMMA SendThreadTypes ==
    ASSUME TypeInv, SendThread
    PROVE  TypeInv'
<1> USE ClientAssumption DEF TypeInv, TypeOK, serverVars, callVars, sharedVars, Return
<1>1. CASE Ask \/ Forget
  <2>1. n' = n + 1 /\ n \in Nat /\ n < MaxCalls BY <1>1 DEF Ask, Forget
  <2>2. n' \in 0 .. MaxCalls /\ n' >= 1 BY <2>1
  <2>3. lastSent \in 0 .. n' /\ accepted \subseteq 1 .. n' BY <2>1
  <2>4. \A i \in 1 .. Len(toServer) : toServer[i].of \in 1 .. n' BY <2>1
  <2>5. {sentEvent, replyEvent, sentError, nextReceiveIsReply, setting}' \subseteq BOOLEAN
    BY <1>1 DEF Ask, Forget
  <2>6. /\ UNCHANGED <<situation, link, toServer, inbox, foreign, fails, result, reply,
                       lastSent, accepted, setting>>
        /\ pc' = "prepare" /\ asks' \in BOOLEAN
    BY <1>1 DEF Ask, Forget
  <2>7. replyEvent' => reply' # NoReply BY <1>1 DEF Ask, Forget
  <2> QED BY <2>2, <2>3, <2>4, <2>5, <2>6, <2>7
<1>3. CASE Prepare
  <2>1. n \in 0 .. n BY <1>3 DEF Prepare
  <2> QED BY <1>3, <2>1 DEF Prepare
<1>4. CASE Send
  <2>1. n \in 1 .. MaxCalls BY <1>4 DEF Send
  <2> DEFINE line == [of |-> n, asks |-> asks]
  <2>2. line \in [of : 1 .. MaxCalls, asks : BOOLEAN] BY <2>1
  <2>3. toServer' \in Seq([of : 1 .. MaxCalls, asks : BOOLEAN])
    <3>1. CASE toServer' = Append(toServer, line) BY <2>2, <3>1, AppendProperties
    <3>2. CASE UNCHANGED toServer BY <3>2
    <3> QED BY <1>4, <3>1, <3>2 DEF Send
  <2>4. \A i \in 1 .. Len(toServer') : toServer'[i].of \in 1 .. n
    <3>1. CASE toServer' = Append(toServer, line)
      <4>1. /\ Len(toServer') = Len(toServer) + 1 /\ Len(toServer) \in Nat
            /\ toServer'[Len(toServer) + 1] = line
            /\ \A i \in 1 .. Len(toServer) : toServer'[i] = toServer[i]
        BY <3>1, <2>2, AppendProperties, LenProperties
      <4>2. line.of = n OBVIOUS
      <4> TAKE i \in 1 .. Len(toServer')
      <4>3. CASE i = Len(toServer) + 1
        BY <2>1, <4>1, <4>2, <4>3
      <4>4. CASE i \in 1 .. Len(toServer) BY <4>1, <4>4
      <4> QED BY <4>1, <4>3, <4>4
    <3>2. CASE UNCHANGED toServer BY <3>2
    <3> QED BY <1>4, <3>1, <3>2 DEF Send
  <2> QED BY <1>4, <2>3, <2>4 DEF Send
<1>5. CASE AfterSent    BY <1>5 DEF AfterSent
<1>6. CASE AfterReply   BY <1>6 DEF AfterReply
<1>7. CASE SentTimeout  BY <1>7 DEF SentTimeout
<1>8. CASE ReplyTimeout BY <1>8 DEF ReplyTimeout
<1> QED BY <1>1, <1>3, <1>4, <1>5, <1>6, <1>7, <1>8 DEF SendThread

\* The steps of the receive thread.
LEMMA ReceiveThreadTypes ==
    ASSUME TypeInv, ReceiveThread
    PROVE  TypeInv'
<1> USE ClientAssumption DEF TypeInv, TypeOK, serverVars, callVars, sharedVars
<1>1. CASE OnReceive
  <2>1. inbox' \in Seq(Lines) BY <1>1, TailTypes DEF OnReceive, Line
  <2>2. Head(inbox).msg \in Messages BY <1>1, TailTypes DEF OnReceive, Line, Lines
  <2>3. lastSent' \in 0 .. n BY <1>1 DEF OnReceive
  <2>4. reply' \in Messages \cup {NoReply} /\ (replyEvent' => reply' # NoReply)
    BY <1>1, <2>2 DEF OnReceive, NoReply, Messages
  <2>5. {sentEvent, replyEvent, sentError, nextReceiveIsReply, setting}' \subseteq BOOLEAN
    BY <1>1 DEF OnReceive
  <2>6. UNCHANGED <<situation, link, toServer, foreign, fails, n, asks, pc, result, accepted>>
        /\ ~setting'
    BY <1>1 DEF OnReceive
  <2> QED BY <2>1, <2>3, <2>4, <2>5, <2>6, InboxTypes
<1>2. CASE OnSent
  <2>1. Head(inbox) \in Lines /\ Head(inbox) = inbox[1] /\ Head(inbox).tag = "SENT"
    BY <1>2, TailTypes DEF OnSent, Line
  <2>2. Head(inbox).ok \in BOOLEAN BY <2>1 DEF Lines
  <2> QED BY <1>2, <2>1, <2>2 DEF OnSent, Line
<1>3. CASE ExpectReply
  <2>1. inbox' \in Seq(Lines) BY <1>3, TailTypes DEF ExpectReply
  <2> QED BY <1>3, <2>1, InboxTypes DEF ExpectReply
<1>4. CASE Eof       BY <1>4 DEF Eof
<1>5. CASE Reconnect BY <1>5 DEF Reconnect
<1> QED BY <1>1, <1>2, <1>3, <1>4, <1>5 DEF ReceiveThread

\* Among these lines exactly one is SENT; if it says OK, the message is accepted.
OneSent(s, message, ok) ==
    \E k \in 1 .. Len(s) :
        /\ \A i \in 1 .. Len(s) : s[i].tag = "SENT" <=> i = k
        /\ s[k].ok => message \in ok

\* What comes behind the SENT: the reply, if one was asked for and may come.
Behind(s, line, alone) ==
    \E k \in 1 .. Len(s) :
        /\ s[k].tag = "SENT"
        /\ Ahead(s, k, line.of, alone)
        /\ alone => (line.asks /\ s[k].ok) \/ k = Len(s)
        /\ ~alone => s[k].ok

\* Neither another device nor a call without a reply comes in between.
Steady(line) == Alone \/ (situation = "answered" /\ line.asks)

\* What the server makes of one SEND line: lines that hold exactly one SENT.
LEMMA ServedLines ==
    ASSUME TypeInv, Serve
    PROVE  LET line == Head(toServer) IN
           /\ toServer # <<>> /\ line.of \in 1 .. n
           /\ toServer' = Tail(toServer)
           /\ accepted' = accepted \/ accepted' = accepted \cup {line.of}
           /\ \E s \in Seq(Lines) : /\ inbox' = inbox \o s
                                    /\ OneSent(s, line.of, accepted')
                                    /\ Steady(line) => Behind(s, line, Alone)
<1> DEFINE line == Head(toServer)
           kinds == [of : 1 .. MaxCalls, asks : BOOLEAN]
           Made(s) == OneSent(s, line.of, accepted') /\ (Steady(line) => Behind(s, line, Alone))
<1>1. toServer \in Seq(kinds) /\ toServer # <<>> BY DEF TypeInv, TypeOK, Serve
<1> HIDE DEF kinds
<1>2. line \in kinds /\ line = toServer[1] /\ Len(toServer) \in Nat \ {0}
  <2>1. line \in kinds BY <1>1, HeadTailProperties
  <2>2. Len(toServer) \in Nat \ {0} BY <1>1, EmptySeq
  <2> QED BY <1>1, <2>1, <2>2
<1>3. line.of \in 1 .. n
  BY <1>2 DEF TypeInv, TypeOK
<1>4. line.of \in 0 .. MaxCalls BY <1>2 DEF kinds
<1>5. inbox \in Seq(Lines) BY DEF TypeInv
<1>6. PICK e, t \in Lines : Accepted(line) = <<e, t>> /\ e.tag = "RECEIVE"
                            /\ t.tag = "SENT" /\ t.ok
  BY <1>4, AcceptedLines
<1>7. ASSUME NEW rest \in Seq(Lines), inbox' = (inbox \o <<e, t>>) \o rest,
             \A i \in 1 .. Len(rest) : rest[i].tag = "RECEIVE",
             accepted' = accepted \cup {line.of},
             Steady(line) => Ahead(rest, 0, line.of, Alone) /\ (Alone => line.asks \/ Len(rest) = 0)
      PROVE  \E s \in Seq(Lines) : inbox' = inbox \o s /\ Made(s)
  <2> DEFINE s == <<e, t>> \o rest
  <2>1. /\ <<e, t>> \in Seq(Lines) /\ Len(<<e, t>>) = 2
        /\ <<e, t>>[1] = e /\ <<e, t>>[2] = t
    BY Two
  <2>2. /\ s \in Seq(Lines) /\ Len(s) = 2 + Len(rest) /\ Len(rest) \in Nat
        /\ \A i \in 1 .. 2 + Len(rest) : s[i] = IF i <= 2 THEN <<e, t>>[i] ELSE rest[i - 2]
    BY <2>1, ConcatProperties, LenProperties
  <2>3. inbox' = inbox \o s BY <1>5, <1>7, <2>1, ConcatAssociative
  <2> HIDE DEF s
  <2>4. \A i \in 1 .. Len(s) : s[i].tag = "SENT" <=> i = 2
    <3> TAKE i \in 1 .. Len(s)
    <3>1. CASE i = 1 BY <1>6, <2>1, <2>2, <3>1
    <3>2. CASE i = 2 BY <1>6, <2>1, <2>2, <3>2
    <3>3. CASE i > 2
      <4>1. s[i] = rest[i - 2] /\ i - 2 \in 1 .. Len(rest) /\ i # 2 BY <2>2, <3>3
      <4>2. rest[i - 2].tag = "RECEIVE" BY <1>7, <4>1
      <4> QED BY <4>1, <4>2
    <3> QED BY <2>2, <3>1, <3>2, <3>3
  <2>5. 2 \in 1 .. Len(s) BY <2>2
  <2>6. OneSent(s, line.of, accepted') BY <1>7, <2>4, <2>5 DEF OneSent
  <2>7. ASSUME Steady(line) PROVE Behind(s, line, Alone)
    <3>0. Ahead(rest, 0, line.of, Alone) BY <1>7, <2>7
    <3>1. PICK r \in 0 + 1 .. Len(rest) + 1 :
             /\ \A i \in 0 + 1 .. r - 1 : BusyLine(rest[i])
             /\ r <= Len(rest) => ReplyLine(rest[r], line.of)
             /\ IF Alone THEN r >= Len(rest) ELSE r <= Len(rest)
      BY <3>0 DEF Ahead
    <3>2. \A i \in 1 .. Len(rest) : s[i + 2] = rest[i] BY <2>2
    <3>3. \A i \in 3 .. r + 1 : BusyLine(s[i])
      <4> TAKE i \in 3 .. r + 1
      <4>1. i - 2 \in 1 .. r - 1 /\ i - 2 \in 1 .. Len(rest) BY <2>2
      <4>2. s[(i - 2) + 2] = rest[i - 2] BY <3>2, <4>1
      <4> QED BY <3>1, <4>1, <4>2
    <3>4. r <= Len(rest) => ReplyLine(s[r + 2], line.of) BY <3>1, <3>2
    <3>5. Ahead(s, 2, line.of, Alone)
      <4>1. /\ r + 2 \in 2 + 1 .. Len(s) + 1 /\ (r + 2) - 1 = r + 1
            /\ r + 2 <= Len(s) => ReplyLine(s[r + 2], line.of)
            /\ IF Alone THEN r + 2 >= Len(s) ELSE r + 2 <= Len(s)
        BY <2>2, <3>1, <3>4
      <4> QED BY <3>3, <4>1 DEF Ahead
    <3>6. s[2] = t
      <4>1. s[2] = <<e, t>>[2] BY <2>2
      <4> QED BY <2>1, <4>1
    <3>7. Alone => line.asks \/ 2 = Len(s) BY <1>7, <2>2, <2>7
    <3> QED BY <1>6, <2>5, <3>5, <3>6, <3>7 DEF Behind
  <2> QED BY <2>2, <2>3, <2>6, <2>7
<1>8. ASSUME NEW busy \in Busy, NEW answer \in Reply(line),
             inbox' = inbox \o Accepted(line) \o busy \o answer,
             accepted' = accepted \cup {line.of}, line.asks
      PROVE  \E s \in Seq(Lines) : inbox' = inbox \o s /\ Made(s)
  <2>1. PICK a \in Lines : answer = <<a>> /\ ReplyLine(a, line.of) BY <1>4, ReplyLines
  <2>2. answer \in Seq(Lines) /\ Len(answer) = 1 /\ answer[1] = a BY <2>1, One
  <2>3. inbox \o <<e, t>> \in Seq(Lines) BY <1>5, Two, ConcatProperties
  <2>4. CASE busy = <<>>
    <3>1. inbox' = (inbox \o <<e, t>>) \o answer
      BY <1>6, <1>8, <2>3, <2>4, ConcatEmptySeq
    <3>2. \A i \in 1 .. Len(answer) : answer[i].tag = "RECEIVE" BY <2>1, <2>2 DEF ReplyLine
    <3>3. Ahead(answer, 0, line.of, Alone) BY <2>1, <2>2 DEF Ahead
    <3> QED BY <1>7, <1>8, <2>2, <3>1, <3>2, <3>3
  <2>5. ASSUME NEW b \in Lines, busy = <<b>>, BusyLine(b)
        PROVE  \E s \in Seq(Lines) : inbox' = inbox \o s /\ Made(s)
    <3>1. busy \in Seq(Lines) /\ Len(busy) = 1 /\ busy[1] = b BY <2>5, One
    <3> DEFINE rest == busy \o answer
    <3>2. /\ rest \in Seq(Lines) /\ Len(rest) = 2
          /\ rest[1] = b /\ rest[2] = a
      BY <2>2, <3>1, ConcatProperties
    <3>3. inbox' = (inbox \o <<e, t>>) \o rest
      <4> DEFINE x == inbox \o <<e, t>>
      <4>1. x \in Seq(Lines) /\ inbox' = (x \o busy) \o answer BY <1>6, <1>8, <2>3
      <4> HIDE DEF x
      <4>2. inbox' = x \o (busy \o answer) BY <2>2, <3>1, <4>1, ConcatAssociative
      <4> QED BY <4>2 DEF x
    <3> HIDE DEF rest
    <3>4. \A i \in 1 .. Len(rest) : rest[i].tag = "RECEIVE"
      <4> TAKE i \in 1 .. Len(rest)
      <4>1. i = 1 \/ i = 2 BY <3>2
      <4> QED BY <2>1, <2>5, <3>2, <4>1 DEF BusyLine, ReplyLine
    <3>5. Ahead(rest, 0, line.of, Alone)
      <4>1. 2 \in 0 + 1 .. Len(rest) + 1 /\ \A i \in 0 + 1 .. 2 - 1 : i = 1 BY <3>2
      <4> QED BY <2>1, <2>5, <3>2, <4>1 DEF Ahead
    <3> QED BY <1>7, <1>8, <3>2, <3>3, <3>4, <3>5
  <2> QED BY <2>4, <2>5, BusyLines
<1>9. ASSUME inbox' = inbox \o Accepted(line), accepted' = accepted \cup {line.of},
             ~(line.asks /\ Obliging)
      PROVE  \E s \in Seq(Lines) : inbox' = inbox \o s /\ Made(s)
  <2>1. inbox \o <<e, t>> \in Seq(Lines) BY <1>5, Two, ConcatProperties
  <2>2. inbox' = (inbox \o <<e, t>>) \o <<>> BY <1>6, <1>9, <2>1, ConcatEmptySeq
  <2>3. <<>> \in Seq(Lines) /\ \A i \in 1 .. Len(<<>>) : <<>>[i].tag = "RECEIVE"
    BY EmptySeq
  <2>4. Len(<<>>) = 0 OBVIOUS
  <2>5. Steady(line) => Alone BY <1>9 DEF Steady, Obliging
  <2>6. Alone => Ahead(<<>>, 0, line.of, Alone) BY <2>4 DEF Ahead
  <2> QED BY <1>7, <1>9, <2>2, <2>3, <2>4, <2>5, <2>6
<1>10. ASSUME inbox' = Append(inbox, Sent(FALSE)), ~Obliging
       PROVE  \E s \in Seq(Lines) : inbox' = inbox \o s /\ Made(s)
  <2>1. PICK r \in Lines : Sent(FALSE) = r /\ r.tag = "SENT" /\ ~r.ok BY RefusedLine
  <2> DEFINE s == <<r>>
  <2>2. s \in Seq(Lines) /\ Len(s) = 1 /\ s[1] = r BY One
  <2>3. inbox' = inbox \o s BY <1>5, <1>10, <2>1, AppendIsConcat
  <2> HIDE DEF s
  <2>4. \A i \in 1 .. Len(s) : s[i].tag = "SENT" <=> i = 1 BY <2>1, <2>2
  <2>5. 1 \in 1 .. Len(s) /\ ~s[1].ok BY <2>1, <2>2
  <2>6. OneSent(s, line.of, accepted') BY <2>4, <2>5 DEF OneSent
  <2>7. ASSUME Steady(line) PROVE Behind(s, line, Alone)
    <3>1. Alone BY <1>10, <2>7 DEF Steady, Obliging
    <3>2. 2 \in 1 + 1 .. Len(s) + 1 /\ (1 + 1 .. 2 - 1) = {} /\ ~(2 <= Len(s)) /\ 2 >= Len(s)
      BY <2>2
    <3>3. Ahead(s, 1, line.of, Alone) BY <3>1, <3>2 DEF Ahead
    <3>4. 1 \in 1 .. Len(s) /\ s[1].tag = "SENT" /\ 1 = Len(s) BY <2>1, <2>2
    <3> HIDE DEF line
    <3> QED BY <3>1, <3>3, <3>4 DEF Behind
  <2> QED BY <2>2, <2>3, <2>6, <2>7
<1> QED
  BY <1>1, <1>3, <1>8, <1>9, <1>10 DEF Serve

\* Lines added behind the others leave a SENT that OnSent is about first.
LEMMA LinesBehind ==
    ASSUME NEW old \in Seq(Lines), NEW s \in Seq(Lines)
    PROVE  /\ old \o s \in Seq(Lines)
           /\ Len(old) \in Nat /\ Len(s) \in Nat /\ Len(old \o s) = Len(old) + Len(s)
           /\ \A i \in 1 .. Len(old) : (old \o s)[i] = old[i]
           /\ \A i \in 1 .. Len(s) : (old \o s)[Len(old) + i] = s[i]
           /\ old # <<>> => Len(old) >= 1 /\ (old \o s) # <<>> /\ (old \o s)[1] = old[1]
<1>1. /\ old \o s \in Seq(Lines) /\ Len(old) \in Nat /\ Len(s) \in Nat
      /\ Len(old \o s) = Len(old) + Len(s)
      /\ \A i \in 1 .. Len(old) + Len(s) :
            (old \o s)[i] = IF i <= Len(old) THEN old[i] ELSE s[i - Len(old)]
  BY ConcatProperties, LenProperties
<1>2. \A i \in 1 .. Len(old) : (old \o s)[i] = old[i] BY <1>1
<1>3. \A i \in 1 .. Len(s) : (old \o s)[Len(old) + i] = s[i] BY <1>1
<1>4. ASSUME old # <<>> PROVE Len(old) >= 1 /\ (old \o s) # <<>> /\ (old \o s)[1] = old[1]
  <2>1. Len(old) >= 1 BY <1>1, <1>4, EmptySeq
  <2>2. Len(old \o s) # 0 BY <1>1, <2>1
  <2> QED BY <1>2, <1>1, <2>1, <2>2, EmptySeq
<1> QED BY <1>1, <1>2, <1>3, <1>4

\* Another device's message is one more line that is not SENT.
LEMMA OtherLine ==
    ASSUME TypeInv, OtherTalks
    PROVE  \E r \in Lines : inbox' = inbox \o <<r>> /\ <<r>> \in Seq(Lines) /\ Len(<<r>>) = 1
                            /\ <<r>>[1] = r /\ r.tag = "RECEIVE"
<1>1. PICK awaited \in BOOLEAN : inbox' = Append(inbox, Received("other", 0, awaited))
  BY DEF OtherTalks
<1>2. PICK r \in Lines : Received("other", 0, awaited) = r /\ r.tag = "RECEIVE" BY OtherLines
<1>3. inbox' = inbox \o <<r>> BY <1>1, <1>2, AppendIsConcat DEF TypeInv
<1> QED BY <1>2, <1>3, One

\* The steps of the server, the LocoNet and the connection.
LEMMA OutsideTypes ==
    ASSUME TypeInv, Serve \/ OtherTalks \/ LinkFails
    PROVE  TypeInv'
<1>1. CASE Serve
  <2>1. /\ Head(toServer).of \in 1 .. n /\ toServer # <<>> /\ toServer' = Tail(toServer)
        /\ accepted' = accepted \/ accepted' = accepted \cup {Head(toServer).of}
    BY <1>1, ServedLines
  <2>2. PICK s \in Seq(Lines) : inbox' = inbox \o s BY <1>1, ServedLines
  <2>3. /\ inbox' \in Seq(Lines)
        /\ inbox # <<>> => inbox' # <<>> /\ inbox'[1] = inbox[1]
    BY <2>2, LinesBehind DEF TypeInv
  <2> DEFINE kinds == [of : 1 .. MaxCalls, asks : BOOLEAN]
  <2>4. toServer \in Seq(kinds) BY DEF TypeInv, TypeOK
  <2>5. /\ toServer' \in Seq(kinds)
        /\ \A i \in 1 .. Len(toServer') : toServer'[i].of \in 1 .. n
    <3> HIDE DEF kinds
    <3>1. /\ Tail(toServer) \in Seq(kinds) /\ Len(toServer) \in Nat
          /\ Len(Tail(toServer)) = Len(toServer) - 1
          /\ \A i \in 1 .. Len(Tail(toServer)) : Tail(toServer)[i] = toServer[i + 1]
      BY <2>1, <2>4, HeadTailProperties, LenProperties
    <3> QED BY <2>1, <3>1 DEF TypeInv
  <2>6. accepted' \subseteq 1 .. n BY <2>1 DEF TypeInv, TypeOK
  <2>7. UNCHANGED <<situation, link, fails, foreign, setting, callVars, sharedVars>>
    BY <1>1 DEF Serve
  <2>8. \A i \in 1 .. Len(inbox') :
           \/ inbox'[i].tag = "RECEIVE" /\ inbox'[i].msg \in Messages
           \/ inbox'[i].tag = "SENT" /\ inbox'[i].ok \in BOOLEAN
    BY <2>3, InboxTypes
  <2> QED BY <2>3, <2>5, <2>6, <2>7, <2>8 DEF TypeInv, TypeOK, callVars, sharedVars
<1>2. CASE OtherTalks
  <2>1. PICK r \in Lines : inbox' = inbox \o <<r>> /\ <<r>> \in Seq(Lines) BY <1>2, OtherLine
  <2>2. /\ inbox' \in Seq(Lines)
        /\ inbox # <<>> => inbox' # <<>> /\ inbox'[1] = inbox[1]
    BY <2>1, LinesBehind DEF TypeInv
  <2>3. \A i \in 1 .. Len(inbox') :
           \/ inbox'[i].tag = "RECEIVE" /\ inbox'[i].msg \in Messages
           \/ inbox'[i].tag = "SENT" /\ inbox'[i].ok \in BOOLEAN
    BY <2>2, InboxTypes
  <2>4. /\ UNCHANGED <<situation, link, toServer, fails, setting, accepted, callVars, sharedVars>>
        /\ foreign' = foreign + 1 /\ foreign < MaxForeign
    BY <1>2 DEF OtherTalks
  <2> QED BY <2>2, <2>3, <2>4, ClientAssumption DEF TypeInv, TypeOK, callVars, sharedVars
<1>3. CASE LinkFails
  <2>1. toServer' \in Seq([of : 1 .. MaxCalls, asks : BOOLEAN]) /\ Len(toServer') = 0
    BY <1>3 DEF LinkFails
  <2> QED
    BY <1>3, <2>1, ClientAssumption DEF LinkFails, TypeInv, TypeOK, callVars, sharedVars
<1> QED BY <1>1, <1>2, <1>3

LEMMA InitTypes == Init => TypeInv
<1> SUFFICES ASSUME Init PROVE TypeInv OBVIOUS
<1> USE DEF Init
<1>1. inbox \in Seq(Lines) /\ Len(inbox) = 0 OBVIOUS
<1>2. toServer \in Seq([of : 1 .. MaxCalls, asks : BOOLEAN]) /\ Len(toServer) = 0 OBVIOUS
<1>3. /\ {sentEvent, replyEvent, sentError, nextReceiveIsReply, setting} \subseteq BOOLEAN
      /\ accepted \subseteq 1 .. n /\ reply \in Messages \cup {NoReply} /\ ~replyEvent
  OBVIOUS
<1>4. n \in 0 .. MaxCalls /\ lastSent \in 0 .. n /\ foreign \in 0 .. MaxForeign
      /\ fails \in 0 .. MaxFails
  BY ClientAssumption
<1>5. situation \in Situations /\ link = "up" /\ asks \in BOOLEAN /\ pc = "idle"
      /\ result = "Invalid" /\ ~setting
  OBVIOUS
<1> HIDE DEF Init
<1> QED BY <1>1, <1>2, <1>3, <1>4, <1>5 DEF TypeInv, TypeOK

LEMMA StepTypes == TypeInv /\ [Next]_vars => TypeInv'
<1> SUFFICES ASSUME TypeInv, [Next]_vars PROVE TypeInv' OBVIOUS
<1>1. CASE UNCHANGED vars
  BY <1>1 DEF TypeInv, TypeOK, vars, serverVars, callVars, sharedVars
<1> QED BY <1>1, SendThreadTypes, ReceiveThreadTypes, OutsideTypes DEF Next

\* TypeOK of LoconetClient: the variables keep their types, whatever the
\* server, other devices and the connection do.
THEOREM ClientTypes == Spec => []TypeOK
<1>1. TypeInv => TypeOK BY DEF TypeInv
<1> QED BY <1>1, InitTypes, StepTypes, PTL DEF Spec

----------------------------------------------------------------------------
(* SENT goes to the call that it belongs to.  TLC finds that it does not when *)
(* an answer comes after the wait has ended or the send thread overtakes      *)
(* OnSent; without both, there is one SENT at a time, and it is accounted for *)
(* from the line that asks for it until the send thread is awake.             *)

\* No SENT is to be handled, but the one that OnSent is about.
NoSent == \A i \in 1 .. Len(inbox) : inbox[i].tag = "SENT" => setting /\ i = 1

\* Where the SENT of the call is: still to come, in the inbox, handled, or lost
\* with the connection.
OnItsWay == /\ Len(toServer) = 1 /\ toServer[1].of = n
            /\ NoSent /\ ~sentEvent /\ ~setting
Answered == toServer = <<>> /\ ~sentEvent /\ ~setting /\ OneSent(inbox, n, accepted)
Woken    == toServer = <<>> /\ NoSent /\ sentEvent /\ (~sentError => n \in accepted)
Nothing  == toServer = <<>> /\ NoSent /\ ~sentEvent
Lost     == Nothing /\ ~setting

SentInv ==
    /\ pc = "waitSent" => OnItsWay \/ Answered \/ Woken \/ Lost
    /\ pc # "waitSent" => Nothing
    /\ pc \in {"note", "reset", "send"} => ~setting

\* The inbox loses its first line.
LEMMA WithoutHead ==
    ASSUME TypeInv, inbox # <<>>, inbox' = Tail(inbox)
    PROVE  /\ \A i \in 1 .. Len(inbox') : inbox'[i] = inbox[i + 1] /\ i + 1 \in 2 .. Len(inbox)
           /\ \A i \in 2 .. Len(inbox) : inbox'[i - 1] = inbox[i] /\ i - 1 \in 1 .. Len(inbox')
<1>1. /\ Len(inbox) \in Nat /\ Len(inbox') = Len(inbox) - 1
      /\ \A i \in 1 .. Len(inbox') : inbox'[i] = inbox[i + 1]
  BY TailTypes
<1>2. ASSUME NEW i \in 2 .. Len(inbox)
      PROVE  inbox'[i - 1] = inbox[i] /\ i - 1 \in 1 .. Len(inbox')
  <2>1. i - 1 \in 1 .. Len(inbox') BY <1>1
  <2>2. inbox'[i - 1] = inbox[(i - 1) + 1] BY <1>1, <2>1
  <2> QED BY <2>1, <2>2
<1> QED BY <1>1, <1>2

\* Lines without SENT behind the others change neither.
LEMMA NoSentBehind ==
    ASSUME TypeInv, NEW s \in Seq(Lines), inbox' = inbox \o s,
           \A i \in 1 .. Len(s) : s[i].tag = "RECEIVE",
           UNCHANGED <<setting, n, accepted>>
    PROVE  /\ NoSent => NoSent'
           /\ OneSent(inbox, n, accepted) => OneSent(inbox', n, accepted)
<1>1. /\ Len(inbox) \in Nat /\ Len(s) \in Nat /\ Len(inbox') = Len(inbox) + Len(s)
      /\ \A i \in 1 .. Len(inbox) : inbox'[i] = inbox[i]
      /\ \A i \in 1 .. Len(s) : inbox'[Len(inbox) + i] = s[i]
  BY LinesBehind DEF TypeInv
<1>2. ASSUME NEW i \in 1 .. Len(inbox'), i \notin 1 .. Len(inbox)
      PROVE  inbox'[i].tag = "RECEIVE"
  <2>1. i - Len(inbox) \in 1 .. Len(s) BY <1>1, <1>2
  <2>2. inbox'[Len(inbox) + (i - Len(inbox))] = s[i - Len(inbox)] BY <1>1, <2>1
  <2>3. Len(inbox) + (i - Len(inbox)) = i BY <1>1
  <2> QED BY <2>1, <2>2, <2>3
<1>3. NoSent => NoSent' BY <1>1, <1>2 DEF NoSent
<1>4. ASSUME OneSent(inbox, n, accepted) PROVE OneSent(inbox', n, accepted)
  <2>1. PICK k \in 1 .. Len(inbox) :
           /\ \A i \in 1 .. Len(inbox) : inbox[i].tag = "SENT" <=> i = k
           /\ inbox[k].ok => n \in accepted
    BY <1>4 DEF OneSent
  <2>2. k \in 1 .. Len(inbox') /\ inbox'[k] = inbox[k] BY <1>1
  <2>3. \A i \in 1 .. Len(inbox') : inbox'[i].tag = "SENT" <=> i = k BY <1>1, <1>2, <2>1
  <2> QED BY <2>1, <2>2, <2>3 DEF OneSent
<1> QED BY <1>3, <1>4

LEMMA SendThreadSent ==
    ASSUME ~Slow, Prompt, TypeInv, SentInv, SendThread
    PROVE  SentInv'
<1> USE DEF SentInv, OnItsWay, Answered, Woken, Nothing, Lost, NoSent,
            serverVars, callVars, sharedVars, Return
<1>1. CASE Ask    BY <1>1 DEF Ask
<1>2. CASE Forget BY <1>2 DEF Forget
<1>3. CASE Prepare BY <1>3 DEF Prepare
<1>4. CASE Send
  <2>1. /\ pc = "send" /\ toServer = <<>> /\ NoSent /\ ~sentEvent /\ ~setting
        /\ UNCHANGED <<inbox, setting, n, sentEvent, sentError, accepted>>
    BY <1>4 DEF Send
  <2> DEFINE line == [of |-> n, asks |-> asks]
  <2>2. CASE toServer' = Append(toServer, line) /\ pc' = "waitSent"
    <3>1. toServer' = <<line>> BY <2>1, <2>2
    <3>2. Len(toServer') = 1 /\ toServer'[1].of = n' BY <2>1, <3>1
    <3>3. OnItsWay' BY <2>1, <3>2
    <3> QED BY <2>2, <3>3
  <2>3. CASE UNCHANGED toServer /\ pc' = "waitSent" BY <2>1, <2>3
  <2>4. CASE UNCHANGED toServer /\ pc' = "idle" BY <2>1, <2>4
  <2> QED BY <1>4, <2>2, <2>3, <2>4 DEF Send
<1>5. CASE AfterSent  BY <1>5 DEF AfterSent
<1>6. CASE AfterReply BY <1>6 DEF AfterReply
<1>7. CASE SentTimeout
  <2>1. toServer = <<>> /\ inbox = <<>> /\ ~sentEvent BY <1>7 DEF SentTimeout, Late
  <2> QED BY <1>7, <2>1 DEF SentTimeout
<1>8. CASE ReplyTimeout BY <1>8 DEF ReplyTimeout
<1> QED BY <1>1, <1>2, <1>3, <1>4, <1>5, <1>6, <1>7, <1>8 DEF SendThread

LEMMA ReceiveThreadSent ==
    ASSUME TypeInv, SentInv, ReceiveThread
    PROVE  SentInv'
<1> USE DEF serverVars, callVars, sharedVars
<1>1. CASE OnReceive
  <2>1. /\ inbox # <<>> /\ inbox[1].tag = "RECEIVE" /\ ~setting /\ inbox' = Tail(inbox)
        /\ UNCHANGED <<toServer, setting, n, pc, sentEvent, sentError, accepted>>
    BY <1>1, TailTypes DEF OnReceive, Line
  <2>2. NoSent => NoSent' BY <2>1, WithoutHead DEF NoSent
  <2>3. ASSUME OneSent(inbox, n, accepted) PROVE OneSent(inbox', n, accepted)
    <3>1. PICK k \in 1 .. Len(inbox) :
             /\ \A i \in 1 .. Len(inbox) : inbox[i].tag = "SENT" <=> i = k
             /\ inbox[k].ok => n \in accepted
      BY <2>3 DEF OneSent
    <3>2. k \in 2 .. Len(inbox) BY <2>1, <3>1
    <3>3. inbox'[k - 1] = inbox[k] /\ k - 1 \in 1 .. Len(inbox') BY <2>1, <3>2, WithoutHead
    <3>4. \A i \in 1 .. Len(inbox') : inbox'[i].tag = "SENT" <=> i = k - 1
      BY <2>1, <3>1, WithoutHead
    <3> QED BY <3>1, <3>3, <3>4 DEF OneSent
  <2> QED BY <2>1, <2>2, <2>3 DEF SentInv, OnItsWay, Answered, Woken, Nothing, Lost
<1>2. CASE OnSent
  <2>1. /\ inbox # <<>> /\ inbox[1].tag = "SENT" /\ sentError' = ~inbox[1].ok
        /\ ~setting /\ sentEvent' /\ setting'
        /\ UNCHANGED <<inbox, toServer, n, pc, accepted>>
    BY <1>2, TailTypes DEF OnSent, Line
  <2>2. Len(inbox) \in Nat \ {0} BY <2>1, TailTypes, EmptySeq DEF TypeInv
  <2>3. ~NoSent BY <2>1, <2>2 DEF NoSent
  <2>4. pc = "waitSent" /\ toServer = <<>> /\ OneSent(inbox, n, accepted)
    BY <2>3 DEF SentInv, OnItsWay, Answered, Woken, Nothing, Lost
  <2>5. PICK k \in 1 .. Len(inbox) :
           /\ \A i \in 1 .. Len(inbox) : inbox[i].tag = "SENT" <=> i = k
           /\ inbox[k].ok => n \in accepted
    BY <2>4 DEF OneSent
  <2>6. k = 1 BY <2>1, <2>2, <2>5
  <2>7. NoSent' BY <2>1, <2>5, <2>6 DEF NoSent
  <2>8. ~sentError' => n \in accepted BY <2>1, <2>5, <2>6
  <2> QED BY <2>1, <2>4, <2>7, <2>8 DEF SentInv, Woken
<1>3. CASE ExpectReply
  <2>1. /\ setting /\ inbox' = Tail(inbox) /\ ~setting'
        /\ UNCHANGED <<toServer, n, pc, sentEvent, sentError, accepted>>
    BY <1>3 DEF ExpectReply
  <2>2. inbox # <<>> BY <2>1 DEF TypeInv
  <2>3. NoSent BY <2>1 DEF SentInv, OnItsWay, Answered, Woken, Nothing, Lost
  <2>4. NoSent' BY <2>1, <2>2, <2>3, WithoutHead DEF NoSent
  <2> QED BY <2>1, <2>3, <2>4 DEF SentInv, OnItsWay, Answered, Woken, Nothing, Lost
<1> USE DEF SentInv, OnItsWay, Answered, Woken, Nothing, Lost, NoSent
<1>4. CASE Eof       BY <1>4 DEF Eof
<1>5. CASE Reconnect BY <1>5 DEF Reconnect
<1> QED BY <1>1, <1>2, <1>3, <1>4, <1>5 DEF ReceiveThread

LEMMA OutsideSent ==
    ASSUME TypeInv, SentInv, Serve \/ OtherTalks \/ LinkFails
    PROVE  SentInv'
<1> USE DEF callVars, sharedVars
<1>1. CASE Serve
  <2>1. toServer # <<>> /\ toServer' = Tail(toServer) BY <1>1, ServedLines
  <2>2. pc = "waitSent" /\ OnItsWay
    BY <2>1 DEF SentInv, Answered, Woken, Nothing, Lost
  <2>3. toServer' = <<>> /\ Head(toServer).of = n
    <3>1. toServer \in Seq([of : 1 .. MaxCalls, asks : BOOLEAN]) BY DEF TypeInv, TypeOK
    <3> QED BY <2>1, <2>2, <3>1, HeadTailProperties, EmptySeq DEF OnItsWay
  <2>4. UNCHANGED <<setting, n, pc, sentEvent>> BY <1>1 DEF Serve
  <2>5. PICK s \in Seq(Lines) : inbox' = inbox \o s /\ OneSent(s, n, accepted')
    BY <1>1, <2>3, ServedLines
  <2>6. PICK k \in 1 .. Len(s) :
           /\ \A i \in 1 .. Len(s) : s[i].tag = "SENT" <=> i = k
           /\ s[k].ok => n \in accepted'
    BY <2>5 DEF OneSent
  <2>7. /\ Len(inbox) \in Nat /\ Len(s) \in Nat /\ Len(inbox') = Len(inbox) + Len(s)
        /\ \A i \in 1 .. Len(inbox) : inbox'[i] = inbox[i]
        /\ \A i \in 1 .. Len(s) : inbox'[Len(inbox) + i] = s[i]
    BY <2>5, LinesBehind DEF TypeInv
  <2> DEFINE j == Len(inbox) + k
  <2>8. j \in 1 .. Len(inbox') /\ inbox'[j] = s[k] BY <2>7
  <2>9. ASSUME NEW i \in 1 .. Len(inbox') PROVE inbox'[i].tag = "SENT" <=> i = j
    <3>1. CASE i \in 1 .. Len(inbox)
      BY <2>2, <2>7, <3>1 DEF OnItsWay, NoSent
    <3>2. CASE i \notin 1 .. Len(inbox)
      <4>1. i - Len(inbox) \in 1 .. Len(s) BY <2>7, <3>2
      <4>2. inbox'[Len(inbox) + (i - Len(inbox))] = s[i - Len(inbox)] BY <2>7, <4>1
      <4>3. Len(inbox) + (i - Len(inbox)) = i BY <2>7
      <4>4. inbox'[i].tag = "SENT" <=> i - Len(inbox) = k BY <2>6, <4>1, <4>2, <4>3
      <4> QED BY <2>7, <4>4
    <3> QED BY <3>1, <3>2
  <2> HIDE DEF j
  <2>10. OneSent(inbox', n, accepted') BY <2>6, <2>8, <2>9 DEF OneSent
  <2> QED BY <2>2, <2>3, <2>4, <2>10 DEF SentInv, OnItsWay, Answered
<1>2. CASE OtherTalks
  <2>1. PICK r \in Lines : inbox' = inbox \o <<r>> /\ <<r>> \in Seq(Lines) /\ Len(<<r>>) = 1
                           /\ <<r>>[1] = r /\ r.tag = "RECEIVE"
    BY <1>2, OtherLine
  <2>2. UNCHANGED <<toServer, setting, n, pc, sentEvent, sentError, accepted>>
    BY <1>2 DEF OtherTalks
  <2>3. \A i \in 1 .. Len(<<r>>) : <<r>>[i].tag = "RECEIVE" BY <2>1
  <2>4. /\ NoSent => NoSent'
        /\ OneSent(inbox, n, accepted) => OneSent(inbox', n, accepted)
    BY <2>1, <2>2, <2>3, NoSentBehind
  <2> QED BY <2>2, <2>4 DEF SentInv, OnItsWay, Answered, Woken, Nothing, Lost
<1>3. CASE LinkFails
  BY <1>3 DEF LinkFails, SentInv, OnItsWay, Answered, Woken, Nothing, Lost, NoSent
<1> QED BY <1>1, <1>2, <1>3

\* SentIsOurs of LoconetClient: if no answer comes after the wait for it has
\* ended, and OnSent is done before the send thread sends again, then a call
\* goes on only after a SENT OK that the server gave for its own message,
\* although nothing in a SENT line says which message it is about.
THEOREM SentGoesToItsCall == ASSUME ~Slow, Prompt PROVE Spec => SentIsOurs
<1> DEFINE Ours == pc = "waitSent" /\ (pc' = "waitReply" \/ (pc' = "idle" /\ result' = "Success"))
                     => n \in accepted
<1>1. Init => SentInv
  BY DEF Init, SentInv, Nothing, NoSent
<1>2. TypeInv /\ SentInv /\ [Next]_vars => SentInv'
  <2>1. ASSUME UNCHANGED vars, SentInv PROVE SentInv'
    BY <2>1 DEF vars, serverVars, callVars, sharedVars, SentInv, OnItsWay, Answered, Woken,
                Nothing, Lost, NoSent
  <2> QED BY <2>1, SendThreadSent, ReceiveThreadSent, OutsideSent DEF Next
<1>3. TypeInv /\ SentInv /\ [Next]_vars => [Ours]_vars
  <2> SUFFICES ASSUME TypeInv, SentInv, Next PROVE Ours OBVIOUS
  <2> SUFFICES ASSUME pc = "waitSent",
                      pc' = "waitReply" \/ (pc' = "idle" /\ result' = "Success")
               PROVE  n \in accepted
    OBVIOUS
  <2>1. AfterSent
    BY DEF Next, SendThread, Ask, Forget, Prepare, Send, AfterSent, AfterReply, SentTimeout,
           ReplyTimeout, Return, ReceiveThread, OnReceive, OnSent, ExpectReply, Eof, Reconnect,
           Serve, OtherTalks, LinkFails, callVars
  <2>2. sentEvent /\ ~sentError BY <2>1 DEF AfterSent, Return
  <2> QED BY <2>2 DEF SentInv, OnItsWay, Answered, Woken, Nothing, Lost
<1> QED BY <1>1, <1>2, <1>3, InitTypes, StepTypes, PTL DEF Spec, SentIsOurs

----------------------------------------------------------------------------
(* The reply that a caller gets is the one to its own request.  TLC finds that *)
(* it is not when another device is heard between the two resets of            *)
(* SendAndWaitReply, or an answer comes late; otherwise the flag is set only   *)
(* while the next line that can be a reply is the right one.                   *)

\* The call has not got a reply yet.
Unheard == asks => ~replyEvent

\* No reply can come: none was asked for, or the server refused.
Barren(ok) == Alone /\ ~(asks /\ ok)

\* The call's SENT is still to come, ...
SentToCome == /\ Len(toServer) = 1 /\ toServer[1].of = n /\ toServer[1].asks = asks
              /\ NoSent /\ ~sentEvent /\ ~setting /\ ~nextReceiveIsReply /\ Unheard
              /\ Alone => inbox = <<>>

\* ... in the inbox at position k, with the reply behind it, ...
SentAt(k) == /\ \A i \in 1 .. Len(inbox) : inbox[i].tag = "SENT" <=> i = k
             /\ Ahead(inbox, k, n, Alone)
             /\ Barren(inbox[k].ok) => k = Len(inbox)
             /\ ~Alone => inbox[k].ok
SentComes == /\ toServer = <<>> /\ ~sentEvent /\ ~setting /\ ~nextReceiveIsReply /\ Unheard
             /\ \E k \in 1 .. Len(inbox) : SentAt(k)

\* ... or lost with the connection.
SentLost == /\ Alone /\ toServer = <<>> /\ inbox = <<>>
            /\ ~sentEvent /\ ~setting /\ ~nextReceiveIsReply /\ Unheard

\* OnSent is half done, then the flag is set until the reply has arrived.
HalfDone == /\ setting /\ ~nextReceiveIsReply /\ Unheard
            /\ Ahead(inbox, 1, n, Alone)
            /\ Barren(~sentError) => Len(inbox) = 1
Expected == /\ ~setting /\ nextReceiveIsReply /\ Unheard
            /\ Ahead(inbox, 0, n, Alone)
            /\ Barren(~sentError) => inbox = <<>>
Arrived  == /\ ~setting /\ ~nextReceiveIsReply
            /\ asks /\ replyEvent /\ reply.from = "station" /\ reply.of = n
            /\ Alone => inbox = <<>>
AfterSENT == /\ toServer = <<>> /\ NoSent /\ (~Alone => ~sentError)
             /\ HalfDone \/ Expected \/ Arrived

\* Between two calls nothing is left that could be a reply.
Quiet == /\ toServer = <<>> /\ NoSent
         /\ IF Alone THEN IF setting THEN Len(inbox) = 1 ELSE inbox = <<>>
            ELSE ~nextReceiveIsReply /\ ~setting

CallInv ==
    /\ pc = "waitSent" => SentToCome \/ SentComes \/ SentLost \/ (AfterSENT /\ sentEvent)
    /\ pc = "waitReply" => asks /\ ~sentError /\ AfterSENT
    /\ pc \in {"idle", "prepare", "note", "reset", "send"} => Quiet
    /\ pc \in {"prepare", "note", "reset", "send"} => Unheard
    /\ pc \in {"note", "reset", "send"} => ~setting /\ ~nextReceiveIsReply
    /\ pc = "send" => ~sentEvent

ReplyInv ==
    /\ situation \in {"alone", "answered"}
    /\ ~Alone => link = "up" /\ (pc # "idle" => asks)
    /\ CallInv

\* The first line is taken.
LEMMA AheadTail ==
    ASSUME TypeInv, inbox # <<>>, inbox' = Tail(inbox),
           NEW k \in 1 .. Len(inbox), NEW m, NEW alone, Ahead(inbox, k, m, alone)
    PROVE  Ahead(inbox', k - 1, m, alone)
<1>1. PICK r \in k + 1 .. Len(inbox) + 1 :
         /\ \A i \in k + 1 .. r - 1 : BusyLine(inbox[i])
         /\ r <= Len(inbox) => ReplyLine(inbox[r], m)
         /\ IF alone THEN r >= Len(inbox) ELSE r <= Len(inbox)
  BY DEF Ahead
<1>2. Len(inbox) \in Nat /\ Len(inbox') = Len(inbox) - 1
      /\ \A i \in 1 .. Len(inbox') : inbox'[i] = inbox[i + 1]
  BY TailTypes
<1>3. \A i \in k .. r - 2 : BusyLine(inbox'[i])
  <2> TAKE i \in k .. r - 2
  <2>1. i \in 1 .. Len(inbox') /\ i + 1 \in k + 1 .. r - 1 BY <1>1, <1>2
  <2> QED BY <1>1, <1>2, <2>1
<1>4. r - 1 <= Len(inbox') => ReplyLine(inbox'[r - 1], m)
  <2> SUFFICES ASSUME r - 1 <= Len(inbox') PROVE ReplyLine(inbox'[r - 1], m) OBVIOUS
  <2>1. r - 1 \in 1 .. Len(inbox') /\ r <= Len(inbox) BY <1>1, <1>2
  <2>2. inbox'[r - 1] = inbox[(r - 1) + 1] /\ (r - 1) + 1 = r BY <1>2, <2>1
  <2> QED BY <1>1, <2>1, <2>2
<1>5. /\ r - 1 \in (k - 1) + 1 .. Len(inbox') + 1
      /\ ((k - 1) + 1 .. (r - 1) - 1) = k .. r - 2
      /\ IF alone THEN r - 1 >= Len(inbox') ELSE r - 1 <= Len(inbox')
  BY <1>1, <1>2
<1> QED BY <1>3, <1>4, <1>5 DEF Ahead

\* If it is not an OPC_BUSY, it is the reply.
LEMMA AheadFirst ==
    ASSUME TypeInv, inbox # <<>>, NEW m, NEW alone, Ahead(inbox, 0, m, alone)
    PROVE  /\ BusyLine(inbox[1]) => Ahead(inbox, 1, m, alone)
           /\ ~BusyLine(inbox[1]) => ReplyLine(inbox[1], m) /\ (alone => Len(inbox) = 1)
<1>1. PICK r \in 0 + 1 .. Len(inbox) + 1 :
         /\ \A i \in 0 + 1 .. r - 1 : BusyLine(inbox[i])
         /\ r <= Len(inbox) => ReplyLine(inbox[r], m)
         /\ IF alone THEN r >= Len(inbox) ELSE r <= Len(inbox)
  BY DEF Ahead
<1>2. Len(inbox) \in Nat \ {0}
  <2>1. inbox \in Seq(Lines) BY DEF TypeInv
  <2> QED BY <2>1, LenProperties, EmptySeq
<1>3. ASSUME BusyLine(inbox[1]) PROVE Ahead(inbox, 1, m, alone)
  <2>1. r # 1 BY <1>1, <1>2, <1>3 DEF BusyLine, ReplyLine
  <2>2. r \in 1 + 1 .. Len(inbox) + 1 /\ \A i \in 1 + 1 .. r - 1 : BusyLine(inbox[i])
    BY <1>1, <1>2, <2>1
  <2> QED BY <1>1, <2>2 DEF Ahead
<1>4. ASSUME ~BusyLine(inbox[1]) PROVE ReplyLine(inbox[1], m) /\ (alone => Len(inbox) = 1)
  <2>1. r = 1
    <3> SUFFICES ASSUME r # 1 PROVE FALSE OBVIOUS
    <3>1. 1 \in 0 + 1 .. r - 1 BY <1>1, <1>2
    <3> QED BY <1>1, <1>4, <3>1
  <2>2. r <= Len(inbox) BY <1>2, <2>1
  <2>3. ReplyLine(inbox[1], m) BY <1>1, <2>1, <2>2
  <2>4. ASSUME alone PROVE Len(inbox) = 1
    <3>1. r >= Len(inbox) BY <1>1, <2>4
    <3> QED BY <1>2, <2>1, <3>1
  <2> QED BY <2>3, <2>4
<1> QED BY <1>3, <1>4

\* Lines come behind the reply, or the lines with the reply come behind others.
LEMMA AheadBehind ==
    ASSUME NEW old \in Seq(Lines), NEW s \in Seq(Lines), NEW m, NEW alone
    PROVE  /\ \A k \in 0 .. Len(old) : ~alone /\ Ahead(old, k, m, alone)
                 => Ahead(old \o s, k, m, alone)
           /\ \A k \in 1 .. Len(s) : Ahead(s, k, m, alone)
                 => Ahead(old \o s, Len(old) + k, m, alone)
<1> DEFINE new == old \o s
<1>1. /\ Len(old) \in Nat /\ Len(s) \in Nat /\ Len(new) = Len(old) + Len(s)
      /\ \A i \in 1 .. Len(old) : new[i] = old[i]
      /\ \A i \in 1 .. Len(s) : new[Len(old) + i] = s[i]
  BY LinesBehind
<1> HIDE DEF new
<1>2. ASSUME NEW k \in 0 .. Len(old), ~alone, Ahead(old, k, m, alone)
      PROVE  Ahead(new, k, m, alone)
  <2>1. PICK r \in k + 1 .. Len(old) + 1 :
           /\ \A i \in k + 1 .. r - 1 : BusyLine(old[i])
           /\ r <= Len(old) => ReplyLine(old[r], m)
           /\ r <= Len(old)
    BY <1>2 DEF Ahead
  <2>2. r \in 1 .. Len(old) /\ \A i \in k + 1 .. r - 1 : i \in 1 .. Len(old) BY <1>1, <2>1
  <2>3. ReplyLine(new[r], m) /\ \A i \in k + 1 .. r - 1 : BusyLine(new[i])
    BY <1>1, <2>1, <2>2
  <2>4. r \in k + 1 .. Len(new) + 1 /\ r <= Len(new) BY <1>1, <2>1
  <2> QED BY <1>2, <2>3, <2>4 DEF Ahead
<1>3. ASSUME NEW k \in 1 .. Len(s), Ahead(s, k, m, alone)
      PROVE  Ahead(new, Len(old) + k, m, alone)
  <2>1. PICK r \in k + 1 .. Len(s) + 1 :
           /\ \A i \in k + 1 .. r - 1 : BusyLine(s[i])
           /\ r <= Len(s) => ReplyLine(s[r], m)
           /\ IF alone THEN r >= Len(s) ELSE r <= Len(s)
    BY <1>3 DEF Ahead
  <2> DEFINE q == Len(old) + r
  <2>2. \A i \in (Len(old) + k) + 1 .. q - 1 : BusyLine(new[i])
    <3> TAKE i \in (Len(old) + k) + 1 .. q - 1
    <3>1. i - Len(old) \in k + 1 .. r - 1 /\ i - Len(old) \in 1 .. Len(s) BY <1>1, <2>1
    <3>2. new[Len(old) + (i - Len(old))] = s[i - Len(old)] BY <1>1, <3>1
    <3>3. Len(old) + (i - Len(old)) = i BY <1>1
    <3> QED BY <2>1, <3>1, <3>2, <3>3
  <2>3. q <= Len(new) => ReplyLine(new[q], m)
    <3> SUFFICES ASSUME q <= Len(new) PROVE ReplyLine(new[q], m) OBVIOUS
    <3>1. r \in 1 .. Len(s) /\ r <= Len(s) BY <1>1, <2>1
    <3> QED BY <1>1, <2>1, <3>1
  <2>4. /\ q \in (Len(old) + k) + 1 .. Len(new) + 1
        /\ IF alone THEN q >= Len(new) ELSE q <= Len(new)
    BY <1>1, <2>1
  <2> QED BY <2>2, <2>3, <2>4 DEF Ahead
<1> QED BY <1>2, <1>3 DEF new

LEMMA SendThreadReply ==
    ASSUME ~Slow, Prompt, TypeInv, ReplyInv, SendThread
    PROVE  ReplyInv'
<1> USE DEF ReplyInv, CallInv, Alone, serverVars, callVars, sharedVars, Return
<1>1. CASE Ask
  <2>1. Quiet' BY <1>1 DEF Ask, Quiet, NoSent
  <2> QED BY <1>1, <2>1 DEF Ask, Unheard
<1>2. CASE Forget
  <2>1. Quiet' BY <1>2 DEF Forget, Quiet, NoSent
  <2> QED BY <1>2, <2>1 DEF Forget, Forgets, Unheard
<1>3. CASE Prepare
  <2>1. Quiet' BY <1>3 DEF Prepare, Quiet, NoSent
  <2> QED BY <1>3, <2>1 DEF Prepare, Unheard
<1>4. CASE Send
  <2>1. /\ pc = "send" /\ Quiet /\ Unheard /\ ~setting /\ ~nextReceiveIsReply /\ ~sentEvent
        /\ UNCHANGED <<situation, link, inbox, setting, n, asks, sentEvent, replyEvent,
                       nextReceiveIsReply>>
    BY <1>4 DEF Send
  <2>2. Alone => inbox = <<>> BY <2>1 DEF Quiet
  <2> DEFINE line == [of |-> n, asks |-> asks]
  <2>3. CASE toServer' = Append(toServer, line) /\ pc' = "waitSent"
    <3>1. toServer' = <<line>> BY <2>1, <2>3 DEF Quiet
    <3>2. Len(toServer') = 1 /\ toServer'[1].of = n /\ toServer'[1].asks = asks BY <3>1
    <3>3. SentToCome' BY <2>1, <2>2, <3>2 DEF SentToCome, Quiet, NoSent, Unheard
    <3> QED BY <2>1, <2>3, <3>3
  <2>4. CASE UNCHANGED toServer /\ pc' = "waitSent" /\ link # "up"
    <3>1. SentLost' BY <2>1, <2>2, <2>4 DEF SentLost, Quiet, Unheard
    <3> QED BY <2>1, <2>4, <3>1
  <2>5. CASE UNCHANGED toServer /\ pc' = "idle"
    <3>1. Quiet' BY <2>1, <2>5 DEF Quiet, NoSent
    <3> QED BY <2>1, <2>5, <3>1
  <2> QED BY <1>4, <2>3, <2>4, <2>5 DEF Send
<1>5. CASE AfterSent
  <2>1. /\ pc = "waitSent" /\ AfterSENT
        /\ UNCHANGED <<situation, link, toServer, inbox, setting, n, asks, replyEvent, reply,
                       sentError, nextReceiveIsReply>>
    BY <1>5 DEF AfterSent, SentToCome, SentComes, SentLost
  <2>2. AfterSENT'
    BY <2>1 DEF AfterSENT, NoSent, HalfDone, Expected, Arrived, Unheard, Barren
  <2>3. Barren(~sentError) => Quiet'
    BY <2>1 DEF AfterSENT, Barren, HalfDone, Expected, Arrived, Quiet, NoSent
  <2> QED BY <1>5, <2>1, <2>2, <2>3 DEF AfterSent, AfterSENT, Barren
<1>6. CASE AfterReply
  <2>1. /\ asks /\ replyEvent /\ AfterSENT
        /\ UNCHANGED <<situation, link, toServer, inbox, setting, nextReceiveIsReply>>
        /\ pc' = "idle"
    BY <1>6 DEF AfterReply
  <2>2. Arrived BY <2>1 DEF AfterSENT, HalfDone, Expected, Unheard
  <2>3. Quiet' BY <2>1, <2>2 DEF Arrived, Quiet, AfterSENT, NoSent
  <2> QED BY <2>1, <2>3
<1>7. CASE SentTimeout \/ ReplyTimeout
  <2>1. /\ toServer = <<>> /\ inbox = <<>> /\ ~setting /\ pc' = "idle"
        /\ UNCHANGED <<situation, link, toServer, inbox, setting, nextReceiveIsReply>>
    BY <1>7 DEF SentTimeout, ReplyTimeout, Late
  <2>2. ASSUME ~Alone PROVE FALSE
    <3>1. ~SentToCome /\ ~SentComes /\ ~SentLost
      BY <2>1, <2>2 DEF SentToCome, SentComes, SentLost
    <3>2. ~Expected BY <2>1, <2>2 DEF Expected, Ahead
    <3>3. ~HalfDone BY <2>1 DEF HalfDone
    <3> QED BY <1>7, <3>1, <3>2, <3>3 DEF SentTimeout, ReplyTimeout, AfterSENT, Arrived
  <2>3. Quiet' BY <2>1, <2>2 DEF Quiet, NoSent
  <2> QED BY <2>1, <2>2, <2>3
<1> QED BY <1>1, <1>2, <1>3, <1>4, <1>5, <1>6, <1>7 DEF SendThread

LEMMA OnReceiveReply ==
    ASSUME TypeInv, ReplyInv, OnReceive
    PROVE  ReplyInv'
<1>1. /\ inbox # <<>> /\ inbox[1].tag = "RECEIVE" /\ ~setting /\ inbox' = Tail(inbox)
      /\ UNCHANGED <<situation, link, toServer, setting, n, asks, pc, sentEvent, sentError>>
      /\ Head(inbox) = inbox[1]
  BY TailTypes DEF OnReceive, Line, serverVars, callVars
<1>2. \/ ~nextReceiveIsReply /\ UNCHANGED <<nextReceiveIsReply, reply, replyEvent>>
      \/ /\ nextReceiveIsReply /\ BusyLine(inbox[1])
         /\ UNCHANGED <<nextReceiveIsReply, reply, replyEvent>>
      \/ /\ nextReceiveIsReply /\ ~BusyLine(inbox[1])
         /\ ~nextReceiveIsReply' /\ reply' = inbox[1].msg /\ replyEvent'
  BY <1>1 DEF OnReceive, BusyLine
<1>3. NoSent => NoSent' BY <1>1, WithoutHead DEF NoSent
<1> USE DEF Alone
<1>4. CASE pc \in {"idle", "prepare", "note", "reset", "send"}
  <2>1. Quiet BY <1>4 DEF ReplyInv, CallInv
  <2>2. ~Alone /\ ~nextReceiveIsReply BY <1>1, <2>1 DEF Quiet
  <2>3. Quiet' BY <1>1, <1>2, <1>3, <2>1, <2>2 DEF Quiet
  <2> QED BY <1>1, <1>2, <1>4, <2>2, <2>3 DEF ReplyInv, CallInv, Unheard
<1>5. ASSUME SentToCome PROVE SentToCome'
  BY <1>1, <1>2, <1>3, <1>5 DEF SentToCome, Unheard
<1>6. ASSUME SentComes PROVE SentComes'
  <2>1. PICK k \in 1 .. Len(inbox) : SentAt(k) BY <1>6 DEF SentComes
  <2>2. k \in 2 .. Len(inbox) BY <1>1, <2>1 DEF SentAt
  <2>3. inbox'[k - 1] = inbox[k] /\ k - 1 \in 1 .. Len(inbox') BY <1>1, <2>2, WithoutHead
  <2>4. \A i \in 1 .. Len(inbox') : inbox'[i].tag = "SENT" <=> i = k - 1
    BY <1>1, <2>1, WithoutHead DEF SentAt
  <2>5. Ahead(inbox', k - 1, n, Alone) BY <1>1, <2>1, AheadTail DEF SentAt
  <2>6. Len(inbox') = Len(inbox) - 1 /\ Len(inbox) \in Nat BY <1>1, TailTypes
  <2>7. SentAt(k - 1)'
    BY <1>1, <2>1, <2>3, <2>4, <2>5, <2>6 DEF SentAt, Barren
  <2>8. \E j \in 1 .. Len(inbox') : SentAt(j)' BY <2>3, <2>7
  <2> QED BY <1>1, <1>2, <1>6, <2>8 DEF SentComes, Unheard
<1>7. ~SentLost BY <1>1 DEF SentLost
<1>8. ASSUME AfterSENT, pc # "idle" PROVE AfterSENT'
  <2>1. toServer' = <<>> /\ NoSent' /\ (~Alone' => ~sentError') BY <1>1, <1>3, <1>8 DEF AfterSENT
  <2>2. CASE HalfDone BY <1>1, <2>2 DEF HalfDone
  <2>3. CASE Expected
    <3>1. CASE BusyLine(inbox[1])
      <4>1. Ahead(inbox, 1, n, Alone) BY <1>1, <2>3, <3>1, AheadFirst DEF Expected
      <4>2. 1 \in 1 .. Len(inbox) /\ 1 - 1 = 0
        BY <1>1, EmptySeq, LenProperties DEF TypeInv
      <4>3. Ahead(inbox', 0, n, Alone) BY <1>1, <4>1, <4>2, AheadTail
      <4>4. Expected'
        BY <1>1, <1>2, <2>3, <3>1, <4>3 DEF Expected, Unheard, Barren
      <4> QED BY <2>1, <4>4 DEF AfterSENT
    <3>2. CASE ~BusyLine(inbox[1])
      <4>1. ReplyLine(inbox[1], n) /\ (Alone => Len(inbox) = 1)
        BY <1>1, <2>3, <3>2, AheadFirst DEF Expected
      <4>2. Alone => inbox' = <<>>
        <5>1. Len(inbox') = Len(inbox) - 1 /\ inbox' \in Seq(Lines) BY <1>1, TailTypes
        <5> QED BY <4>1, <5>1, EmptySeq
      <4>3. asks
        <5>1. Alone => asks BY <1>1, <2>3 DEF Expected, Barren
        <5>2. ~Alone => asks BY <1>8 DEF ReplyInv
        <5> QED BY <5>1, <5>2
      <4>4. Arrived'
        BY <1>1, <1>2, <2>3, <3>2, <4>1, <4>2, <4>3 DEF Arrived, Expected, ReplyLine
      <4> QED BY <2>1, <4>4 DEF AfterSENT
    <3> QED BY <3>1, <3>2
  <2>4. CASE Arrived
    <3>1. ~Alone /\ ~nextReceiveIsReply BY <1>1, <2>4 DEF Arrived
    <3>2. UNCHANGED <<nextReceiveIsReply, reply, replyEvent>> BY <1>2, <3>1
    <3>3. Arrived' BY <1>1, <2>4, <3>1, <3>2 DEF Arrived
    <3> QED BY <2>1, <3>3 DEF AfterSENT
  <2> QED BY <1>8, <2>2, <2>3, <2>4 DEF AfterSENT
<1> QED BY <1>1, <1>4, <1>5, <1>6, <1>7, <1>8 DEF ReplyInv, CallInv, TypeInv, TypeOK

LEMMA OnSentReply ==
    ASSUME TypeInv, ReplyInv, OnSent
    PROVE  ReplyInv'
<1> USE DEF Alone
<1>1. /\ inbox # <<>> /\ inbox[1].tag = "SENT" /\ sentError' = ~inbox[1].ok
      /\ ~setting /\ sentEvent' /\ setting'
      /\ UNCHANGED <<situation, link, inbox, toServer, n, asks, pc, replyEvent,
                     nextReceiveIsReply, reply>>
  BY TailTypes DEF OnSent, Line, serverVars, callVars
<1>2. Len(inbox) \in Nat \ {0} BY <1>1, TailTypes, EmptySeq DEF TypeInv
<1>3. ~NoSent BY <1>1, <1>2 DEF NoSent
<1>4. pc = "waitSent" /\ SentComes
  BY <1>1, <1>3 DEF ReplyInv, CallInv, SentToCome, SentLost, AfterSENT, Quiet, TypeInv, TypeOK
<1>5. PICK k \in 1 .. Len(inbox) : SentAt(k) BY <1>4 DEF SentComes
<1>6. k = 1 BY <1>1, <1>2, <1>5 DEF SentAt
<1>7. NoSent' BY <1>1, <1>5, <1>6 DEF SentAt, NoSent
<1>8. HalfDone'
  BY <1>1, <1>4, <1>5, <1>6 DEF SentAt, SentComes, HalfDone, Unheard, Barren
<1>9. ~Alone => ~sentError' BY <1>1, <1>5, <1>6 DEF SentAt
<1>10. AfterSENT' BY <1>1, <1>4, <1>7, <1>8, <1>9 DEF AfterSENT, SentComes
<1> QED BY <1>1, <1>4, <1>10 DEF ReplyInv, CallInv

LEMMA ExpectReplyReply ==
    ASSUME TypeInv, ReplyInv, ExpectReply
    PROVE  ReplyInv'
<1> USE DEF Alone
<1>1. /\ setting /\ inbox # <<>> /\ inbox' = Tail(inbox) /\ ~setting' /\ nextReceiveIsReply'
      /\ UNCHANGED <<situation, link, toServer, n, asks, pc, sentEvent, sentError, replyEvent>>
  BY DEF ExpectReply, TypeInv, serverVars, callVars
<1>2. Len(inbox') = Len(inbox) - 1 /\ inbox' \in Seq(Lines) /\ Len(inbox) \in Nat \ {0}
  BY <1>1, TailTypes, EmptySeq DEF TypeInv
<1>3. Len(inbox) = 1 => inbox' = <<>> BY <1>2, EmptySeq
<1>4. NoSent => NoSent' BY <1>1, WithoutHead DEF NoSent
<1>5. CASE pc \in {"idle", "prepare", "note", "reset", "send"}
  <2>1. Quiet /\ Alone BY <1>1, <1>5 DEF ReplyInv, CallInv, Quiet
  <2>2. Quiet' BY <1>1, <1>3, <1>4, <2>1 DEF Quiet
  <2> QED BY <1>1, <1>5, <2>1, <2>2 DEF ReplyInv, CallInv, Unheard
<1>6. CASE pc \in {"waitSent", "waitReply"}
  <2>1. AfterSENT /\ HalfDone
    BY <1>1, <1>6 DEF ReplyInv, CallInv, SentToCome, SentComes, SentLost, AfterSENT,
                      Expected, Arrived
  <2>2. Ahead(inbox', 0, n, Alone)
    <3>1. 1 \in 1 .. Len(inbox) /\ 1 - 1 = 0 BY <1>2
    <3> QED BY <1>1, <2>1, <3>1, AheadTail DEF HalfDone
  <2>3. Expected' BY <1>1, <1>3, <2>1, <2>2 DEF HalfDone, Expected, Unheard, Barren
  <2>4. AfterSENT' BY <1>1, <1>4, <2>1, <2>3 DEF AfterSENT
  <2> QED BY <1>1, <1>6, <2>1, <2>4 DEF ReplyInv, CallInv, SentToCome, SentComes, SentLost
<1> QED BY <1>5, <1>6 DEF TypeInv, TypeOK

LEMMA OutsideReply ==
    ASSUME TypeInv, ReplyInv, Serve \/ OtherTalks \/ LinkFails
    PROVE  ReplyInv'
<1> USE DEF callVars, sharedVars, Alone
<1>1. CASE Serve
  <2>1. toServer # <<>> /\ toServer' = Tail(toServer) BY <1>1, ServedLines
  <2>2. pc = "waitSent" /\ SentToCome
    BY <2>1 DEF ReplyInv, CallInv, SentComes, SentLost, AfterSENT, Quiet, TypeInv, TypeOK
  <2> DEFINE line == Head(toServer)
  <2>3. toServer' = <<>> /\ line.of = n /\ line.asks = asks
    <3>1. toServer \in Seq([of : 1 .. MaxCalls, asks : BOOLEAN]) BY DEF TypeInv, TypeOK
    <3> QED BY <2>1, <2>2, <3>1, HeadTailProperties, EmptySeq DEF SentToCome
  <2>4. Steady(line) BY <2>2, <2>3 DEF Steady, ReplyInv
  <2>5. UNCHANGED <<situation, link, setting, n, asks, pc, sentEvent, replyEvent,
                    nextReceiveIsReply>>
    BY <1>1 DEF Serve
  <2>6. PICK s \in Seq(Lines) :
           inbox' = inbox \o s /\ OneSent(s, line.of, accepted') /\ Behind(s, line, Alone)
    BY <1>1, <2>4, ServedLines
  <2>7. PICK k \in 1 .. Len(s) :
           /\ s[k].tag = "SENT"
           /\ Ahead(s, k, n, Alone)
           /\ Alone => (asks /\ s[k].ok) \/ k = Len(s)
           /\ ~Alone => s[k].ok
    BY <2>3, <2>6 DEF Behind
  <2>8. \A i \in 1 .. Len(s) : s[i].tag = "SENT" <=> i = k BY <2>6, <2>7 DEF OneSent
  <2>9. /\ Len(inbox) \in Nat /\ Len(s) \in Nat /\ Len(inbox') = Len(inbox) + Len(s)
        /\ \A i \in 1 .. Len(inbox) : inbox'[i] = inbox[i]
        /\ \A i \in 1 .. Len(s) : inbox'[Len(inbox) + i] = s[i]
    BY <2>6, LinesBehind DEF TypeInv
  <2> DEFINE j == Len(inbox) + k
  <2>10. j \in 1 .. Len(inbox') /\ inbox'[j] = s[k] BY <2>9
  <2>11. ASSUME NEW i \in 1 .. Len(inbox') PROVE inbox'[i].tag = "SENT" <=> i = j
    <3>1. CASE i \in 1 .. Len(inbox)
      BY <2>2, <2>9, <3>1 DEF SentToCome, NoSent
    <3>2. CASE i \notin 1 .. Len(inbox)
      <4>1. i - Len(inbox) \in 1 .. Len(s) BY <2>9, <3>2
      <4>2. inbox'[Len(inbox) + (i - Len(inbox))] = s[i - Len(inbox)] BY <2>9, <4>1
      <4>3. Len(inbox) + (i - Len(inbox)) = i BY <2>9
      <4>4. inbox'[i].tag = "SENT" <=> i - Len(inbox) = k BY <2>8, <4>1, <4>2, <4>3
      <4> QED BY <2>9, <4>4
    <3> QED BY <3>1, <3>2
  <2>12. Ahead(inbox', j, n, Alone) BY <2>6, <2>7, AheadBehind DEF TypeInv
  <2>13. Alone => (asks /\ inbox'[j].ok) \/ j = Len(inbox') BY <2>7, <2>9, <2>10
  <2> HIDE DEF j
  <2>14. PICK q \in 1 .. Len(inbox') : q = j BY <2>10
  <2>15. SentAt(q)'
    BY <2>5, <2>7, <2>10, <2>11, <2>12, <2>13, <2>14 DEF SentAt, Barren
  <2>16. SentComes' BY <2>2, <2>3, <2>5, <2>14, <2>15 DEF SentComes, SentToCome, Unheard
  <2> QED BY <2>2, <2>5, <2>16 DEF ReplyInv, CallInv
<1>2. CASE OtherTalks
  <2>1. PICK r \in Lines : inbox' = inbox \o <<r>> /\ <<r>> \in Seq(Lines) /\ Len(<<r>>) = 1
                           /\ <<r>>[1] = r /\ r.tag = "RECEIVE"
    BY <1>2, OtherLine
  <2>2. /\ UNCHANGED <<situation, link, toServer, setting, accepted, n, asks, pc, sentEvent, sentError,
                       replyEvent, nextReceiveIsReply, reply>>
        /\ ~Alone
    BY <1>2 DEF OtherTalks, Crowded
  <2>3. \A i \in 1 .. Len(<<r>>) : <<r>>[i].tag = "RECEIVE" BY <2>1
  <2>4. NoSent => NoSent' BY <2>1, <2>2, <2>3, NoSentBehind
  <2>5. /\ Len(inbox) \in Nat /\ Len(inbox') = Len(inbox) + 1 /\ inbox \in Seq(Lines)
        /\ \A i \in 1 .. Len(inbox) : inbox'[i] = inbox[i]
        /\ inbox'[Len(inbox) + 1] = r
    BY <2>1, LinesBehind DEF TypeInv
  <2>6. \A k \in 0 .. Len(inbox) : Ahead(inbox, k, n, Alone) => Ahead(inbox', k, n, Alone)
    BY <2>1, <2>2, <2>5, AheadBehind
  <2>7. ASSUME SentComes PROVE SentComes'
    <3>1. PICK k \in 1 .. Len(inbox) : SentAt(k) BY <2>7 DEF SentComes
    <3>2. k \in 1 .. Len(inbox') /\ inbox'[k] = inbox[k] /\ k \in 0 .. Len(inbox) BY <2>5
    <3>3. \A i \in 1 .. Len(inbox') : inbox'[i].tag = "SENT" <=> i = k
      BY <2>1, <2>5, <3>1 DEF SentAt
    <3>4. Ahead(inbox', k, n, Alone) BY <2>6, <3>1, <3>2 DEF SentAt
    <3>5. SentAt(k)' BY <2>2, <3>1, <3>2, <3>3, <3>4 DEF SentAt, Barren
    <3>6. \E i \in 1 .. Len(inbox') : SentAt(i)' BY <3>2, <3>5
    <3> QED BY <2>2, <2>7, <3>6 DEF SentComes, Unheard
  <2>8. ASSUME AfterSENT PROVE AfterSENT'
    <3>1. 0 \in 0 .. Len(inbox) BY <2>5
    <3>2. HalfDone => 1 \in 0 .. Len(inbox)
      BY <2>5, EmptySeq DEF HalfDone, TypeInv
    <3>3. HalfDone => HalfDone' BY <2>2, <2>6, <3>2 DEF HalfDone, Unheard, Barren
    <3>4. Expected => Expected' BY <2>2, <2>6, <3>1 DEF Expected, Unheard, Barren
    <3>5. Arrived => Arrived' BY <2>2 DEF Arrived
    <3> QED BY <2>2, <2>4, <2>8, <3>3, <3>4, <3>5 DEF AfterSENT
  <2>9. SentToCome => SentToCome' BY <2>2, <2>4 DEF SentToCome, Unheard
  <2>10. Quiet => Quiet' BY <2>2, <2>4 DEF Quiet
  <2> QED BY <2>2, <2>7, <2>8, <2>9, <2>10 DEF ReplyInv, CallInv, SentLost, Unheard
<1>3. CASE LinkFails
  <2>1. /\ Alone /\ toServer' = <<>>
        /\ UNCHANGED <<situation, inbox, setting, n, asks, pc, sentEvent, sentError,
                       replyEvent, nextReceiveIsReply, reply>>
    BY <1>3 DEF LinkFails, Obliging, ReplyInv
  <2>2. NoSent => NoSent' BY <2>1 DEF NoSent
  <2>3. SentToCome => SentLost' BY <2>1 DEF SentToCome, SentLost, Unheard
  <2>4. SentComes => SentComes'
    BY <2>1 DEF SentComes, SentAt, Barren, Unheard
  <2>5. SentLost => SentLost' BY <2>1 DEF SentLost, Unheard
  <2>6. AfterSENT => AfterSENT'
    BY <2>1, <2>2 DEF AfterSENT, HalfDone, Expected, Arrived, Unheard, Barren
  <2>7. Quiet => Quiet' BY <2>1, <2>2 DEF Quiet
  <2> QED BY <2>1, <2>3, <2>4, <2>5, <2>6, <2>7 DEF ReplyInv, CallInv, Unheard
<1> QED BY <1>1, <1>2, <1>3

LEMMA ReplyStep ==
    ASSUME ~Slow, Prompt
    PROVE  TypeInv /\ ReplyInv /\ [Next]_vars => ReplyInv'
<1> SUFFICES ASSUME TypeInv, ReplyInv, [Next]_vars PROVE ReplyInv' OBVIOUS
<1> USE DEF ReplyInv, CallInv, Alone
<1>1. CASE (Eof \/ Reconnect) \/ UNCHANGED vars
  <2>1. /\ UNCHANGED <<situation, toServer, inbox, setting, n, asks, pc, sentEvent, sentError,
                       replyEvent, nextReceiveIsReply, reply>>
        /\ link = "up" => link' = "up"
    BY <1>1 DEF Eof, Reconnect, vars, serverVars, callVars, sharedVars
  <2>2. NoSent => NoSent' BY <2>1 DEF NoSent
  <2>3. SentToCome => SentToCome' BY <2>1, <2>2 DEF SentToCome, Unheard
  <2>4. SentComes => SentComes' BY <2>1 DEF SentComes, SentAt, Barren, Unheard
  <2>5. SentLost => SentLost' BY <2>1 DEF SentLost, Unheard
  <2>6. AfterSENT => AfterSENT'
    BY <2>1, <2>2 DEF AfterSENT, HalfDone, Expected, Arrived, Unheard, Barren
  <2>7. Quiet => Quiet' BY <2>1, <2>2 DEF Quiet
  <2> QED BY <2>1, <2>3, <2>4, <2>5, <2>6, <2>7 DEF Unheard
<1> QED
  BY <1>1, SendThreadReply, OnReceiveReply, OnSentReply, ExpectReplyReply, OutsideReply
  DEF Next, ReceiveThread

\* ReplyIsOurs of LoconetClient: if no answer comes after its wait has ended and
\* OnSent is done before the next message, and either no other device is heard,
\* or every message is a request that is answered, then the reply that a caller
\* gets is the station's to its own request, although nothing in it says so.
THEOREM ReplyGoesToItsCall ==
    ASSUME ~Slow, Prompt, "any" \notin Situations
    PROVE  Spec => ReplyIsOurs
<1> DEFINE Ours == pc = "waitReply" /\ pc' = "idle" /\ result' = "Success"
                     => reply.from = "station" /\ reply.of = n
<1>1. Init => ReplyInv
  <2> SUFFICES ASSUME Init PROVE ReplyInv OBVIOUS
  <2>1. situation \in {"alone", "answered"} BY ClientAssumption DEF Init
  <2> QED BY <2>1 DEF Init, ReplyInv, CallInv, Alone, Quiet, NoSent
<1>2. TypeInv /\ ReplyInv /\ [Next]_vars => [Ours]_vars
  <2> SUFFICES ASSUME ReplyInv, Next PROVE Ours OBVIOUS
  <2> SUFFICES ASSUME pc = "waitReply", pc' = "idle", result' = "Success"
               PROVE  reply.from = "station" /\ reply.of = n
    OBVIOUS
  <2>1. AfterReply
    BY DEF Next, SendThread, Ask, Forget, Prepare, Send, AfterSent, AfterReply, SentTimeout,
           ReplyTimeout, Return, ReceiveThread, OnReceive, OnSent, ExpectReply, Eof, Reconnect,
           Serve, OtherTalks, LinkFails, callVars
  <2>2. asks /\ replyEvent /\ AfterSENT BY <2>1 DEF AfterReply, ReplyInv, CallInv
  <2> QED BY <2>2 DEF AfterSENT, HalfDone, Expected, Arrived, Unheard
<1> QED BY <1>1, <1>2, InitTypes, StepTypes, ReplyStep, PTL DEF Spec, ReplyIsOurs
=============================================================================
