-------------------- MODULE CommandStationMirror_proofs --------------------
(***************************************************************************)
(* Proofs about CommandStationMirror: for any slots, addresses, fields and *)
(* messages the table follows what the station and the other devices do.   *)
(* The invariant tells for every field what will bring it: a line that is  *)
(* still to come, or the table has it, or ThrottleX changed it itself.     *)
(* What counts as its own is a guess from the last line sent, so the       *)
(* invariant says where its echo is, and that no line ignored for it is    *)
(* the last to tell a field that another device changed.                   *)
(***************************************************************************)
EXTENDS CommandStationMirror, SequenceTheorems, TLAPS

\* The lines of a connection, by kind.
Locos     == [kind : {"Loco"}, slot : Slots, field : Fields, value : Values]
Writes    == [kind : {"WrSlData"}, slot : Slots, is : SlotData]
Readings  == [kind : {"SlRdData"}, slot : Slots, is : SlotData]
Requests  == [kind : {"LocoAdr"}, adr : Addresses]
Sents     == [kind : {"SENT"}, ok : BOOLEAN]
OwnLines  == Locos \cup Writes \cup Requests
Lines     == OwnLines \cup Readings \cup Sents \cup {LongAck}

\* A line that tells a whole slot, or this field of it, and what it tells.
AboutSlot(m, s) == m.kind \in SlotDataBase /\ m.slot = s
Reads(m, s)     == m.kind = "SlRdData" /\ m.slot = s
About(m, s, f)  == AboutSlot(m, s) \/ (m.kind = "Loco" /\ m.slot = s /\ m.field = f)
Tells(m, f)     == IF m.kind = "Loco" THEN m.value ELSE m.is.data[f]

\* The last line about a field tells what the station has, and a line about a
\* slot has its address, unless a reading of the slot comes later.
Truthful(ls, st) ==
    \A s \in Slots, i \in 1 .. Len(ls) :
        /\ \A f \in Fields : About(ls[i], s, f) =>
              \/ Tells(ls[i], f) = st[s].data[f]
              \/ \E j \in i + 1 .. Len(ls) : About(ls[j], s, f)
        /\ AboutSlot(ls[i], s) =>
              \/ ls[i].is.adr = st[s].adr
              \/ \E j \in i + 1 .. Len(ls) : Reads(ls[j], s)

\* The table has what no line will tell any more, but for the excused fields.
Known(ls, st, table, excused) ==
    \A s \in Table : table[s] # Untracked =>
        /\ \A f \in Fields : <<s, f>> \in excused
              \/ table[s].data[f] = st[s].data[f]
              \/ \E j \in 1 .. Len(ls) : About(ls[j], s, f)
        /\ \/ table[s].adr = st[s].adr
           \/ \E j \in 1 .. Len(ls) : Reads(ls[j], s)

\* The echo of a message is on its way, before its SENT; what it changed is
\* excused or told again by a later line.
EchoIn(ls, msg, excused) ==
    \E i \in 1 .. Len(ls) :
        /\ ls[i] = msg
        /\ \E k \in i + 1 .. Len(ls) : ls[k].kind = "SENT"
        /\ \A s \in Slots, f \in Fields : About(msg, s, f) =>
              \/ <<s, f>> \in excused
              \/ \E j \in i + 1 .. Len(ls) : About(ls[j], s, f)

\* There is at most one SENT, and none unless it is waited for.
SentOnce(ls, w) ==
    /\ \A i, j \in 1 .. Len(ls) : ls[i].kind = "SENT" /\ ls[j].kind = "SENT" => i = j
    /\ \A i \in 1 .. Len(ls) : ls[i].kind = "SENT" => w = "SENT"

\* A line behind the others, that tells all that has changed at the station.
LEMMA Behind ==
    ASSUME NEW ls \in Seq(Lines), NEW m \in Lines,
           NEW st, NEW st2, NEW ex, NEW ex2,
           \A s \in Slots, f \in Fields :
              /\ About(m, s, f) => Tells(m, f) = st2[s].data[f]
              /\ ~About(m, s, f) => st2[s].data[f] = st[s].data[f]
                                    /\ (<<s, f>> \in ex => <<s, f>> \in ex2),
           \A s \in Slots : /\ AboutSlot(m, s) => m.is.adr = st2[s].adr
                            /\ ~Reads(m, s) => st2[s].adr = st[s].adr
    PROVE  LET new == Append(ls, m) IN
           /\ new \in Seq(Lines) /\ Len(new) = Len(ls) + 1 /\ Len(ls) \in Nat
           /\ new[Len(ls) + 1] = m /\ \A i \in 1 .. Len(ls) : new[i] = ls[i]
           /\ Truthful(ls, st) => Truthful(new, st2)
           /\ \A table : Known(ls, st, table, ex) => Known(new, st2, table, ex2)
<1> DEFINE new == Append(ls, m)
           n == Len(ls)
<1>1. /\ n \in Nat /\ new \in Seq(Lines) /\ Len(new) = n + 1
      /\ new[n + 1] = m /\ \A i \in 1 .. n : new[i] = ls[i]
  BY AppendProperties, LenProperties
<1> HIDE DEF new, n
<1>2. ASSUME Truthful(ls, st) PROVE Truthful(new, st2)
  <2> SUFFICES ASSUME NEW s \in Slots, NEW i \in 1 .. Len(new)
               PROVE  /\ \A f \in Fields : About(new[i], s, f) =>
                            \/ Tells(new[i], f) = st2[s].data[f]
                            \/ \E j \in i + 1 .. Len(new) : About(new[j], s, f)
                      /\ AboutSlot(new[i], s) =>
                            \/ new[i].is.adr = st2[s].adr
                            \/ \E j \in i + 1 .. Len(new) : Reads(new[j], s)
    BY DEF Truthful
  <2>1. CASE i = n + 1 BY <1>1, <2>1
  <2>2. CASE i \in 1 .. n
    <3>1. /\ n + 1 \in i + 1 .. Len(new) /\ new[n + 1] = m /\ new[i] = ls[i]
          /\ \A j \in i + 1 .. n : j \in i + 1 .. Len(new) /\ new[j] = ls[j]
      BY <1>1, <2>2
    <3>2. ASSUME NEW f \in Fields, About(ls[i], s, f)
          PROVE  \/ Tells(ls[i], f) = st2[s].data[f]
                 \/ \E j \in i + 1 .. Len(new) : About(new[j], s, f)
      <4>1. CASE About(m, s, f) BY <3>1, <4>1
      <4>2. CASE ~About(m, s, f)
        <5>1. \/ Tells(ls[i], f) = st[s].data[f]
              \/ \E j \in i + 1 .. n : About(ls[j], s, f)
          BY <1>2, <2>2, <3>2 DEF Truthful, n
        <5> QED BY <3>1, <4>2, <5>1
      <4> QED BY <4>1, <4>2
    <3>3. ASSUME AboutSlot(ls[i], s)
          PROVE  \/ ls[i].is.adr = st2[s].adr
                 \/ \E j \in i + 1 .. Len(new) : Reads(new[j], s)
      <4>1. CASE Reads(m, s) BY <3>1, <4>1
      <4>2. CASE ~Reads(m, s)
        <5>1. \/ ls[i].is.adr = st[s].adr
              \/ \E j \in i + 1 .. n : Reads(ls[j], s)
          BY <1>2, <2>2, <3>3 DEF Truthful, n
        <5> QED BY <3>1, <4>2, <5>1
      <4> QED BY <4>1, <4>2
    <3> QED BY <3>1, <3>2, <3>3
  <2> QED BY <1>1, <2>1, <2>2
<1>3. n + 1 \in 1 .. Len(new) /\ \A j \in 1 .. n : j \in 1 .. Len(new) BY <1>1
<1>4. ASSUME NEW table, Known(ls, st, table, ex) PROVE Known(new, st2, table, ex2)
  <2> SUFFICES ASSUME NEW s \in Table, table[s] # Untracked
               PROVE  /\ \A f \in Fields : <<s, f>> \in ex2
                            \/ table[s].data[f] = st2[s].data[f]
                            \/ \E j \in 1 .. Len(new) : About(new[j], s, f)
                      /\ \/ table[s].adr = st2[s].adr
                         \/ \E j \in 1 .. Len(new) : Reads(new[j], s)
    BY DEF Known
  <2>1. s \in Slots BY DEF Table
  <2>2. ASSUME NEW f \in Fields
        PROVE  <<s, f>> \in ex2 \/ table[s].data[f] = st2[s].data[f]
                 \/ \E j \in 1 .. Len(new) : About(new[j], s, f)
    <3>1. CASE About(m, s, f) BY <1>1, <1>3, <3>1
    <3>2. CASE ~About(m, s, f)
      <4>1. <<s, f>> \in ex \/ table[s].data[f] = st[s].data[f]
              \/ \E j \in 1 .. n : About(ls[j], s, f)
        BY <1>4 DEF Known, n
      <4> QED BY <1>1, <1>3, <2>1, <3>2, <4>1
    <3> QED BY <3>1, <3>2
  <2>3. table[s].adr = st2[s].adr \/ \E j \in 1 .. Len(new) : Reads(new[j], s)
    <3>1. CASE Reads(m, s) BY <1>1, <1>3, <3>1
    <3>2. CASE ~Reads(m, s)
      <4>1. table[s].adr = st[s].adr \/ \E j \in 1 .. n : Reads(ls[j], s)
        BY <1>4 DEF Known, n
      <4> QED BY <1>1, <1>3, <2>1, <3>2, <4>1
    <3> QED BY <3>1, <3>2
  <2> QED BY <2>2, <2>3
<1> QED BY <1>1, <1>2, <1>4 DEF new, n


\* ... behind an echo that comes.
LEMMA BehindEcho ==
    ASSUME NEW ls \in Seq(Lines), NEW m \in Lines, NEW ex, NEW ex2,
           \A s \in Slots, f \in Fields :
              ~About(m, s, f) /\ <<s, f>> \in ex => <<s, f>> \in ex2,
           NEW msg, EchoIn(ls, msg, ex)
    PROVE  EchoIn(Append(ls, m), msg, ex2)
<1> DEFINE new == Append(ls, m)
           n == Len(ls)
<1>1. /\ n \in Nat /\ new \in Seq(Lines) /\ Len(new) = n + 1
      /\ new[n + 1] = m /\ \A i \in 1 .. n : new[i] = ls[i]
  BY AppendProperties, LenProperties
<1> HIDE DEF new, n
<1> SUFFICES EchoIn(new, msg, ex2) BY DEF new
<1>2. PICK i \in 1 .. n :
         /\ ls[i] = msg
         /\ \E k \in i + 1 .. n : ls[k].kind = "SENT"
         /\ \A s \in Slots, f \in Fields : About(msg, s, f) =>
               <<s, f>> \in ex \/ \E j \in i + 1 .. n : About(ls[j], s, f)
  BY DEF EchoIn, n
<1>3. /\ n + 1 \in i + 1 .. Len(new) /\ i \in 1 .. Len(new) /\ new[i] = msg
      /\ \A j \in i + 1 .. n : j \in i + 1 .. Len(new) /\ new[j] = ls[j]
  BY <1>1, <1>2
<1>4. \E k \in i + 1 .. Len(new) : new[k].kind = "SENT" BY <1>2, <1>3
<1>5. ASSUME NEW s \in Slots, NEW f \in Fields, About(msg, s, f)
      PROVE  <<s, f>> \in ex2 \/ \E j \in i + 1 .. Len(new) : About(new[j], s, f)
  <2>1. CASE About(m, s, f) BY <1>1, <1>3, <2>1
  <2>2. CASE ~About(m, s, f) BY <1>2, <1>3, <1>5, <2>2
  <2> QED BY <2>1, <2>2
<1> QED BY <1>3, <1>4, <1>5 DEF EchoIn

\* The first line is taken.
LEMMA Taken ==
    ASSUME NEW ls \in Seq(Lines), ls # <<>>
    PROVE  LET rest == Tail(ls) IN
           /\ rest \in Seq(Lines) /\ Len(ls) \in Nat \ {0} /\ Len(rest) = Len(ls) - 1
           /\ Head(ls) = ls[1] /\ Head(ls) \in Lines
           /\ \A i \in 1 .. Len(rest) : rest[i] = ls[i + 1]
           /\ \A i \in 2 .. Len(ls) : i - 1 \in 1 .. Len(rest) /\ rest[i - 1] = ls[i]
<1> DEFINE rest == Tail(ls)
<1>1. /\ rest \in Seq(Lines) /\ Len(ls) \in Nat \ {0} /\ Len(rest) = Len(ls) - 1
      /\ Head(ls) = ls[1] /\ Head(ls) \in Lines
      /\ \A i \in 1 .. Len(rest) : rest[i] = ls[i + 1]
  BY HeadTailProperties, EmptySeq, LenProperties
<1> HIDE DEF rest
<1>2. ASSUME NEW i \in 2 .. Len(ls) PROVE i - 1 \in 1 .. Len(rest) /\ rest[i - 1] = ls[i]
  <2>1. i - 1 \in 1 .. Len(rest) /\ (i - 1) + 1 = i BY <1>1
  <2>2. rest[i - 1] = ls[(i - 1) + 1] BY <1>1, <2>1
  <2> QED BY <2>1, <2>2
<1> QED BY <1>1, <1>2 DEF rest

\* What the other lines tell is as true as before.
LEMMA TakenTruthful ==
    ASSUME NEW ls \in Seq(Lines), ls # <<>>, NEW st, Truthful(ls, st)
    PROVE  Truthful(Tail(ls), st)
<1> DEFINE rest == Tail(ls)
<1>1. /\ Len(ls) \in Nat \ {0} /\ Len(rest) = Len(ls) - 1
      /\ \A i \in 1 .. Len(rest) : rest[i] = ls[i + 1]
      /\ \A i \in 2 .. Len(ls) : i - 1 \in 1 .. Len(rest) /\ rest[i - 1] = ls[i]
  BY Taken
<1> SUFFICES Truthful(rest, st) OBVIOUS
<1> HIDE DEF rest
<1> SUFFICES ASSUME NEW s \in Slots, NEW i \in 1 .. Len(rest)
             PROVE  /\ \A f \in Fields : About(rest[i], s, f) =>
                          \/ Tells(rest[i], f) = st[s].data[f]
                          \/ \E j \in i + 1 .. Len(rest) : About(rest[j], s, f)
                    /\ AboutSlot(rest[i], s) =>
                          \/ rest[i].is.adr = st[s].adr
                          \/ \E j \in i + 1 .. Len(rest) : Reads(rest[j], s)
  BY DEF Truthful
<1>2. /\ i + 1 \in 1 .. Len(ls) /\ rest[i] = ls[i + 1]
      /\ \A j \in (i + 1) + 1 .. Len(ls) : j - 1 \in i + 1 .. Len(rest) /\ rest[j - 1] = ls[j]
  BY <1>1
<1>3. ASSUME NEW f \in Fields, About(ls[i + 1], s, f)
      PROVE  \/ Tells(ls[i + 1], f) = st[s].data[f]
             \/ \E j \in i + 1 .. Len(rest) : About(rest[j], s, f)
  <2>1. \/ Tells(ls[i + 1], f) = st[s].data[f]
        \/ \E j \in (i + 1) + 1 .. Len(ls) : About(ls[j], s, f)
    BY <1>2, <1>3 DEF Truthful
  <2> QED BY <1>2, <2>1
<1>4. ASSUME AboutSlot(ls[i + 1], s)
      PROVE  \/ ls[i + 1].is.adr = st[s].adr
             \/ \E j \in i + 1 .. Len(rest) : Reads(rest[j], s)
  <2>1. \/ ls[i + 1].is.adr = st[s].adr
        \/ \E j \in (i + 1) + 1 .. Len(ls) : Reads(ls[j], s)
    BY <1>2, <1>4 DEF Truthful
  <2> QED BY <1>2, <2>1
<1> QED BY <1>2, <1>3, <1>4

\* A line that is ignored does no harm if it was not needed.
LEMMA Ignored ==
    ASSUME NEW ls \in Seq(Lines), ls # <<>>, NEW st, NEW table, NEW ex,
           Known(ls, st, table, ex), Head(ls).kind # "SlRdData",
           \A s \in Slots, f \in Fields : About(Head(ls), s, f) =>
              <<s, f>> \in ex \/ \E j \in 2 .. Len(ls) : About(ls[j], s, f)
    PROVE  Known(Tail(ls), st, table, ex)
<1> DEFINE rest == Tail(ls)
<1>1. /\ Len(ls) \in Nat \ {0} /\ Len(rest) = Len(ls) - 1 /\ Head(ls) = ls[1]
      /\ \A i \in 2 .. Len(ls) : i - 1 \in 1 .. Len(rest) /\ rest[i - 1] = ls[i]
      /\ \A i \in 1 .. Len(ls) : i = 1 \/ i \in 2 .. Len(ls)
  BY Taken
<1> SUFFICES Known(rest, st, table, ex) OBVIOUS
<1> HIDE DEF rest
<1> SUFFICES ASSUME NEW s \in Table, table[s] # Untracked
             PROVE  /\ \A f \in Fields : <<s, f>> \in ex
                          \/ table[s].data[f] = st[s].data[f]
                          \/ \E j \in 1 .. Len(rest) : About(rest[j], s, f)
                    /\ \/ table[s].adr = st[s].adr
                       \/ \E j \in 1 .. Len(rest) : Reads(rest[j], s)
  BY DEF Known
<1>2. s \in Slots BY DEF Table
<1>3. ASSUME NEW f \in Fields
      PROVE  <<s, f>> \in ex \/ table[s].data[f] = st[s].data[f]
               \/ \E j \in 1 .. Len(rest) : About(rest[j], s, f)
  <2>1. <<s, f>> \in ex \/ table[s].data[f] = st[s].data[f]
          \/ \E j \in 1 .. Len(ls) : About(ls[j], s, f)
    BY DEF Known
  <2>2. <<s, f>> \in ex \/ table[s].data[f] = st[s].data[f]
          \/ \E j \in 2 .. Len(ls) : About(ls[j], s, f)
    BY <1>1, <1>2, <2>1
  <2> QED BY <1>1, <2>2
<1>4. table[s].adr = st[s].adr \/ \E j \in 1 .. Len(rest) : Reads(rest[j], s)
  <2>1. table[s].adr = st[s].adr \/ \E j \in 1 .. Len(ls) : Reads(ls[j], s) BY DEF Known
  <2>2. ~Reads(ls[1], s) BY <1>1 DEF Reads
  <2> QED BY <1>1, <2>1, <2>2
<1> QED BY <1>3, <1>4

\* The table is as before but for what the line tells.
Learns(table, m, table2) ==
    \A s \in Table :
        /\ AboutSlot(m, s) => table2[s] = m.is
        /\ m.kind = "Loco" /\ m.slot = s =>
              /\ table[s] = Untracked => table2[s] = Untracked
              /\ table[s] # Untracked =>
                    /\ table2[s].adr = table[s].adr
                    /\ \A f \in Fields : table2[s].data[f] = IF f = m.field THEN m.value
                                                             ELSE table[s].data[f]
        /\ ~AboutSlot(m, s) /\ ~(m.kind = "Loco" /\ m.slot = s) => table2[s] = table[s]

\* A line that is taken over may go: the table has it then.
LEMMA Learned ==
    ASSUME NEW ls \in Seq(Lines), ls # <<>>, NEW st, NEW table, NEW table2, NEW ex,
           Truthful(ls, st), Known(ls, st, table, ex), Learns(table, Head(ls), table2)
    PROVE  Known(Tail(ls), st, table2, ex)
<1> DEFINE rest == Tail(ls)
           m == ls[1]
<1>1. /\ Len(ls) \in Nat \ {0} /\ Len(rest) = Len(ls) - 1
      /\ \A i \in 2 .. Len(ls) : i - 1 \in 1 .. Len(rest) /\ rest[i - 1] = ls[i]
      /\ \A i \in 1 .. Len(ls) : i = 1 \/ i \in 2 .. Len(ls)
      /\ 1 \in 1 .. Len(ls) /\ (1 + 1 .. Len(ls)) = 2 .. Len(ls)
  BY Taken
<1>2. Learns(table, m, table2) BY Taken
<1> SUFFICES Known(rest, st, table2, ex) OBVIOUS
<1> HIDE DEF rest
<1> SUFFICES ASSUME NEW s \in Table, table2[s] # Untracked
             PROVE  /\ \A f \in Fields : <<s, f>> \in ex
                          \/ table2[s].data[f] = st[s].data[f]
                          \/ \E j \in 1 .. Len(rest) : About(rest[j], s, f)
                    /\ \/ table2[s].adr = st[s].adr
                       \/ \E j \in 1 .. Len(rest) : Reads(rest[j], s)
  BY DEF Known
<1>3. s \in Slots BY DEF Table
<1>4. /\ \A f \in Fields : About(m, s, f) =>
            Tells(m, f) = st[s].data[f] \/ \E j \in 2 .. Len(ls) : About(ls[j], s, f)
      /\ AboutSlot(m, s) => m.is.adr = st[s].adr \/ \E j \in 2 .. Len(ls) : Reads(ls[j], s)
  <2> HIDE DEF m
  <2>1. \A i \in 1 .. Len(ls) :
           /\ \A f \in Fields : About(ls[i], s, f) =>
                 Tells(ls[i], f) = st[s].data[f] \/ \E j \in i + 1 .. Len(ls) : About(ls[j], s, f)
           /\ AboutSlot(ls[i], s) =>
                 ls[i].is.adr = st[s].adr \/ \E j \in i + 1 .. Len(ls) : Reads(ls[j], s)
    BY <1>3 DEF Truthful
  <2> QED BY <1>1, <2>1 DEF m
<1>5. table[s] # Untracked =>
        /\ \A f \in Fields : <<s, f>> \in ex \/ table[s].data[f] = st[s].data[f]
              \/ \E j \in 1 .. Len(ls) : About(ls[j], s, f)
        /\ table[s].adr = st[s].adr \/ \E j \in 1 .. Len(ls) : Reads(ls[j], s)
  BY DEF Known
<1>6. /\ \A f \in Fields : (\E j \in 2 .. Len(ls) : About(ls[j], s, f))
            => \E j \in 1 .. Len(rest) : About(rest[j], s, f)
      /\ (\E j \in 2 .. Len(ls) : Reads(ls[j], s)) => \E j \in 1 .. Len(rest) : Reads(rest[j], s)
  BY <1>1
<1>7. CASE AboutSlot(m, s)
  <2>1. table2[s] = m.is /\ m.kind # "Loco" BY <1>2, <1>7 DEF Learns, AboutSlot, SlotDataBase
  <2>2. \A f \in Fields : About(m, s, f) /\ Tells(m, f) = m.is.data[f]
    BY <1>7, <2>1 DEF About, Tells
  <2> HIDE DEF m
  <2> QED BY <1>4, <1>6, <1>7, <2>1, <2>2
<1>8. CASE m.kind = "Loco" /\ m.slot = s
  <2>1. ~AboutSlot(m, s) /\ ~Reads(m, s) BY <1>8 DEF AboutSlot, Reads, SlotDataBase
  <2>2. /\ table[s] # Untracked /\ table2[s].adr = table[s].adr
        /\ \A f \in Fields : table2[s].data[f] = IF f = m.field THEN m.value
                                                 ELSE table[s].data[f]
    BY <1>2, <1>8 DEF Learns
  <2>3. ASSUME NEW f \in Fields
        PROVE  <<s, f>> \in ex \/ table2[s].data[f] = st[s].data[f]
                 \/ \E j \in 1 .. Len(rest) : About(rest[j], s, f)
    <3>1. CASE f = m.field
      <4>1. About(m, s, f) /\ Tells(m, f) = table2[s].data[f]
        BY <1>8, <2>2, <3>1 DEF About, Tells
      <4> QED BY <1>4, <1>6, <4>1
    <3>2. CASE f # m.field
      <4>1. ~About(m, s, f) BY <2>1, <3>2 DEF About
      <4>2. <<s, f>> \in ex \/ table[s].data[f] = st[s].data[f]
              \/ \E j \in 2 .. Len(ls) : About(ls[j], s, f)
        BY <1>1, <1>5, <2>2, <4>1
      <4> QED BY <1>6, <2>2, <3>2, <4>2
    <3> QED BY <3>1, <3>2
  <2>4. table[s].adr = st[s].adr \/ \E j \in 2 .. Len(ls) : Reads(ls[j], s)
    BY <1>1, <1>5, <2>1, <2>2
  <2> QED BY <1>6, <2>2, <2>3, <2>4
<1>9. CASE ~AboutSlot(m, s) /\ ~(m.kind = "Loco" /\ m.slot = s)
  <2>1. /\ table2[s] = table[s] /\ ~Reads(m, s) /\ \A f \in Fields : ~About(m, s, f)
    BY <1>2, <1>9 DEF Learns, Reads, AboutSlot, About, SlotDataBase
  <2>2. \A f \in Fields : <<s, f>> \in ex \/ table[s].data[f] = st[s].data[f]
          \/ \E j \in 2 .. Len(ls) : About(ls[j], s, f)
    BY <1>1, <1>5, <2>1
  <2>3. table[s].adr = st[s].adr \/ \E j \in 2 .. Len(ls) : Reads(ls[j], s)
    BY <1>1, <1>5, <2>1
  <2> QED BY <1>6, <2>1, <2>2, <2>3
<1> QED BY <1>7, <1>8, <1>9

\* The echo is the first line, or still to come.
LEMMA EchoTaken ==
    ASSUME NEW ls \in Seq(Lines), ls # <<>>, NEW msg, NEW ex, EchoIn(ls, msg, ex)
    PROVE  \/ /\ Head(ls) = msg
              /\ \A s \in Slots, f \in Fields : About(msg, s, f) =>
                    <<s, f>> \in ex \/ \E j \in 2 .. Len(ls) : About(ls[j], s, f)
           \/ EchoIn(Tail(ls), msg, ex) /\ \E k \in 3 .. Len(ls) : ls[k].kind = "SENT"
<1> DEFINE rest == Tail(ls)
<1>1. /\ Len(ls) \in Nat \ {0} /\ Len(rest) = Len(ls) - 1 /\ Head(ls) = ls[1]
      /\ \A i \in 2 .. Len(ls) : i - 1 \in 1 .. Len(rest) /\ rest[i - 1] = ls[i]
  BY Taken
<1>2. PICK i \in 1 .. Len(ls) :
         /\ ls[i] = msg
         /\ \E k \in i + 1 .. Len(ls) : ls[k].kind = "SENT"
         /\ \A s \in Slots, f \in Fields : About(msg, s, f) =>
               <<s, f>> \in ex \/ \E j \in i + 1 .. Len(ls) : About(ls[j], s, f)
  BY DEF EchoIn
<1>3. CASE i = 1
  <2>1. (i + 1 .. Len(ls)) = 2 .. Len(ls) BY <1>3
  <2> QED BY <1>1, <1>2, <1>3, <2>1
<1>4. CASE i # 1
  <2> HIDE DEF rest
  <2>1. /\ i - 1 \in 1 .. Len(rest) /\ rest[i - 1] = msg
        /\ \A j \in i + 1 .. Len(ls) : j - 1 \in (i - 1) + 1 .. Len(rest) /\ rest[j - 1] = ls[j]
    BY <1>1, <1>2, <1>4
  <2>2. \E k \in (i - 1) + 1 .. Len(rest) : rest[k].kind = "SENT" BY <1>2, <2>1
  <2>3. \A s \in Slots, f \in Fields : About(msg, s, f) =>
           <<s, f>> \in ex \/ \E j \in (i - 1) + 1 .. Len(rest) : About(rest[j], s, f)
    BY <1>2, <2>1
  <2>4. EchoIn(rest, msg, ex) BY <2>1, <2>2, <2>3 DEF EchoIn
  <2>5. \E k \in 3 .. Len(ls) : ls[k].kind = "SENT" BY <1>1, <1>2, <1>4
  <2> QED BY <2>4, <2>5 DEF rest
<1> QED BY <1>3, <1>4

\* The kind of a line tells what else it has.
LEMMA Kinds ==
    ASSUME NEW m \in Lines
    PROVE  /\ m.kind = "Loco" => m \in Locos
           /\ m.kind = "WrSlData" => m \in Writes
           /\ m.kind = "SlRdData" => m \in Readings
           /\ m.kind = "LocoAdr" => m \in Requests
           /\ m.kind = "SENT" => m \in Sents
           /\ m \in OwnLines => m.kind \in {"Loco", "WrSlData", "LocoAdr"}
           /\ m # Nothing
  BY DEF Lines, OwnLines, Locos, Writes, Readings, Requests, Sents, LongAck, Nothing

\* One field of a slot is written.
LEMMA Written ==
    ASSUME NEW d \in SlotData, NEW f \in Fields, NEW v \in Values
    PROVE  LET d2 == [d EXCEPT !.data = [d.data EXCEPT ![f] = v]] IN
           /\ d2 \in SlotData /\ d2.adr = d.adr
           /\ \A g \in Fields : d2.data[g] = IF g = f THEN v ELSE d.data[g]
           /\ d2 = [d EXCEPT !.data[f] = v]
  BY DEF SlotData

\* Data of a slot is told from no data.
LEMMA TrackedData == ASSUME NEW d \in SlotData PROVE d # Untracked
<1>1. DOMAIN d = {"adr", "data"} BY DEF SlotData
<1>2. DOMAIN Untracked = {"adr"} BY DEF Untracked
<1>3. "data" \notin {"adr"} OBVIOUS
<1> QED BY <1>1, <1>2, <1>3

\* What a message does at the station is what its line tells.
LEMMA Effect ==
    ASSUME station \in [Slots -> SlotData], NEW m \in OwnLines \cup Readings
    PROVE  /\ After(m) \in [Slots -> SlotData]
           /\ \A s \in Slots, f \in Fields :
                 /\ <<s, f>> \in Changes(m) <=> About(m, s, f)
                 /\ About(m, s, f) => Tells(m, f) = After(m)[s].data[f]
                 /\ ~About(m, s, f) => After(m)[s].data[f] = station[s].data[f]
           /\ \A s \in Slots : /\ AboutSlot(m, s) => m.is.adr = After(m)[s].adr
                               /\ ~AboutSlot(m, s) => After(m)[s].adr = station[s].adr
<1> USE DEF About, AboutSlot, Tells, SlotDataBase
<1>1. CASE m \in Locos
  <2>1. m.kind = "Loco" /\ m.slot \in Slots /\ m.field \in Fields /\ m.value \in Values
    BY <1>1 DEF Locos
  <2>2. After(m) = [station EXCEPT ![m.slot].data[m.field] = m.value]
        /\ Changes(m) = {<<m.slot, m.field>>}
    BY <2>1 DEF After, Changes
  <2> DEFINE d == station[m.slot]
             d2 == [d EXCEPT !.data = [d.data EXCEPT ![m.field] = m.value]]
  <2>3. /\ d2 \in SlotData /\ d2.adr = d.adr
        /\ \A g \in Fields : d2.data[g] = IF g = m.field THEN m.value ELSE d.data[g]
    BY <2>1, Written
  <2>4. After(m) = [station EXCEPT ![m.slot] = d2] BY <2>2
  <2> HIDE DEF d2
  <2>5. After(m) \in [Slots -> SlotData] BY <2>1, <2>3, <2>4
  <2>6. \A s \in Slots : After(m)[s] = IF s = m.slot THEN d2 ELSE station[s] BY <2>4
  <2> QED BY <2>1, <2>2, <2>3, <2>5, <2>6
<1>2. CASE m \in Writes \cup Readings
  <2>1. m.kind \in {"SlRdData", "WrSlData"} /\ m.slot \in Slots /\ m.is \in SlotData
    BY <1>2 DEF Writes, Readings
  <2>2. After(m) = [station EXCEPT ![m.slot] = m.is] /\ Changes(m) = {m.slot} \X Fields
    BY <2>1 DEF After, Changes
  <2>3. \A s \in Slots : After(m)[s] = IF s = m.slot THEN m.is ELSE station[s] BY <2>2
  <2>4. After(m) \in [Slots -> SlotData] BY <2>1, <2>2
  <2> QED BY <2>1, <2>2, <2>3, <2>4
<1>3. CASE m \in Requests
  <2>1. m.kind = "LocoAdr" BY <1>3 DEF Requests
  <2>2. After(m) = station /\ Changes(m) = {} BY <2>1 DEF After, Changes
  <2> QED BY <2>1, <2>2
<1> QED BY <1>1, <1>2, <1>3 DEF OwnLines

----------------------------------------------------------------------------
TypeInv ==
    /\ TypeOK
    /\ lines \in Seq(Lines)
    /\ out \in OwnLines \cup {Nothing}
    /\ waiting \in {"server", "SENT"} => out \in OwnLines

\* The table takes a line over that does not count as its own.
LEMMA OnMessageLearns ==
    ASSUME TypeOK, NEW m \in Lines, NEW origin, origin # "Sent", OnMessage(origin, m)
    PROVE  /\ Learns(bySlot, m, bySlot')
           /\ bySlot' \in [Table -> SlotData \cup {Untracked}]
           /\ byAddress' \in [Addresses -> Table \cup {Nobody}]
           /\ \A a \in Addresses : byAddress'[a] # Nobody => bySlot'[byAddress'[a]] # Untracked
<1> USE DEF AboutSlot, SlotDataBase
<1>0. /\ bySlot \in [Table -> SlotData \cup {Untracked}]
      /\ byAddress \in [Addresses -> Table \cup {Nobody}]
      /\ \A a \in Addresses : byAddress[a] # Nobody => bySlot[byAddress[a]] # Untracked
      /\ Nobody \notin Table
  BY DEF TypeOK, Table, Nobody
<1>1. CASE m.kind \in SlotDataBase /\ m.slot \in Table
  <2>1. m.is \in SlotData /\ m.is.adr \in Addresses /\ m.is # Untracked
    BY <1>1, Kinds, TrackedData DEF Writes, Readings, SlotData
  <2>2. OnSlotMessage(m) BY <1>1 DEF OnMessage
  <2>3. /\ bySlot' = [bySlot EXCEPT ![m.slot] = m.is]
        /\ byAddress' = [byAddress EXCEPT ![m.is.adr] = m.slot] \/ UNCHANGED byAddress
    BY <2>2 DEF OnSlotMessage, Add
  <2>4. Learns(bySlot, m, bySlot') BY <1>0, <1>1, <2>3 DEF Learns
  <2> QED BY <1>0, <1>1, <2>1, <2>3, <2>4
<1>2. CASE m.kind = "Loco" /\ m.slot \in Table
  <2>1. m.field \in Fields /\ m.value \in Values BY <1>2, Kinds DEF Locos
  <2>2. OnLocoMessage(m) BY <1>2 DEF OnMessage
  <2>3. CASE bySlot[m.slot] = Untracked
    <3>1. UNCHANGED <<bySlot, byAddress>> BY <2>2, <2>3 DEF OnLocoMessage
    <3> QED BY <1>0, <1>2, <2>3, <3>1 DEF Learns
  <2>4. CASE bySlot[m.slot] # Untracked
    <3> DEFINE d == bySlot[m.slot]
               d2 == [d EXCEPT !.data = [d.data EXCEPT ![m.field] = m.value]]
    <3>1. bySlot' = [bySlot EXCEPT ![m.slot] = d2] /\ UNCHANGED byAddress
      BY <2>2, <2>4 DEF OnLocoMessage
    <3>2. d \in SlotData BY <1>0, <1>2, <2>4
    <3>3. /\ d2 \in SlotData /\ d2.adr = d.adr
          /\ \A g \in Fields : d2.data[g] = IF g = m.field THEN m.value ELSE d.data[g]
      BY <2>1, <3>2, Written
    <3>4. d2 # Untracked BY <3>3, TrackedData
    <3> HIDE DEF d2
    <3>5. \A s \in Table : bySlot'[s] = IF s = m.slot THEN d2 ELSE bySlot[s] BY <1>0, <3>1
    <3>6. bySlot' \in [Table -> SlotData \cup {Untracked}] BY <1>0, <1>2, <3>1, <3>3
    <3>7. Learns(bySlot, m, bySlot') BY <1>2, <2>4, <3>3, <3>5 DEF Learns
    <3> QED BY <1>0, <3>1, <3>4, <3>5, <3>6, <3>7
  <2> QED BY <2>3, <2>4
<1>3. CASE ~(m.kind \in SlotDataBase \cup {"Loco"} /\ m.slot \in Table)
  <2>1. UNCHANGED <<bySlot, byAddress>> BY <1>3 DEF OnMessage, tableVars
  <2> QED BY <1>0, <1>3, <2>1 DEF Learns
<1> QED BY <1>1, <1>2, <1>3

\* A message of the station or of another device, or one that ThrottleX sends.
LEMMA Messages ==
    ASSUME station \in [Slots -> SlotData]
    PROVE  /\ \A s \in Slots, f \in Fields, v \in Values :
                 /\ Loco(s, f, v) \in Locos
                 /\ LET d == [station[s] EXCEPT !.data[f] = v] IN
                    WrSlData(s, d) \in Writes /\ d.adr = station[s].adr
           /\ \A s \in Slots : SlRdData(s, station[s]) \in Readings
           /\ \A s \in Slots, a \in Addresses :
                 SlRdData(s, [station[s] EXCEPT !.adr = a]) \in Readings
           /\ \A a \in Addresses : LocoAdr(a) \in Requests
           /\ \A b \in BOOLEAN : Sent(b) \in Sents
<1>1. ASSUME NEW s \in Slots, NEW f \in Fields, NEW v \in Values
      PROVE  /\ Loco(s, f, v) \in Locos
             /\ LET d == [station[s] EXCEPT !.data[f] = v] IN
                WrSlData(s, d) \in Writes /\ d.adr = station[s].adr
  <2>1. Loco(s, f, v) \in Locos BY DEF Loco, Locos
  <2> DEFINE d == [station[s] EXCEPT !.data[f] = v]
  <2>2. station[s] \in SlotData OBVIOUS
  <2>3. d \in SlotData /\ d.adr = station[s].adr BY <2>2, Written
  <2> HIDE DEF d
  <2>4. WrSlData(s, d) \in Writes BY <2>3 DEF WrSlData, Writes
  <2> QED BY <2>1, <2>3, <2>4 DEF d
<1>2. \A s \in Slots : SlRdData(s, station[s]) \in Readings BY DEF SlRdData, Readings
<1>3. ASSUME NEW s \in Slots, NEW a \in Addresses
      PROVE  SlRdData(s, [station[s] EXCEPT !.adr = a]) \in Readings
  <2>1. [station[s] EXCEPT !.adr = a] \in SlotData BY DEF SlotData
  <2> QED BY <2>1 DEF SlRdData, Readings
<1>4. \A a \in Addresses : LocoAdr(a) \in Requests BY DEF LocoAdr, Requests
<1>5. \A b \in BOOLEAN : Sent(b) \in Sents BY DEF Sent, Sents
<1> QED BY <1>1, <1>2, <1>3, <1>4, <1>5

\* One or two elements behind a sequence.
LEMMA Behinds ==
    ASSUME NEW S, NEW ls \in Seq(S), NEW a \in S
    PROVE  /\ ls \o <<a>> = Append(ls, a)
           /\ \A b \in S : ls \o <<a, b>> = Append(Append(ls, a), b)
           /\ Append(ls, a) \in Seq(S)
<1>1. Append(ls, a) \in Seq(S) /\ Len(ls) \in Nat BY AppendProperties, LenProperties
<1>3. ls \o <<a>> = Append(ls, a) BY AppendIsConcat
<1>4. ASSUME NEW b \in S PROVE ls \o <<a, b>> = Append(Append(ls, a), b)
  <2> DEFINE ab == ls \o <<a, b>>
             two == Append(Append(ls, a), b)
  <2>1. /\ ab \in Seq(S) /\ two \in Seq(S)
        /\ Len(ab) = Len(ls) + 2 /\ Len(two) = Len(ls) + 2
    BY <1>1
  <2>2. ASSUME NEW i \in 1 .. Len(ls) + 2 PROVE ab[i] = two[i]
    BY <1>1
  <2> HIDE DEF ab, two
  <2>3. \A i \in 1 .. Len(ab) : ab[i] = two[i] BY <2>1, <2>2
  <2>4. ab = two BY <2>1, <2>3, SeqEqual
  <2> QED BY <2>4 DEF ab, two
<1> QED BY <1>1, <1>3, <1>4

\* What is on its way after Serve: nothing but the echo, SENT and the reply are new.
LEMMA Served ==
    ASSUME TypeInv, Serve
    PROVE  \/ \E answer \in {<<>>} \cup {<<m>> : m \in Lines} :
                 /\ answer \in Answer(out)
                 /\ \A m \in Lines : answer = <<m>> =>
                       m.kind # "SENT"
                       /\ \/ m = LongAck
                          \/ /\ out.kind = "LocoAdr"
                             /\ \E s \in Slots : m = SlRdData(s, station[s])
                 /\ LET two == Append(Append(lines, out), Sent(TRUE)) IN
                    \/ answer = <<>> /\ lines' = two
                    \/ \E m \in Lines : answer = <<m>> /\ lines' = Append(two, m)
                 /\ station' = After(out) /\ ours' = ours \cup Changes(out)
           \/ /\ Refuses \/ out \in Requests
              /\ lines' = Append(lines, Sent(FALSE))
              /\ UNCHANGED <<station, ours>>
<1>1. /\ out \in OwnLines /\ lines \in Seq(Lines) /\ station \in [Slots -> SlotData]
      /\ out \in Lines /\ Sent(TRUE) \in Lines /\ LongAck \in Lines /\ Readings \subseteq Lines
  BY Messages DEF TypeInv, TypeOK, Serve, Lines
<1>2. LongAck.kind # "SENT" /\ \A m \in Readings : m.kind # "SENT"
  BY DEF LongAck, Readings
<1>3. CASE \E answer \in Answer(out) :
             /\ lines' = lines \o <<out, Sent(TRUE)>> \o answer
             /\ station' = After(out) /\ ours' = ours \cup Changes(out)
  <2>1. PICK answer \in Answer(out) :
             /\ lines' = lines \o <<out, Sent(TRUE)>> \o answer
             /\ station' = After(out) /\ ours' = ours \cup Changes(out)
    BY <1>3
  <2> DEFINE two == Append(Append(lines, out), Sent(TRUE))
  <2>2. two \in Seq(Lines) /\ lines \o <<out, Sent(TRUE)>> = two
    <3>0. \A b \in Lines : lines \o <<out, b>> = Append(Append(lines, out), b)
      BY <1>1, Behinds
    <3>1. lines \o <<out, Sent(TRUE)>> = two BY <1>1, <3>0
    <3>2. Append(lines, out) \in Seq(Lines) BY <1>1, Behinds
    <3>3. two \in Seq(Lines) BY <1>1, <3>2, AppendProperties
    <3> QED BY <3>1, <3>3
  <2>3. \/ answer = <<>>
        \/ answer = <<LongAck>>
        \/ out.kind = "LocoAdr" /\ \E s \in Slots : answer = <<SlRdData(s, station[s])>>
    BY <1>1, Kinds, <2>1 DEF Answer, OwnLines
  <2> HIDE DEF two
  <2>4. CASE answer = <<>>
    <3>1. lines' = two BY <2>1, <2>2, <2>4, ConcatEmptySeq
    <3>2. \A m \in Lines : answer # <<m>> BY <2>4
    <3>3. lines' = Append(Append(lines, out), Sent(TRUE)) BY <3>1 DEF two
    <3> HIDE DEF two
    <3> QED BY <2>1, <2>4, <3>2, <3>3
  <2>5. ASSUME NEW m \in Lines, answer = <<m>> PROVE lines' = Append(two, m)
    BY <2>1, <2>2, <2>5, Behinds
  <2>6. CASE answer = <<LongAck>>
    <3>1. \A m \in Lines : answer = <<m>> => m = LongAck BY <2>6
    <3>2. lines' = Append(two, LongAck) BY <1>1, <2>5, <2>6
    <3> QED BY <1>1, <1>2, <2>1, <2>6, <3>1, <3>2 DEF two
  <2>7. ASSUME out.kind = "LocoAdr", NEW s \in Slots, answer = <<SlRdData(s, station[s])>>
        PROVE  /\ \A m \in Lines : answer = <<m>> => m = SlRdData(s, station[s])
               /\ SlRdData(s, station[s]) \in Readings
               /\ lines' = Append(two, SlRdData(s, station[s]))
    <3>1. SlRdData(s, station[s]) \in Readings BY <1>1, Messages
    <3>2. \A m \in Lines : answer = <<m>> => m = SlRdData(s, station[s]) BY <2>7
    <3> QED BY <1>1, <2>5, <2>7, <3>1, <3>2
  <2>8. CASE out.kind = "LocoAdr" /\ \E s \in Slots : answer = <<SlRdData(s, station[s])>>
    <3>1. PICK s \in Slots : answer = <<SlRdData(s, station[s])>> BY <2>8
    <3> DEFINE r == SlRdData(s, station[s])
    <3>2. /\ \A m \in Lines : answer = <<m>> => m = r
          /\ r \in Readings /\ lines' = Append(two, r) /\ answer = <<r>>
      BY <2>7, <2>8, <3>1
    <3>3. \A m \in Lines : answer = <<m>> =>
            m.kind # "SENT" /\ \E t \in Slots : m = SlRdData(t, station[t])
      BY <1>2, <3>2
    <3> HIDE DEF r
    <3>4. r \in Lines BY <1>1, <3>2
    <3> QED BY <2>1, <2>8, <3>2, <3>3, <3>4 DEF two
  <2> QED BY <2>3, <2>4, <2>6, <2>8
<1>4. CASE /\ Refuses \/ Answer(out) = {}
           /\ lines' = Append(lines, Sent(FALSE))
           /\ UNCHANGED <<station, ours>>
  <2>1. Answer(out) = {} => out \in Requests
    BY <1>1, Kinds DEF Answer, OwnLines, Locos, Writes, Requests
  <2> QED BY <1>4, <2>1
<1> QED BY <1>3, <1>4 DEF Serve

\* The first state and every step have the types of TypeInv.
LEMMA TypeStart == Init => TypeInv
<1> SUFFICES ASSUME Init PROVE TypeInv OBVIOUS
<1> USE MirrorAssumption DEF Init
<1>1. station \in [Slots -> SlotData] BY DEF SlotData
<1>2. /\ bySlot \in [Table -> SlotData \cup {Untracked}]
      /\ byAddress \in [Addresses -> Table \cup {Nobody}]
      /\ \A a \in Addresses : byAddress[a] = Nobody
  OBVIOUS
<1>3. lines \in Seq(Lines) BY EmptySeq
<1>4. /\ out = Nothing /\ waiting = "no" /\ nextReceiveIsReply \in BOOLEAN
      /\ messages \in 0 .. MaxMessages
  <2>1. messages = 0 /\ MaxMessages \in Nat OBVIOUS
  <2>2. messages \in 0 .. MaxMessages BY <2>1
  <2> QED BY <2>2, Zenon
<1> QED
  <2> USE <1>1, <1>2, <1>3, <1>4
  <2>1. TypeOK BY DEF TypeOK
  <2> QED BY <2>1 DEF TypeInv

\* The send thread's message is one of its own, and changes nothing yet.
LEMMA SendIsOwn ==
    ASSUME TypeInv, Send
    PROVE  \E msg \in OwnLines :
              /\ BlockingSend(msg)
              /\ msg.kind = "WrSlData" => msg.is.adr = station[msg.slot].adr
<1>0. station \in [Slots -> SlotData] BY DEF TypeInv, TypeOK
<1>1. CASE \E s \in Slots, f \in Fields, v \in Values : BlockingSend(Loco(s, f, v))
  <2>1. PICK s \in Slots, f \in Fields, v \in Values : BlockingSend(Loco(s, f, v)) BY <1>1
  <2>2. Loco(s, f, v) \in Locos BY <1>0, Messages
  <2>3. Loco(s, f, v) \in OwnLines /\ Loco(s, f, v).kind # "WrSlData"
    BY <2>2 DEF OwnLines, Locos
  <2> QED BY <2>1, <2>3
<1>2. CASE \E a \in Addresses : BlockingSend(LocoAdr(a))
  <2>1. PICK a \in Addresses : BlockingSend(LocoAdr(a)) BY <1>2
  <2>2. LocoAdr(a) \in Requests BY <1>0, Messages
  <2>3. LocoAdr(a) \in OwnLines /\ LocoAdr(a).kind # "WrSlData"
    BY <2>2 DEF OwnLines, Requests
  <2> QED BY <2>1, <2>3
<1>3. CASE \E s \in Slots, f \in Fields, v \in Values :
              BlockingSend(WrSlData(s, [station[s] EXCEPT !.data[f] = v]))
  <2>1. PICK s \in Slots, f \in Fields, v \in Values :
           BlockingSend(WrSlData(s, [station[s] EXCEPT !.data[f] = v]))
    BY <1>3
  <2> DEFINE d == [station[s] EXCEPT !.data[f] = v]
  <2>2. WrSlData(s, d) \in Writes /\ d.adr = station[s].adr BY <1>0, Messages
  <2> HIDE DEF d
  <2>3. /\ WrSlData(s, d) \in OwnLines
        /\ WrSlData(s, d).is = d /\ WrSlData(s, d).slot = s
    BY <2>2 DEF OwnLines, WrSlData
  <2>4. BlockingSend(WrSlData(s, d)) BY <2>1 DEF d
  <2> QED BY <2>2, <2>3, <2>4
<1> QED BY <1>1, <1>2, <1>3 DEF Send

\* A message of the station or of another device keeps the address of a slot,
\* unless it reads the slot out; then ThrottleX is not just writing into it.
LEMMA OthersSend ==
    ASSUME TypeInv, Operate \/ ReadSlot \/ Assign
    PROVE  \E msg \in Locos \cup Writes \cup Readings :
              /\ OtherSends(msg)
              /\ msg.kind = "WrSlData" => msg.is.adr = station[msg.slot].adr
              /\ waiting = "server" /\ out.kind = "WrSlData" /\ msg.kind # "Loco"
                 /\ msg.slot = out.slot => msg.is.adr = station[msg.slot].adr
<1>0. station \in [Slots -> SlotData] BY DEF TypeInv, TypeOK
<1>1. ASSUME NEW s \in Slots, NEW f \in Fields, NEW v \in Values, OtherSends(Loco(s, f, v))
      PROVE  \E msg \in Locos : OtherSends(msg)
  BY <1>0, <1>1, Messages
<1>2. CASE \E s \in Slots, f \in Fields, v \in Values : OtherSends(Loco(s, f, v))
  <2>1. PICK msg \in Locos : OtherSends(msg) BY <1>1, <1>2
  <2>2. msg.kind = "Loco" BY DEF Locos
  <2> QED BY <2>1, <2>2
<1>3. CASE \E s \in Slots, f \in Fields, v \in Values :
              OtherSends(WrSlData(s, [station[s] EXCEPT !.data[f] = v]))
  <2>1. PICK s \in Slots, f \in Fields, v \in Values :
           OtherSends(WrSlData(s, [station[s] EXCEPT !.data[f] = v]))
    BY <1>3
  <2> DEFINE d == [station[s] EXCEPT !.data[f] = v]
  <2>2. WrSlData(s, d) \in Writes /\ d.adr = station[s].adr BY <1>0, Messages
  <2> HIDE DEF d
  <2>3. WrSlData(s, d).is = d /\ WrSlData(s, d).slot = s BY DEF WrSlData
  <2>4. OtherSends(WrSlData(s, d)) BY <2>1 DEF d
  <2> QED BY <2>2, <2>3, <2>4
<1>4. CASE ReadSlot
  <2>1. PICK s \in Slots : OtherSends(SlRdData(s, station[s])) BY <1>4 DEF ReadSlot
  <2>2. SlRdData(s, station[s]) \in Readings BY <1>0, Messages
  <2>3. LET m == SlRdData(s, station[s]) IN
        m.is = station[s] /\ m.slot = s /\ m.kind = "SlRdData"
    BY DEF SlRdData
  <2> QED BY <2>1, <2>2, <2>3
<1>5. CASE Assign
  <2>1. PICK s \in Slots, a \in Addresses :
           /\ ~(waiting = "server" /\ out.kind = "WrSlData" /\ out.slot = s)
           /\ OtherSends(SlRdData(s, [station[s] EXCEPT !.adr = a]))
    BY <1>5 DEF Assign
  <2> DEFINE d == [station[s] EXCEPT !.adr = a]
  <2>2. SlRdData(s, d) \in Readings BY <1>0, Messages
  <2> HIDE DEF d
  <2>3. SlRdData(s, d).slot = s /\ SlRdData(s, d).kind = "SlRdData" BY DEF SlRdData
  <2>4. OtherSends(SlRdData(s, d)) BY <2>1 DEF d
  <2> QED BY <2>1, <2>2, <2>3, <2>4
<1> QED BY <1>2, <1>3, <1>4, <1>5 DEF Operate

LEMMA TypeStep == TypeInv /\ [Next]_vars => TypeInv'
<1> SUFFICES ASSUME TypeInv, [Next]_vars PROVE TypeInv'
  OBVIOUS
<1>0. /\ lines \in Seq(Lines) /\ station \in [Slots -> SlotData]
      /\ out \in OwnLines \cup {Nothing}
      /\ waiting \in {"no", "server", "SENT", "reply"} /\ nextReceiveIsReply \in BOOLEAN
      /\ messages \in 0 .. MaxMessages /\ MaxMessages \in Nat
      /\ waiting \in {"server", "SENT"} => out \in OwnLines
  BY MirrorAssumption DEF TypeInv, TypeOK
<1>t. UNCHANGED tableVars =>
        /\ bySlot' \in [Table -> SlotData \cup {Untracked}]
        /\ byAddress' \in [Addresses -> Table \cup {Nobody}]
        /\ \A a \in Addresses : byAddress'[a] # Nobody => bySlot'[byAddress'[a]] # Untracked
  BY DEF tableVars, TypeInv, TypeOK
<1>1. CASE OnReceive
  <2>1. lines # <<>> /\ lines' = Tail(lines) /\ UNCHANGED <<station, out, messages>>
    BY <1>1 DEF OnReceive
  <2>2. lines' \in Seq(Lines) /\ Head(lines) \in Lines BY <1>0, <2>1, Taken
  <2>3. PICK origin \in {"Reply", "Sent", "FromNet"} : OnMessage(origin, Head(lines))
    BY <1>1 DEF OnReceive
  <2>4. /\ bySlot' \in [Table -> SlotData \cup {Untracked}]
        /\ byAddress' \in [Addresses -> Table \cup {Nobody}]
        /\ \A a \in Addresses : byAddress'[a] # Nobody => bySlot'[byAddress'[a]] # Untracked
    <3>1. CASE origin = "Sent"
      <4>1. UNCHANGED tableVars BY <2>3, <3>1 DEF OnMessage
      <4> QED BY <1>t, <4>1
    <3>2. CASE origin # "Sent" BY <2>2, <2>3, <3>2, OnMessageLearns DEF TypeInv
    <3> QED BY <3>1, <3>2
  <2>5. /\ waiting' \in {waiting, "no"} /\ nextReceiveIsReply' \in {nextReceiveIsReply, FALSE}
    BY <1>1 DEF OnReceive
  <2> QED BY <1>0, <2>1, <2>2, <2>4, <2>5 DEF TypeInv, TypeOK
<1>2. CASE OnSent
  <2>1. lines # <<>> /\ lines' = Tail(lines) /\ UNCHANGED <<station, tableVars, out, messages>>
        /\ waiting' \in {"reply", "no"} /\ nextReceiveIsReply' = TRUE
    BY <1>2 DEF OnSent
  <2>2. lines' \in Seq(Lines) BY <1>0, <2>1, Taken
  <2> QED BY <1>0, <1>t, <2>1, <2>2 DEF TypeInv, TypeOK
<1>3. CASE Send
  <2>1. PICK msg \in OwnLines : BlockingSend(msg) BY <1>3, SendIsOwn
  <2>2. /\ waiting' = "server" /\ out' = msg /\ nextReceiveIsReply' = FALSE
        /\ UNCHANGED <<station, lines, tableVars>>
        /\ messages < MaxMessages /\ messages' = messages + 1
    BY <2>1 DEF BlockingSend
  <2>3. messages' \in 0 .. MaxMessages BY <1>0, <2>2
  <2> QED BY <1>0, <1>t, <2>2, <2>3 DEF TypeInv, TypeOK
<1>4. CASE Serve
  <2>1. /\ waiting' = "SENT" /\ out \in OwnLines
        /\ UNCHANGED <<tableVars, out, nextReceiveIsReply, messages>>
    BY <1>0, <1>4 DEF Serve
  <2>2. /\ Sent(TRUE) \in Lines /\ Sent(FALSE) \in Lines /\ out \in Lines
    BY <1>0, <2>1, Messages DEF Lines
  <2>3. /\ Append(lines, Sent(FALSE)) \in Seq(Lines)
        /\ Append(Append(lines, out), Sent(TRUE)) \in Seq(Lines)
        /\ \A m \in Lines : Append(Append(Append(lines, out), Sent(TRUE)), m) \in Seq(Lines)
    BY <1>0, <2>2, AppendProperties
  <2>4. lines' \in Seq(Lines) BY <1>4, <2>3, Served
  <2>5. station' \in {station, After(out)} BY <1>4, Served
  <2>6. station' \in [Slots -> SlotData] BY <1>0, <2>1, <2>5, Effect
  <2> QED BY <1>0, <1>t, <2>1, <2>4, <2>6 DEF TypeInv, TypeOK
<1>5. CASE Operate \/ ReadSlot \/ Assign
  <2>1. PICK msg \in Locos \cup Writes \cup Readings : OtherSends(msg) BY <1>5, OthersSend
  <2>2. msg \in Lines /\ msg \in OwnLines \cup Readings BY DEF Lines, OwnLines
  <2>3. /\ lines' = Append(lines, msg) /\ station' = After(msg)
        /\ UNCHANGED <<tableVars, out, waiting, nextReceiveIsReply>>
        /\ messages < MaxMessages /\ messages' = messages + 1
    BY <2>1 DEF OtherSends, clientVars
  <2>4. lines' \in Seq(Lines) /\ station' \in [Slots -> SlotData]
    BY <1>0, <2>2, <2>3, AppendProperties, Effect
  <2>5. messages' \in 0 .. MaxMessages BY <1>0, <2>3
  <2> QED BY <1>0, <1>t, <2>3, <2>4, <2>5 DEF TypeInv, TypeOK
<1>6. CASE UNCHANGED vars
  BY <1>0, <1>t, <1>6 DEF vars, clientVars, TypeInv, TypeOK
<1> QED BY <1>1, <1>2, <1>3, <1>4, <1>5, <1>6 DEF Next

\* Every variable of the mirror keeps its type, whatever ThrottleX, the station and
\* the other devices send, and an address leads to a tracked slot only (Add).
THEOREM MirrorTypes == Spec => []TypeOK
<1>1. TypeInv => TypeOK BY DEF TypeInv
<1> QED BY <1>1, TypeStart, TypeStep, PTL DEF Spec

----------------------------------------------------------------------------
\* What ThrottleX changed last, or changes once its message is served.  With a
\* server that may refuse, no field is sure, but the addresses are.
Excused == IF Refuses THEN Slots \X Fields
           ELSE ours \cup IF waiting = "server" THEN Changes(out) ELSE {}

\* The note of the message sent last stands for an echo that comes: the server
\* has not answered, or it comes before SENT.  A request for an address changes
\* nothing, so its note may stay when the server refuses it.
NoteInv ==
    lastSent # Nothing =>
        /\ lastSent = out /\ out \in OwnLines
        /\ ~Refuses /\ out.kind # "LocoAdr" => waiting = "server" \/ EchoIn(lines, out, ours)

FollowInv ==
    /\ Truthful(lines, station)
    /\ Known(lines, station, bySlot, Excused)
    /\ SentOnce(lines, waiting)
    /\ NoteInv
    /\ waiting \in {"server", "SENT"} => ~nextReceiveIsReply
    /\ waiting = "server" /\ out.kind = "WrSlData" => out.is.adr = station[out.slot].adr

\* SENT is there once: taking a line keeps it so, ...
LEMMA SentTaken ==
    ASSUME NEW ls \in Seq(Lines), ls # <<>>, NEW w, SentOnce(ls, w)
    PROVE  /\ SentOnce(Tail(ls), w)
           /\ Head(ls).kind = "SENT" =>
                 /\ w = "SENT" /\ \A w2 : SentOnce(Tail(ls), w2)
                 /\ \A k \in 2 .. Len(ls) : ls[k].kind # "SENT"
<1> DEFINE rest == Tail(ls)
<1>1. /\ Len(ls) \in Nat \ {0} /\ Len(rest) = Len(ls) - 1 /\ Head(ls) = ls[1]
      /\ \A i \in 1 .. Len(rest) : rest[i] = ls[i + 1]
  BY Taken
<1> HIDE DEF rest
<1>2. /\ 1 \in 1 .. Len(ls) /\ \A k \in 2 .. Len(ls) : k \in 1 .. Len(ls) /\ k # 1
      /\ \A i \in 1 .. Len(rest) : i + 1 \in 2 .. Len(ls) /\ rest[i] = ls[i + 1]
      /\ \A i, j \in 1 .. Len(rest) : i + 1 = j + 1 => i = j
  BY <1>1
<1>3. SentOnce(rest, w) BY <1>2 DEF SentOnce
<1>4. ASSUME Head(ls).kind = "SENT"
      PROVE  /\ w = "SENT" /\ \A w2 : SentOnce(rest, w2)
             /\ \A k \in 2 .. Len(ls) : ls[k].kind # "SENT"
  <2>1. w = "SENT" /\ \A k \in 2 .. Len(ls) : ls[k].kind # "SENT"
    BY <1>1, <1>2, <1>4 DEF SentOnce
  <2>2. \A w2 : SentOnce(rest, w2) BY <1>2, <2>1 DEF SentOnce
  <2> QED BY <2>1, <2>2
<1> QED BY <1>3, <1>4 DEF rest

\* ... and another line behind the others keeps it so.
LEMMA SentBehind ==
    ASSUME NEW ls \in Seq(Lines), NEW m \in Lines, NEW w, SentOnce(ls, w)
    PROVE  /\ m.kind # "SENT" => SentOnce(Append(ls, m), w)
           /\ w # "SENT" => SentOnce(Append(ls, m), "SENT")
                            /\ \A k \in 1 .. Len(ls) : ls[k].kind # "SENT"
<1> DEFINE new == Append(ls, m)
<1>1. /\ Len(ls) \in Nat /\ Len(new) = Len(ls) + 1 /\ new[Len(ls) + 1] = m
      /\ \A i \in 1 .. Len(ls) : new[i] = ls[i]
  BY AppendProperties, LenProperties
<1> HIDE DEF new
<1>2. \A i \in 1 .. Len(new) : i = Len(ls) + 1 \/ (i \in 1 .. Len(ls) /\ new[i] = ls[i])
  BY <1>1
<1>3. ASSUME m.kind # "SENT" PROVE SentOnce(new, w) BY <1>1, <1>2, <1>3 DEF SentOnce
<1>4. ASSUME w # "SENT"
      PROVE  SentOnce(new, "SENT") /\ \A k \in 1 .. Len(ls) : ls[k].kind # "SENT"
  <2>1. \A k \in 1 .. Len(ls) : ls[k].kind # "SENT" BY <1>4 DEF SentOnce
  <2> QED BY <1>1, <1>2, <2>1 DEF SentOnce
<1> QED BY <1>3, <1>4 DEF new

\* Nobody waits for SENT, so no echo comes that was not served.
LEMMA NoEcho ==
    ASSUME NEW ls \in Seq(Lines), NEW w, SentOnce(ls, w), w # "SENT", NEW msg, NEW ex
    PROVE  ~EchoIn(ls, msg, ex)
<1>1. \A i \in 1 .. Len(ls) : \A k \in i + 1 .. Len(ls) : k \in 1 .. Len(ls)
  BY LenProperties
<1>2. \A k \in 1 .. Len(ls) : ls[k].kind # "SENT" BY DEF SentOnce
<1> QED BY <1>1, <1>2 DEF EchoIn

LEMMA FollowStart == Init => FollowInv
<1> SUFFICES ASSUME Init PROVE FollowInv OBVIOUS
<1>1. /\ lines = <<>> /\ Len(lines) = 0 /\ \A i \in 1 .. Len(lines) : FALSE
      /\ \A s \in Table : bySlot[s] = Untracked
  BY EmptySeq DEF Init
<1>2. Truthful(lines, station) BY <1>1 DEF Truthful
<1>3. Known(lines, station, bySlot, Excused) BY <1>1 DEF Known
<1>4. SentOnce(lines, waiting) BY <1>1 DEF SentOnce
<1>5. waiting = "no" /\ lastSent = Nothing BY DEF Init
<1> QED BY <1>2, <1>3, <1>4, <1>5 DEF FollowInv, NoteInv

\* A line is taken over as a reply or as another device's message; or, if it is like
\* the one sent last, it is ignored: then it is the echo or another one follows.
LEMMA FollowReceive == TypeInv /\ FollowInv /\ OnReceive => FollowInv'
<1> SUFFICES ASSUME TypeInv, FollowInv, OnReceive PROVE FollowInv' OBVIOUS
<1> DEFINE m == Head(lines)
<1>1. /\ lines # <<>> /\ lines \in Seq(Lines) /\ m.kind # "SENT" /\ lines' = Tail(lines)
      /\ UNCHANGED <<station, out, ours>> /\ m \in Lines
      /\ station \in [Slots -> SlotData]
  BY Taken DEF OnReceive, TypeInv, TypeOK
<1>2. Truthful(lines', station') BY <1>1, TakenTruthful DEF FollowInv
<1>3. /\ waiting' \in {waiting, "no"} /\ (waiting' # waiting => waiting = "reply")
      /\ waiting \in {"server", "SENT"} => ~nextReceiveIsReply
      /\ nextReceiveIsReply' \in {nextReceiveIsReply, FALSE}
  BY DEF OnReceive, FollowInv
<1>4. Excused' = Excused
  <2>1. waiting' = "server" <=> waiting = "server" BY <1>3
  <2>2. Changes(out)' = Changes(out) BY <1>1 DEF Changes
  <2> QED BY <1>1, <2>1, <2>2 DEF Excused
<1>5. SentOnce(lines', waiting')
  <2>1. SentOnce(lines', waiting) BY <1>1, SentTaken DEF FollowInv
  <2>2. CASE waiting' # waiting
    <3>1. waiting # "SENT" BY <1>3, <2>2
    <3> QED BY <2>1, <3>1 DEF SentOnce
  <2> QED BY <2>1, <2>2
<1>6. ASSUME \E origin \in {"Reply", "FromNet"} : OnMessage(origin, m)
      PROVE  Known(lines', station', bySlot', Excused')
  <2>1. Learns(bySlot, m, bySlot') BY <1>1, <1>6, OnMessageLearns DEF TypeInv
  <2>2. Known(lines', station, bySlot', Excused) BY <1>1, <2>1, Learned DEF FollowInv
  <2> QED BY <1>1, <1>4, <2>2
<1>7. ASSUME ~nextReceiveIsReply, m = lastSent, OnMessage("Sent", m)
      PROVE  Known(lines', station', bySlot', Excused')
  <2>1. UNCHANGED bySlot BY <1>7 DEF OnMessage, tableVars
  <2>2. /\ m # Nothing /\ lastSent = out /\ out \in OwnLines
        /\ ~Refuses /\ out.kind # "LocoAdr" => waiting = "server" \/ EchoIn(lines, out, ours)
        /\ m.kind # "SlRdData"
    BY <1>1, <1>7, Kinds DEF FollowInv, NoteInv
  <2>3. \A s \in Slots, f \in Fields : <<s, f>> \in Changes(out) <=> About(out, s, f)
    BY <1>1, <2>2, Effect
  <2>4. \A s \in Slots, f \in Fields : About(m, s, f) =>
           <<s, f>> \in Excused \/ \E j \in 2 .. Len(lines) : About(lines[j], s, f)
    <3>1. CASE out.kind = "LocoAdr"
      BY <1>7, <2>2, <3>1 DEF About, AboutSlot, SlotDataBase
    <3>2. CASE Refuses \/ waiting = "server" BY <1>7, <2>2, <2>3, <3>2 DEF Excused
    <3>3. CASE ~Refuses /\ out.kind # "LocoAdr" /\ EchoIn(lines, out, ours) /\ waiting # "server"
      <4>1. Excused = ours BY <3>3 DEF Excused
      <4>2. CASE /\ m = out
                 /\ \A s \in Slots, f \in Fields : About(out, s, f) =>
                       <<s, f>> \in ours \/ \E j \in 2 .. Len(lines) : About(lines[j], s, f)
        BY <4>1, <4>2
      <4>3. CASE EchoIn(Tail(lines), out, ours)
        <5>1. PICK i \in 1 .. Len(Tail(lines)) : Tail(lines)[i] = out
          BY <4>3 DEF EchoIn
        <5>2. /\ Len(lines) \in Nat \ {0} /\ Len(Tail(lines)) = Len(lines) - 1
              /\ Tail(lines)[i] = lines[i + 1]
          BY <1>1, <5>1, Taken
        <5>3. i + 1 \in 2 .. Len(lines) /\ lines[i + 1] = m BY <1>7, <2>2, <5>1, <5>2
        <5> QED BY <5>3
      <4> QED BY <1>1, <3>3, <4>2, <4>3, EchoTaken
    <3> QED BY <2>2, <3>1, <3>2, <3>3
  <2>5. Known(lines', station, bySlot, Excused) BY <1>1, <2>2, <2>4, Ignored DEF FollowInv
  <2> QED BY <1>1, <1>4, <2>1, <2>5
<1>8. Known(lines', station', bySlot', Excused') BY <1>6, <1>7 DEF OnReceive
<1>9. NoteInv'
  <2> SUFFICES ASSUME lastSent' # Nothing
               PROVE  /\ lastSent' = out' /\ out' \in OwnLines
                      /\ ~Refuses /\ out'.kind # "LocoAdr" =>
                            waiting' = "server" \/ EchoIn(lines', out', ours')
    BY DEF NoteInv
  <2>1. lastSent' = lastSent /\ (nextReceiveIsReply \/ m # lastSent)
    BY DEF OnReceive
  <2>2. /\ lastSent = out /\ out \in OwnLines
        /\ ~Refuses /\ out.kind # "LocoAdr" => waiting = "server" \/ EchoIn(lines, out, ours)
    BY <2>1 DEF FollowInv, NoteInv
  <2>3. ASSUME ~Refuses, out.kind # "LocoAdr", waiting # "server"
        PROVE  EchoIn(lines', out, ours)
    <3>1. waiting = "SENT" BY <1>1, <2>2, <2>3, NoEcho DEF FollowInv
    <3>2. m # out BY <1>3, <2>1, <2>2, <3>1
    <3> QED BY <1>1, <2>2, <2>3, <3>2, EchoTaken
  <2> QED BY <1>1, <1>3, <2>1, <2>2, <2>3
<1>10. /\ waiting' \in {"server", "SENT"} => ~nextReceiveIsReply'
       /\ waiting' = "server" /\ out'.kind = "WrSlData" => out'.is.adr = station'[out'.slot].adr
  <2>1. waiting = "server" /\ out.kind = "WrSlData" => out.is.adr = station[out.slot].adr
    BY DEF FollowInv
  <2>2. waiting' \in {"server", "SENT"} => ~nextReceiveIsReply' BY <1>3
  <2> QED BY <1>1, <1>3, <2>1, <2>2
<1> QED BY <1>2, <1>5, <1>8, <1>9, <1>10 DEF FollowInv

\* SENT tells nothing; with it the note of the message is gone, as its echo came before.
LEMMA FollowSent == TypeInv /\ FollowInv /\ OnSent => FollowInv'
<1> SUFFICES ASSUME TypeInv, FollowInv, OnSent PROVE FollowInv' OBVIOUS
<1> DEFINE m == Head(lines)
<1>1. /\ lines # <<>> /\ lines \in Seq(Lines) /\ m.kind = "SENT" /\ lines' = Tail(lines)
      /\ UNCHANGED <<station, bySlot, out, ours, lastSent>> /\ m \in Lines
      /\ waiting' \in {"reply", "no"}
  BY Taken DEF OnSent, TypeInv, tableVars
<1>2. Truthful(lines', station') BY <1>1, TakenTruthful DEF FollowInv
<1>3. /\ SentOnce(lines', waiting') /\ waiting = "SENT"
      /\ \A k \in 2 .. Len(lines) : lines[k].kind # "SENT"
  BY <1>1, SentTaken DEF FollowInv
<1>4. Excused' = Excused BY <1>1, <1>3 DEF Excused
<1>5. \A s \in Slots, f \in Fields : ~About(m, s, f)
  BY <1>1 DEF About, AboutSlot, SlotDataBase
<1>6. Known(lines', station, bySlot, Excused) BY <1>1, <1>5, Ignored DEF FollowInv
<1>7. NoteInv'
  <2>1. ASSUME lastSent # Nothing, ~Refuses, out.kind # "LocoAdr" PROVE FALSE
    <3>1. EchoIn(lines, out, ours) /\ out \in OwnLines
      BY <1>3, <2>1 DEF FollowInv, NoteInv
    <3>2. m # out BY <1>1, <3>1, Kinds DEF Lines
    <3>3. \E k \in 3 .. Len(lines) : lines[k].kind = "SENT" BY <1>1, <3>1, <3>2, EchoTaken
    <3>4. \A k \in 3 .. Len(lines) : k \in 2 .. Len(lines) BY <1>1, Taken
    <3> QED BY <1>3, <3>3, <3>4
  <2> QED BY <1>1, <2>1 DEF FollowInv, NoteInv
<1> QED BY <1>1, <1>2, <1>3, <1>4, <1>6, <1>7 DEF FollowInv

\* What is going to be sent is noted, and what it changes is excused.
LEMMA FollowSend == TypeInv /\ FollowInv /\ Send => FollowInv'
<1> SUFFICES ASSUME TypeInv, FollowInv, Send PROVE FollowInv' OBVIOUS
<1>1. PICK msg \in OwnLines :
         /\ BlockingSend(msg)
         /\ msg.kind = "WrSlData" => msg.is.adr = station[msg.slot].adr
  BY SendIsOwn
<1>2. /\ waiting = "no" /\ waiting' = "server" /\ nextReceiveIsReply' = FALSE
      /\ lastSent' = msg /\ out' = msg /\ UNCHANGED <<station, lines, bySlot, ours>>
  BY <1>1 DEF BlockingSend, tableVars
<1>3. SentOnce(lines', waiting') BY <1>2 DEF FollowInv, SentOnce
<1>4. Excused \subseteq Excused' BY <1>2 DEF Excused
<1>5. Known(lines', station', bySlot', Excused')
  <2>1. Known(lines, station, bySlot, Excused) BY DEF FollowInv
  <2>2. Known(lines, station, bySlot, Excused') BY <1>4, <2>1 DEF Known
  <2> QED BY <1>2, <2>2
<1> QED BY <1>1, <1>2, <1>3, <1>5 DEF FollowInv, NoteInv

\* A line is added that tells what it changes at the station, and keeps the
\* address unless it reads the slot out.
LEMMA Told ==
    ASSUME TypeInv, NEW m \in OwnLines \cup Readings, NEW ex,
           m.kind = "WrSlData" => m.is.adr = station[m.slot].adr,
           NEW ex2, ex \ Changes(m) \subseteq ex2
    PROVE  LET new == Append(lines, m) IN
           /\ new \in Seq(Lines)
           /\ Truthful(lines, station) => Truthful(new, After(m))
           /\ \A table : Known(lines, station, table, ex) => Known(new, After(m), table, ex2)
           /\ \A msg : EchoIn(lines, msg, ex) => EchoIn(new, msg, ex2)
<1>1. station \in [Slots -> SlotData] /\ lines \in Seq(Lines) /\ m \in Lines
  BY DEF TypeInv, TypeOK, Lines
<1>2. \A s \in Slots, f \in Fields :
         /\ About(m, s, f) => Tells(m, f) = After(m)[s].data[f]
         /\ ~About(m, s, f) => After(m)[s].data[f] = station[s].data[f]
                               /\ (<<s, f>> \in ex => <<s, f>> \in ex2)
  BY <1>1, Effect
<1>3. \A s \in Slots : /\ AboutSlot(m, s) => m.is.adr = After(m)[s].adr
                       /\ ~Reads(m, s) => After(m)[s].adr = station[s].adr
  <2> SUFFICES ASSUME NEW s \in Slots
               PROVE  /\ AboutSlot(m, s) => m.is.adr = After(m)[s].adr
                      /\ ~Reads(m, s) => After(m)[s].adr = station[s].adr
    OBVIOUS
  <2>1. /\ AboutSlot(m, s) => m.is.adr = After(m)[s].adr
        /\ ~AboutSlot(m, s) => After(m)[s].adr = station[s].adr
    BY <1>1, Effect
  <2>2. AboutSlot(m, s) /\ ~Reads(m, s) => m.kind = "WrSlData" /\ m.slot = s
    BY DEF AboutSlot, Reads, SlotDataBase
  <2> QED BY <2>1, <2>2
<1> DEFINE new == Append(lines, m)
<1>4. new \in Seq(Lines) BY <1>1, AppendProperties
<1>5. Truthful(lines, station) => Truthful(new, After(m))
  BY <1>1, <1>2, <1>3, Behind
<1>6. \A table : Known(lines, station, table, ex) => Known(new, After(m), table, ex2)
  BY <1>1, <1>2, <1>3, Behind
<1>7. \A msg : EchoIn(lines, msg, ex) => EchoIn(new, msg, ex2)
  BY <1>1, <1>2, BehindEcho
<1> QED BY <1>4, <1>5, <1>6, <1>7

\* The line of another device tells what it changes, which ThrottleX has then not changed last.
LEMMA FollowOthers ==
    TypeInv /\ FollowInv /\ (Operate \/ ReadSlot \/ Assign) => FollowInv'
<1> SUFFICES ASSUME TypeInv, FollowInv, Operate \/ ReadSlot \/ Assign PROVE FollowInv'
  OBVIOUS
<1>1. PICK m \in Locos \cup Writes \cup Readings :
         /\ OtherSends(m)
         /\ m.kind = "WrSlData" => m.is.adr = station[m.slot].adr
         /\ waiting = "server" /\ out.kind = "WrSlData" /\ m.kind # "Loco"
            /\ m.slot = out.slot => m.is.adr = station[m.slot].adr
  BY OthersSend
<1>2. /\ lines' = Append(lines, m) /\ station' = After(m) /\ ours' = ours \ Changes(m)
      /\ UNCHANGED <<bySlot, out, waiting, lastSent, nextReceiveIsReply>>
  BY <1>1 DEF OtherSends, tableVars, clientVars
<1>3. m \in Lines /\ m \in OwnLines \cup Readings /\ m.kind # "SENT"
  BY DEF Lines, OwnLines, Locos, Writes, Readings
<1>4. Excused \ Changes(m) \subseteq Excused' /\ ours \ Changes(m) \subseteq ours'
  <2>1. Changes(out)' = Changes(out) BY <1>2 DEF Changes
  <2> QED BY <1>2, <2>1 DEF Excused
<1>5. /\ Truthful(lines', station') /\ Known(lines', station', bySlot', Excused')
  BY <1>1, <1>2, <1>3, <1>4, Told DEF FollowInv
<1>6. \A msg : EchoIn(lines, msg, ours) => EchoIn(lines', msg, ours')
  BY <1>1, <1>2, <1>3, <1>4, Told
<1>7. SentOnce(lines', waiting') BY <1>2, <1>3, SentBehind DEF FollowInv, TypeInv
<1>8. NoteInv' BY <1>2, <1>6 DEF FollowInv, NoteInv
<1>9. ASSUME waiting = "server", out.kind = "WrSlData"
      PROVE  out.is.adr = station'[out.slot].adr
  <2>1. station \in [Slots -> SlotData] /\ out \in OwnLines /\ out \in Lines
    BY <1>9 DEF TypeInv, TypeOK, Lines
  <2>2. out.slot \in Slots /\ out.is.adr = station[out.slot].adr
    BY <1>9, <2>1, Kinds DEF Writes, FollowInv
  <2>3. CASE AboutSlot(m, out.slot)
    <3>1. m.slot = out.slot /\ m.kind # "Loco" BY <2>3 DEF AboutSlot, SlotDataBase
    <3>2. m.is.adr = station'[out.slot].adr BY <1>2, <1>3, <2>1, <2>2, <2>3, Effect
    <3> QED BY <1>1, <1>9, <2>2, <3>1, <3>2
  <2>4. CASE ~AboutSlot(m, out.slot)
    BY <1>2, <1>3, <2>1, <2>2, <2>4, Effect
  <2> QED BY <2>3, <2>4
<1> QED BY <1>2, <1>5, <1>7, <1>8, <1>9 DEF FollowInv

\* SENT or a long acknowledge tells nothing of a slot.
LEMMA Silent ==
    ASSUME NEW ls \in Seq(Lines), NEW m \in Sents \cup {LongAck}, NEW st, NEW ex
    PROVE  LET new == Append(ls, m) IN
           /\ new \in Seq(Lines)
           /\ Truthful(ls, st) => Truthful(new, st)
           /\ \A table : Known(ls, st, table, ex) => Known(new, st, table, ex)
           /\ \A msg : EchoIn(ls, msg, ex) => EchoIn(new, msg, ex)
<1>1. m \in Lines /\ \A s \in Slots, f \in Fields : ~About(m, s, f)
  BY DEF Lines, Sents, LongAck, About, AboutSlot, Reads, SlotDataBase
<1>2. \A s \in Slots : ~AboutSlot(m, s) /\ ~Reads(m, s)
  BY DEF Sents, LongAck, AboutSlot, Reads, SlotDataBase
<1>3. Append(ls, m) \in Seq(Lines) BY <1>1, AppendProperties
<1>4. Truthful(ls, st) => Truthful(Append(ls, m), st) BY <1>1, <1>2, Behind
<1>5. \A table : Known(ls, st, table, ex) => Known(Append(ls, m), st, table, ex)
  BY <1>1, <1>2, Behind
<1>6. \A msg : EchoIn(ls, msg, ex) => EchoIn(Append(ls, m), msg, ex)
  BY <1>1, BehindEcho
<1> QED BY <1>3, <1>4, <1>5, <1>6

\* A line that reads a slot out as the station has it.
LEMMA ReadOut ==
    ASSUME station \in [Slots -> SlotData], NEW ls \in Seq(Lines), NEW s \in Slots, NEW ex
    PROVE  LET new == Append(ls, SlRdData(s, station[s])) IN
           /\ new \in Seq(Lines)
           /\ Truthful(ls, station) => Truthful(new, station)
           /\ \A table : Known(ls, station, table, ex) => Known(new, station, table, ex)
<1> DEFINE m == SlRdData(s, station[s])
<1>1. /\ m \in Readings /\ m \in Lines /\ m.kind = "SlRdData" /\ m.slot = s
      /\ m.is = station[s]
  <2>1. m \in Readings BY Messages
  <2> QED BY <2>1 DEF Lines, SlRdData
<1> HIDE DEF m
<1>2. \A t \in Slots, f \in Fields : About(m, t, f) => Tells(m, f) = station[t].data[f]
  BY <1>1 DEF About, AboutSlot, Tells
<1>3. \A t \in Slots : AboutSlot(m, t) => m.is.adr = station[t].adr
  BY <1>1 DEF AboutSlot
<1>4. Append(ls, m) \in Seq(Lines) BY <1>1, AppendProperties
<1> DEFINE st == station
<1>5. /\ \A t \in Slots, f \in Fields :
            /\ About(m, t, f) => Tells(m, f) = st[t].data[f]
            /\ ~About(m, t, f) => st[t].data[f] = st[t].data[f]
                                  /\ (<<t, f>> \in ex => <<t, f>> \in ex)
      /\ \A t \in Slots : /\ AboutSlot(m, t) => m.is.adr = st[t].adr
                          /\ ~Reads(m, t) => st[t].adr = st[t].adr
  BY <1>2, <1>3
<1>6. /\ Truthful(ls, station) => Truthful(Append(ls, m), station)
      /\ \A table : Known(ls, station, table, ex) => Known(Append(ls, m), station, table, ex)
  BY <1>1, <1>5, Behind
<1> QED BY <1>4, <1>6 DEF m

\* SENT behind the echo.
LEMMA EchoBehind ==
    ASSUME NEW ls \in Seq(Lines), NEW msg \in Lines, NEW sent \in Lines,
           sent.kind = "SENT", NEW ex,
           \A s \in Slots, f \in Fields : About(msg, s, f) => <<s, f>> \in ex
    PROVE  EchoIn(Append(Append(ls, msg), sent), msg, ex)
<1> DEFINE one == Append(ls, msg)
           new == Append(one, sent)
           n == Len(ls)
<1>1. /\ n \in Nat /\ one \in Seq(Lines) /\ Len(one) = n + 1 /\ one[n + 1] = msg
  BY AppendProperties, LenProperties
<1> HIDE DEF one, n
<1>2. /\ Len(new) = n + 2 /\ new[n + 2] = sent /\ new[n + 1] = msg
  BY <1>1, AppendProperties
<1> HIDE DEF new
<1>3. n + 1 \in 1 .. Len(new) /\ n + 2 \in (n + 1) + 1 .. Len(new) BY <1>1, <1>2
<1>4. EchoIn(new, msg, ex) BY <1>2, <1>3 DEF EchoIn
<1> QED BY <1>4 DEF new, one

\* Echo and SENT are on their way, and a reply that tells nothing but the truth.
LEMMA FollowServe == TypeInv /\ FollowInv /\ Serve => FollowInv'
<1> SUFFICES ASSUME TypeInv, FollowInv, Serve PROVE FollowInv' OBVIOUS
<1>1. /\ waiting = "server" /\ waiting' = "SENT" /\ out \in OwnLines /\ out \in Lines
      /\ UNCHANGED <<bySlot, out, lastSent, nextReceiveIsReply>> /\ ~nextReceiveIsReply
      /\ lines \in Seq(Lines) /\ station \in [Slots -> SlotData]
  BY DEF Serve, TypeInv, TypeOK, FollowInv, tableVars, Lines
<1>2. /\ Refuses => Excused' = Excused
      /\ ~Refuses => Excused = ours \cup Changes(out) /\ Excused' = ours'
  <2>1. CASE Refuses BY <2>1 DEF Excused
  <2>2. CASE ~Refuses BY <1>1, <2>2 DEF Excused
  <2> QED BY <2>1, <2>2
<1>3. /\ Sent(TRUE) \in Sents /\ Sent(FALSE) \in Sents /\ Sents \subseteq Lines
      /\ Sent(TRUE).kind = "SENT"
  BY <1>1, Messages DEF Lines, Sent
<1>4. lastSent # Nothing => lastSent = out BY DEF FollowInv, NoteInv
<1>5. CASE /\ Refuses \/ out \in Requests
           /\ lines' = Append(lines, Sent(FALSE))
           /\ UNCHANGED <<station, ours>>
  <2>1. Refuses \/ (out.kind = "LocoAdr" /\ Changes(out) = {})
    BY <1>5 DEF Requests, Changes
  <2>2. Known(lines, station, bySlot, Excused')
    <3>1. Known(lines, station, bySlot, Excused) BY DEF FollowInv
    <3>2. Refuses => Excused' = Excused BY <1>2
    <3>3. ~Refuses => Excused' = Excused BY <1>2, <1>5, <2>1
    <3> QED BY <3>1, <3>2, <3>3
  <2>3. Truthful(lines', station') /\ Known(lines', station', bySlot', Excused')
    BY <1>1, <1>3, <1>5, <2>2, Silent DEF FollowInv
  <2>4. SentOnce(lines', waiting')
    <3>1. SentOnce(lines, "server") /\ Sent(FALSE) \in Lines BY <1>1, <1>3 DEF FollowInv
    <3>2. SentOnce(Append(lines, Sent(FALSE)), "SENT")
      <4> DEFINE m == Sent(FALSE)
      <4>1. m \in Lines /\ lines \in Seq(Lines) BY <1>1, <3>1
      <4> HIDE DEF m
      <4>2. SentOnce(Append(lines, m), "SENT") BY <3>1, <4>1, SentBehind
      <4> QED BY <4>2 DEF m
    <3> QED BY <1>1, <1>5, <3>2
  <2>5. NoteInv' BY <1>1, <1>4, <2>1 DEF NoteInv
  <2> QED BY <1>1, <2>3, <2>4, <2>5 DEF FollowInv
<1>6. CASE /\ station' = After(out) /\ ours' = ours \cup Changes(out)
           /\ LET two == Append(Append(lines, out), Sent(TRUE)) IN
              \/ lines' = two
              \/ \E m \in Lines : /\ lines' = Append(two, m) /\ m.kind # "SENT"
                                  /\ \/ m = LongAck
                                     \/ /\ out.kind = "LocoAdr"
                                        /\ \E s \in Slots : m = SlRdData(s, station[s])
  <2> DEFINE one == Append(lines, out)
             two == Append(one, Sent(TRUE))
  <2>1. /\ one \in Seq(Lines) /\ Truthful(one, After(out))
        /\ Known(one, After(out), bySlot, Excused')
    <3>1. Excused \ Changes(out) \subseteq Excused' BY <1>2, <1>6
    <3>2. out.kind = "WrSlData" => out.is.adr = station[out.slot].adr BY <1>1 DEF FollowInv
    <3> QED BY <1>1, <3>1, <3>2, Told DEF FollowInv
  <2>2. SentOnce(one, "server")
    <3>1. out.kind # "SENT" BY <1>1, Kinds
    <3> QED BY <1>1, <3>1, SentBehind DEF FollowInv
  <2> HIDE DEF one
  <2>3. /\ two \in Seq(Lines) /\ Truthful(two, After(out))
        /\ Known(two, After(out), bySlot, Excused')
    BY <1>3, <2>1, Silent
  <2>4. SentOnce(two, "SENT") BY <1>3, <2>1, <2>2, SentBehind
  <2>5. EchoIn(two, out, ours')
    <3>1. \A s \in Slots, f \in Fields : About(out, s, f) => <<s, f>> \in ours'
      BY <1>1, <1>6, Effect
    <3> QED BY <1>1, <1>3, <3>1, EchoBehind DEF one
  <2>6. /\ Truthful(lines', After(out)) /\ Known(lines', After(out), bySlot, Excused')
        /\ SentOnce(lines', "SENT")
        /\ out.kind # "LocoAdr" => EchoIn(lines', out, ours')
    <3> HIDE DEF two
    <3>1. CASE lines' = two BY <2>3, <2>4, <2>5, <3>1
    <3>2. ASSUME NEW m \in Lines, lines' = Append(two, m), m.kind # "SENT",
                 \/ m = LongAck
                 \/ out.kind = "LocoAdr" /\ \E s \in Slots : m = SlRdData(s, station[s])
          PROVE  /\ Truthful(lines', After(out)) /\ Known(lines', After(out), bySlot, Excused')
                 /\ SentOnce(lines', "SENT")
                 /\ out.kind # "LocoAdr" => EchoIn(lines', out, ours')
      <4>1. SentOnce(lines', "SENT") BY <2>3, <2>4, <3>2, SentBehind
      <4>2. CASE m = LongAck
        <5>1. m \in Sents \cup {LongAck} BY <4>2
        <5>2. Truthful(lines', After(out)) /\ Known(lines', After(out), bySlot, Excused')
          BY <2>3, <3>2, <5>1, Silent
        <5>3. EchoIn(lines', out, ours') BY <2>3, <2>5, <3>2, <5>1, Silent
        <5> QED BY <4>1, <5>2, <5>3
      <4>3. CASE out.kind = "LocoAdr" /\ \E s \in Slots : m = SlRdData(s, station[s])
        <5>1. After(out) = station BY <4>3 DEF After
        <5>2. PICK s \in Slots : m = SlRdData(s, station[s]) BY <4>3
        <5>3. Truthful(lines', station) /\ Known(lines', station, bySlot, Excused')
          BY <1>1, <2>3, <3>2, <5>1, <5>2, ReadOut
        <5> QED BY <4>1, <4>3, <5>1, <5>3
      <4> QED BY <3>2, <4>2, <4>3
    <3>3. lines' = two
          \/ \E m \in Lines : /\ lines' = Append(two, m) /\ m.kind # "SENT"
                              /\ \/ m = LongAck
                                 \/ /\ out.kind = "LocoAdr"
                                    /\ \E s \in Slots : m = SlRdData(s, station[s])
      BY <1>6 DEF one, two
    <3> QED BY <3>1, <3>2, <3>3
  <2>7. NoteInv' BY <1>1, <1>4, <2>6 DEF NoteInv
  <2> QED BY <1>1, <1>2, <1>6, <2>6, <2>7 DEF FollowInv
<1> QED BY <1>5, <1>6, Served

\* Every step keeps the invariant.
LEMMA FollowStep == TypeInv /\ FollowInv /\ [Next]_vars => FollowInv'
<1> SUFFICES ASSUME TypeInv, FollowInv, [Next]_vars PROVE FollowInv' OBVIOUS
<1>1. CASE UNCHANGED vars
  <2>1. UNCHANGED <<station, lines, bySlot, out, waiting, lastSent, nextReceiveIsReply, ours>>
    BY <1>1 DEF vars, tableVars, clientVars
  <2>2. Excused' = Excused BY <2>1 DEF Excused, Changes
  <2> QED BY <2>1, <2>2 DEF FollowInv, NoteInv
<1> QED BY <1>1, FollowReceive, FollowSent, FollowSend, FollowServe, FollowOthers DEF Next

LEMMA FollowInductive == Spec => [](TypeInv /\ FollowInv)
<1>1. Init => TypeInv /\ FollowInv BY TypeStart, FollowStart
<1>2. TypeInv /\ FollowInv /\ [Next]_vars => TypeInv' /\ FollowInv' BY TypeStep, FollowStep
<1> QED BY <1>1, <1>2, PTL DEF Spec

\* Nothing is on its way, so the table has it.
LEMMA HeardKnown ==
    ASSUME FollowInv, Heard, NEW s \in Table, bySlot[s] # Untracked
    PROVE  /\ bySlot[s].adr = station[s].adr
           /\ ~Refuses => \A f \in Fields :
                 <<s, f>> \notin ours => bySlot[s].data[f] = station[s].data[f]
<1>1. lines = <<>> /\ waiting = "no" BY DEF Heard
<1>2. Len(lines) = 0 BY <1>1, EmptySeq
<1>3. \A j \in 1 .. Len(lines) : FALSE BY <1>2
<1>4. ~Refuses => Excused = ours BY <1>1 DEF Excused
<1> QED BY <1>3, <1>4 DEF FollowInv, Known

\* Once everything was heard, the table has the address of a tracked slot and all
\* that others changed last, however the lines of the threads and of the devices
\* interleave, and whichever messages count as replies or as ThrottleX's own; as
\* long as the server refuses nothing: then the note of what was sent stays.
THEOREM OthersFollowed == ASSUME ~Refuses PROVE Spec => []FollowsOthers
<1>1. FollowInv => FollowsOthers BY HeardKnown DEF FollowsOthers
<1> QED BY <1>1, FollowInductive, PTL

\* The address of a tracked slot is right even if the server refuses messages: only a
\* reading of the slot changes it, and no reading is like a message that was sent.
THEOREM AddressesFollowed ==
    Spec => [](Heard => \A s \in Table :
                           bySlot[s] # Untracked => bySlot[s].adr = station[s].adr)
<1>1. FollowInv => (Heard => \A s \in Table :
                              bySlot[s] # Untracked => bySlot[s].adr = station[s].adr)
  BY HeardKnown
<1> QED BY <1>1, FollowInductive, PTL
=============================================================================
