------------------------ MODULE RequestHandler_shows ------------------------
(***************************************************************************)
(* What a subscription of a turn that nobody cancels is shown, for every   *)
(* number of requests, every executor and every capacity of the channel:   *)
(* whoever waited for the turn is past no event it was not shown, and      *)
(* whoever reaches the end of the stream without a terminal event or an    *)
(* error has been shown the state the turn left the task in.               *)
(***************************************************************************)
EXTENDS RequestHandler_agrees

(* The number of the last event handed to the channel: one that publish    *)
(* has numbered and not sent yet is not there.                             *)
LastSent(x, d) == IF d.pc = "send" THEN x.sequence - 1 ELSE x.sequence

ShowsState(e) == e.kind \in {"task", "status"}

(* Nobody but its drive publishes to the execution x.                      *)
Numbers(x, d) ==
  /\ d.pc = "send" => d.sequence = x.sequence /\ x.sequence >= 1
  /\ \A j \in 1 .. Len(x.sent) : x.sent[j].sequence \in 1 .. LastSent(x, d)

(* The drive's copy of the task is the execution's, but for the item it    *)
(* has in hand, until an error ends the turn.                              *)
Carries(x, d) ==
  /\ d.pc \in {"pull", "save", "create"} => d.cur.state = x.snapshot.state
  /\ d.pc \in {"push", "number"} /\ d.item.kind # "error" =>
       d.cur.state = IF ShowsState(d.item) THEN d.item.state ELSE x.snapshot.state
  /\ d.pc = "send" /\ d.item.kind # "error" =>
       /\ d.cur.state = x.snapshot.state
       /\ ShowsState(d.item) => d.item.state = x.snapshot.state

(* The receiver st has every event from its position on, one number after  *)
(* the other up to the last one sent.                                      *)
Follows(x, d, st) ==
  /\ st.pos <= Len(x.sent) /\ st.min <= x.sequence
  /\ \A j \in st.pos + 1 .. Len(x.sent) :
       x.sent[j].sequence + (Len(x.sent) - j) = LastSent(x, d)

(* The subscription opens, or opened, with the execution's first task: it  *)
(* was shown all it is past, y, and min is the number it is at.            *)
FromTheStart(st, y) == st.min = 0 \/ \E k \in 1 .. Len(y) : y[k].sequence = 0

Whole(x, d, st, y) ==
  FromTheStart(st, y) =>
    /\ \A k \in 1 .. st.pos : \E j \in 1 .. Len(y) : y[j] = x.sent[k]
    /\ st.done \/ st.min = LastSent(x, d) - (Len(x.sent) - st.pos)

(* The events in the channel that the subscription is going to yield.      *)
Due(x, st) == {j \in st.pos + 1 .. Len(x.sent) : x.sent[j].sequence > st.min}

(* The last state that y shows.                                            *)
ShownLast(y, s) ==
  \E k \in 1 .. Len(y) :
    /\ ShowsState(y[k].event) /\ y[k].event.state = s
    /\ \A j \in 1 .. Len(y) : ShowsState(y[j].event) => j <= k

(* An error is going to end the stream.                                    *)
Fails(x, d, st) ==
  \/ \E j \in Due(x, st) : x.sent[j].event.kind = "error"
  \/ d.pc = "send" /\ d.sequence > st.min /\ d.item.kind = "error"

(* The execution's state is the last one shown, or about to be shown by    *)
(* the event publish has in hand, by the last event due that shows any, or *)
(* by the snapshot.                                                        *)
Shows(x, d, st, y) ==
  \/ st.done
  \/ Fails(x, d, st)
  \/ d.pc = "send" /\ d.sequence > st.min /\ ShowsState(d.item)
  \/ \E j \in Due(x, st) :
       /\ ShowsState(x.sent[j].event) /\ x.sent[j].event.state = x.snapshot.state
       /\ \A i \in Due(x, st) : ShowsState(x.sent[i].event) => i <= j
  \/ /\ \A i \in Due(x, st) : ~ShowsState(x.sent[i].event)
     /\ IF st.snapshot # NoTask THEN st.snapshot.state = x.snapshot.state
                                ELSE ShownLast(y, x.snapshot.state)

(* The subscription u to the turn of s.                                    *)
Listens(u, s) ==
  /\ send[s].pc = "registered" \/ drive[s].pc # "off"
  /\ Follows(exec[s], drive[s], stream[u].sub)
  /\ sub[u].pc # "attaching" =>
       /\ Whole(exec[s], drive[s], stream[u].sub, seen[u])
       /\ Shows(exec[s], drive[s], stream[u].sub, seen[u])

Turns ==
  /\ \A s \in Sends : Numbers(exec[s], drive[s]) /\ Carries(exec[s], drive[s])
  /\ \A u \in Subs : stream[u].src \in Sends \union {None}
  /\ \A u \in Subs, s \in Sends : stream[u].src = s => Listens(u, s)

-----------------------------------------------------------------------------
(* A drive's step that publishes nothing.                                  *)
LEMMA QuietDrive ==
  ASSUME NEW x, NEW d, NEW e, d.pc # "send", e.pc # "send"
  PROVE  /\ Numbers(x, d) => Numbers(x, e)
         /\ \A st : Follows(x, d, st) => Follows(x, e, st)
         /\ \A st, y : Whole(x, d, st, y) => Whole(x, e, st, y)
         /\ \A st, y : Shows(x, d, st, y) => Shows(x, e, st, y)
<1>1. LastSent(x, d) = LastSent(x, e)
  BY DEF LastSent
<1>2. QED
  BY <1>1 DEF Numbers, Follows, Whole, Shows, Fails

(* publish numbers the event d holds, and the task it leaves becomes the   *)
(* snapshot: the event is about to be shown to whoever is not past it.     *)
LEMMA NumberShows ==
  ASSUME NEW x \in Exec, NEW d, NEW e, NEW z \in Exec, Numbers(x, d),
         d.pc # "send", e.pc = "send", e.sequence = x.sequence + 1,
         z.sent = x.sent, z.sequence = x.sequence + 1,
         e.item.kind = "error" \/ ShowsState(e.item)
           \/ z.snapshot.state = x.snapshot.state
  PROVE  /\ Numbers(z, e)
         /\ \A st \in Receiver : Follows(x, d, st) => Follows(z, e, st)
         /\ \A st, y : Whole(x, d, st, y) => Whole(z, e, st, y)
         /\ \A st \in Receiver : \A y :
              Follows(x, d, st) /\ Shows(x, d, st, y) => Shows(z, e, st, y)
<1>1. x.sequence \in Nat /\ LastSent(z, e) = x.sequence /\ LastSent(x, d) = x.sequence
  BY DEF LastSent, Exec
<1>2. Numbers(z, e)
  BY <1>1 DEF Numbers
<1>3. ASSUME NEW st \in Receiver, Follows(x, d, st) PROVE Follows(z, e, st)
  BY <1>1, <1>3 DEF Follows, Receiver
<1>4. ASSUME NEW st, NEW y, Whole(x, d, st, y) PROVE Whole(z, e, st, y)
  BY <1>1, <1>4 DEF Whole
<1>5. ASSUME NEW st \in Receiver, NEW y, Follows(x, d, st), Shows(x, d, st, y)
      PROVE  Shows(z, e, st, y)
  <2>1. e.sequence > st.min
    BY <1>1, <1>5 DEF Follows, Receiver
  <2>2. Due(z, st) = Due(x, st)
    BY DEF Due
  <2>3. CASE e.item.kind = "error" \/ ShowsState(e.item)
    BY <2>1, <2>3 DEF Shows, Fails
  <2>4. CASE z.snapshot.state = x.snapshot.state
    BY <1>5, <2>2, <2>4 DEF Shows, Fails
  <2>5. QED
    BY <2>3, <2>4
<1>6. QED
  BY <1>2, <1>3, <1>4, <1>5

(* ... and hands it to the channel: one more event is due.                 *)
LEMMA SendDue ==
  ASSUME NEW x \in Exec, NEW d, NEW e, NEW z \in Exec, Numbers(x, d),
         d.pc = "send", e.pc # "send", z.sequence = x.sequence,
         NEW n, n = [event |-> d.item, sequence |-> d.sequence], n \in Numbered,
         z.sent = Append(x.sent, n), NEW st \in Receiver, Follows(x, d, st)
  PROVE  /\ Len(z.sent) = Len(x.sent) + 1 /\ z.sent[Len(x.sent) + 1] = n
         /\ \A j \in 1 .. Len(x.sent) : z.sent[j] = x.sent[j]
         /\ LastSent(z, e) = LastSent(x, d) + 1 /\ LastSent(z, e) = x.sequence
         /\ Due(z, st) = IF d.sequence > st.min THEN Due(x, st) \union {Len(x.sent) + 1}
                                                ELSE Due(x, st)
         /\ Due(x, st) \subseteq 1 .. Len(x.sent)
<1>1. /\ x.sent \in Seq(Numbered) /\ Len(x.sent) \in Nat /\ x.sequence \in Nat
      /\ st.pos \in Nat /\ st.min \in Nat
  BY LenProperties DEF Exec, Receiver
<1>2. /\ Len(z.sent) = Len(x.sent) + 1 /\ z.sent[Len(x.sent) + 1] = n
      /\ \A j \in 1 .. Len(x.sent) : z.sent[j] = x.sent[j]
  BY <1>1, AppendProperties
<1>3. LastSent(z, e) = LastSent(x, d) + 1 /\ LastSent(z, e) = x.sequence
  BY <1>1 DEF LastSent
<1>4. Due(x, st) \subseteq 1 .. Len(x.sent)
  BY <1>1 DEF Due
<1>5. ASSUME NEW j
      PROVE  j \in Due(z, st) <=> \/ j \in Due(x, st)
                                  \/ j = Len(x.sent) + 1 /\ d.sequence > st.min
  <2>1. CASE j = Len(x.sent) + 1
    <3>1. j \in st.pos + 1 .. Len(z.sent) /\ z.sent[j].sequence = d.sequence
      BY <1>1, <1>2, <2>1 DEF Follows
    <3>2. j \notin Due(x, st)
      BY <1>1, <2>1 DEF Due
    <3>3. QED
      BY <2>1, <3>1, <3>2 DEF Due
  <2>2. CASE j # Len(x.sent) + 1
    <3>1. j \in st.pos + 1 .. Len(z.sent) <=> j \in st.pos + 1 .. Len(x.sent)
      BY <1>1, <1>2, <2>2
    <3>2. j \in st.pos + 1 .. Len(x.sent) => z.sent[j] = x.sent[j]
      BY <1>1, <1>2
    <3>3. QED
      BY <2>2, <3>1, <3>2 DEF Due
  <2>3. QED
    BY <2>1, <2>2
<1>6. QED
  BY <1>2, <1>3, <1>4, <1>5

LEMMA SendShows ==
  ASSUME NEW x \in Exec, NEW d, NEW e, NEW z \in Exec, Numbers(x, d),
         d.pc = "send", e.pc # "send", z.sequence = x.sequence, z.snapshot = x.snapshot,
         NEW n, n = [event |-> d.item, sequence |-> d.sequence], n \in Numbered,
         z.sent = Append(x.sent, n),
         d.item.kind = "error" \/ (ShowsState(d.item) => d.item.state = x.snapshot.state),
         NEW st \in Receiver, Follows(x, d, st)
  PROVE  /\ Follows(z, e, st)
         /\ \A y : Whole(x, d, st, y) => Whole(z, e, st, y)
         /\ \A y : Shows(x, d, st, y) => Shows(z, e, st, y)
<1>. DEFINE m == Len(x.sent)
<1>1. /\ Len(z.sent) = m + 1 /\ z.sent[m + 1] = n
      /\ \A j \in 1 .. m : z.sent[j] = x.sent[j]
      /\ LastSent(z, e) = LastSent(x, d) + 1 /\ LastSent(z, e) = x.sequence
      /\ Due(z, st) = IF d.sequence > st.min THEN Due(x, st) \union {m + 1}
                                             ELSE Due(x, st)
      /\ Due(x, st) \subseteq 1 .. m
  BY SendDue
<1>2. /\ m \in Nat /\ st.pos \in Nat /\ st.min \in Nat /\ x.sequence \in Nat
      /\ LastSent(x, d) \in Int /\ d.sequence = x.sequence /\ st.pos <= m
      /\ n.sequence = d.sequence /\ n.event = d.item
      /\ \A j \in 1 .. m : x.sent[j].sequence \in Int
  <2>1. /\ m \in Nat /\ st.pos \in Nat /\ st.min \in Nat /\ x.sequence \in Nat
    BY LenProperties DEF Exec, Receiver
  <2>2. \A j \in 1 .. m : x.sent[j] \in Numbered
    BY ElementOfSeq DEF Exec
  <2>3. QED
    BY <2>1, <2>2 DEF LastSent, Numbers, Follows, Numbered
<1>. HIDE DEF m
<1>3. Follows(z, e, st)
  <2>1. ASSUME NEW j \in st.pos + 1 .. m + 1
        PROVE  z.sent[j].sequence + (m + 1 - j) = LastSent(z, e)
    <3>1. CASE j = m + 1
      BY <1>1, <1>2, <3>1
    <3>2. CASE j # m + 1
      <4>1. j \in st.pos + 1 .. m /\ j \in 1 .. m /\ x.sent[j].sequence \in Int
        BY <1>2, <3>2
      <4>2. x.sent[j].sequence + (m - j) = LastSent(x, d) /\ z.sent[j] = x.sent[j]
        BY <1>1, <4>1 DEF Follows, m
      <4>3. QED
        BY <1>1, <1>2, <4>1, <4>2
    <3>3. QED
      BY <3>1, <3>2
  <2>2. QED
    BY <1>1, <1>2, <2>1 DEF Follows, m
<1>4. ASSUME NEW y, Whole(x, d, st, y) PROVE Whole(z, e, st, y)
  <2>1. \A k \in 1 .. st.pos : z.sent[k] = x.sent[k]
    BY <1>1, <1>2
  <2>2. LastSent(z, e) - (Len(z.sent) - st.pos) = LastSent(x, d) - (Len(x.sent) - st.pos)
    BY <1>1, <1>2 DEF m
  <2>3. QED
    BY <1>4, <2>1, <2>2 DEF Whole
<1>5. ASSUME NEW y, Shows(x, d, st, y) PROVE Shows(z, e, st, y)
  <2>1. \A j \in Due(x, st) : z.sent[j] = x.sent[j]
    BY <1>1
  <2>2. CASE d.sequence > st.min
    <3>1. Due(z, st) = Due(x, st) \union {m + 1} /\ m + 1 \in Due(z, st)
      BY <1>1, <2>2
    <3>2. CASE d.item.kind = "error"
      BY <1>1, <1>2, <3>1, <3>2 DEF Shows, Fails
    <3>3. CASE ShowsState(d.item) /\ d.item.kind # "error"
      <4>1. \A i \in Due(z, st) : i <= m + 1
        BY <1>1, <1>2, <3>1
      <4>2. /\ ShowsState(z.sent[m + 1].event)
            /\ z.sent[m + 1].event.state = z.snapshot.state
        BY <1>1, <1>2, <3>3
      <4>3. QED
        BY <3>1, <4>1, <4>2 DEF Shows
    <3>4. CASE ~ShowsState(d.item) /\ d.item.kind # "error"
      <4>1. /\ ~ShowsState(z.sent[m + 1].event)
        BY <1>1, <1>2, <3>4
      <4>2. CASE \E j \in Due(x, st) : x.sent[j].event.kind = "error"
        BY <2>1, <3>1, <4>2 DEF Shows, Fails
      <4>3. CASE \E j \in Due(x, st) :
                   /\ ShowsState(x.sent[j].event)
                   /\ x.sent[j].event.state = x.snapshot.state
                   /\ \A i \in Due(x, st) : ShowsState(x.sent[i].event) => i <= j
        BY <2>1, <3>1, <4>1, <4>3 DEF Shows
      <4>4. CASE \A i \in Due(x, st) : ~ShowsState(x.sent[i].event)
        <5>1. \A i \in Due(z, st) : ~ShowsState(z.sent[i].event)
          BY <2>1, <3>1, <4>1, <4>4
        <5>2. \A j \in Due(x, st) : ~ShowsState(x.sent[j].event)
          BY <4>4
        <5>3. QED
          BY <1>5, <3>4, <5>1, <5>2, <4>2 DEF Shows, Fails
      <4>5. QED
        BY <1>5, <3>4, <4>2, <4>3, <4>4 DEF Shows, Fails
    <3>5. QED
      BY <3>2, <3>3, <3>4
  <2>3. CASE ~(d.sequence > st.min)
    <3>1. Due(z, st) = Due(x, st)
      BY <1>1, <2>3
    <3>2. QED
      BY <1>5, <2>1, <2>3, <3>1 DEF Shows, Fails
  <2>4. QED
    BY <2>2, <2>3
<1>6. QED
  BY <1>3, <1>4, <1>5

(* The numbers of an execution, whether or not anybody listens.            *)
LEMMA SendNumbers ==
  ASSUME NEW x \in Exec, NEW d, NEW e, NEW z, Numbers(x, d), d.pc = "send", e.pc # "send",
         NEW n, n = [event |-> d.item, sequence |-> d.sequence], n \in Numbered,
         z.sequence = x.sequence, z.sent = x.sent \/ z.sent = Append(x.sent, n)
  PROVE  Numbers(z, e)
<1>1. x.sent \in Seq(Numbered) /\ Len(x.sent) \in Nat /\ x.sequence \in Nat
  BY LenProperties DEF Exec
<1>2. LastSent(z, e) = x.sequence /\ LastSent(x, d) = x.sequence - 1
  BY DEF LastSent
<1>3. ASSUME NEW j \in 1 .. Len(x.sent) PROVE x.sent[j].sequence \in 1 .. x.sequence
  BY <1>1, <1>2, <1>3 DEF Numbers
<1>4. CASE z.sent = x.sent
  BY <1>2, <1>3, <1>4 DEF Numbers
<1>5. CASE z.sent = Append(x.sent, n)
  <2>1. /\ Len(z.sent) = Len(x.sent) + 1 /\ z.sent[Len(x.sent) + 1] = n
        /\ \A j \in 1 .. Len(x.sent) : z.sent[j] = x.sent[j]
    BY <1>1, <1>5, AppendProperties
  <2>2. n.sequence \in 1 .. x.sequence
    BY <1>1 DEF Numbers
  <2>3. ASSUME NEW j \in 1 .. Len(z.sent) PROVE z.sent[j].sequence \in 1 .. x.sequence
    <3>1. CASE j = Len(x.sent) + 1
      BY <2>1, <2>2, <3>1
    <3>2. CASE j # Len(x.sent) + 1
      <4>1. j \in 1 .. Len(x.sent)
        BY <1>1, <2>1, <2>3, <3>2
      <4>2. QED
        BY <1>3, <2>1, <4>1
    <3>3. QED
      BY <3>1, <3>2
  <2>4. QED
    BY <1>2, <2>3 DEF Numbers
<1>6. QED
  BY <1>4, <1>5

-----------------------------------------------------------------------------
(* What a stream shows last, once it has yielded v.                        *)
LEMMA YieldShown ==
  ASSUME NEW y \in Seq(Yielded), NEW v \in Yielded, NEW w, w = Append(y, v)
  PROVE  /\ Len(w) = Len(y) + 1 /\ w[Len(y) + 1] = v
         /\ \A k \in 1 .. Len(y) : w[k] = y[k]
         /\ ShowsState(v.event) => ShownLast(w, v.event.state)
         /\ ~ShowsState(v.event) => \A s : ShownLast(y, s) => ShownLast(w, s)
<1>1. Len(y) \in Nat
  BY LenProperties
<1>2. /\ Len(w) = Len(y) + 1 /\ w[Len(y) + 1] = v
      /\ \A k \in 1 .. Len(y) : w[k] = y[k]
  BY AppendProperties
<1>3. ASSUME ShowsState(v.event) PROVE ShownLast(w, v.event.state)
  <2>1. Len(y) + 1 \in 1 .. Len(w) /\ \A j \in 1 .. Len(w) : j <= Len(y) + 1
    BY <1>1, <1>2
  <2>2. QED
    BY <1>2, <1>3, <2>1 DEF ShownLast
<1>4. ASSUME ~ShowsState(v.event), NEW s, ShownLast(y, s) PROVE ShownLast(w, s)
  <2>1. PICK k \in 1 .. Len(y) :
          /\ ShowsState(y[k].event) /\ y[k].event.state = s
          /\ \A j \in 1 .. Len(y) : ShowsState(y[j].event) => j <= k
    BY <1>4 DEF ShownLast
  <2>2. k \in 1 .. Len(w) /\ w[k] = y[k]
    BY <1>1, <1>2
  <2>3. ASSUME NEW j \in 1 .. Len(w), ShowsState(w[j].event) PROVE j <= k
    <3>1. j # Len(y) + 1
      BY <1>2, <1>4, <2>3
    <3>2. j \in 1 .. Len(y) /\ w[j] = y[j]
      BY <1>1, <1>2, <3>1
    <3>3. QED
      BY <2>1, <2>3, <3>2
  <2>4. QED
    BY <2>1, <2>2, <2>3 DEF ShownLast
<1>5. QED
  BY <1>2, <1>3, <1>4

(* The event at the receiver's position, once it is yielded.               *)
LEMMA HeadDue ==
  ASSUME NEW x \in Exec, NEW d, NEW st \in Receiver, Numbers(x, d), Follows(x, d, st),
         st.snapshot = NoTask, st.pos < Len(x.sent), NEW h, h = x.sent[st.pos + 1],
         h.sequence > st.min, NEW r \in Receiver, r.pos = st.pos + 1, r.min = h.sequence
  PROVE  /\ st.pos + 1 \in 1 .. Len(x.sent) /\ h \in Numbered
         /\ h.sequence \in 1 .. LastSent(x, d)
         /\ st.pos + 1 \in Due(x, st) /\ Due(x, r) = Due(x, st) \ {st.pos + 1}
         /\ \A j \in Due(x, r) : j > st.pos + 1
<1>1. /\ Len(x.sent) \in Nat /\ st.pos \in Nat /\ st.min \in Nat /\ x.sent \in Seq(Numbered)
  BY LenProperties DEF Exec, Receiver
<1>. DEFINE Event(j) == x.sent[j] \in Numbered /\ x.sent[j].sequence \in Nat
<1>0. ASSUME NEW j \in 1 .. Len(x.sent) PROVE Event(j)
  <2>1. x.sent[j] \in Numbered
    BY <1>1, ElementOfSeq
  <2>2. QED
    BY <2>1 DEF Numbered
<1>2. st.pos + 1 \in 1 .. Len(x.sent) /\ st.pos + 1 \in st.pos + 1 .. Len(x.sent)
  BY <1>1
<1>3. h \in Numbered /\ h.sequence \in 1 .. LastSent(x, d) /\ h.sequence \in Nat
  BY <1>0, <1>2 DEF Numbers
<1>4. ASSUME NEW j \in r.pos + 1 .. Len(x.sent)
      PROVE  /\ j \in st.pos + 1 .. Len(x.sent) /\ j > st.pos + 1
             /\ x.sent[j].sequence > h.sequence
  <2>1. j \in st.pos + 1 .. Len(x.sent) /\ j \in 1 .. Len(x.sent) /\ j > st.pos + 1
    BY <1>1
  <2>2. x.sent[j].sequence \in Nat
    BY <1>0, <2>1
  <2>3. /\ x.sent[j].sequence + (Len(x.sent) - j) = LastSent(x, d)
        /\ h.sequence + (Len(x.sent) - (st.pos + 1)) = LastSent(x, d)
    BY <1>2, <2>1 DEF Follows
  <2>4. QED
    <3>1. x.sent[j].sequence = h.sequence + (j - (st.pos + 1))
      <4>. DEFINE a == x.sent[j].sequence
                  b == h.sequence
                  l == LastSent(x, d)
                  n == Len(x.sent)
                  p == st.pos
      <4>2. a \in Nat /\ b \in Nat /\ l \in Int /\ n \in Nat /\ j \in Nat /\ p \in Nat
        BY <1>1, <1>3, <2>1, <2>2 DEF LastSent, Exec
      <4>3. a + (n - j) = l /\ b + (n - (p + 1)) = l
        BY <2>3
      <4>. HIDE DEF a, b, l, n, p
      <4>4. a = b + (j - (p + 1))
        BY <4>2, <4>3
      <4>5. QED
        BY <4>4 DEF a, b, p
    <3>2. QED
      BY <1>1, <1>3, <2>1, <2>2, <3>1
<1>5. \A j \in st.pos + 1 .. Len(x.sent) : j = st.pos + 1 \/ j \in r.pos + 1 .. Len(x.sent)
  BY <1>1
<1>6. ASSUME NEW j PROVE j \in Due(x, r) <=> j \in Due(x, st) /\ j # st.pos + 1
  <2>1. CASE j \in r.pos + 1 .. Len(x.sent)
    <3>1. /\ j \in st.pos + 1 .. Len(x.sent) /\ j > st.pos + 1
          /\ x.sent[j].sequence > h.sequence
      BY <1>4, <2>1
    <3>2. x.sent[j].sequence \in Nat
      <4>1. j \in 1 .. Len(x.sent)
        BY <1>1, <3>1
      <4>2. QED
        BY <1>0, <4>1
    <3>3. x.sent[j].sequence > st.min /\ j # st.pos + 1
      BY <1>1, <1>3, <3>1, <3>2
    <3>4. QED
      BY <2>1, <3>1, <3>3 DEF Due
  <2>2. CASE j \notin r.pos + 1 .. Len(x.sent)
    BY <1>5, <2>2 DEF Due
  <2>3. QED
    BY <2>1, <2>2
<1>7. st.pos + 1 \in Due(x, st)
  BY <1>2 DEF Due
<1>8. QED
  BY <1>2, <1>3, <1>4, <1>6, <1>7 DEF Due

(* The stream yields its snapshot.                                         *)
LEMMA SnapshotShown ==
  ASSUME NEW x \in Exec, NEW d, NEW st \in Receiver, ~st.done, st.snapshot # NoTask,
         Follows(x, d, st), NEW y \in Seq(Yielded)
  PROVE  LET r == AfterDelivery(x, st)
             w == Append(y, Delivery(x, st))
         IN  /\ Follows(x, d, r)
             /\ Whole(x, d, st, y) => Whole(x, d, r, w)
             /\ Shows(x, d, st, y) => Shows(x, d, r, w)
<1>. DEFINE r == AfterDelivery(x, st)
            v == Delivery(x, st)
            w == Append(y, v)
<1>1. /\ st.pos \in Nat /\ st.min \in Nat /\ st.snapshot \in Task
      /\ st.snapshot.state \in TaskState /\ Len(y) \in Nat
  BY LenProperties DEF Receiver, Task
<1>2. /\ r = [st EXCEPT !.snapshot = NoTask, !.done = IsTerminal(st.snapshot.state)]
      /\ v = [event |-> Snapshot(st.snapshot.state), sequence |-> st.min]
  BY DEF AfterDelivery, Delivery
<1>3. r.pos = st.pos /\ r.min = st.min /\ r.snapshot = NoTask
  BY <1>2 DEF Receiver
<1>4. v \in Yielded /\ v.sequence = st.min /\ ShowsState(v.event)
      /\ v.event.state = st.snapshot.state
  BY <1>1, <1>2 DEF Yielded, Snapshot, ShowsState
<1>. HIDE DEF r, v
<1>5. /\ Len(w) = Len(y) + 1 /\ w[Len(y) + 1] = v
      /\ \A k \in 1 .. Len(y) : w[k] = y[k]
      /\ ShownLast(w, st.snapshot.state)
  <2>1. ShownLast(w, v.event.state)
    BY <1>4, YieldShown
  <2>2. QED
    BY <1>4, <2>1, YieldShown
<1>. HIDE DEF w
<1>6. Due(x, r) = Due(x, st)
  BY <1>3 DEF Due
<1>7. Follows(x, d, r)
  BY <1>3 DEF Follows
<1>8. ASSUME Whole(x, d, st, y), FromTheStart(r, w)
      PROVE  /\ \A k \in 1 .. r.pos : \E j \in 1 .. Len(w) : w[j] = x.sent[k]
             /\ r.done \/ r.min = LastSent(x, d) - (Len(x.sent) - r.pos)
  <2>1. FromTheStart(st, y)
    <3>1. CASE r.min = 0
      BY <1>3, <3>1 DEF FromTheStart
    <3>2. CASE \E k \in 1 .. Len(w) : w[k].sequence = 0
      <4>1. PICK k \in 1 .. Len(w) : w[k].sequence = 0
        BY <3>2
      <4>2. k = Len(y) + 1 \/ k \in 1 .. Len(y)
        BY <1>1, <1>5
      <4>3. QED
        BY <1>4, <1>5, <4>1, <4>2 DEF FromTheStart
    <3>3. QED
      BY <1>8, <3>1, <3>2 DEF FromTheStart
  <2>2. \A j \in 1 .. Len(y) : j \in 1 .. Len(w)
    BY <1>1, <1>5
  <2>3. QED
    BY <1>3, <1>5, <1>8, <2>1, <2>2 DEF Whole
<1>9. ASSUME Shows(x, d, st, y) PROVE Shows(x, d, r, w)
  <2>1. CASE Fails(x, d, st)
    BY <1>3, <1>6, <2>1 DEF Shows, Fails
  <2>2. CASE \/ d.pc = "send" /\ d.sequence > st.min /\ ShowsState(d.item)
             \/ \E j \in Due(x, st) :
                  /\ ShowsState(x.sent[j].event) /\ x.sent[j].event.state = x.snapshot.state
                  /\ \A i \in Due(x, st) : ShowsState(x.sent[i].event) => i <= j
    BY <1>3, <1>6, <2>2 DEF Shows
  <2>3. CASE /\ \A i \in Due(x, st) : ~ShowsState(x.sent[i].event)
             /\ st.snapshot.state = x.snapshot.state
    BY <1>3, <1>5, <1>6, <2>3 DEF Shows
  <2>4. QED
    BY <1>9, <2>1, <2>2, <2>3 DEF Shows
<1>10. QED
  BY <1>7, <1>8, <1>9 DEF Whole, r, v, w

(* The stream yields the event at its position.                            *)
LEMMA EventShown ==
  ASSUME NEW x \in Exec, NEW d, NEW st \in Receiver, ~st.done, st.snapshot = NoTask,
         ~Lagged(x, st), CanDeliver(x, st), Numbers(x, d), Follows(x, d, st),
         NEW y \in Seq(Yielded)
  PROVE  LET r == AfterDelivery(x, st)
             w == Append(y, Delivery(x, st))
         IN  /\ Follows(x, d, r)
             /\ Whole(x, d, st, y) => Whole(x, d, r, w)
             /\ Shows(x, d, st, y) => Shows(x, d, r, w)
<1>. DEFINE r == AfterDelivery(x, st)
            h == x.sent[st.pos + 1]
            w == Append(y, Delivery(x, st))
<1>1. /\ Delivery(x, st) = h /\ st.pos < Len(x.sent) /\ h.sequence > st.min
      /\ r = [st EXCEPT !.pos = st.pos + 1, !.min = h.sequence,
                        !.done = EndsStream(h.event)]
  BY DEF Delivery, CanDeliver, AfterDelivery, HasNext, Head1
<1>2. /\ r \in Receiver /\ r.snapshot = NoTask /\ h \in Yielded
  <2>1. Polls(x, st)
    BY DeliveryShape
  <2>2. QED
    BY <1>1, <2>1 DEF Polls
<1>3. /\ r.pos = st.pos + 1 /\ r.min = h.sequence /\ r.done = EndsStream(h.event)
  BY <1>1 DEF Receiver
<1>4. w = Append(y, h) /\ h = x.sent[st.pos + 1]
  BY <1>1
<1>. HIDE DEF r, h, w
<1>5. /\ st.pos + 1 \in 1 .. Len(x.sent) /\ h \in Numbered
      /\ h.sequence \in 1 .. LastSent(x, d)
      /\ st.pos + 1 \in Due(x, st) /\ Due(x, r) = Due(x, st) \ {st.pos + 1}
      /\ \A j \in Due(x, r) : j > st.pos + 1
  <2>1. /\ st.pos < Len(x.sent) /\ h.sequence > st.min /\ r \in Receiver
        /\ h = x.sent[st.pos + 1] /\ r.pos = st.pos + 1 /\ r.min = h.sequence
    BY <1>1, <1>2, <1>3, <1>4
  <2>2. QED
    BY <2>1, HeadDue
<1>6. /\ Len(w) = Len(y) + 1 /\ w[Len(y) + 1] = h
      /\ \A k \in 1 .. Len(y) : w[k] = y[k]
      /\ ShowsState(h.event) => ShownLast(w, h.event.state)
      /\ ~ShowsState(h.event) => \A s : ShownLast(y, s) => ShownLast(w, s)
  <2>1. h \in Yielded /\ w = Append(y, h)
    BY <1>2, <1>4
  <2>2. /\ Len(w) = Len(y) + 1 /\ w[Len(y) + 1] = h
        /\ \A k \in 1 .. Len(y) : w[k] = y[k]
    BY <2>1, YieldShown
  <2>3. ShowsState(h.event) => ShownLast(w, h.event.state)
    BY <2>1, YieldShown
  <2>4. ASSUME ~ShowsState(h.event), NEW s, ShownLast(y, s) PROVE ShownLast(w, s)
    BY <2>1, <2>4, YieldShown
  <2>5. QED
    BY <2>2, <2>3, <2>4
<1>7. /\ st.pos \in Nat /\ st.min \in Nat /\ Len(y) \in Nat /\ Len(x.sent) \in Nat
      /\ x.sequence \in Nat /\ LastSent(x, d) \in Int /\ LastSent(x, d) <= x.sequence
  BY LenProperties DEF Receiver, Exec, LastSent
<1>8. Follows(x, d, r)
  <2>1. r.pos <= Len(x.sent) /\ r.min <= x.sequence
    BY <1>3, <1>5, <1>7
  <2>2. \A j \in r.pos + 1 .. Len(x.sent) : j \in st.pos + 1 .. Len(x.sent)
    BY <1>3, <1>7
  <2>3. QED
    BY <2>1, <2>2 DEF Follows
<1>9. ASSUME Whole(x, d, st, y), FromTheStart(r, w)
      PROVE  /\ \A k \in 1 .. r.pos : \E j \in 1 .. Len(w) : w[j] = x.sent[k]
             /\ r.done \/ r.min = LastSent(x, d) - (Len(x.sent) - r.pos)
  <2>1. r.min # 0 /\ w[Len(y) + 1].sequence # 0
    BY <1>3, <1>5, <1>6
  <2>2. PICK k \in 1 .. Len(w) : w[k].sequence = 0
    BY <1>9, <2>1 DEF FromTheStart
  <2>3. k \in 1 .. Len(y) /\ y[k].sequence = 0
    <3>1. k \in 1 .. Len(y)
      BY <1>6, <1>7, <2>1, <2>2
    <3>2. QED
      BY <1>6, <2>2, <3>1
  <2>4. \A i \in 1 .. st.pos : \E j \in 1 .. Len(y) : y[j] = x.sent[i]
    BY <1>9, <2>3 DEF Whole, FromTheStart
  <2>5. ASSUME NEW i \in 1 .. r.pos PROVE \E j \in 1 .. Len(w) : w[j] = x.sent[i]
    <3>1. CASE i = st.pos + 1
      <4>1. Len(y) + 1 \in 1 .. Len(w)
        BY <1>6, <1>7
      <4>2. w[Len(y) + 1] = h /\ h = x.sent[i]
        BY ONLY <1>4, <1>6, <3>1
      <4>3. QED
        BY <4>1, <4>2
    <3>2. CASE i # st.pos + 1
      <4>1. PICK j \in 1 .. Len(y) : y[j] = x.sent[i]
        BY <1>3, <1>7, <2>4, <3>2
      <4>2. j \in 1 .. Len(w) /\ w[j] = y[j]
        BY <1>6, <1>7
      <4>3. QED
        BY <4>1, <4>2
    <3>3. QED
      BY <3>1, <3>2
  <2>6. r.min = LastSent(x, d) - (Len(x.sent) - r.pos)
    <3>1. st.pos + 1 \in st.pos + 1 .. Len(x.sent)
      BY <1>5, <1>7
    <3>2. h.sequence + (Len(x.sent) - (st.pos + 1)) = LastSent(x, d)
      BY <3>1 DEF Follows, h
    <3>3. r.min = h.sequence /\ r.pos = st.pos + 1 /\ h.sequence \in Int
      BY <1>3, <1>5, <1>7
    <3>4. r.min = LastSent(x, d) - (Len(x.sent) - r.pos)
      BY ONLY <1>7, <3>2, <3>3
    <3>5. QED
      BY <3>4
  <2>7. QED
    BY <2>5, <2>6
<1>10. ASSUME Shows(x, d, st, y) PROVE Shows(x, d, r, w)
  <2>1. CASE EndsStream(h.event)
    BY <1>3, <2>1 DEF Shows
  <2>2. CASE h.event.kind # "error"
    <3>1. d.pc = "send" /\ d.sequence > st.min => d.sequence > r.min
      BY <1>3, <1>5, <1>7 DEF Numbers, LastSent
    <3>2. CASE Fails(x, d, st)
      <4>1. ASSUME NEW j \in Due(x, st), x.sent[j].event.kind = "error"
            PROVE  j \in Due(x, r)
        BY <1>5, <2>2, <4>1 DEF h
      <4>2. QED
        BY <3>1, <3>2, <4>1 DEF Shows, Fails
    <3>3. CASE d.pc = "send" /\ d.sequence > st.min /\ ShowsState(d.item)
      BY <3>1, <3>3 DEF Shows
    <3>4. CASE \E j \in Due(x, st) :
                 /\ ShowsState(x.sent[j].event)
                 /\ x.sent[j].event.state = x.snapshot.state
                 /\ \A i \in Due(x, st) : ShowsState(x.sent[i].event) => i <= j
      <4>1. PICK j \in Due(x, st) :
              /\ ShowsState(x.sent[j].event)
              /\ x.sent[j].event.state = x.snapshot.state
              /\ \A i \in Due(x, st) : ShowsState(x.sent[i].event) => i <= j
        BY <3>4
      <4>2. CASE j # st.pos + 1
        BY <1>5, <4>1, <4>2 DEF Shows
      <4>3. CASE j = st.pos + 1
        <5>1. ShowsState(h.event) /\ h.event.state = x.snapshot.state
          BY <4>1, <4>3 DEF h
        <5>2. ASSUME NEW i \in Due(x, r), ShowsState(x.sent[i].event) PROVE FALSE
          <6>1. i > st.pos + 1 /\ i <= st.pos + 1
            BY <1>5, <4>1, <4>3, <5>2
          <6>2. i \in Int
            BY <5>2 DEF Due
          <6>3. QED
            BY <1>7, <6>1, <6>2
        <5>3. QED
          BY <1>2, <1>6, <5>1, <5>2 DEF Shows
      <4>4. QED
        BY <4>2, <4>3
    <3>5. CASE /\ \A i \in Due(x, st) : ~ShowsState(x.sent[i].event)
               /\ ShownLast(y, x.snapshot.state)
      <4>1. ~ShowsState(h.event)
        BY <1>5, <3>5 DEF h
      <4>2. ShownLast(w, x.snapshot.state)
        BY <1>6, <3>5, <4>1
      <4>3. QED
        BY <1>2, <1>5, <3>5, <4>2 DEF Shows
    <3>6. QED
      BY <1>10, <3>2, <3>3, <3>4, <3>5 DEF Shows
  <2>3. QED
    BY <2>1, <2>2 DEF EndsStream
<1>11. QED
  BY <1>8, <1>9, <1>10 DEF Whole, r, w

(* Whatever a stream yields, it goes on to the execution's state.          *)
LEMMA DeliveryShows ==
  ASSUME NEW x \in Exec, NEW d, NEW st \in Receiver, CanDeliver(x, st),
         Numbers(x, d), Follows(x, d, st), NEW y \in Seq(Yielded)
  PROVE  LET r == AfterDelivery(x, st)
             w == Append(y, Delivery(x, st))
         IN  /\ Follows(x, d, r)
             /\ Whole(x, d, st, y) => Whole(x, d, r, w)
             /\ Shows(x, d, st, y) => Shows(x, d, r, w)
<1>1. ~st.done
  BY DEF CanDeliver
<1>2. CASE st.snapshot # NoTask
  BY <1>1, <1>2, SnapshotShown
<1>3. CASE st.snapshot = NoTask /\ ~Lagged(x, st)
  BY <1>1, <1>3, EventShown
<1>4. CASE st.snapshot = NoTask /\ Lagged(x, st)
  <2>. DEFINE r == AfterDelivery(x, st)
              v == Delivery(x, st)
              w == Append(y, v)
  <2>1. r = [st EXCEPT !.done = TRUE] /\ v = [event |-> LagError, sequence |-> st.min]
    BY <1>4 DEF AfterDelivery, Delivery
  <2>2. /\ r.pos = st.pos /\ r.min = st.min /\ r.done /\ r.snapshot = NoTask
        /\ v \in Yielded /\ v.sequence = st.min
    BY <1>4, <2>1 DEF Receiver, Yielded
  <2>3. Len(y) \in Nat
    BY LenProperties
  <2>. HIDE DEF r, v
  <2>4. /\ Len(w) = Len(y) + 1 /\ w[Len(y) + 1] = v
        /\ \A k \in 1 .. Len(y) : w[k] = y[k]
    BY <2>2, YieldShown
  <2>. HIDE DEF w
  <2>5. Follows(x, d, r) /\ Shows(x, d, r, w)
    BY <2>2 DEF Follows, Shows
  <2>6. ASSUME Whole(x, d, st, y), FromTheStart(r, w)
        PROVE  \A k \in 1 .. r.pos : \E j \in 1 .. Len(w) : w[j] = x.sent[k]
    <3>1. FromTheStart(st, y)
      <4>1. CASE r.min = 0
        BY <2>2, <4>1 DEF FromTheStart
      <4>2. CASE \E k \in 1 .. Len(w) : w[k].sequence = 0
        <5>1. PICK k \in 1 .. Len(w) : w[k].sequence = 0
          BY <4>2
        <5>2. k = Len(y) + 1 \/ k \in 1 .. Len(y)
          BY <2>3, <2>4
        <5>3. QED
          BY <2>2, <2>4, <5>1, <5>2 DEF FromTheStart
      <4>3. QED
        BY <2>6, <4>1, <4>2 DEF FromTheStart
    <3>2. \A j \in 1 .. Len(y) : j \in 1 .. Len(w)
      BY <2>3, <2>4
    <3>3. QED
      BY <2>2, <2>4, <2>6, <3>1, <3>2 DEF Whole
  <2>7. QED
    BY <2>2, <2>5, <2>6 DEF Whole, r, v, w
<1>5. QED
  BY <1>2, <1>3, <1>4

(* An event is passed over only by a stream that does not open with the    *)
(* first task: its snapshot shows the event already.                       *)
LEMMA SkipShows ==
  ASSUME NEW x \in Exec, NEW d, NEW st \in Receiver, CanSkip(x, st),
         Numbers(x, d), Follows(x, d, st), NEW r, r = AfterSkip(st), NEW y
  PROVE  /\ Follows(x, d, r)
         /\ Whole(x, d, st, y) => Whole(x, d, r, y)
         /\ Shows(x, d, st, y) => Shows(x, d, r, y)
<1>. DEFINE h == x.sent[st.pos + 1]
<1>1. /\ ~st.done /\ st.snapshot = NoTask /\ st.pos < Len(x.sent) /\ h.sequence <= st.min
  BY DEF CanSkip, HasNext, Head1
<1>2. /\ r.pos = st.pos + 1 /\ r.min = st.min /\ r.done = st.done /\ r.snapshot = st.snapshot
  BY DEF AfterSkip, Receiver
<1>3. /\ st.pos \in Nat /\ st.min \in Nat /\ Len(x.sent) \in Nat /\ LastSent(x, d) \in Int
      /\ x.sent \in Seq(Numbered)
  BY LenProperties DEF Receiver, Exec, LastSent
<1>4. st.pos + 1 \in 1 .. Len(x.sent) /\ st.pos + 1 \in st.pos + 1 .. Len(x.sent)
  BY <1>1, <1>3
<1>5. h.sequence \in Nat
  <2>1. h \in Numbered
    BY <1>3, <1>4, ElementOfSeq
  <2>2. QED
    BY <2>1 DEF Numbered
<1>6. Due(x, r) = Due(x, st)
  <2>1. \A j : j \in st.pos + 1 .. Len(x.sent)
                 <=> j = st.pos + 1 \/ j \in r.pos + 1 .. Len(x.sent)
    BY <1>2, <1>3, <1>4
  <2>2. ~(h.sequence > st.min)
    BY <1>1, <1>3, <1>5
  <2>3. st.pos + 1 \notin r.pos + 1 .. Len(x.sent)
    BY <1>2, <1>3
  <2>4. QED
    BY <1>2, <2>1, <2>2, <2>3 DEF Due
<1>7. Follows(x, d, r)
  <2>1. \A j \in r.pos + 1 .. Len(x.sent) : j \in st.pos + 1 .. Len(x.sent)
    BY <1>2, <1>3
  <2>2. r.pos <= Len(x.sent)
    BY <1>2, <1>3, <1>4
  <2>3. QED
    BY <1>2, <2>1, <2>2 DEF Follows
<1>8. ASSUME Whole(x, d, st, y), FromTheStart(r, y) PROVE FALSE
  <2>1. st.min = LastSent(x, d) - (Len(x.sent) - st.pos)
    BY <1>1, <1>2, <1>8 DEF Whole, FromTheStart
  <2>2. h.sequence + (Len(x.sent) - (st.pos + 1)) = LastSent(x, d)
    BY <1>4 DEF Follows
  <2>. HIDE DEF h
  <2>3. QED
    BY <1>1, <1>3, <1>5, <2>1, <2>2
<1>9. Shows(x, d, st, y) => Shows(x, d, r, y)
  BY <1>2, <1>6 DEF Shows, Fails
<1>10. QED
  BY <1>7, <1>8, <1>9 DEF Whole

(* The receiver is there: its snapshot and its mark are the execution's.   *)
LEMMA AttachShows ==
  ASSUME NEW x \in Exec, NEW d, NEW st \in Receiver, x.snapshot # NoTask,
         Numbers(x, d), Follows(x, d, st),
         NEW r, r = [st EXCEPT !.snapshot = x.snapshot, !.min = x.sequence]
  PROVE  /\ Follows(x, d, r) /\ Whole(x, d, r, <<>>) /\ Shows(x, d, r, <<>>)
<1>1. /\ r.pos = st.pos /\ r.min = x.sequence /\ r.snapshot = x.snapshot
  BY DEF Receiver
<1>2. /\ st.pos \in Nat /\ Len(x.sent) \in Nat /\ x.sequence \in Nat
      /\ LastSent(x, d) \in Int /\ LastSent(x, d) <= x.sequence
  BY LenProperties DEF Receiver, Exec, LastSent
<1>3. Follows(x, d, r)
  BY <1>1, <1>2 DEF Follows
<1>4. ASSUME FromTheStart(r, <<>>)
      PROVE  r.pos = 0 /\ r.min = LastSent(x, d) - (Len(x.sent) - r.pos)
  <2>1. x.sequence = 0
    BY <1>1, <1>4 DEF FromTheStart
  <2>2. LastSent(x, d) = 0
    BY <2>1 DEF Numbers, LastSent
  <2>3. Len(x.sent) = 0
    <3>1. 1 \notin 1 .. Len(x.sent)
      BY <2>2 DEF Numbers
    <3>2. QED
      BY <1>2, <3>1
  <2>4. QED
    BY <1>1, <1>2, <2>1, <2>2, <2>3 DEF Follows
<1>5. Due(x, r) = {}
  <2>1. ASSUME NEW j \in Due(x, r) PROVE FALSE
    <3>1. j \in 1 .. Len(x.sent) /\ x.sent[j].sequence > x.sequence
      BY <1>1, <1>2, <2>1 DEF Due
    <3>2. x.sent[j].sequence \in 1 .. LastSent(x, d)
      BY <3>1 DEF Numbers
    <3>3. QED
      BY <1>2, <3>1, <3>2
  <2>2. QED
    BY <2>1
<1>6. QED
  BY <1>1, <1>3, <1>4, <1>5 DEF Whole, Shows

(* start: a fresh execution, nothing sent, and a receiver of all of it.    *)
LEMMA StartShows ==
  ASSUME NEW task \in Task, NEW d, d.pc = "off"
  PROVE  LET x == NewExecution(task)
             r == Subscription(0, task, 0)
         IN  /\ Numbers(x, d) /\ Follows(x, d, r)
             /\ \A y : Whole(x, d, r, y) /\ Shows(x, d, r, y)
<1>. DEFINE x == NewExecution(task)
            r == Subscription(0, task, 0)
<1>1. /\ x.sent = <<>> /\ Len(x.sent) = 0 /\ x.sequence = 0 /\ x.snapshot = task
      /\ r.pos = 0 /\ r.min = 0 /\ r.snapshot = task /\ task # NoTask
  BY NoTaskAssumption DEF NewExecution, Subscription
<1>2. LastSent(x, d) = 0
  BY <1>1 DEF LastSent
<1>. HIDE DEF x, r
<1>3. Due(x, r) = {}
  BY <1>1 DEF Due
<1>4. Numbers(x, d) /\ Follows(x, d, r)
  BY <1>1, <1>2 DEF Numbers, Follows
<1>5. ASSUME NEW y PROVE Whole(x, d, r, y) /\ Shows(x, d, r, y)
  <2>1. \A k \in 1 .. r.pos : \E j \in 1 .. Len(y) : y[j] = x.sent[k]
    BY <1>1
  <2>2. r.min = LastSent(x, d) - (Len(x.sent) - r.pos)
    <3>1. Len(x.sent) - r.pos = 0
      BY <1>1
    <3>2. QED
      BY <1>1, <1>2, <3>1
  <2>3. QED
    BY <1>1, <1>3, <2>1, <2>2 DEF Whole, Shows
<1>6. QED
  BY <1>4, <1>5 DEF x, r

-----------------------------------------------------------------------------
(* The steps of a drive.                                                   *)

(* The drive of s goes to d, its execution to x: nothing else moves.       *)
LEMMA DriveTurns ==
  ASSUME Shape, Turns, NEW s \in Sends, UNCHANGED <<send, sub, stream, seen>>,
         \A q \in Sends \ {s} : drive'[q] = drive[q] /\ exec'[q] = exec[q],
         drive'[s].pc # "off", Numbers(exec'[s], drive'[s]), Carries(exec'[s], drive'[s]),
         \A u \in Subs : stream[u].src = s /\ Follows(exec[s], drive[s], stream[u].sub) =>
           LET st == stream[u].sub
               y  == seen[u]
           IN  /\ Follows(exec'[s], drive'[s], st)
               /\ Whole(exec[s], drive[s], st, y) => Whole(exec'[s], drive'[s], st, y)
               /\ Shows(exec[s], drive[s], st, y) => Shows(exec'[s], drive'[s], st, y)
  PROVE  Turns'
<1>1. \A q \in Sends : (Numbers(exec[q], drive[q]) /\ Carries(exec[q], drive[q]))'
  BY DEF Turns
<1>2. ASSUME NEW u \in Subs, NEW q \in Sends, stream'[u].src = q PROVE Listens(u, q)'
  <2>1. Listens(u, q)
    BY <1>2 DEF Turns
  <2>2. CASE q # s
    BY <2>1, <2>2 DEF Listens
  <2>3. CASE q = s
    BY <1>2, <2>1, <2>3 DEF Listens
  <2>4. QED
    BY <2>2, <2>3
<1>3. QED
  BY <1>1, <1>2 DEF Turns

LEMMA QuietTurns ==
  ASSUME Shape, Turns, NEW s \in Sends, UNCHANGED <<exec, send, sub, stream, seen>>,
         NEW d, drive' = [drive EXCEPT ![s] = d],
         drive[s].pc # "send", d.pc \notin {"off", "send"}, Carries(exec[s], d)
  PROVE  Turns'
<1>1. Numbers(exec[s], drive[s])
  BY DEF Turns
<1>2. /\ Numbers(exec[s], d)
      /\ \A st : Follows(exec[s], drive[s], st) => Follows(exec[s], d, st)
      /\ \A st, y : Whole(exec[s], drive[s], st, y) => Whole(exec[s], d, st, y)
      /\ \A st, y : Shows(exec[s], drive[s], st, y) => Shows(exec[s], d, st, y)
  BY <1>1, QuietDrive
<1>3. /\ drive'[s] = d /\ exec'[s] = exec[s]
      /\ \A q \in Sends \ {s} : drive'[q] = drive[q] /\ exec'[q] = exec[q]
  BY DEF Shape, Types
<1>4. QED
  BY <1>2, <1>3, DriveTurns

LEMMA DriveReadsTurns ==
  ASSUME Shape, Turns, NEW s \in Sends,
         \/ DriveSnapshot(s) \/ DriveEnd(s) \/ DriveFinish(s)
         \/ \E e \in ExecuteItems : DrivePull(s, e)
  PROVE  Turns'
<1>1. /\ UNCHANGED <<exec, send, sub, stream, seen>> /\ drive[s] \in DriveRec
      /\ Carries(exec[s], drive[s])
  BY DEF DriveSnapshot, DriveEnd, DriveFinish, DrivePull, DriveUnchanged, streams, Turns,
     Shape, Types
<1>2. CASE DriveSnapshot(s)
  <2>. DEFINE d == [drive[s] EXCEPT !.pc = "pull", !.cur = exec[s].snapshot]
  <2>1. drive' = [drive EXCEPT ![s] = d] /\ drive[s].pc = "ready"
    BY <1>2 DEF DriveSnapshot, Shape, Types
  <2>2. d.pc = "pull" /\ d.cur = exec[s].snapshot
    BY <1>1 DEF DriveRec
  <2>. HIDE DEF d
  <2>3. Carries(exec[s], d)
    BY <2>2 DEF Carries
  <2>4. QED
    BY <1>1, <2>1, <2>2, <2>3, QuietTurns
<1>3. CASE DriveEnd(s) \/ DriveFinish(s)
  <2>1. PICK pc \in {"finish", "done"} : drive' = [drive EXCEPT ![s].pc = pc]
    BY <1>3 DEF DriveEnd, DriveFinish
  <2>. DEFINE d == [drive[s] EXCEPT !.pc = pc]
  <2>2. drive' = [drive EXCEPT ![s] = d] /\ drive[s].pc # "send"
    BY <1>3, <2>1 DEF DriveEnd, DriveFinish, Shape, Types
  <2>3. d.pc = pc
    BY <1>1 DEF DriveRec
  <2>. HIDE DEF d
  <2>4. Carries(exec[s], d)
    BY <2>1, <2>3 DEF Carries
  <2>5. QED
    BY <1>1, <2>1, <2>2, <2>3, <2>4, QuietTurns
<1>4. ASSUME NEW e \in ExecuteItems, DrivePull(s, e) PROVE Turns'
  <2>. DEFINE d       == drive[s]
              answers == e.kind = "message"
              over    == [d EXCEPT !.pc = "finish"]
              fails   == [d EXCEPT !.pc = "fail", !.failed = TRUE]
              takes   == [d EXCEPT !.pc = IF NeedsSave(e) THEN "save" ELSE AfterSave,
                                   !.item = e, !.count = @ + 1,
                                   !.answered = answers, !.tracked = @ \/ ~answers]
  <2>1. d.pc = "pull" /\ \E f \in {over, fails, takes} : drive' = [drive EXCEPT ![s] = f]
    BY <1>4 DEF DrivePull
  <2>2. /\ over.pc = "finish" /\ fails.pc = "fail"
        /\ takes.pc = IF NeedsSave(e) THEN "save" ELSE AfterSave
        /\ takes.item = e /\ takes.cur = d.cur
    BY <1>1 DEF DriveRec
  <2>3. AfterSave \in {"push", "number"}
    BY DEF AfterSave
  <2>. HIDE DEF over, fails, takes
  <2>4. d.cur.state = exec[s].snapshot.state
    BY <1>1, <2>1 DEF Carries
  <2>5. Carries(exec[s], over) /\ Carries(exec[s], fails)
    BY <2>2 DEF Carries
  <2>6. Carries(exec[s], takes)
    <3>1. CASE NeedsSave(e)
      BY <2>2, <2>4, <3>1 DEF Carries
    <3>2. CASE ~NeedsSave(e)
      <4>1. ~ShowsState(e)
        BY <3>2 DEF NeedsSave, ShowsState
      <4>2. takes.pc \in {"push", "number"}
        BY <2>2, <2>3, <3>2
      <4>3. QED
        BY <2>2, <2>4, <4>1, <4>2 DEF Carries
    <3>3. QED
      BY <3>1, <3>2
  <2>7. /\ over.pc \notin {"off", "send"} /\ fails.pc \notin {"off", "send"}
        /\ takes.pc \notin {"off", "send"}
    BY <2>2, <2>3
  <2>8. PICK f \in {over, fails, takes} : drive' = [drive EXCEPT ![s] = f]
    BY <2>1
  <2>9. f.pc \notin {"off", "send"} /\ Carries(exec[s], f)
    BY <2>5, <2>6, <2>7, <2>8
  <2>10. QED
    BY <1>1, <2>1, <2>8, <2>9, QuietTurns
<1>5. QED
  BY <1>2, <1>3, <1>4

(* The store takes the item, or refuses it.                                *)
LEMMA AppliedShows ==
  ASSUME NEW task \in Task, NEW e
  PROVE  Applied(task, e).state = IF ShowsState(e) THEN e.state ELSE task.state
BY DEF Applied, ShowsState, Task

LEMMA DriveSavesTurns ==
  ASSUME Shape, Turns, NEW s \in Sends,
         DriveSave(s) \/ DriveCreate(s) \/ DrivePush(s)
  PROVE  Turns'
<1>. DEFINE d     == drive[s]
            task  == Applied(d.cur, d.item)
            saved == [d EXCEPT !.pc = AfterSave, !.cur = task]
            anew  == [d EXCEPT !.pc = "create"]
            fails == [d EXCEPT !.pc = "fail", !.failed = TRUE]
            told  == [d EXCEPT !.pc = "number"]
<1>1. /\ UNCHANGED <<exec, send, sub, stream, seen>> /\ d \in DriveRec
      /\ Carries(exec[s], d) /\ d.pc \in {"save", "create", "push"} /\ d.cur \in Task
  BY DEF DriveSave, DriveCreate, DrivePush, DriveUnchanged, streams, Turns, Shape, Types,
     Holds, DriveHolds
<1>2. \/ d.pc \in {"save", "create"} /\ drive' = [drive EXCEPT ![s] = saved]
      \/ d.pc = "save" /\ drive' = [drive EXCEPT ![s] = anew]
      \/ drive' = [drive EXCEPT ![s] = fails]
      \/ d.pc = "push" /\ drive' = [drive EXCEPT ![s] = told]
  BY DEF DriveSave, DriveCreate, DrivePush, Shape, Types
<1>3. /\ saved.pc = AfterSave /\ saved.cur = task /\ saved.item = d.item
      /\ anew.pc = "create" /\ anew.cur = d.cur /\ fails.pc = "fail"
      /\ told.pc = "number" /\ told.cur = d.cur /\ told.item = d.item
  BY <1>1 DEF DriveRec
<1>4. AfterSave \in {"push", "number"}
  BY DEF AfterSave
<1>5. task.state = IF ShowsState(d.item) THEN d.item.state ELSE d.cur.state
  BY <1>1, AppliedShows
<1>. HIDE DEF saved, anew, fails, told, task
<1>6. d.pc \in {"save", "create"} => Carries(exec[s], saved)
  BY <1>1, <1>3, <1>4, <1>5 DEF Carries
<1>7. d.pc = "save" => Carries(exec[s], anew)
  BY <1>1, <1>3 DEF Carries
<1>8. Carries(exec[s], fails)
  BY <1>3 DEF Carries
<1>9. d.pc = "push" => Carries(exec[s], told)
  BY <1>1, <1>3 DEF Carries
<1>10. PICK f \in {saved, anew, fails, told} :
         drive' = [drive EXCEPT ![s] = f] /\ Carries(exec[s], f)
  BY <1>2, <1>6, <1>7, <1>8, <1>9
<1>11. f.pc \notin {"off", "send"} /\ d.pc # "send"
  BY <1>1, <1>3, <1>4, <1>10
<1>12. QED
  BY <1>1, <1>10, <1>11, QuietTurns

LEMMA DriveFailsTurns ==
  ASSUME Shape, Turns, NEW s \in Sends,
         DriveFail(s) \/ DriveFailCreate(s) \/ DriveFailPush(s)
  PROVE  Turns'
<1>. DEFINE d    == drive[s]
            task == [d.cur EXCEPT !.state = "Failed"]
            lost == [d EXCEPT !.pc = "number", !.item = Error, !.cur = NoTask]
            anew == [d EXCEPT !.pc = "failCreate"]
            ends == [d EXCEPT !.pc = "failPush", !.cur = task]
            told == [d EXCEPT !.pc = "number", !.item = Error]
<1>1. /\ UNCHANGED <<exec, send, sub, stream, seen>> /\ d \in DriveRec
      /\ d.pc \in {"fail", "failCreate", "failPush"}
  BY DEF DriveFail, DriveFailCreate, DriveFailPush, DriveUnchanged, streams, Shape, Types
<1>2. \E f \in {lost, anew, ends, told} : drive' = [drive EXCEPT ![s] = f]
  <2>1. CASE DriveFail(s)
    BY <2>1 DEF DriveFail, Shape, Types
  <2>2. CASE DriveFailCreate(s)
    BY <2>2 DEF DriveFailCreate, Shape, Types
  <2>3. CASE DriveFailPush(s)
    BY <2>3 DEF DriveFailPush, Shape, Types
  <2>4. QED
    BY <2>1, <2>2, <2>3
<1>3. /\ lost.pc = "number" /\ lost.item = Error /\ anew.pc = "failCreate"
      /\ ends.pc = "failPush" /\ told.pc = "number" /\ told.item = Error
  BY <1>1 DEF DriveRec
<1>. HIDE DEF lost, anew, ends, told
<1>4. PICK f \in {lost, anew, ends, told} : drive' = [drive EXCEPT ![s] = f]
  BY <1>2
<1>5. Carries(exec[s], f) /\ f.pc \notin {"off", "send"} /\ d.pc # "send"
  <2>1. f.pc \in {"failCreate", "failPush"} \/ (f.pc = "number" /\ f.item = Error)
    BY <1>3, <1>4
  <2>2. QED
    BY <1>1, <2>1 DEF Carries, Error
<1>6. QED
  BY <1>1, <1>4, <1>5, QuietTurns

(* publish, first half.                                                    *)
LEMMA DriveNumberTurns ==
  ASSUME Shape, Turns, NEW s \in Sends, DriveNumber(s)
  PROVE  Turns'
<1>. DEFINE d == drive[s]
            x == exec[s]
            e == [d EXCEPT !.pc = "send", !.sequence = x.sequence + 1]
            z == Advance(x, d.cur)
<1>1. /\ UNCHANGED <<send, sub, stream, seen>> /\ d \in DriveRec /\ d.pc = "number"
      /\ drive' = [drive EXCEPT ![s] = e] /\ exec' = [exec EXCEPT ![s] = z]
      /\ x \in Exec /\ x.snapshot \in Task /\ (d.item = Error \/ d.cur \in Task)
      /\ d.cur \in Task \union {NoTask} /\ Numbers(x, d) /\ Carries(x, d)
  BY DEF DriveNumber, DriveUnchanged, streams, Turns, Shape, Types, Holds, DriveHolds,
     DriveRec
<1>2. e.pc = "send" /\ e.sequence = x.sequence + 1 /\ e.item = d.item /\ e.cur = d.cur
  BY <1>1 DEF DriveRec
<1>3. /\ z \in Exec /\ z.sent = x.sent /\ z.sequence = x.sequence + 1
      /\ z.snapshot = IF d.cur = NoTask THEN x.snapshot ELSE d.cur
  BY <1>1, AdvanceType DEF Advance, Exec
<1>. HIDE DEF e, z
<1>4. d.item.kind # "error" => z.snapshot = d.cur
  BY <1>1, <1>3, NoTaskAssumption DEF Error
<1>5. d.item.kind # "error" =>
        d.cur.state = IF ShowsState(d.item) THEN d.item.state ELSE x.snapshot.state
  BY <1>1 DEF Carries
<1>6. Carries(z, e)
  BY <1>2, <1>4, <1>5 DEF Carries
<1>7. e.item.kind = "error" \/ ShowsState(e.item) \/ z.snapshot.state = x.snapshot.state
  BY <1>2, <1>4, <1>5
<1>8. /\ Numbers(z, e)
      /\ \A st \in Receiver : Follows(x, d, st) => Follows(z, e, st)
      /\ \A st, y : Whole(x, d, st, y) => Whole(z, e, st, y)
      /\ \A st \in Receiver : \A y :
           Follows(x, d, st) /\ Shows(x, d, st, y) => Shows(z, e, st, y)
  <2>1. d.pc # "send"
    BY <1>1
  <2>2. QED
    BY <1>1, <1>2, <1>3, <1>7, <2>1, NumberShows
<1>9. \A u \in Subs : stream[u].sub \in Receiver
  BY DEF Shape, Types, StreamRec
<1>10. e.pc # "off" /\ Numbers(z, e)
  BY <1>2, <1>8
<1>11. ASSUME NEW u \in Subs, stream[u].src = s, Follows(x, d, stream[u].sub)
       PROVE  /\ Follows(z, e, stream[u].sub)
              /\ Whole(x, d, stream[u].sub, seen[u]) => Whole(z, e, stream[u].sub, seen[u])
              /\ Shows(x, d, stream[u].sub, seen[u]) => Shows(z, e, stream[u].sub, seen[u])
  BY <1>8, <1>9, <1>11
<1>12. /\ UNCHANGED <<send, sub, stream, seen>>
       /\ drive' = [drive EXCEPT ![s] = e] /\ exec' = [exec EXCEPT ![s] = z]
  BY <1>1
<1>13. /\ drive'[s] = e /\ exec'[s] = z
       /\ \A q \in Sends \ {s} : drive'[q] = drive[q] /\ exec'[q] = exec[q]
  BY <1>12 DEF Shape, Types
<1>14. QED
  BY <1>6, <1>10, <1>12, <1>11, <1>13, DriveTurns

(* ... and second half: a subscription to the turn is one that listens.    *)
LEMMA DriveSendTurns ==
  ASSUME Shape, Turns, NEW s \in Sends, DriveSend(s)
  PROVE  Turns'
<1>. DEFINE d == drive[s]
            x == exec[s]
            e == [d EXCEPT !.pc = IF EndsStream(d.item) THEN "finish" ELSE "pull"]
            n == [event |-> d.item, sequence |-> d.sequence]
            z == Broadcast(x, d.item, d.sequence, Listeners(s))
<1>1. /\ UNCHANGED <<send, sub, stream, seen>> /\ d \in DriveRec /\ d.pc = "send"
      /\ drive' = [drive EXCEPT ![s] = e] /\ exec' = [exec EXCEPT ![s] = z]
      /\ x \in Exec /\ d.item \in Item /\ d.sequence \in Nat
      /\ Numbers(x, d) /\ Carries(x, d)
  BY DEF DriveSend, DriveUnchanged, streams, Turns, Shape, Types, DriveRec
<1>2. /\ e.pc = IF EndsStream(d.item) THEN "finish" ELSE "pull"
      /\ e.cur = d.cur
  BY <1>1 DEF DriveRec
<1>3. /\ z \in Exec /\ z.snapshot = x.snapshot /\ z.sequence = x.sequence
      /\ z.sent = IF Listeners(s) = {} THEN x.sent ELSE Append(x.sent, n)
  BY <1>1, BroadcastType DEF Broadcast, Exec
<1>4. n \in Numbered
  BY <1>1 DEF Numbered
<1>. HIDE DEF e, z, n
<1>5. e.pc \in {"finish", "pull"} /\ (e.pc = "pull" => d.item.kind # "error")
  BY <1>2 DEF EndsStream
<1>6. d.item.kind = "error" \/ (ShowsState(d.item) => d.item.state = x.snapshot.state)
  BY <1>1 DEF Carries
<1>7. Carries(z, e)
  BY <1>1, <1>2, <1>3, <1>5 DEF Carries
<1>8. Numbers(z, e)
  BY <1>1, <1>3, <1>4, <1>5, SendNumbers DEF n
<1>9. ASSUME NEW u \in Subs, stream[u].src = s, Follows(x, d, stream[u].sub)
      PROVE  /\ Follows(z, e, stream[u].sub)
             /\ Whole(x, d, stream[u].sub, seen[u]) => Whole(z, e, stream[u].sub, seen[u])
             /\ Shows(x, d, stream[u].sub, seen[u]) => Shows(z, e, stream[u].sub, seen[u])
  <2>1. z.sent = Append(x.sent, n)
    BY <1>3, <1>9 DEF Listeners
  <2>2. stream[u].sub \in Receiver
    BY DEF Shape, Types, StreamRec
  <2>3. e.pc # "send" /\ d.pc = "send" /\ x \in Exec /\ Numbers(x, d)
    BY <1>1, <1>5
  <2>4. n = [event |-> d.item, sequence |-> d.sequence]
    BY DEF n
  <2>. DEFINE st == stream[u].sub
  <2>. HIDE DEF d, x, st
  <2>5. /\ Follows(z, e, st)
        /\ \A y : Whole(x, d, st, y) => Whole(z, e, st, y)
        /\ \A y : Shows(x, d, st, y) => Shows(z, e, st, y)
    BY <1>3, <1>4, <1>6, <1>9, <2>1, <2>2, <2>3, <2>4, SendShows DEF st
  <2>6. QED
    BY <2>5 DEF st
<1>10. e.pc # "off"
  BY <1>5
<1>11. /\ UNCHANGED <<send, sub, stream, seen>>
       /\ drive' = [drive EXCEPT ![s] = e] /\ exec' = [exec EXCEPT ![s] = z]
  BY <1>1
<1>12. /\ drive'[s] = e /\ exec'[s] = z
       /\ \A q \in Sends \ {s} : drive'[q] = drive[q] /\ exec'[q] = exec[q]
  BY <1>11 DEF Shape, Types
<1>13. QED
  BY <1>7, <1>8, <1>10, <1>11, <1>9, <1>12, DriveTurns

LEMMA DriveStepTurns ==
  ASSUME Shape, Turns, NEW s \in Sends, DriveStep(s)
  PROVE  Turns'
BY DriveReadsTurns, DriveSavesTurns, DriveFailsTurns, DriveNumberTurns, DriveSendTurns
   DEF DriveStep

-----------------------------------------------------------------------------
(* The steps of a send.                                                    *)

(* No execution moves, and no subscription's stream.                       *)
LEMMA StillTurns ==
  ASSUME Turns, UNCHANGED <<exec, drive, sub>>,
         \A s \in Sends : send[s].pc = "registered" => send'[s].pc = "registered",
         \A u \in Subs : stream'[u] = stream[u] /\ seen'[u] = seen[u]
  PROVE  Turns'
<1>1. ASSUME NEW u \in Subs, NEW s \in Sends, stream'[u].src = s PROVE Listens(u, s)'
  <2>1. Listens(u, s)
    BY <1>1 DEF Turns
  <2>2. QED
    BY <2>1 DEF Listens
<1>2. QED
  BY <1>1 DEF Turns

(* A send that answers, prepares or yields moves its own stream only.      *)
LEMMA SendsTurns ==
  ASSUME Shape, Turns, NEW s \in Sends,
         \/ \E t \in Tasks, m \in Modes : SendExisting(s, t, m) \/ SendNew(s, t, m)
         \/ SendConfigRefused(s) \/ SendDropped(s) \/ SendReceive(s)
         \/ SendEnd(s) \/ SendReload(s) \/ Skip(s)
  PROVE  Turns'
<1>1. s \notin Subs
  BY ModelAssumption
<1>2. /\ UNCHANGED <<exec, drive, sub>> /\ send[s].pc # "registered"
      /\ \/ UNCHANGED send
         \/ \E r : Answer(s, r)
         \/ \E r : send' = [send EXCEPT ![s] = r]
         \/ send' = [send EXCEPT ![s].pc = "reload"]
  <2>1. CASE \E t \in Tasks, m \in Modes : SendExisting(s, t, m) \/ SendNew(s, t, m)
    BY <2>1 DEF SendExisting, SendNew, manager
  <2>2. CASE SendConfigRefused(s) \/ SendDropped(s) \/ SendReload(s)
    BY <2>2 DEF SendConfigRefused, SendDropped, SendReload, manager
  <2>3. CASE SendReceive(s) \/ SendEnd(s)
    BY <2>3, Zenon DEF SendReceive, SendEnd, manager
  <2>4. CASE Skip(s)
    BY <1>1, <2>4 DEF Skip, manager, handlers
  <2>5. QED
    BY <2>1, <2>2, <2>3, <2>4
<1>3. \A q \in Sends : send[q].pc = "registered" => send'[q].pc = "registered"
  <2>1. \A q \in Sends \ {s} : send'[q] = send[q]
    BY <1>2 DEF Answer, Shape, Types
  <2>2. QED
    BY <1>2, <2>1
<1>4. /\ \/ UNCHANGED stream
         \/ \E r : stream' = [stream EXCEPT ![s] = r]
         \/ \E r : stream' = [stream EXCEPT ![s].sub = r]
      /\ UNCHANGED seen \/ \E r : seen' = [seen EXCEPT ![s] = r]
  <2>1. CASE \E t \in Tasks, m \in Modes : SendExisting(s, t, m) \/ SendNew(s, t, m)
    BY <2>1 DEF SendExisting, SendNew, streams
  <2>2. CASE SendConfigRefused(s) \/ SendDropped(s) \/ SendReload(s) \/ SendEnd(s)
    BY <2>2 DEF SendConfigRefused, SendDropped, SendReload, SendEnd, streams
  <2>3. CASE SendReceive(s)
    <3>1. \E keep \in BOOLEAN : Yield(s, keep)
      BY <2>3 DEF SendReceive
    <3>2. QED
      BY <3>1 DEF Yield, Shape, Types
  <2>4. CASE Skip(s)
    BY <2>4 DEF Skip
  <2>5. QED
    BY <2>1, <2>2, <2>3, <2>4
<1>5. \A u \in Subs : stream'[u] = stream[u] /\ seen'[u] = seen[u]
  BY <1>1, <1>4 DEF Shape, Types
<1>6. QED
  BY <1>2, <1>3, <1>5, StillTurns

(* start: whoever waited is given the fresh execution from its first       *)
(* event, and nobody else has it yet.                                      *)
LEMMA SendStartTurns ==
  ASSUME Shape, Turns, NEW s \in Sends, SendStart(s)
  PROVE  Turns'
<1>. DEFINE t    == send[s].id
            x    == NewExecution(send[s].task)
            r    == Subscription(0, send[s].task, 0)
            open == [src |-> s, sub |-> r]
<1>1. /\ send[s].pc = "prepared" /\ t \in Tasks /\ drive[s].pc = "off"
      /\ send[s].task \in Task /\ UNCHANGED <<drive, sub, seen>>
  BY DEF SendStart, Shape, Holds, SendHolds
<1>2. CASE Answer(s, "inProgress") /\ UNCHANGED <<manager, stream>>
  <2>1. \A q \in Sends : send[q].pc = "registered" => send'[q].pc = "registered"
    BY <1>1, <1>2 DEF Answer, Shape, Types
  <2>2. QED
    BY <1>1, <1>2, <2>1, StillTurns DEF manager
<1>3. CASE /\ send'   = [send EXCEPT ![s].pc = "registered"]
           /\ exec'   = [exec EXCEPT ![s] = x]
           /\ stream' = [p \in Sends \union Subs |-> IF p \in waiting[t] THEN open
                                                                       ELSE stream[p]]
  <2>1. /\ exec'[s] = x /\ send'[s].pc = "registered"
        /\ \A q \in Sends \ {s} : exec'[q] = exec[q] /\ send'[q] = send[q]
    BY <1>3 DEF Shape, Types
  <2>2. /\ Numbers(x, drive[s]) /\ Follows(x, drive[s], r)
        /\ \A y : Whole(x, drive[s], r, y) /\ Shows(x, drive[s], r, y)
    BY <1>1, StartShows
  <2>3. Carries(x, drive[s])
    BY <1>1 DEF Carries
  <2>4. open.src = s /\ open.sub = r
    OBVIOUS
  <2>. HIDE DEF x, r, open
  <2>5. \A q \in Sends : (Numbers(exec[q], drive[q]) /\ Carries(exec[q], drive[q]))'
    BY <1>1, <2>1, <2>2, <2>3 DEF Turns
  <2>6. ASSUME NEW u \in Subs
        PROVE  /\ stream'[u].src \in Sends \union {None}
               /\ \A q \in Sends : stream'[u].src = q => Listens(u, q)'
    <3>1. CASE u \in waiting[t]
      <4>1. stream'[u] = open /\ open.src = s
        BY <1>3, <2>4, <3>1
      <4>2. Listens(u, s)'
        <5>1. stream'[u].sub = r /\ exec'[s] = x /\ drive'[s] = drive[s]
          BY <1>1, <2>1, <2>4, <4>1
        <5>2. QED
          BY <2>1, <2>2, <5>1 DEF Listens
      <4>3. QED
        BY <2>4, <4>1, <4>2
    <3>2. CASE u \notin waiting[t]
      <4>1. stream'[u] = stream[u]
        BY <1>3, <3>2
      <4>2. ASSUME NEW q \in Sends, stream[u].src = q PROVE q # s /\ Listens(u, q)
        BY <1>1, <4>2 DEF Turns, Listens
      <4>3. ASSUME NEW q \in Sends, stream[u].src = q PROVE Listens(u, q)'
        <5>1. Listens(u, q) /\ exec'[q] = exec[q] /\ send'[q] = send[q]
          BY <2>1, <4>2, <4>3
        <5>2. QED
          BY <1>1, <4>1, <5>1 DEF Listens
      <4>4. QED
        BY <4>1, <4>3 DEF Turns
    <3>3. QED
      BY <3>1, <3>2
  <2>7. QED
    BY <2>5, <2>6 DEF Turns
<1>4. QED
  BY <1>2, <1>3 DEF SendStart

LEMMA SendSpawnTurns ==
  ASSUME Shape, Turns, NEW s \in Sends, SendSpawn(s)
  PROVE  Turns'
<1>. DEFINE d == drive[s]
            e == [d EXCEPT !.pc = "ready"]
<1>1. /\ send[s].pc = "registered" /\ d.pc = "off" /\ d \in DriveRec
      /\ drive' = [drive EXCEPT ![s] = e] /\ UNCHANGED <<exec, sub, seen>>
      /\ \A q \in Sends \ {s} : send'[q] = send[q] /\ drive'[q] = drive[q]
      /\ drive'[s] = e
  BY DEF SendSpawn, manager, Shape, Types, Holds, SendHolds
<1>2. e.pc = "ready"
  BY <1>1 DEF DriveRec
<1>3. \A u \in Subs : stream'[u] = stream[u] /\ seen'[u] = seen[u]
  <2>1. s \notin Subs
    BY ModelAssumption
  <2>2. \A q \in (Sends \union Subs) \ {s} : stream'[q] = stream[q]
    BY DEF SendSpawn, Shape, Types
  <2>3. QED
    BY <1>1, <2>1, <2>2
<1>. HIDE DEF d, e
<1>4. /\ Numbers(exec[s], d) => Numbers(exec[s], e)
      /\ \A st : Follows(exec[s], d, st) => Follows(exec[s], e, st)
      /\ \A st, y : Whole(exec[s], d, st, y) => Whole(exec[s], e, st, y)
      /\ \A st, y : Shows(exec[s], d, st, y) => Shows(exec[s], e, st, y)
  BY <1>1, <1>2, QuietDrive
<1>5. Carries(exec[s], e)
  BY <1>2 DEF Carries
<1>6. \A q \in Sends : (Numbers(exec[q], drive[q]) /\ Carries(exec[q], drive[q]))'
  BY <1>1, <1>4, <1>5 DEF Turns, d
<1>7. ASSUME NEW u \in Subs, NEW q \in Sends, stream'[u].src = q PROVE Listens(u, q)'
  <2>1. Listens(u, q) /\ stream'[u] = stream[u] /\ seen'[u] = seen[u]
    BY <1>3, <1>7 DEF Turns
  <2>2. CASE q # s
    <3>1. send'[q] = send[q] /\ drive'[q] = drive[q]
      BY <1>1, <2>2
    <3>2. QED
      BY <1>1, <2>1, <3>1 DEF Listens
  <2>3. CASE q = s
    BY <1>1, <1>2, <1>4, <2>1, <2>3 DEF Listens, d
  <2>4. QED
    BY <2>2, <2>3
<1>8. QED
  BY <1>3, <1>6, <1>7 DEF Turns

LEMMA SendStepTurns ==
  ASSUME Shape, Turns, NEW s \in Sends,
         \/ \E t \in Tasks, m \in Modes : SendExisting(s, t, m) \/ SendNew(s, t, m)
         \/ SendConfigRefused(s) \/ SendDropped(s) \/ SendStep(s)
  PROVE  Turns'
<1>1. CASE SendStart(s)
  BY <1>1, SendStartTurns
<1>2. CASE SendSpawn(s)
  BY <1>2, SendSpawnTurns
<1>3. CASE ~SendStart(s) /\ ~SendSpawn(s)
  BY <1>3, SendsTurns DEF SendStep
<1>4. QED
  BY <1>1, <1>2, <1>3

-----------------------------------------------------------------------------
(* The steps of a subscription.                                            *)

(* Nothing moves but u and its stream.                                     *)
LEMMA SubTurns ==
  ASSUME Shape, Turns, NEW u \in Subs, UNCHANGED <<send, exec, drive>>,
         \A v \in Subs \ {u} :
           stream'[v] = stream[v] /\ seen'[v] = seen[v] /\ sub'[v] = sub[v],
         stream'[u].src \in Sends \union {None},
         \A s \in Sends : stream'[u].src = s => Listens(u, s)'
  PROVE  Turns'
<1>1. ASSUME NEW v \in Subs, NEW s \in Sends, stream'[v].src = s PROVE Listens(v, s)'
  <2>1. CASE v = u
    BY <1>1, <2>1
  <2>2. CASE v # u
    <3>1. Listens(v, s)
      BY <1>1, <2>2 DEF Turns
    <3>2. QED
      BY <2>2, <3>1 DEF Listens
  <2>3. QED
    BY <2>1, <2>2
<1>2. QED
  BY <1>1 DEF Turns

LEMMA WithdrawTurns ==
  ASSUME Shape, Turns, NEW u \in Subs, Withdraw(u), SubUnchanged, UNCHANGED seen
  PROVE  Turns'
<1>1. /\ UNCHANGED <<send, exec, drive>> /\ stream'[u].src = None
      /\ \A v \in Subs \ {u} : stream'[v] = stream[v] /\ sub'[v] = sub[v]
  BY DEF Withdraw, SubUnchanged, NoStream, Shape, Types
<1>2. None \notin Sends
  BY ModelAssumption
<1>3. \A s \in Sends : stream'[u].src = s => Listens(u, s)'
  BY <1>1, <1>2
<1>4. QED
  BY <1>1, <1>3, SubTurns

(* A subscription whose stream stays as it is goes on, past attaching or   *)
(* not.                                                                    *)
LEMMA SubOnTurns ==
  ASSUME Shape, Turns, NEW u \in Subs, sub[u].pc # "attaching", SubUnchanged,
         NEW r, sub' = [sub EXCEPT ![u] = r], UNCHANGED stream,
         UNCHANGED seen \/ (~Opened(u) /\ \E y : seen' = [seen EXCEPT ![u] = y])
  PROVE  Turns'
<1>1. /\ UNCHANGED <<send, exec, drive>>
      /\ \A v \in Subs \ {u} :
           stream'[v] = stream[v] /\ seen'[v] = seen[v] /\ sub'[v] = sub[v]
  BY DEF SubUnchanged, Shape, Types
<1>2. stream'[u].src \in Sends \union {None}
  BY DEF Turns
<1>3. ASSUME NEW s \in Sends, stream'[u].src = s PROVE Listens(u, s)'
  <2>1. Opened(u)
    BY <1>3, ModelAssumption DEF Opened
  <2>2. Listens(u, s) /\ UNCHANGED seen
    BY <1>3, <2>1 DEF Turns
  <2>3. QED
    BY <1>1, <2>2 DEF Listens
<1>4. QED
  BY <1>1, <1>2, <1>3, SubTurns

(* subscribe finds a running execution: its receiver starts after what was *)
(* sent so far.                                                            *)
LEMMA SubRegisterTurns ==
  ASSUME Shape, Registered, Turns, NEW u \in Subs, NEW t \in Tasks, SubRegister(u, t)
  PROVE  Turns'
<1>1. sub[u].pc = "idle" /\ SubUnchanged /\ UNCHANGED seen
  BY DEF SubRegister
<1>2. CASE registry[t] = None
  <2>. DEFINE r == [sub[u] EXCEPT !.pc = "load", !.id = t]
  <2>1. sub' = [sub EXCEPT ![u] = r] /\ UNCHANGED stream
    BY <1>2 DEF SubRegister, Shape, Types
  <2>. HIDE DEF r
  <2>2. sub[u].pc # "attaching"
    BY <1>1
  <2>3. QED
    BY <1>1, <2>1, <2>2, SubOnTurns
<1>3. CASE registry[t] # None
  <2>1. PICK s \in Sends : s = registry[t]
    BY <1>3 DEF Shape, Types
  <2>. DEFINE x    == exec[s]
              st   == Subscription(Len(x.sent), NoTask, 0)
              open == [src |-> s, sub |-> st]
              r    == [sub[u] EXCEPT !.pc = "attaching", !.id = t]
  <2>2. /\ sub' = [sub EXCEPT ![u] = r] /\ stream' = [stream EXCEPT ![u] = open]
    BY <1>3, <2>1 DEF SubRegister, Shape, Types
  <2>3. r.pc = "attaching" /\ open.src = s /\ open.sub = st
    BY DEF Shape, Types, SubRec
  <2>4. st.pos = Len(x.sent) /\ st.min = 0
    BY DEF Subscription
  <2>5. Len(x.sent) \in Nat /\ x.sequence \in Nat
    BY LenProperties DEF Exec, Shape, Types
  <2>6. Follows(x, drive[s], st)
    <3>1. \A j \in st.pos + 1 .. Len(x.sent) : FALSE
      BY <2>4, <2>5
    <3>2. QED
      BY <2>4, <2>5, <3>1 DEF Follows
  <2>7. send[s].pc = "registered" \/ drive[s].pc # "off"
    BY <1>3, <2>1 DEF Registered, RegistryIsLive
  <2>. HIDE DEF st, open, r
  <2>8. /\ sub'[u] = r /\ stream'[u] = open
        /\ \A v \in Subs \ {u} : stream'[v] = stream[v] /\ sub'[v] = sub[v]
    BY <2>2 DEF Shape, Types
  <2>9. UNCHANGED <<send, exec, drive>>
    BY <1>1 DEF SubUnchanged
  <2>10. Listens(u, s)'
    BY <2>3, <2>6, <2>7, <2>8, <2>9 DEF Listens
  <2>11. QED
    BY <1>1, <2>3, <2>8, <2>9, <2>10, SubTurns
<1>4. QED
  BY <1>2, <1>3

(* ... and then takes the snapshot, still under the registry's lock.       *)
LEMMA SubAttachTurns ==
  ASSUME Shape, Streams, Turns, NEW u \in Subs, SubAttach(u)
  PROVE  Turns'
<1>1. /\ sub[u].pc = "attaching" /\ seen[u] = <<>>
      /\ UNCHANGED <<send, exec, drive, seen>>
      /\ stream[u] \in StreamRec /\ stream[u].sub \in Receiver
  BY DEF SubAttach, SubUnchanged, Shape, Types, Streams, StreamRec
<1>2. PICK s \in Sends : s = stream[u].src
  BY <1>1 DEF Shape, Holds, SubHolds
<1>. DEFINE x  == exec[s]
            st == stream[u].sub
            r  == [st EXCEPT !.snapshot = x.snapshot, !.min = x.sequence]
<1>3. Listens(u, s) /\ Numbers(x, drive[s]) /\ x \in Exec
  BY <1>2 DEF Turns, Shape, Types
<1>4. x.snapshot \in Task
  BY <1>3 DEF Listens, Shape, Holds, SendHolds, DriveHolds
<1>5. /\ sub'[u].pc = "streaming" /\ stream'[u].src = s /\ stream'[u].sub = r
      /\ \A v \in Subs \ {u} : stream'[v] = stream[v] /\ sub'[v] = sub[v]
  <2>1. sub' = [sub EXCEPT ![u].pc = "streaming"] /\ stream' = [stream EXCEPT ![u].sub = r]
    BY <1>2 DEF SubAttach
  <2>. HIDE DEF r
  <2>2. QED
    BY <1>1, <1>2, <2>1 DEF Shape, Types, StreamRec, SubRec
<1>6. Follows(x, drive[s], st) /\ x.snapshot # NoTask
  BY <1>3, <1>4, NoTaskAssumption DEF Listens
<1>7. Follows(x, drive[s], r) /\ Whole(x, drive[s], r, <<>>) /\ Shows(x, drive[s], r, <<>>)
  BY <1>1, <1>3, <1>6, AttachShows
<1>. HIDE DEF r
<1>8. Listens(u, s)'
  BY <1>1, <1>3, <1>5, <1>7 DEF Listens
<1>9. UNCHANGED <<send, exec, drive>>
  BY <1>1
<1>10. \A v \in Subs \ {u} :
         stream'[v] = stream[v] /\ seen'[v] = seen[v] /\ sub'[v] = sub[v]
  BY <1>1, <1>5
<1>11. /\ stream'[u].src \in Sends \union {None}
       /\ \A q \in Sends : stream'[u].src = q => Listens(u, q)'
  BY <1>5, <1>8
<1>. HIDE DEF x, st
<1>12. QED
  BY ONLY Shape, Turns, u \in Subs, <1>9, <1>10, <1>11, SubTurns

LEMMA SubLoadsTurns ==
  ASSUME Shape, Turns, NEW u \in Subs, SubLoad(u) \/ SubDecide(u)
  PROVE  Turns'
<1>1. SubUnchanged /\ sub[u].pc \in {"load", "decide"}
  BY DEF SubLoad, SubDecide
<1>2. CASE Withdraw(u) /\ UNCHANGED seen
  BY <1>1, <1>2, WithdrawTurns
<1>3. ASSUME \/ sub' = [sub EXCEPT ![u].pc = "decide",
                                  ![u].task = store.entries[sub[u].id].task]
             \/ sub' = [sub EXCEPT ![u].pc = "streaming"],
             UNCHANGED stream,
             UNCHANGED seen \/ (~Opened(u) /\ \E y : seen' = [seen EXCEPT ![u] = y])
      PROVE  Turns'
  <2>1. \E r : sub' = [sub EXCEPT ![u] = r]
    BY <1>3 DEF Shape, Types
  <2>2. sub[u].pc # "attaching"
    BY <1>1
  <2>3. QED
    BY <1>1, <1>3, <2>1, <2>2, SubOnTurns
<1>4. CASE SubLoad(u)
  BY <1>2, <1>3, <1>4 DEF SubLoad
<1>5. CASE SubDecide(u)
  BY <1>2, <1>3, <1>5 DEF SubDecide, streams
<1>6. QED
  BY <1>4, <1>5

(* The stream yields, or passes an event over.                             *)
LEMMA SubReceiveTurns ==
  ASSUME Shape, Turns, NEW u \in Subs, SubReceive(u)
  PROVE  Turns'
<1>1. /\ sub[u].pc = "streaming" /\ Opened(u) /\ CanDeliver(Source(u), stream[u].sub)
      /\ Yield(u, TRUE) /\ UNCHANGED <<send, exec, drive, sub>>
      /\ stream[u] \in StreamRec /\ stream[u].sub \in Receiver /\ seen[u] \in Seq(Yielded)
  BY DEF SubReceive, SubUnchanged, Shape, Types, StreamRec
<1>2. PICK s \in Sends : s = stream[u].src
  BY <1>1 DEF Turns, Opened
<1>3. Source(u) = exec[s]
  BY <1>2, ModelAssumption DEF Source
<1>. DEFINE x  == exec[s]
            st == stream[u].sub
            r  == AfterDelivery(x, st)
            w  == Append(seen[u], Delivery(x, st))
<1>4. Listens(u, s) /\ Numbers(x, drive[s]) /\ x \in Exec /\ CanDeliver(x, st)
  BY <1>1, <1>2, <1>3 DEF Turns, Shape, Types
<1>5. Follows(x, drive[s], st)
  BY <1>4 DEF Listens
<1>6. /\ Follows(x, drive[s], r)
      /\ Whole(x, drive[s], st, seen[u]) => Whole(x, drive[s], r, w)
      /\ Shows(x, drive[s], st, seen[u]) => Shows(x, drive[s], r, w)
  BY <1>1, <1>4, <1>5, DeliveryShows
<1>7. /\ seen' = [seen EXCEPT ![u] = w]
      /\ stream' = [stream EXCEPT ![u] = [src |-> s, sub |-> r]]
  BY <1>1, <1>2, <1>3 DEF Yield, Next1, Shape, Types
<1>. HIDE DEF r, w
<1>8. /\ seen'[u] = w /\ stream'[u].src = s /\ stream'[u].sub = r
      /\ \A v \in Subs \ {u} : stream'[v] = stream[v] /\ seen'[v] = seen[v]
  BY <1>7 DEF Shape, Types
<1>9. Listens(u, s)'
  BY <1>1, <1>4, <1>6, <1>8 DEF Listens
<1>10. QED
  BY <1>1, <1>8, <1>9, SubTurns

LEMMA SubSkipTurns ==
  ASSUME Shape, Turns, NEW u \in Subs, Skip(u)
  PROVE  Turns'
<1>1. /\ Opened(u) /\ CanSkip(Source(u), stream[u].sub)
      /\ stream' = [stream EXCEPT ![u].sub = AfterSkip(stream[u].sub)]
      /\ UNCHANGED <<send, exec, drive, sub, seen>>
      /\ stream[u] \in StreamRec /\ stream[u].sub \in Receiver
  BY DEF Skip, manager, handlers, Shape, Types, StreamRec
<1>2. PICK s \in Sends : s = stream[u].src
  BY <1>1 DEF Turns, Opened
<1>3. Source(u) = exec[s]
  BY <1>2, ModelAssumption DEF Source
<1>. DEFINE x  == exec[s]
            st == stream[u].sub
            r  == AfterSkip(st)
<1>4. Listens(u, s) /\ Numbers(x, drive[s]) /\ x \in Exec /\ CanSkip(x, st)
  BY <1>1, <1>2, <1>3 DEF Turns, Shape, Types
<1>5. Follows(x, drive[s], st)
  BY <1>4 DEF Listens
<1>6. /\ Follows(x, drive[s], r)
      /\ Whole(x, drive[s], st, seen[u]) => Whole(x, drive[s], r, seen[u])
      /\ Shows(x, drive[s], st, seen[u]) => Shows(x, drive[s], r, seen[u])
  BY <1>1, <1>4, <1>5, SkipShows
<1>. HIDE DEF r
<1>7. /\ stream'[u].src = s /\ stream'[u].sub = r
      /\ \A v \in Subs \ {u} : stream'[v] = stream[v]
  BY <1>1, <1>2 DEF r, Shape, Types, StreamRec
<1>8. Listens(u, s)'
  BY <1>1, <1>4, <1>6, <1>7 DEF Listens
<1>9. QED
  BY <1>1, <1>7, <1>8, SubTurns

LEMMA SubStepTurns ==
  ASSUME Shape, Registered, Streams, Turns, NEW u \in Subs,
         \/ \E t \in Tasks : SubRegister(u, t)
         \/ SubDropped(u) \/ SubStep(u)
  PROVE  Turns'
<1>1. CASE \E t \in Tasks : SubRegister(u, t)
  BY <1>1, SubRegisterTurns
<1>2. CASE SubDropped(u) \/ SubEnd(u)
  <2>1. Withdraw(u) /\ SubUnchanged /\ UNCHANGED seen
    BY <1>2 DEF SubDropped, SubEnd
  <2>2. QED
    BY <2>1, WithdrawTurns
<1>3. CASE SubAttach(u)
  BY <1>3, SubAttachTurns
<1>4. CASE SubLoad(u) \/ SubDecide(u)
  BY <1>4, SubLoadsTurns
<1>5. CASE SubReceive(u)
  BY <1>5, SubReceiveTurns
<1>6. CASE Skip(u)
  BY <1>6, SubSkipTurns
<1>7. QED
  BY <1>1, <1>2, <1>3, <1>4, <1>5, <1>6 DEF SubStep

-----------------------------------------------------------------------------
(* The invariant of a system in which nobody cancels.                      *)

LEMMA NextTurns ==
  ASSUME Cancels = {}, Shape, Registered, Streams, Turns, [Next]_vars
  PROVE  Turns'
<1>1. CASE \E s \in Sends :
             \/ \E t \in Tasks, m \in Modes : SendExisting(s, t, m) \/ SendNew(s, t, m)
             \/ SendConfigRefused(s) \/ SendDropped(s) \/ SendStep(s)
  BY <1>1, SendStepTurns
<1>2. CASE \E s \in Sends : DriveStep(s)
  BY <1>2, DriveStepTurns
<1>3. CASE \E u \in Subs : \/ \E t \in Tasks : SubRegister(u, t)
                           \/ SubDropped(u) \/ SubStep(u)
  BY <1>3, SubStepTurns
<1>4. CASE UNCHANGED vars
  <2>1. UNCHANGED <<exec, drive, sub, send, stream, seen>>
    BY <1>4 DEF vars, handlers, manager, streams
  <2>2. QED
    BY <2>1, StillTurns
<1>5. QED
  BY <1>1, <1>2, <1>3, <1>4, Zenon DEF Next, Settled

LEMMA InitTurns ==
  ASSUME Init
  PROVE  Turns
<1>1. ASSUME NEW s \in Sends PROVE Numbers(exec[s], drive[s]) /\ Carries(exec[s], drive[s])
  <2>1. exec[s].sent = <<>> /\ drive[s].pc = "off"
    BY DEF Init, NewExecution
  <2>2. QED
    BY <2>1 DEF Numbers, Carries
<1>2. ASSUME NEW u \in Subs PROVE stream[u].src = None
  BY DEF Init, NoStream
<1>3. QED
  BY <1>1, <1>2, ModelAssumption DEF Turns

LEMMA TurnsAlways ==
  ASSUME Cancels = {}
  PROVE  Spec => [](Shape /\ Streams /\ Turns)
<1>. DEFINE I == Shape /\ Registered /\ Streams /\ InOrder /\ Turns
<1>1. Init => I
  BY InitShape, InitRegistered, InitStreams, InitTurns
<1>2. I /\ [Next]_vars => I'
  BY NextShape, NextRegistered, NextOrder, NextTurns
<1>3. I => Shape /\ Streams /\ Turns
  OBVIOUS
<1>. HIDE DEF I
<1>4. QED
  BY <1>1, <1>2, <1>3, PTL DEF Spec

(* A subscription that waited for the task's next turn, which nobody       *)
(* cancels, misses none of its events: it is past no event of the          *)
(* execution that it has not yielded ("subscribed before the executor      *)
(* runs", ExecutionManager::start).                                        *)
THEOREM WaitersMissNothing ==
  ASSUME Cancels = {}
  PROVE  Spec => []WaiterMissesNothing
<1>1. ASSUME Shape, Streams, Turns PROVE WaiterMissesNothing
  <2>1. ASSUME NEW u \in Subs, Len(seen[u]) > 1, seen[u][2].sequence = 0,
               stream[u].src \in Sends, NEW k \in 1 .. stream[u].sub.pos
        PROVE  \E j \in DOMAIN seen[u] : seen[u][j] = exec[stream[u].src].sent[k]
    <3>1. /\ seen[u] \in Seq(Yielded) /\ Len(seen[u]) \in Nat
          /\ DOMAIN seen[u] = 1 .. Len(seen[u])
      BY <1>1, LenProperties DEF Shape, Types
    <3>2. Listens(u, stream[u].src)
      BY <1>1, <2>1 DEF Turns
    <3>3. sub[u].pc # "attaching"
      <4>1. seen[u] # <<>>
        BY <2>1
      <4>2. QED
        BY <1>1, <4>1 DEF Streams
    <3>4. FromTheStart(stream[u].sub, seen[u])
      BY <2>1, <3>1 DEF FromTheStart
    <3>5. QED
      BY <2>1, <3>1, <3>2, <3>3, <3>4 DEF Listens, Whole
  <2>2. QED
    BY <2>1 DEF WaiterMissesNothing
<1>2. QED
  BY <1>1, TurnsAlways, PTL

(* A subscription whose stream ends without a terminal event or an error,  *)
(* after a turn nobody cancels, has been shown the state its execution     *)
(* left the task in (subscription_stream, ActiveExecution::publish).       *)
THEOREM EndsShowOutcomes ==
  ASSUME Cancels = {}
  PROVE  Spec => []EndShowsOutcome
<1>1. ASSUME Shape, Turns PROVE EndShowsOutcome
  <2>1. ASSUME NEW u \in Subs, sub[u].pc = "streaming", Opened(u), ~stream[u].sub.done,
               Exhausted(Source(u), stream[u].sub, Closed(stream[u].src))
        PROVE  LastShown(u) = Source(u).snapshot.state
    <3>1. PICK s \in Sends : s = stream[u].src
      BY <1>1, <2>1 DEF Turns, Opened
    <3>. DEFINE x  == exec[s]
                st == stream[u].sub
                y  == seen[u]
    <3>2. Source(u) = x /\ s # Dead
      BY <3>1, ModelAssumption DEF Source
    <3>3. /\ drive[s].pc = "done" /\ st.snapshot = NoTask /\ ~(st.pos < Len(x.sent))
      BY <2>1, <3>1, <3>2 DEF Exhausted, Closed, HasNext
    <3>4. Due(x, st) = {}
      <4>1. st.pos \in Nat /\ Len(x.sent) \in Nat
        <5>1. st \in Receiver /\ x.sent \in Seq(Numbered)
          BY <1>1 DEF Shape, Types, StreamRec, Exec
        <5>2. QED
          BY <5>1, LenProperties DEF Receiver
      <4>2. QED
        BY <3>3, <4>1 DEF Due
    <3>5. Shows(x, drive[s], st, y)
      BY <1>1, <2>1, <3>1 DEF Turns, Listens
    <3>6. ShownLast(y, x.snapshot.state)
      BY <2>1, <3>3, <3>4, <3>5 DEF Shows, Fails
    <3>7. PICK k \in 1 .. Len(y) :
            /\ ShowsState(y[k].event) /\ y[k].event.state = x.snapshot.state
            /\ \A j \in 1 .. Len(y) : ShowsState(y[j].event) => j <= k
      BY <3>6 DEF ShownLast
    <3>. DEFINE shown == {i \in 1 .. Len(y) : y[i].event.kind \in {"task", "status"}}
    <3>8. k \in shown /\ \A j \in shown : j <= k
      BY <3>7 DEF ShowsState
    <3>9. \A i \in shown : (\A j \in shown : j <= i) => i = k
      <4>1. \A i \in shown : i \in Int
        OBVIOUS
      <4>. HIDE DEF shown
      <4>2. QED
        BY <3>8, <4>1
    <3>10. (CHOOSE i \in shown : \A j \in shown : j <= i) = k
      <4>. HIDE DEF shown
      <4>1. QED
        BY <3>8, <3>9
    <3>11. LastShown(u) = y[k].event.state
      BY <3>10 DEF LastShown
    <3>12. QED
      BY <3>2, <3>7, <3>11
  <2>2. QED
    BY <2>1 DEF EndShowsOutcome
<1>2. QED
  BY <1>1, TurnsAlways, PTL

=============================================================================
