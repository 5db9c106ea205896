------------------------- MODULE RingChannel_proofs -------------------------
(***************************************************************************)
(* For every capacity that divides the counters' range, every prefix and   *)
(* every set of texts: the ring never overwrites an unread byte, returns   *)
(* the accepted texts whole and in order, and implements FifoChannel.      *)
(***************************************************************************)
EXTENDS RingChannel, TLAPS

-----------------------------------------------------------------------------
(* Arithmetic of the ring's indices. *)

\* Division with remainder.
LEMMA DivMod ==
    \A x \in Int, c \in Nat \ {0} :
        /\ x % c \in 0..(c - 1)
        /\ x \div c \in Int
        /\ x = c * (x \div c) + (x % c)
  OBVIOUS

\* The remainder is the only number of its range that completes a multiple.
LEMMA ModUnique ==
    ASSUME NEW c \in Nat \ {0}, NEW x \in Int, NEW q \in Int,
           NEW r \in 0..(c - 1), x = c * q + r
    PROVE  x % c = r
<1> DEFINE p == x \div c
           s == x % c
<1>1. p \in Int /\ s \in 0..(c - 1) /\ x = c * p + s
  BY DivMod
<1> HIDE DEF p, s
<1>2. c * (p - q) = r - s
  BY <1>1
<1>3. CASE p - q >= 1
  <2>1. c * (p - q) >= c
    BY <1>1, <1>3
  <2> QED BY <1>1, <1>2, <2>1
<1>4. CASE p - q <= -1
  <2>1. c * (p - q) <= -c
    BY <1>1, <1>4
  <2> QED BY <1>1, <1>2, <2>1
<1>5. CASE p = q
  BY <1>1, <1>2, <1>5 DEF s
<1> QED BY <1>1, <1>3, <1>4, <1>5

\* A reduced counter can be added to before it is reduced again.
LEMMA ModAdd ==
    ASSUME NEW c \in Nat \ {0}, NEW x \in Int, NEW y \in Int
    PROVE  ((x % c) + y) % c = (x + y) % c
<1> DEFINE q == x \div c
           r == x % c
           p == (x + y) \div c
           s == (x + y) % c
<1>1. q \in Int /\ r \in 0..(c - 1) /\ x = c * q + r
  BY DivMod
<1>2. x + y \in Int
  OBVIOUS
<1>3. p \in Int /\ s \in 0..(c - 1) /\ x + y = c * p + s
  BY <1>2, DivMod
<1> HIDE DEF q, r, p, s
<1>4. p - q \in Int /\ r + y \in Int
  BY <1>1, <1>3
<1>5. r + y = c * (p - q) + s
  BY <1>1, <1>3
<1>6. (r + y) % c = s
  BY <1>3, <1>4, <1>5, ModUnique
<1> QED BY <1>6 DEF r, s

\* Reducing by the counters' range first does not change the ring index,
\* because the capacity divides that range.
LEMMA WrapMod ==
    ASSUME NEW x \in Int
    PROVE  Wrap(x) % Capacity = x % Capacity
<1> USE RingAssumption
<1> DEFINE t == Modulus \div Capacity
           q == x \div Modulus
           w == x % Modulus
           p == w \div Capacity
           s == w % Capacity
<1>1. t \in Int /\ Modulus = Capacity * t
  BY DivMod
<1>2. q \in Int /\ w \in 0..(Modulus - 1) /\ x = Modulus * q + w
  BY DivMod
<1>3. w \in Int
  BY <1>2
<1>4. p \in Int /\ s \in 0..(Capacity - 1) /\ w = Capacity * p + s
  BY <1>3, DivMod
<1> HIDE DEF t, q, w, p, s
<1>5. t * q + p \in Int
  BY <1>1, <1>2, <1>4
<1>6. x = Capacity * (t * q + p) + s
  BY <1>1, <1>2, <1>4
<1>7. x % Capacity = s
  BY <1>4, <1>5, <1>6, ModUnique
<1> QED BY <1>7 DEF s, w, Wrap

\* The index of byte i after a counter that stands for position n.
LEMMA IdxOfPosition ==
    ASSUME NEW n \in Nat, NEW i \in Nat
    PROVE  /\ Idx(Wrap(n) + i) = (n + i) % Capacity
           /\ (n + i) % Capacity \in 0..(Capacity - 1)
<1> USE RingAssumption
<1>1. n % Modulus \in Int /\ n + i \in Int
  BY DivMod
<1>2. Modulus \in Nat \ {0} /\ n \in Int /\ i \in Int
  OBVIOUS
<1>3. Wrap(Wrap(n) + i) = Wrap(n + i)
  BY <1>2, ModAdd, Zenon DEF Wrap
<1>4. Wrap(n + i) % Capacity = (n + i) % Capacity
  BY <1>1, WrapMod
<1>5. (n + i) % Capacity \in 0..(Capacity - 1)
  BY <1>1, DivMod
<1> QED BY <1>3, <1>4, <1>5 DEF Idx

\* Positions less than a capacity apart have different indices.
LEMMA CellsDistinct ==
    ASSUME NEW x \in Nat, NEW y \in Nat, x < y, y < x + Capacity
    PROVE  x % Capacity # y % Capacity
<1> USE RingAssumption
<1> SUFFICES ASSUME x % Capacity = y % Capacity PROVE FALSE
  OBVIOUS
<1> DEFINE p == x \div Capacity
           q == y \div Capacity
           s == x % Capacity
<1>1. /\ p \in Int /\ s \in 0..(Capacity - 1) /\ x = Capacity * p + s
      /\ q \in Int /\ y = Capacity * q + s
  BY DivMod
<1> HIDE DEF p, q, s
<1>2. Capacity * (q - p) = y - x
  BY <1>1
<1>3. q - p >= 1
  BY <1>1, <1>2
<1>4. Capacity * (q - p) >= Capacity
  BY <1>1, <1>3
<1> QED BY <1>2, <1>4

\* wrapping_sub recovers the distance of two positions.
LEMMA WrapDistance ==
    ASSUME NEW w \in Nat, NEW r \in Nat, r <= w, w - r <= Capacity
    PROVE  Wrap(Wrap(w) - Wrap(r)) = w - r
<1> USE RingAssumption
<1> DEFINE q == r \div Modulus
           s == r % Modulus
<1>1. q \in Int /\ s \in 0..(Modulus - 1) /\ r = Modulus * q + s
  BY DivMod
<1> HIDE DEF q, s
<1>2. Modulus \in Nat \ {0} /\ w \in Int /\ -s \in Int
  BY <1>1
<1>3. ((w % Modulus) + (-s)) % Modulus = (w + (-s)) % Modulus
  BY <1>2, ModAdd, Zenon
<1>4. w % Modulus \in Int
  BY DivMod
<1>5. (w % Modulus) - s = (w % Modulus) + (-s)
  BY <1>1, <1>4
<1>6. w - s = Modulus * q + (w - r) /\ w - s \in Int /\ w - r \in 0..(Modulus - 1)
  BY <1>1
<1>7. (w - s) % Modulus = w - r
  BY <1>1, <1>6, ModUnique
<1>8. w - s = w + (-s)
  BY <1>1
<1> QED BY <1>3, <1>5, <1>7, <1>8 DEF Wrap, s
-----------------------------------------------------------------------------
(* Facts about frames. *)

\* A frame has at least its prefix, and its bytes are bytes of the ring.
LEMMA FrameFacts ==
    ASSUME NEW m \in Messages
    PROVE  /\ Frame(m) \in Nat /\ Frame(m) >= Prefix /\ Frame(m) > 0
           /\ \A i \in 0..(Frame(m) - 1) : FrameByte(m, i) \in Bytes
           /\ FrameByte(m, 0) = <<"len", Size[m], 0>>
<1>1. Frame(m) \in Nat /\ Frame(m) >= Prefix /\ Frame(m) > 0
  BY RingAssumption DEF Frame
<1>2. \A i \in 0..(Frame(m) - 1) : FrameByte(m, i) \in Bytes
  BY DEF Bytes
<1>3. FrameByte(m, 0) = <<"len", Size[m], 0>>
  BY RingAssumption DEF FrameByte
<1> QED BY <1>1, <1>2, <1>3

\* A text is recovered from the cells that hold its frame.
LEMMA TextOfFrame ==
    ASSUME NEW m \in Messages, NEW cells,
           cells = [i \in 1..Frame(m) |-> FrameByte(m, i - 1)]
    PROVE  Text(cells) = m
<1> USE RingAssumption
<1> DEFINE F(n) == [i \in 1..Frame(n) |-> FrameByte(n, i - 1)]
<1>1. ASSUME NEW n \in Messages, F(n) = F(m)
      PROVE  n = m
  <2>1. Frame(n) \in Nat \ {0} /\ Frame(m) \in Nat \ {0}
    BY FrameFacts
  <2>2. F(n)[1] = FrameByte(n, 0) /\ F(m)[1] = FrameByte(m, 0)
    BY <2>1
  <2>3. Size[n] = Size[m]
    <3> HIDE DEF F
    <3>1. <<"len", Size[n], 0>> = <<"len", Size[m], 0>>
      BY <1>1, <2>2, FrameFacts
    <3> QED BY <3>1
  <2>4. CASE Size[m] = 0
    BY <2>3, <2>4
  <2>5. CASE Size[m] # 0
    <3>1. Prefix + 1 \in 1..Frame(m) /\ Prefix + 1 \in 1..Frame(n)
      BY <2>3, <2>5 DEF Frame
    <3>2. F(n)[Prefix + 1] = FrameByte(n, Prefix) /\ F(m)[Prefix + 1] = FrameByte(m, Prefix)
      BY <3>1
    <3>3. \A x : FrameByte(x, Prefix) = <<"data", x, 0>>
      BY DEF FrameByte
    <3> HIDE DEF F
    <3>4. <<"data", n, 0>> = <<"data", m, 0>>
      BY <1>1, <3>2, <3>3
    <3> QED BY <3>4
  <2> QED BY <2>4, <2>5
<1>2. \E n \in Messages : cells = F(n)
  OBVIOUS
<1>3. Text(cells) = CHOOSE n \in Messages : cells = F(n)
  BY <1>2 DEF Text
<1>4. \A n \in Messages : cells = F(n) => n = m
  BY <1>1
<1> HIDE DEF F
<1> QED BY <1>2, <1>3, <1>4
-----------------------------------------------------------------------------
(* The invariant. *)

\* RingBuffer::new establishes the invariant.
LEMMA InitRingInv == Init => RingInv
  BY RingAssumption, LoopAssumption, DivMod
  DEF Init, RingInv, TypeOK, Positions, Layout, Stored, Writing, Reading,
      FifoDelivery, Wrap, End

\* While RingInv holds, head.wrapping_sub(tail) is the number of unread bytes.
LEMMA UsedExact ==
    ASSUME TypeOK, Positions
    PROVE  Used = wpos - rpos /\ Free = Capacity - (wpos - rpos)
  BY WrapDistance, RingAssumption DEF TypeOK, Positions, Used, Free

\* An entry of the history has the types of its fields.
LEMMA SentEntry ==
    ASSUME TypeOK, NEW k \in 1..Len(sent)
    PROVE  sent[k].msg \in Messages /\ sent[k].at \in Nat
<1> DEFINE Entry == [msg : Messages, at : Nat]
<1>1. sent \in Seq(Entry)
  BY DEF TypeOK
<1> HIDE DEF Entry
<1>2. sent[k] \in Entry
  BY <1>1
<1> QED BY <1>2 DEF Entry

\* The unread messages lie between the reader's and the writer's position.
LEMMA UnreadPlace ==
    ASSUME TypeOK, Positions, Layout,
           NEW k \in (Len(received) + 1)..Len(sent)
    PROVE  /\ k \in 1..Len(sent)
           /\ sent[k].msg \in Messages /\ sent[k].at \in Nat
           /\ rpos <= sent[k].at
           /\ sent[k].at + Frame(sent[k].msg) <= wpos
<1>1. k \in 1..Len(sent) /\ Len(received) \in Nat /\ Len(sent) \in Nat
  BY DEF TypeOK
<1>2. sent[k].msg \in Messages /\ sent[k].at \in Nat
  BY <1>1, SentEntry
<1>3. sent[k].at + Frame(sent[k].msg) <= wpos
  BY <1>1 DEF Layout, End
<1>4. rpos <= sent[k].at
  <2> DEFINE j == Len(received) + 1
  <2>1. j \in 1..Len(sent) /\ rpos = sent[j].at
    BY <1>1 DEF Layout
  <2>2. sent[j].msg \in Messages /\ sent[j].at \in Nat
    BY <2>1, SentEntry
  <2>3. CASE k = j
    BY <2>1, <2>2, <2>3
  <2>4. CASE k # j
    <3>1. j \in 1..(k - 1)
      BY <1>1, <2>1, <2>4
    <3>2. End(j) <= sent[k].at
      BY <1>1, <3>1 DEF Layout
    <3> QED BY <1>2, <2>1, <2>2, <3>2, FrameFacts DEF End
  <2> QED BY <2>3, <2>4
<1> QED BY <1>1, <1>2, <1>3, <1>4

\* Steps that touch neither the ring nor the positions.
LEMMA QuietSteps ==
    ASSUME RingInv,
           \/ \E m \in Messages : Send(m)
           \/ Signal \/ Backoff \/ PollReady \/ PollTimeout \/ Consume
           \/ UNCHANGED vars
    PROVE  RingInv'
<1> USE DEF RingInv
<1>1. /\ UNCHANGED <<buf, head, tail, sent, received, wpos, rpos, rcells, roff>>
      /\ wpc' # "write" \/ UNCHANGED <<wpc, wmsg, woff>>
      /\ rpc' # "read" \/ UNCHANGED rpc
  BY DEF Send, Signal, Backoff, PollReady, PollTimeout, Consume, vars, ringVars,
         writerVars, readerVars, historyVars
<1>2. TypeOK'
  <2>1. clock' \in 0..PipeSize
    BY LoopAssumption, SMTT(30) DEF TypeOK, Send, Signal, Backoff, PollReady, PollTimeout,
       Consume, Signalled, Consumed, vars, ringVars, writerVars, readerVars, historyVars
  <2>2. /\ wpc' \in {"idle", "load", "write", "signal", "backoff"}
        /\ wmsg' \in Messages /\ woff' \in Nat /\ attempt' \in 0..MaxAttempts
        /\ rpc' \in {"poll", "consume", "load", "read"}
        /\ sends' \in 0..MaxSends
    <3>1. CASE \E m \in Messages : Send(m)
      BY <3>1, LoopAssumption DEF TypeOK, Send, readerVars
    <3>2. CASE Backoff
      BY <3>2, LoopAssumption DEF TypeOK, Writing, Backoff, readerVars
    <3>3. CASE Signal \/ PollReady \/ PollTimeout \/ Consume \/ UNCHANGED vars
      BY <3>3 DEF TypeOK, Signal, PollReady, PollTimeout, Consume, vars,
         writerVars, readerVars
    <3> QED BY <3>1, <3>2, <3>3
  <2> QED BY <1>1, <2>1, <2>2 DEF TypeOK
<1>3. Writing'
  <2>1. wpc' # "idle" => attempt' < MaxAttempts
    BY LoopAssumption DEF TypeOK, Writing, Send, Signal, Backoff, PollReady,
       PollTimeout, Consume, vars, ringVars, writerVars, readerVars, historyVars
  <2> QED BY <1>1, <2>1 DEF Writing
<1>4. Reading' /\ Positions' /\ Layout' /\ Stored' /\ FifoDelivery'
  BY <1>1 DEF Reading, Positions, Layout, Stored, FifoDelivery, End
<1> QED BY <1>2, <1>3, <1>4

\* The free-space check of push preserves the invariant.
LEMMA PushLoadStep ==
    ASSUME RingInv, PushLoad
    PROVE  RingInv'
<1> USE DEF RingInv, PushLoad, ringVars, readerVars, historyVars
<1>1. TypeOK'
  BY DEF TypeOK
<1>2. Writing'
  <2>1. Free = Capacity - (wpos - rpos)
    BY UsedExact
  <2>2. Frame(wmsg) \in Nat
    BY FrameFacts DEF TypeOK
  <2> QED BY <2>1, <2>2, RingAssumption DEF Writing, TypeOK
<1>3. Reading' /\ Positions' /\ Layout' /\ Stored' /\ FifoDelivery'
  BY DEF Reading, Positions, Layout, Stored, FifoDelivery, End
<1> QED BY <1>1, <1>2, <1>3

\* The byte stored lies outside every unread frame.
LEMMA PushByteStep ==
    ASSUME RingInv, PushByte
    PROVE  RingInv'
<1> USE RingAssumption DEF RingInv
<1> DEFINE x == (wpos + woff) % Capacity
<1>1. /\ wpos \in Nat /\ rpos \in Nat /\ woff \in Nat /\ wmsg \in Messages
      /\ Frame(wmsg) \in Nat /\ rpos <= wpos
      /\ woff < Frame(wmsg) /\ wpos - rpos + Frame(wmsg) <= Capacity
  BY FrameFacts DEF TypeOK, PushByte, Writing, Positions
<1>2. Idx(head + woff) = x /\ x \in 0..(Capacity - 1)
  BY <1>1, IdxOfPosition DEF Positions
<1>3. buf' = [buf EXCEPT ![x] = FrameByte(wmsg, woff)]
  BY <1>2 DEF PushByte
<1>4. \A y \in Nat : rpos <= y /\ y < wpos + woff =>
          buf'[y % Capacity] = buf[y % Capacity]
  <2> SUFFICES ASSUME NEW y \in Nat, rpos <= y, y < wpos + woff
               PROVE  buf'[y % Capacity] = buf[y % Capacity]
    OBVIOUS
  <2>1. wpos + woff \in Nat /\ wpos + woff < y + Capacity
    BY <1>1
  <2>2. y % Capacity # x
    BY <2>1, CellsDistinct
  <2>3. y % Capacity \in 0..(Capacity - 1)
    BY DivMod
  <2> HIDE DEF x
  <2> QED BY <1>3, <2>2, <2>3 DEF TypeOK
<1>5. buf'[x] = FrameByte(wmsg, woff)
  BY <1>2, <1>3 DEF TypeOK
<1>6. TypeOK'
  <2>1. FrameByte(wmsg, woff) \in Bytes
    BY <1>1, FrameFacts
  <2>2. buf' \in [0..(Capacity - 1) -> Bytes \cup {Zero}]
    BY <1>2, <1>3, <2>1 DEF TypeOK
  <2> QED BY <1>1, <2>2 DEF TypeOK, PushByte, readerVars, historyVars
<1>7. Stored'
  <2> SUFFICES ASSUME NEW k \in (Len(received) + 1)..Len(sent),
                      NEW i \in 0..(Frame(sent[k].msg) - 1)
               PROVE  buf'[(sent[k].at + i) % Capacity] = FrameByte(sent[k].msg, i)
    BY DEF Stored, PushByte, historyVars
  <2>1. /\ sent[k].msg \in Messages /\ sent[k].at \in Nat
        /\ rpos <= sent[k].at /\ sent[k].at + Frame(sent[k].msg) <= wpos
    BY UnreadPlace
  <2>2. Frame(sent[k].msg) \in Nat /\ i \in Nat /\ i < Frame(sent[k].msg)
    BY <2>1, FrameFacts
  <2>3. sent[k].at + i \in Nat /\ rpos <= sent[k].at + i /\ sent[k].at + i < wpos + woff
    <3> DEFINE a == sent[k].at
               f == Frame(sent[k].msg)
    <3>1. a \in Nat /\ f \in Nat /\ i \in Nat /\ i < f /\ rpos <= a /\ a + f <= wpos
      BY <2>1, <2>2
    <3> HIDE DEF a, f
    <3>2. a + i \in Nat /\ rpos <= a + i /\ a + i < wpos + woff
      BY <1>1, <3>1
    <3> QED BY <3>2 DEF a
  <2>4. buf'[(sent[k].at + i) % Capacity] = buf[(sent[k].at + i) % Capacity]
    BY <1>4, <2>3
  <2> QED BY <2>4 DEF Stored
<1>8. Writing'
  <2>1. ASSUME NEW i \in 0..woff
        PROVE  buf'[(wpos + i) % Capacity] = FrameByte(wmsg, i)
    <3>1. CASE i = woff
      BY <1>5, <3>1
    <3>2. CASE i < woff
      <4>1. wpos + i \in Nat /\ rpos <= wpos + i /\ wpos + i < wpos + woff
        BY <1>1, <3>2
      <4>2. buf'[(wpos + i) % Capacity] = buf[(wpos + i) % Capacity]
        BY <1>4, <4>1
      <4>3. i \in 0..(woff - 1)
        BY <1>1, <3>2
      <4> QED BY <4>2, <4>3 DEF Writing, PushByte
    <3> QED BY <1>1, <3>1, <3>2
  <2> QED BY <1>1, <2>1 DEF Writing, PushByte, historyVars
<1>9. Reading' /\ Positions' /\ Layout' /\ FifoDelivery'
  BY DEF PushByte, readerVars, historyVars, Reading, Positions, Layout,
         FifoDelivery, End
<1> QED BY <1>6, <1>7, <1>8, <1>9

\* Publishing turns the frame being written into the last unread message.
LEMMA PushStoreStep ==
    ASSUME RingInv, PushStore
    PROVE  RingInv'
<1> USE RingAssumption DEF RingInv
<1> DEFINE n == Len(sent)
           f == Frame(wmsg)
           e == [msg |-> wmsg, at |-> wpos]
<1>1. /\ wpos \in Nat /\ rpos \in Nat /\ woff \in Nat /\ wmsg \in Messages
      /\ n \in Nat /\ Len(received) \in Nat /\ Len(received) <= n
      /\ rpos <= wpos
  BY SMTT(30) DEF TypeOK, Positions, FifoDelivery
<1>2. f \in Nat /\ f > 0 /\ woff = f /\ wpos - rpos + f <= Capacity
  BY <1>1, FrameFacts DEF PushStore, Writing
<1>3. /\ sent' \in Seq([msg : Messages, at : Nat])
      /\ Len(sent') = n + 1
      /\ \A k \in 1..n : sent'[k] = sent[k]
      /\ sent'[n + 1] = e
  <2>1. e \in [msg : Messages, at : Nat]
    BY <1>1
  <2> DEFINE Entry == [msg : Messages, at : Nat]
  <2>2. sent \in Seq(Entry) /\ e \in Entry /\ sent' = Append(sent, e)
    BY <2>1 DEF TypeOK, PushStore
  <2> HIDE DEF Entry, e
  <2> QED BY <2>2 DEF Entry
<1>4. wpos' = wpos + f /\ wpos' \in Nat /\ UNCHANGED <<received, rpos, tail, buf>>
  BY <1>1, <1>2, SMTT(30) DEF PushStore
<1>5. /\ \A k \in 1..n : sent'[k].msg = sent[k].msg /\ sent'[k].at = sent[k].at
      /\ sent'[n + 1].msg = wmsg /\ sent'[n + 1].at = wpos
  BY <1>3, SMTT(30)
<1>6. TypeOK'
  <2>1. head' \in 0..(Modulus - 1)
    <3>1. head + f \in Int
      BY <1>2 DEF TypeOK
    <3> QED BY <3>1, DivMod DEF PushStore, Wrap
  <2> HIDE DEF n, f, e
  <2> QED BY <1>3, <1>4, <2>1 DEF TypeOK, PushStore, readerVars
<1>7. Positions'
  <2>1. Modulus \in Nat \ {0} /\ wpos \in Int /\ f \in Int
    BY <1>1, <1>2
  <2>2. Wrap(Wrap(wpos) + f) = Wrap(wpos + f)
    BY <2>1, ModAdd, Zenon DEF Wrap
  <2>3. head' = Wrap(wpos + f)
    BY <2>2 DEF Positions, PushStore
  <2> QED BY <1>1, <1>2, <1>4, <2>3 DEF Positions
<1>8. Layout'
  <2>1. \A k \in 1..n : End(k)' = End(k)
    BY <1>5 DEF End
  <2>2. sent'[n + 1].at + Frame(sent'[n + 1].msg) = wpos'
    BY <1>4, <1>5
  <2>3. ASSUME NEW k \in 1..(n + 1)
        PROVE  /\ End(k)' <= wpos'
               /\ k < n + 1 => End(k)' = sent'[k + 1].at
               /\ k = n + 1 => End(k)' = wpos'
               /\ \A j \in 1..(k - 1) : End(j)' <= sent'[k].at
    <3>1. CASE k = n + 1
      <4>1. \A j \in 1..(k - 1) : End(j)' <= sent'[k].at
        BY <1>1, <1>5, <2>1, <3>1 DEF Layout
      <4>2. End(k)' = wpos'
        BY <2>2, <3>1 DEF End
      <4> QED BY <1>1, <1>4, <3>1, <4>1, <4>2
    <3>2. CASE k \in 1..n
      <4>1. sent[k].at \in Nat /\ sent[k].msg \in Messages
        BY <3>2, SentEntry
      <4>2. End(k) <= wpos /\ End(k) \in Nat
        BY <3>2, <4>1, FrameFacts DEF Layout, End
      <4>3. End(k)' <= wpos'
        BY <1>1, <1>2, <1>4, <2>1, <3>2, <4>2
      <4>4. End(k)' = sent'[k + 1].at
        <5>1. CASE k = n
          BY <1>5, <2>1, <3>2, <5>1 DEF Layout
        <5>2. CASE k < n
          <6>1. k + 1 \in 1..n
            BY <1>1, <3>2, <5>2
          <6> QED BY <1>5, <2>1, <3>2, <5>2, <6>1 DEF Layout
        <5> QED BY <1>1, <3>2, <5>1, <5>2
      <4>5. ASSUME NEW j \in 1..(k - 1)
            PROVE  End(j)' <= sent'[k].at
        <5>1. j \in 1..n
          BY <1>1, <3>2
        <5>2. End(j) <= sent[k].at
          BY <3>2 DEF Layout
        <5> QED BY <1>5, <2>1, <3>2, <5>1, <5>2
      <4> QED BY <1>1, <3>2, <4>3, <4>4, <4>5
    <3> QED BY <1>1, <3>1, <3>2
  <2>4. Len(received) < n + 1 => rpos = sent'[Len(received) + 1].at
    <3>1. CASE Len(received) = n
      BY <1>5, <3>1 DEF Layout
    <3>2. CASE Len(received) < n
      <4>1. Len(received) + 1 \in 1..n
        BY <1>1, <3>2
      <4> QED BY <1>5, <3>2, <4>1 DEF Layout
    <3> QED BY <1>1, <3>1, <3>2
  <2> HIDE DEF n
  <2> QED BY <1>1, <1>3, <1>4, <2>3, <2>4 DEF Layout
<1>9. Stored'
  <2> SUFFICES ASSUME NEW k \in (Len(received) + 1)..(n + 1),
                      NEW i \in 0..(Frame(sent'[k].msg) - 1)
               PROVE  buf[(sent'[k].at + i) % Capacity] = FrameByte(sent'[k].msg, i)
    BY <1>3, <1>4 DEF Stored
  <2>1. CASE k = n + 1
    <3>1. i \in 0..(woff - 1)
      BY <1>2, <1>5, <2>1
    <3> QED BY <1>5, <2>1, <3>1 DEF Writing, PushStore
  <2>2. CASE k \in 1..n
    <3>1. k \in (Len(received) + 1)..n /\ i \in 0..(Frame(sent[k].msg) - 1)
      BY <1>1, <1>5, <2>2
    <3> QED BY <1>5, <2>2, <3>1 DEF Stored
  <2> QED BY <1>1, <2>1, <2>2
<1>10. Writing'
  BY DEF Writing, PushStore
<1>11. Reading' /\ FifoDelivery'
  <2>1. Len(received) < n => Len(received) + 1 \in 1..n
    BY <1>1
  <2>2. Reading'
    BY <1>1, <1>3, <1>5, <2>1 DEF Reading, PushStore, readerVars
  <2>3. \A k \in 1..Len(received) : k \in 1..n
    BY <1>1
  <2>4. FifoDelivery'
    BY <1>1, <1>3, <1>4, <1>5, <2>3 DEF FifoDelivery
  <2> QED BY <2>2, <2>4
<1> QED BY <1>6, <1>7, <1>8, <1>9, <1>10, <1>11

\* The emptiness check of pop preserves the invariant.
LEMMA PopLoadStep ==
    ASSUME RingInv, PopLoad
    PROVE  RingInv'
<1> USE DEF RingInv
<1>1. TypeOK' /\ Positions' /\ Layout' /\ Stored' /\ Writing' /\ FifoDelivery'
  BY DEF PopLoad, ringVars, writerVars, historyVars, TypeOK, Positions, Layout,
         Stored, Writing, FifoDelivery, End
<1>2. Reading'
  <2>1. tail # head => Len(received) < Len(sent)
    BY DEF Positions, Layout, FifoDelivery, TypeOK
  <2>2. Frame(sent[Len(received) + 1].msg) >= 0 \/ Len(received) = Len(sent)
    <3>1. CASE Len(received) < Len(sent)
      <4>1. Len(received) + 1 \in 1..Len(sent)
        BY <3>1 DEF TypeOK
      <4> QED BY <4>1, SentEntry, FrameFacts
    <3> QED BY <3>1 DEF FifoDelivery, TypeOK
  <2> QED BY <2>1, <2>2 DEF Reading, PopLoad, historyVars
<1> QED BY <1>1, <1>2

\* The message pop is reading, and what the prefix read so far says of it.
LEMMA ReadingFacts ==
    ASSUME RingInv, rpc = "read"
    PROVE  LET k == Len(received) + 1
               m == sent[k].msg
           IN  /\ k \in 1..Len(sent) /\ k \in (Len(received) + 1)..Len(sent)
               /\ m \in Messages /\ Frame(m) \in Nat
               /\ sent[k].at = rpos
               /\ roff = Len(rcells) /\ roff \in Nat /\ roff <= Frame(m)
               /\ FrameRead <=> roff = Frame(m)
<1> USE RingAssumption DEF RingInv
<1> DEFINE k == Len(received) + 1
           m == sent[k].msg
<1>1. k \in 1..Len(sent) /\ k \in (Len(received) + 1)..Len(sent)
  BY SMTT(30) DEF Reading, TypeOK
<1>2. m \in Messages /\ sent[k].at = rpos
  BY <1>1, SentEntry DEF Reading, Layout
<1>3. Frame(m) \in Nat /\ Frame(m) = Prefix + Size[m] /\ Size[m] \in Nat
  BY <1>2, FrameFacts DEF Frame
<1>4. roff = Len(rcells) /\ roff \in Nat /\ roff <= Frame(m)
  BY DEF Reading, TypeOK
<1>5. ASSUME roff >= Prefix
      PROVE  PrefixLength(rcells) = Size[m]
  <2>1. 1 \in 1..roff
    BY <1>4, <1>5
  <2>2. rcells[1] = FrameByte(m, 1 - 1)
    BY <2>1 DEF Reading
  <2>3. rcells[1] = <<"len", Size[m], 0>>
    BY <1>2, <2>2, FrameFacts
  <2> QED BY <2>3 DEF PrefixLength
<1>6. FrameRead <=> roff = Frame(m)
  BY <1>3, <1>4, <1>5 DEF FrameRead
<1> QED BY <1>1, <1>2, <1>3, <1>4, <1>6

\* Loading a byte preserves it: the byte is the next one of the frame sent.
LEMMA PopByteStep ==
    ASSUME RingInv, PopByte
    PROVE  RingInv'
<1> USE RingAssumption DEF RingInv
<1> DEFINE k == Len(received) + 1
           m == sent[k].msg
           x == (rpos + roff) % Capacity
<1>1. /\ k \in 1..Len(sent) /\ k \in (Len(received) + 1)..Len(sent)
      /\ m \in Messages /\ Frame(m) \in Nat /\ sent[k].at = rpos
      /\ roff = Len(rcells) /\ roff \in Nat /\ roff <= Frame(m)
      /\ FrameRead <=> roff = Frame(m)
  BY ReadingFacts DEF PopByte
<1>2. roff \in 0..(Frame(m) - 1)
  BY <1>1 DEF PopByte
<1>3. rpos \in Nat
  BY DEF TypeOK
<1>4. Idx(tail + roff) = x /\ x \in 0..(Capacity - 1)
  BY <1>1, <1>3, IdxOfPosition DEF Positions
<1>5. buf[x] = FrameByte(m, roff)
  BY <1>1, <1>2 DEF Stored
<1>6. rcells' = Append(rcells, FrameByte(m, roff)) /\ roff' = roff + 1
  BY <1>4, <1>5 DEF PopByte
<1>7. /\ rcells' \in Seq(Bytes \cup {Zero}) /\ Len(rcells') = roff + 1
      /\ \A i \in 1..roff : rcells'[i] = rcells[i]
      /\ rcells'[roff + 1] = FrameByte(m, roff)
  <2>1. FrameByte(m, roff) \in Bytes \cup {Zero}
    BY <1>1, <1>2, FrameFacts
  <2> DEFINE B == Bytes \cup {Zero}
             b == FrameByte(m, roff)
  <2>2. rcells \in Seq(B) /\ b \in B /\ rcells' = Append(rcells, b) /\ Len(rcells) = roff
    BY <1>1, <1>6, <2>1 DEF TypeOK
  <2> HIDE DEF B, b
  <2>3. /\ rcells' \in Seq(B) /\ Len(rcells') = roff + 1
        /\ \A i \in 1..roff : rcells'[i] = rcells[i]
        /\ rcells'[roff + 1] = b
    BY <2>2
  <2> QED BY <2>3 DEF B, b
<1>8. TypeOK'
  <2>1. roff' \in Nat /\ rcells' \in Seq(Bytes \cup {Zero})
    BY <1>1, <1>6, <1>7
  <2>2. UNCHANGED <<buf, head, tail, clock, wpc, wmsg, woff, attempt, sends, rpc,
                    sent, received, wpos, rpos>>
    BY DEF PopByte, ringVars, writerVars, historyVars
  <2> HIDE DEF k, m, x
  <2> QED BY <2>1, <2>2 DEF TypeOK
<1>9. Reading'
  <2>1. ASSUME NEW i \in 1..(roff + 1)
        PROVE  rcells'[i] = FrameByte(m, i - 1)
    <3>1. CASE i = roff + 1
      <4>1. i - 1 = roff
        BY <1>1, <3>1
      <4> HIDE DEF m
      <4> QED BY <1>7, <3>1, <4>1
    <3>2. CASE i \in 1..roff
      BY <1>7, <3>2 DEF Reading, PopByte
    <3> QED BY <1>1, <3>1, <3>2, SMTT(30)
  <2>2. roff + 1 <= Frame(m)
    BY <1>1, <1>2
  <2>3. UNCHANGED <<sent, received>> /\ Len(received) < Len(sent)
    BY DEF PopByte, historyVars, Reading
  <2> QED BY <1>6, <1>7, <2>1, <2>2, <2>3 DEF Reading
<1>10. Positions' /\ Layout' /\ Stored' /\ Writing' /\ FifoDelivery'
  <2>1. UNCHANGED <<ringVars, writerVars, historyVars>>
    BY DEF PopByte
  <2>2. Positions' /\ FifoDelivery'
    BY <2>1 DEF ringVars, writerVars, historyVars, Positions, FifoDelivery
  <2>3. Layout' /\ Stored'
    BY <2>1 DEF ringVars, writerVars, historyVars, Layout, Stored, End
  <2>4. Writing'
    BY <2>1 DEF ringVars, writerVars, historyVars, Writing
  <2> QED BY <2>2, <2>3, <2>4
<1> QED BY <1>8, <1>9, <1>10

\* pop frees exactly the frame it read and returns its text.
LEMMA PopStoreStep ==
    ASSUME RingInv, PopStore
    PROVE  /\ RingInv'
           /\ Len(received) < Len(sent)
           /\ received' = Append(received, sent[Len(received) + 1].msg)
<1> USE RingAssumption DEF RingInv
<1> DEFINE n == Len(received)
           k == Len(received) + 1
           m == sent[k].msg
<1>1. /\ k \in 1..Len(sent) /\ k \in (Len(received) + 1)..Len(sent)
      /\ m \in Messages /\ Frame(m) \in Nat /\ sent[k].at = rpos
      /\ roff = Len(rcells) /\ roff \in Nat /\ roff = Frame(m)
  BY ReadingFacts DEF PopStore
<1>2. Text(rcells) = m
  <2>1. rcells = [i \in 1..Frame(m) |-> FrameByte(m, i - 1)]
    <3>1. rcells \in Seq(Bytes \cup {Zero})
      BY DEF TypeOK
    <3>2. \A i \in 1..Frame(m) : rcells[i] = FrameByte(m, i - 1)
      BY <1>1 DEF Reading, PopStore
    <3>3. rcells = [i \in 1..Len(rcells) |-> rcells[i]]
      BY <3>1
    <3> HIDE DEF m
    <3> QED BY <1>1, <3>2, <3>3
  <2> QED BY <1>1, <2>1, TextOfFrame
<1>3. /\ received' \in Seq(Messages \cup {Corrupt})
      /\ n \in Nat /\ Len(received') = n + 1
      /\ \A i \in 1..n : received'[i] = received[i]
      /\ received'[n + 1] = m
      /\ received' = Append(received, m)
  <2>1. received' = Append(received, m) /\ m \in Messages \cup {Corrupt}
    BY <1>1, <1>2 DEF PopStore
  <2> HIDE DEF m
  <2> QED BY <2>1, SMTT(30) DEF TypeOK
<1>4. /\ wpos \in Nat /\ rpos \in Nat /\ rpos' = rpos + Frame(m) /\ rpos' \in Nat
      /\ UNCHANGED <<buf, head, sent, wpos, wpc, wmsg, woff, attempt, sends, clock>>
  <2>1. wpos \in Nat /\ rpos \in Nat
    BY DEF TypeOK
  <2>2. /\ rpos' = rpos + roff
        /\ UNCHANGED <<buf, head, sent, wpos, wpc, wmsg, woff, attempt, sends, clock>>
    BY DEF PopStore, writerVars
  <2> HIDE DEF m
  <2> QED BY <1>1, <2>1, <2>2
<1>5. /\ rpos' <= wpos
      /\ k < Len(sent) => rpos' = sent[k + 1].at
      /\ k = Len(sent) => rpos' = wpos
  BY <1>1, <1>4 DEF Layout, End
<1>6. TypeOK'
  <2>1. tail' \in 0..(Modulus - 1)
    <3>1. tail + roff \in Int
      BY <1>1 DEF TypeOK
    <3> QED BY <3>1, DivMod DEF PopStore, Wrap
  <2> HIDE DEF n, k, m
  <2> QED BY <1>3, <1>4, <2>1 DEF TypeOK, PopStore
<1>7. Positions'
  <2>1. Modulus \in Nat \ {0} /\ rpos \in Int /\ roff \in Int
    BY <1>1, <1>4
  <2>2. Wrap(Wrap(rpos) + roff) = Wrap(rpos + roff)
    BY <2>1, ModAdd, Zenon DEF Wrap
  <2>3. tail' = Wrap(rpos')
    BY <1>1, <1>4, <2>2 DEF Positions, PopStore
  <2>4. wpos - rpos' <= Capacity
    BY <1>1, <1>4, <1>5, SMTT(30) DEF Positions
  <2> HIDE DEF n, k, m
  <2> QED BY <1>4, <1>5, <2>3, <2>4 DEF Positions
<1>8. Layout'
  <2>1. \A i \in 1..Len(sent) : End(i)' = End(i)
    BY <1>4 DEF End
  <2>2. Len(received') < Len(sent') => rpos' = sent'[Len(received') + 1].at
    BY <1>3, <1>4, <1>5
  <2>3. Len(received') = Len(sent') => rpos' = wpos'
    BY <1>3, <1>4, <1>5
  <2> HIDE DEF n, k, m
  <2>4. \A i \in 1..Len(sent) : \A j \in 1..(i - 1) : j \in 1..Len(sent)
    BY DEF TypeOK
  <2> QED BY <1>4, <2>1, <2>2, <2>3, <2>4 DEF Layout
<1>9. Stored'
  <2>1. \A i \in (Len(received') + 1)..Len(sent) : i \in (n + 1)..Len(sent)
    BY <1>3
  <2> HIDE DEF n, k, m
  <2> QED BY <1>4, <2>1 DEF Stored, n
<1>10. Writing'
  <2>1. wmsg \in Messages /\ Frame(wmsg) \in Nat
    BY FrameFacts DEF TypeOK
  <2> HIDE DEF n, k, m
  <2>2. wpos - rpos + Frame(wmsg) <= Capacity => wpos - rpos' + Frame(wmsg) <= Capacity
    <3> HIDE DEF RingInv
    <3> DEFINE f == Frame(wmsg)
               g == Frame(m)
    <3>1. f \in Nat /\ g \in Nat /\ rpos' = rpos + g /\ wpos \in Nat /\ rpos \in Nat
      BY <1>1, <1>4, <2>1
    <3> HIDE DEF f, g
    <3>2. wpos - rpos + f <= Capacity => wpos - rpos' + f <= Capacity
      BY <3>1
    <3> QED BY <3>2 DEF f
  <2> QED BY <1>4, <2>2 DEF Writing
<1>11. Reading'
  BY DEF Reading, PopStore
<1>12. FifoDelivery'
  <2>1. ASSUME NEW i \in 1..(n + 1)
        PROVE  received'[i] = sent[i].msg
    <3>1. CASE i = n + 1
      BY <1>3, <3>1
    <3>2. CASE i \in 1..n
      BY <1>3, <3>2 DEF FifoDelivery
    <3> QED BY <1>3, <3>1, <3>2
  <2> QED BY <1>1, <1>3, <1>4, <2>1 DEF FifoDelivery
<1> QED BY <1>1, <1>3, <1>6, <1>7, <1>8, <1>9, <1>10, <1>11, <1>12
-----------------------------------------------------------------------------
(* Theorems. *)

\* Every step of the writer and of the reader preserves the invariant.
LEMMA NextRingInv ==
    ASSUME RingInv, [Next]_vars
    PROVE  RingInv'
  BY QuietSteps, PushLoadStep, PushByteStep, PushStoreStep, PopLoadStep,
     PopByteStep, PopStoreStep DEF Next, Writer, Reader

\* RingBuffer keeps RingInv whatever the threads' interleaving.
THEOREM RingInvariant == Spec => []RingInv
<1>1. Init => RingInv
  BY InitRingInv
<1>2. RingInv /\ [Next]_vars => RingInv'
  BY NextRingInv
<1> QED BY <1>1, <1>2, PTL DEF Spec

\* Every variable of the channel keeps its type.
THEOREM TypeCorrect == Spec => []TypeOK
<1>1. RingInv => TypeOK
  BY DEF RingInv
<1> QED BY <1>1, RingInvariant, PTL

\* recv returns the texts send accepted, whole and in order.
THEOREM FifoDeliveryHolds == Spec => []FifoDelivery
<1>1. RingInv => FifoDelivery
  BY DEF RingInv
<1> QED BY <1>1, RingInvariant, PTL

\* used in push is the number of unread bytes, at most the capacity.
THEOREM UsedIsExactHolds == Spec => []UsedIsExact
<1>1. RingInv => UsedIsExact
  <2> SUFFICES ASSUME RingInv PROVE UsedIsExact
    OBVIOUS
  <2>1. Used = wpos - rpos
    BY UsedExact DEF RingInv
  <2> QED BY <2>1 DEF UsedIsExact, RingInv, Positions
<1> QED BY <1>1, RingInvariant, PTL

\* push never stores to a byte pop may still load, so the two threads never
\* touch a byte at once.
THEOREM NoDataRaceHolds == Spec => []NoDataRace
<1>1. RingInv => NoDataRace
  <2> SUFFICES ASSUME RingInv, wpc = "write", woff < Frame(wmsg),
                      NEW j \in 0..(Used - 1)
               PROVE  Idx(tail + j) # Idx(head + woff)
    BY DEF NoDataRace
  <2>1. /\ wpos \in Nat /\ rpos \in Nat /\ woff \in Nat /\ rpos <= wpos
        /\ Frame(wmsg) \in Nat /\ wpos - rpos + Frame(wmsg) <= Capacity
    BY FrameFacts DEF RingInv, TypeOK, Positions, Writing
  <2>2. j \in Nat /\ j < wpos - rpos
    BY <2>1, UsedExact DEF RingInv
  <2>3. /\ Idx(tail + j) = (rpos + j) % Capacity
        /\ Idx(head + woff) = (wpos + woff) % Capacity
    BY <2>1, <2>2, IdxOfPosition DEF RingInv, Positions
  <2>4. /\ rpos + j \in Nat /\ wpos + woff \in Nat
        /\ rpos + j < wpos + woff /\ wpos + woff < rpos + j + Capacity
    BY <2>1, <2>2, RingAssumption
  <2>5. (rpos + j) % Capacity # (wpos + woff) % Capacity
    BY <2>4, CellsDistinct
  <2> QED BY <2>3, <2>5
<1> QED BY <1>1, RingInvariant, PTL

\* Over a pipe no wakeup is lost: send signals after it published, and the
\* reader consumes the signal before it looks at the ring.
THEOREM NoLostWakeupOnPipe ==
    ASSUME ClockKind = "pipe"
    PROVE  Spec => []NoLostWakeup
<1>1. Init => NoLostWakeup
  BY DEF Init, NoLostWakeup
<1>2. ASSUME TypeOK, NoLostWakeup, [Next]_vars
      PROVE  NoLostWakeup'
  <2> USE DEF NoLostWakeup
  <2>1. CASE Signal
    BY <1>2, <2>1, LoopAssumption
    DEF Signal, Signalled, TypeOK, ringVars, readerVars
  <2>2. CASE (\E m \in Messages : Send(m)) \/ PushLoad \/ PushByte \/ PushStore
             \/ Backoff
    BY <1>2, <2>2 DEF Send, PushLoad, PushByte, PushStore, Backoff, ringVars,
       readerVars
  <2>3. CASE PollReady \/ PollTimeout \/ Consume
    BY <1>2, <2>3, LoopAssumption
    DEF PollReady, PollTimeout, Consume, ringVars, writerVars
  <2>4. CASE PopLoad \/ PopByte \/ PopStore
    BY <1>2, <2>4 DEF PopLoad, PopByte, PopStore, ringVars, writerVars
  <2>5. CASE UNCHANGED vars
    BY <1>2, <2>5 DEF vars, ringVars, writerVars, readerVars
  <2> QED BY <1>2, <2>1, <2>2, <2>3, <2>4, <2>5 DEF Next, Writer, Reader
<1>3. TypeOK /\ NoLostWakeup /\ [Next]_vars => NoLostWakeup'
  BY <1>2
<1> QED BY <1>1, <1>3, TypeCorrect, PTL DEF Spec

\* The byte ring implements the FIFO of whole messages: PushStore is its
\* Accept, PopStore its Take, and every other step stutters.
THEOREM Refinement == Spec => ImplementsFifo
<1>1. Init => Fifo!Init
  BY DEF Init, Fifo!Init, SentMessages
<1>2. ASSUME RingInv, [Next]_vars
      PROVE  [Fifo!Next]_Fifo!fifoVars
  <2> USE DEF Fifo!fifoVars
  <2>1. CASE UNCHANGED <<sent, received>>
    BY <2>1 DEF SentMessages
  <2>2. CASE PushStore
    <3> DEFINE e == [msg |-> wmsg, at |-> wpos]
    <3>1. wmsg \in Messages /\ Len(sent) \in Nat /\ UNCHANGED received
      BY <1>2, <2>2 DEF RingInv, TypeOK, PushStore
    <3>2. /\ Len(sent') = Len(sent) + 1
          /\ \A k \in 1..Len(sent) : sent'[k] = sent[k]
          /\ sent'[Len(sent) + 1] = e
      <4> DEFINE Entry == [msg : Messages, at : Nat]
      <4>1. sent \in Seq(Entry) /\ e \in Entry /\ sent' = Append(sent, e)
        BY <1>2, <2>2 DEF RingInv, TypeOK, PushStore
      <4> HIDE DEF Entry, e
      <4> QED BY <4>1
    <3>3. SentMessages' = Append(SentMessages, wmsg)
      BY <3>1, <3>2 DEF SentMessages
    <3>4. Fifo!Accept(wmsg)
      BY <3>1, <3>3 DEF Fifo!Accept
    <3> QED BY <3>1, <3>4 DEF Fifo!Next
  <2>3. CASE PopStore
    <3>1. /\ Len(received) < Len(sent)
          /\ received' = Append(received, sent[Len(received) + 1].msg)
          /\ UNCHANGED sent
      BY <1>2, <2>3, PopStoreStep DEF PopStore
    <3>2. /\ Len(SentMessages) = Len(sent)
          /\ SentMessages[Len(received) + 1] = sent[Len(received) + 1].msg
      BY <1>2, <3>1 DEF SentMessages, RingInv, TypeOK
    <3>3. SentMessages' = SentMessages
      BY <3>1 DEF SentMessages
    <3> QED BY <3>1, <3>2, <3>3 DEF Fifo!Next, Fifo!Take
  <2>4. CASE (\E m \in Messages : Send(m)) \/ PushLoad \/ PushByte \/ Signal
             \/ Backoff \/ PollReady \/ PollTimeout \/ Consume \/ PopLoad \/ PopByte
             \/ UNCHANGED vars
    <3>1. UNCHANGED <<sent, received>>
      BY <2>4 DEF Send, PushLoad, PushByte, Signal, Backoff, PollReady,
         PollTimeout, Consume, PopLoad, PopByte, vars, historyVars
    <3> QED BY <2>1, <3>1
  <2> QED BY <1>2, <2>2, <2>3, <2>4 DEF Next, Writer, Reader
<1>3. RingInv /\ [Next]_vars => [Fifo!Next]_Fifo!fifoVars
  BY <1>2
<1> QED BY <1>1, <1>3, RingInvariant, PTL DEF Spec, ImplementsFifo, Fifo!Spec
=============================================================================
