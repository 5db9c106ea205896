--------------------------- MODULE WsServer_proofs ---------------------------
(***************************************************************************)
(* For every number of connections, messages and frames, every shape of a  *)
(* frame and every size of the socket buffer: the lines of the clients     *)
(* reach the engine in order, without blanks or gaps, and whole when the   *)
(* client closes; a client reads the greeting and then messages in the     *)
(* order sent, and no message reaches two.                                 *)
(***************************************************************************)
EXTENDS WsServer, FiniteSetTheorems, SequenceTheorems, TLAPS

Lines == Clients \X Nat
Frames == [kind : {"text", "close"}, lines : Seq(Lines)]
Posts == Msgs \cup {Greeting}

WsType ==
    /\ outq \in Seq(Msgs) /\ emitted \in 0..MaxMsgs
    /\ inq \in Seq(Lines) /\ taken \in Seq(Lines)
    /\ fpc \in {"top", "wait", "recheck", "send"}
    /\ current \in Clients \cup {None} /\ regs \in Seq(Clients)
    /\ fpc \in {"recheck", "send"} => fmsg \in Msgs
    /\ hpc \in {"accept", "handshake", "greet", "read", "lines", "drain", "flush"}
    /\ serving \in Clients \cup {None} /\ (serving = None <=> hpc = "accept")
    /\ text \in Seq(Lines) /\ (text # <<>> => hpc = "lines")
    /\ queue \in [Clients -> Seq(Msgs)] /\ wbuf \in [Clients -> Seq(Msgs)]
    /\ sock \in [Clients -> Seq(Posts)] /\ received \in [Clients -> Seq(Posts)]
    /\ inbound \in [Clients -> Seq(Frames)] /\ said \in [Clients -> Nat]
    /\ remote \in [Clients -> {"away", "dialing", "open", "closing", "gone"}]
    /\ backlog \in Seq(Clients) /\ closed \subseteq Clients

-----------------------------------------------------------------------------
(* Connections come in the order of their numbers and are served once.       *)

Waits(c) == remote[c] = "away" \/ c \in Range(backlog) \/ (serving = c /\ hpc = "handshake")
Unregistered(c) == Waits(c) \/ (serving = c /\ hpc = "greet")

Connections ==
    /\ \A i, j \in DOMAIN backlog : i < j => backlog[i] < backlog[j]
    /\ \A b \in Range(backlog) : remote[b] # "away" /\ (serving # None => serving < b)
    /\ \A b \in Range(backlog) : \A c \in Clients : ~Waits(c) => c < b
    /\ serving # None => remote[serving] # "away"
    /\ \A d, e \in Clients : remote[d] = "away" /\ remote[e] # "away" => e < d
    /\ \A c \in Clients : remote[c] \in {"open", "closing"} =>
        serving = c /\ hpc \notin {"accept", "handshake"}

-----------------------------------------------------------------------------
(* Messages on their way to a client: read, in the socket, in tungstenite's  *)
(* buffer, in the client's queue.                                            *)

Rising(s) == \A i, j \in DOMAIN s : i < j => s[i] < s[j]
Below(X, Y) == \A x \in X, y \in Y : x < y
Path(r, s, w, q) ==
    /\ Rising(r) /\ Rising(s) /\ Rising(w) /\ Rising(q)
    /\ Below(Range(r), Range(s)) /\ Below(Range(s), Range(w)) /\ Below(Range(w), Range(q))
    /\ Below(Range(r), Range(w)) /\ Below(Range(r), Range(q)) /\ Below(Range(s), Range(q))

Has(c) == Range(received[c]) \cup Range(sock[c]) \cup Range(wbuf[c]) \cup Range(queue[c])

\* The message the forwarder has in hand and those it has not had yet are newer
\* than what clients have, and each is sent to one client.
InHand == fpc \in {"recheck", "send"}
Outgoing ==
    /\ Rising(outq) /\ \A m \in Range(outq) : m <= emitted
    /\ InHand => fmsg <= emitted /\ \A m \in Range(outq) : fmsg < m
    /\ \A c \in Clients : \A m \in Has(c) :
        /\ m <= emitted /\ (InHand => m < fmsg)
        /\ \A n \in Range(outq) : m < n
    /\ \A c, d \in Clients : c # d => Has(c) \cap Has(d) \subseteq {Greeting}

DeliveryTo(c) ==
    /\ Path(received[c], sock[c], wbuf[c], queue[c]) /\ Len(sock[c]) <= SockCap
    /\ received[c] # <<>> => received[c][1] = Greeting
    /\ Unregistered(c) => Has(c) = {}
    /\ Registered(c) /\ remote[c] # "gone" => Greeting \in Range(received[c]) \cup Range(sock[c])
Delivery == \A c \in Clients : DeliveryTo(c)

-----------------------------------------------------------------------------
(* Lines on their way to the engine: those of the frame in hand, as frame 0, *)
(* and of the frames after it.                                               *)

Frame(t, box, f) == IF f = 0 THEN t ELSE box[f].lines

\* Of the client and above what has arrived; in order; and with what has
\* arrived all it has said.
Owned(a, t, box, c, top) ==
    \A f \in 0..Len(box) : \A k \in DOMAIN Frame(t, box, f) :
        LET line == Frame(t, box, f)[k]
        IN  /\ line[1] = c /\ line[2] <= top
            /\ HasText(line) => \A i \in DOMAIN a : a[i][1] = c => a[i][2] < line[2]
Ordered(t, box) ==
    \A f, g \in 0..Len(box) : \A k \in DOMAIN Frame(t, box, f) : \A l \in DOMAIN Frame(t, box, g) :
        /\ f < g \/ (f = g /\ k < l)
        /\ HasText(Frame(t, box, f)[k]) /\ HasText(Frame(t, box, g)[l])
        => Frame(t, box, f)[k][2] < Frame(t, box, g)[l][2]
Covered(a, t, box, c, top) ==
    \A n \in 1..top :
        \/ \E i \in DOMAIN a : a[i] = <<c, n>>
        \/ \E f \in 0..Len(box) : \E k \in DOMAIN Frame(t, box, f) : Frame(t, box, f)[k] = <<c, n>>
LinesFollow(a, t, box, c, top) ==
    Owned(a, t, box, c, top) /\ Ordered(t, box) /\ Covered(a, t, box, c, top)

Following == serving # None => LinesFollow(Arrived, text, inbound[serving], serving, said[serving])

\* A client that the server does not serve has nothing on its way; a Close
\* frame is the last one.
Inbound ==
    \A c \in Clients :
        /\ inbound[c] # <<>> => serving = c /\ hpc \notin {"accept", "handshake"}
        /\ Waits(c) => said[c] = 0
        /\ \A f \in DOMAIN inbound[c] : inbound[c][f].kind = "close" =>
            f = Len(inbound[c]) /\ inbound[c][f].lines = <<>> /\ remote[c] # "open"

\* What has arrived is of clients served so far.
OfServed ==
    \A i \in DOMAIN Arrived : LET c == Arrived[i][1] IN ~Waits(c) /\ (serving # None => c <= serving)

\* The connections that ended with a Close frame are over.
ClosedIsGone == \A c \in closed : remote[c] = "gone"

WsInv ==
    /\ WsType /\ Connections /\ Outgoing /\ Delivery
    /\ Following /\ Inbound /\ OfServed /\ LinesInOrder
    /\ CloseLosesNothing /\ ClosedIsGone

-----------------------------------------------------------------------------
(* Sequences *)

\* Adding an element.
LEMMA AppendFacts ==
    ASSUME NEW S, NEW q \in Seq(S), NEW e \in S
    PROVE  /\ Append(q, e) \in Seq(S) /\ Len(q) \in Nat /\ Len(Append(q, e)) = Len(q) + 1
           /\ DOMAIN q = 1..Len(q) /\ DOMAIN Append(q, e) = 1..(Len(q) + 1)
           /\ Append(q, e)[Len(q) + 1] = e /\ Append(q, e) # <<>>
           /\ \A i \in 1..Len(q) : Append(q, e)[i] = q[i] /\ i \in 1..(Len(q) + 1)
           /\ \A i \in 1..(Len(q) + 1) : i = Len(q) + 1 \/ i \in 1..Len(q)
           /\ Range(Append(q, e)) = Range(q) \cup {e}
<1>0. PICK t : t = Append(q, e)  OBVIOUS
<1>1. Len(q) \in Nat /\ DOMAIN q = 1..Len(q)  BY LenProperties
<1>2. /\ t \in Seq(S) /\ Len(t) = Len(q) + 1 /\ t # <<>> /\ t[Len(q) + 1] = e
      /\ \A i \in 1..Len(q) : t[i] = q[i]
  BY <1>0, AppendProperties
<1>3. \A i \in 1..Len(q) : i \in 1..(Len(q) + 1)  BY <1>1
<1>4. \A i \in 1..(Len(q) + 1) : i = Len(q) + 1 \/ i \in 1..Len(q)  BY <1>1
<1>5. DOMAIN t = 1..(Len(q) + 1) /\ Len(q) + 1 \in 1..(Len(q) + 1)  BY <1>1, <1>2, LenProperties
<1>6. Range(t) = Range(q) \cup {e}
  <2>1. Range(t) \subseteq Range(q) \cup {e}  BY <1>1, <1>2, <1>4, <1>5 DEF Range
  <2>2. Range(q) \subseteq Range(t)  BY <1>1, <1>2, <1>3, <1>5 DEF Range
  <2>3. e \in Range(t)  BY <1>2, <1>5 DEF Range
  <2> QED  BY <2>1, <2>2, <2>3
<1> QED  BY <1>0, <1>1, <1>2, <1>3, <1>4, <1>5, <1>6

\* Taking the first element.
LEMMA TailFacts ==
    ASSUME NEW S, NEW q \in Seq(S), q # <<>>
    PROVE  /\ Head(q) \in S /\ Head(q) = q[1] /\ Len(q) \in Nat \ {0}
           /\ DOMAIN q = 1..Len(q) /\ DOMAIN Tail(q) = 1..(Len(q) - 1)
           /\ Tail(q) \in Seq(S) /\ Len(Tail(q)) = Len(q) - 1
           /\ \A i \in 1..(Len(q) - 1) : Tail(q)[i] = q[i + 1] /\ i + 1 \in 1..Len(q)
           /\ \A i \in 1..Len(q) : i = 1 \/ (i - 1 \in 1..(Len(q) - 1) /\ Tail(q)[i - 1] = q[i])
           /\ Range(q) = {Head(q)} \cup Range(Tail(q))
<1>0. PICK t : t = Tail(q)  OBVIOUS
<1>1. Head(q) \in S /\ Head(q) = q[1] /\ Len(q) \in Nat \ {0} /\ DOMAIN q = 1..Len(q)
  BY EmptySeq, LenProperties
<1>2. t \in Seq(S) /\ Len(t) = Len(q) - 1  BY <1>0, HeadTailProperties
<1>3. \A i \in 1..(Len(q) - 1) : t[i] = q[i + 1]  BY <1>0, <1>2, HeadTailProperties
<1>4. \A i \in 1..(Len(q) - 1) : i + 1 \in 1..Len(q)  BY <1>1
<1>5. \A i \in 1..Len(q) : i = 1 \/ (i - 1 \in 1..(Len(q) - 1) /\ (i - 1) + 1 = i)  BY <1>1
<1>6. \A i \in 1..Len(q) : i = 1 \/ (i - 1 \in 1..(Len(q) - 1) /\ t[i - 1] = q[i])  BY <1>3, <1>5
<1>7. DOMAIN t = 1..(Len(q) - 1)  BY <1>2, LenProperties
<1>8. Range(q) = {Head(q)} \cup Range(t)
  <2>1. Range(q) \subseteq {Head(q)} \cup Range(t)  BY <1>1, <1>6, <1>7 DEF Range
  <2>2. Range(t) \subseteq Range(q)  BY <1>1, <1>3, <1>4, <1>7 DEF Range
  <2>3. Head(q) \in Range(q)  BY <1>1 DEF Range
  <2> QED  BY <2>1, <2>2, <2>3
<1> QED  BY <1>0, <1>1, <1>2, <1>3, <1>4, <1>6, <1>7, <1>8

\* The empty sequence.
LEMMA EmptyFacts ==
    /\ \A S : <<>> \in Seq(S)
    /\ Len(<<>>) = 0 /\ DOMAIN <<>> = {} /\ Range(<<>>) = {} /\ Rising(<<>>)
<1>1. DOMAIN <<>> = {} /\ Len(<<>>) = 0  OBVIOUS
<1>2. \A S : <<>> \in Seq(S)  BY EmptySeq
<1> QED  BY <1>1, <1>2 DEF Range, Rising

\* What is in a sequence.
LEMMA RangeFacts ==
    ASSUME NEW S, NEW q \in Seq(S)
    PROVE  Range(q) \subseteq S /\ (q # <<>> => Range(q) # {})
<1>1. Range(q) \subseteq S  BY RangeOfSeq
<1>2. ASSUME q # <<>> PROVE q[1] \in Range(q)
  BY <1>2, TailFacts DEF Range
<1> QED  BY <1>1, <1>2

\* A rising sequence stays so under what the queues do.
LEMMA RisingAppend ==
    ASSUME NEW S \in SUBSET Int, NEW q \in Seq(S), NEW e \in S, Rising(q), \A x \in Range(q) : x < e
    PROVE  Rising(Append(q, e))
<1>0. PICK t : t = Append(q, e)  OBVIOUS
<1>1. /\ Len(q) \in Nat /\ DOMAIN q = 1..Len(q) /\ DOMAIN t = 1..(Len(q) + 1) /\ t[Len(q) + 1] = e
      /\ \A i \in 1..Len(q) : t[i] = q[i]
      /\ \A i \in 1..(Len(q) + 1) : i = Len(q) + 1 \/ i \in 1..Len(q)
  BY <1>0, AppendFacts
<1>2. \A i \in 1..Len(q) : t[i] < e  BY <1>1 DEF Range
<1>3. ASSUME NEW i \in DOMAIN t, NEW j \in DOMAIN t, i < j PROVE t[i] < t[j]
  <2>1. i \in 1..Len(q)  BY <1>1, <1>3
  <2>2. CASE j \in 1..Len(q)  BY <1>1, <1>3, <2>1, <2>2 DEF Rising
  <2>3. CASE j = Len(q) + 1  BY <1>1, <1>2, <2>1, <2>3
  <2> QED  BY <1>1, <2>2, <2>3
<1> QED  BY <1>0, <1>3 DEF Rising

\* The head of a rising sequence is below the rest, which rises.
LEMMA RisingTail ==
    ASSUME NEW S \in SUBSET Int, NEW q \in Seq(S), q # <<>>, Rising(q)
    PROVE  Rising(Tail(q)) /\ \A x \in Range(Tail(q)) : Head(q) < x
<1>0. PICK t : t = Tail(q)  OBVIOUS
<1>1. /\ Len(q) \in Nat \ {0} /\ DOMAIN q = 1..Len(q) /\ DOMAIN t = 1..(Len(q) - 1) /\ Head(q) = q[1]
      /\ \A i \in 1..(Len(q) - 1) : t[i] = q[i + 1] /\ i + 1 \in 1..Len(q)
  BY <1>0, TailFacts
<1>2. \A i \in 1..(Len(q) - 1) : q[1] < t[i]  BY <1>1 DEF Rising
<1>3. ASSUME NEW i \in DOMAIN t, NEW j \in DOMAIN t, i < j PROVE t[i] < t[j]
  <2>1. i + 1 < j + 1 /\ i + 1 \in 1..Len(q) /\ j + 1 \in 1..Len(q)  BY <1>1, <1>3
  <2>2. q[i + 1] < q[j + 1]  BY <1>1, <2>1 DEF Rising
  <2> QED  BY <1>1, <2>2
<1> QED  BY <1>0, <1>1, <1>2, <1>3 DEF Rising, Range

\* Rising sequences, the first of them below the second, make a rising one.
LEMMA RisingConcat ==
    ASSUME NEW S \in SUBSET Int, NEW s \in Seq(S), NEW t \in Seq(S), Rising(s), Rising(t),
           Below(Range(s), Range(t))
    PROVE  /\ s \o t \in Seq(S) /\ Len(s \o t) = Len(s) + Len(t)
           /\ Rising(s \o t) /\ Range(s \o t) = Range(s) \cup Range(t)
<1>0. PICK u : u = s \o t  OBVIOUS
<1>1. Len(s) \in Nat /\ Len(t) \in Nat /\ DOMAIN s = 1..Len(s) /\ DOMAIN t = 1..Len(t)  BY LenProperties
<1>2. /\ u \in Seq(S) /\ Len(u) = Len(s) + Len(t)
      /\ \A i \in 1..(Len(s) + Len(t)) : u[i] = IF i <= Len(s) THEN s[i] ELSE t[i - Len(s)]
  BY <1>0, ConcatProperties
<1>3. DOMAIN u = 1..(Len(s) + Len(t))  BY <1>2, LenProperties
<1>4. Range(u) = Range(s) \cup Range(t)  BY <1>0, RangeConcatenation
<1>5. ASSUME NEW i \in DOMAIN u, NEW j \in DOMAIN u, i < j PROVE u[i] < u[j]
  <2>1. CASE j <= Len(s)
    <3>1. i \in 1..Len(s) /\ j \in 1..Len(s)  BY <1>1, <1>3, <1>5, <2>1
    <3> QED  BY <1>1, <1>2, <1>3, <1>5, <3>1 DEF Rising
  <2>2. CASE i <= Len(s) /\ ~(j <= Len(s))
    <3>1. i \in 1..Len(s) /\ j - Len(s) \in 1..Len(t)  BY <1>1, <1>3, <1>5, <2>2
    <3>2. s[i] < t[j - Len(s)]  BY <1>1, <3>1 DEF Below, Range
    <3> QED  BY <1>2, <1>3, <2>2, <3>2
  <2>3. CASE ~(i <= Len(s))
    <3>1. /\ i - Len(s) \in 1..Len(t) /\ j - Len(s) \in 1..Len(t) /\ i - Len(s) < j - Len(s)
          /\ ~(j <= Len(s))
      BY <1>1, <1>3, <1>5, <2>3
    <3>2. t[i - Len(s)] < t[j - Len(s)]  BY <1>1, <3>1 DEF Rising
    <3> QED  BY <1>2, <1>3, <2>3, <3>1, <3>2
  <2> QED  BY <1>1, <1>3, <2>1, <2>2, <2>3
<1> QED  BY <1>0, <1>2, <1>4, <1>5 DEF Rising

\* A rising sequence cut in two: both parts rise and the first is below the second.
LEMMA RisingSplit ==
    ASSUME NEW S \in SUBSET Int, NEW q \in Seq(S), NEW n \in 0..Len(q), Rising(q)
    PROVE  /\ SubSeq(q, 1, n) \in Seq(S) /\ SubSeq(q, n + 1, Len(q)) \in Seq(S)
           /\ Len(SubSeq(q, 1, n)) = n
           /\ Rising(SubSeq(q, 1, n)) /\ Rising(SubSeq(q, n + 1, Len(q)))
           /\ Below(Range(SubSeq(q, 1, n)), Range(SubSeq(q, n + 1, Len(q))))
           /\ Range(q) = Range(SubSeq(q, 1, n)) \cup Range(SubSeq(q, n + 1, Len(q)))
<1>0. PICK a, b : a = SubSeq(q, 1, n) /\ b = SubSeq(q, n + 1, Len(q))  OBVIOUS
<1>1. Len(q) \in Nat /\ DOMAIN q = 1..Len(q) /\ n \in Nat /\ n <= Len(q)  BY LenProperties
<1>2. \A i \in 1..Len(q) : q[i] \in S  BY ElementOfSeq
<1>3. a \in Seq(S) /\ Len(a) = n /\ \A i \in 1..n : a[i] = q[i]
  <2>1. \A i \in 1..n : q[i] \in S  BY <1>1, <1>2
  <2>2. /\ a \in Seq(S) /\ Len(a) = IF 1 <= n THEN n - 1 + 1 ELSE 0
        /\ \A i \in 1..(n - 1 + 1) : a[i] = q[1 + i - 1]
    BY <1>0, <1>1, <2>1, SubSeqProperties
  <2>3. Len(a) = n  BY <1>1, <2>2
  <2>4. \A i \in 1..n : i \in 1..(n - 1 + 1) /\ 1 + i - 1 = i  BY <1>1
  <2>5. \A i \in 1..n : a[i] = q[i]  BY <2>2, <2>4
  <2> QED  BY <2>2, <2>3, <2>5
<1>4. b \in Seq(S) /\ Len(b) = Len(q) - n /\ \A i \in 1..(Len(q) - n) : b[i] = q[n + i]
  <2>1. \A i \in (n + 1)..Len(q) : q[i] \in S  BY <1>1, <1>2
  <2>2. /\ b \in Seq(S) /\ Len(b) = IF n + 1 <= Len(q) THEN Len(q) - (n + 1) + 1 ELSE 0
        /\ \A i \in 1..(Len(q) - (n + 1) + 1) : b[i] = q[(n + 1) + i - 1]
    BY <1>0, <1>1, <2>1, SubSeqProperties
  <2>3. Len(b) = Len(q) - n
    <3>1. CASE n + 1 <= Len(q)
      <4>1. Len(q) - (n + 1) + 1 = Len(q) - n  BY <1>1
      <4> QED  BY <2>2, <3>1, <4>1
    <3>2. CASE ~(n + 1 <= Len(q))
      <4>0. \A x \in Nat, y \in Nat : x <= y /\ ~(x + 1 <= y) => y - x = 0  OBVIOUS
      <4>1. Len(q) - n = 0  BY <1>1, <3>2, <4>0
      <4> QED  BY <2>2, <3>2, <4>1
    <3> QED  BY <3>1, <3>2
  <2>4. \A i \in 1..(Len(q) - n) : i \in 1..(Len(q) - (n + 1) + 1) /\ (n + 1) + i - 1 = n + i
    BY <1>1
  <2>5. \A i \in 1..(Len(q) - n) : b[i] = q[n + i]  BY <2>2, <2>4
  <2> QED  BY <2>2, <2>3, <2>5
<1>5. DOMAIN a = 1..n /\ DOMAIN b = 1..(Len(q) - n)  BY <1>3, <1>4, LenProperties
<1>6. Rising(a)  BY <1>1, <1>3, <1>5 DEF Rising
<1>7. Rising(b)
  <2> SUFFICES ASSUME NEW i \in DOMAIN b, NEW j \in DOMAIN b, i < j PROVE b[i] < b[j]
    BY DEF Rising
  <2>1. n + i < n + j /\ n + i \in 1..Len(q) /\ n + j \in 1..Len(q)  BY <1>1, <1>5
  <2>2. q[n + i] < q[n + j]  BY <1>1, <2>1 DEF Rising
  <2>3. b[i] = q[n + i] /\ b[j] = q[n + j]  BY <1>4, <1>5
  <2> QED  BY <2>2, <2>3
<1>8. Below(Range(a), Range(b))
  <2> SUFFICES ASSUME NEW i \in DOMAIN a, NEW j \in DOMAIN b PROVE a[i] < b[j]
    BY DEF Below, Range
  <2>1. i < n + j /\ i \in 1..Len(q) /\ n + j \in 1..Len(q)  BY <1>1, <1>5
  <2>2. q[i] < q[n + j]  BY <1>1, <2>1 DEF Rising
  <2> QED  BY <1>3, <1>4, <1>5, <2>2
<1>9. Range(q) = Range(a) \cup Range(b)
  <2>1. ASSUME NEW i \in DOMAIN q PROVE q[i] \in Range(a) \cup Range(b)
    <3>1. CASE i <= n
      <4>1. i \in DOMAIN a /\ a[i] = q[i]  BY <1>1, <1>3, <1>5, <3>1
      <4> QED  BY <4>1 DEF Range
    <3>2. CASE ~(i <= n)
      <4>1. i - n \in DOMAIN b /\ n + (i - n) = i  BY <1>1, <1>5, <3>2
      <4>2. b[i - n] = q[i]  BY <1>4, <1>5, <4>1
      <4> QED  BY <4>1, <4>2 DEF Range
    <3> QED  BY <3>1, <3>2
  <2>2. ASSUME NEW i \in DOMAIN a PROVE a[i] \in Range(q)  BY <1>1, <1>3, <1>5 DEF Range
  <2>3. ASSUME NEW i \in DOMAIN b PROVE b[i] \in Range(q)
    <3>1. n + i \in DOMAIN q  BY <1>1, <1>5
    <3> QED  BY <1>4, <1>5, <3>1 DEF Range
  <2> QED  BY <2>1, <2>2, <2>3 DEF Range
<1> QED  BY <1>0, <1>3, <1>4, <1>6, <1>7, <1>8, <1>9

\* What tungstenite and the kernel hold after writing as much as fits: the
\* same frames in the same order.
LEMMA PushedFacts ==
    ASSUME NEW S \in SUBSET Posts, NEW w \in Seq(S), NEW k \in Seq(Posts), Len(k) <= SockCap,
           Rising(w), Rising(k), Below(Range(k), Range(w))
    PROVE  LET after == Pushed(w, k)
           IN  /\ after.wbuf \in Seq(S) /\ after.sock \in Seq(Posts) /\ Len(after.sock) <= SockCap
               /\ Rising(after.wbuf) /\ Rising(after.sock)
               /\ Below(Range(after.sock), Range(after.wbuf))
               /\ Range(after.sock) \cup Range(after.wbuf) = Range(k) \cup Range(w)
               /\ Range(k) \subseteq Range(after.sock) /\ Range(after.wbuf) \subseteq Range(w)
<1>p. Posts \in SUBSET Int /\ S \in SUBSET Int /\ SockCap \in Nat  BY WsAssumption DEF Posts, Msgs, Greeting
<1>1. PICK n : n = IF Len(w) <= SockCap - Len(k) THEN Len(w) ELSE SockCap - Len(k)  OBVIOUS
<1>2. Len(w) \in Nat /\ Len(k) \in Nat  BY LenProperties
<1>3. n \in 0..Len(w) /\ Len(k) + n <= SockCap  BY <1>1, <1>2, <1>p
<1>4. PICK a, b : a = SubSeq(w, 1, n) /\ b = SubSeq(w, n + 1, Len(w))  OBVIOUS
<1>5. /\ a \in Seq(S) /\ b \in Seq(S) /\ Len(a) = n /\ Rising(a) /\ Rising(b)
      /\ Below(Range(a), Range(b)) /\ Range(w) = Range(a) \cup Range(b)
  BY <1>p, <1>3, <1>4, RisingSplit
<1>6. a \in Seq(Posts)  BY <1>5, SeqMonotonic
<1>7. Below(Range(k), Range(a))  BY <1>5 DEF Below
<1>8. PICK u : u = k \o a  OBVIOUS
<1>9. u \in Seq(Posts) /\ Len(u) = Len(k) + n /\ Rising(u) /\ Range(u) = Range(k) \cup Range(a)
  <2>1. /\ k \o a \in Seq(Posts) /\ Len(k \o a) = Len(k) + Len(a)
        /\ Rising(k \o a) /\ Range(k \o a) = Range(k) \cup Range(a)
    <3>1. Posts \in SUBSET Int /\ Rising(a)  BY <1>p, <1>5
    <3> QED  BY <3>1, <1>6, <1>7, RisingConcat, ZenonT(30)
  <2> QED  BY <2>1, <1>5, <1>8
<1>10. Pushed(w, k) = [wbuf |-> b, sock |-> u]  BY <1>1, <1>4, <1>8 DEF Pushed
<1>11. Below(Range(u), Range(b))  BY <1>5, <1>9 DEF Below
<1>12. PICK after : after = Pushed(w, k)  OBVIOUS
<1>13. after.wbuf = b /\ after.sock = u  BY <1>10, <1>12
<1> QED  BY <1>3, <1>5, <1>9, <1>11, <1>12, <1>13

-----------------------------------------------------------------------------
(* The lines of a frame *)

\* How many of the first i lines have text.
Counted(shape, i) == Cardinality({j \in 1..i : shape[j]})

\* The count never exceeds that of the frame, grows at each line with text, and
\* takes every value up to that of the frame at one of them.
LEMMA CountedFacts ==
    ASSUME NEW shape \in Seq(BOOLEAN)
    PROVE  /\ \A i \in 0..Len(shape) : Counted(shape, i) \in Nat /\ Counted(shape, i) <= Counted(shape, Len(shape))
           /\ \A i \in 1..Len(shape) : shape[i] => 0 < Counted(shape, i)
           /\ \A i, j \in 1..Len(shape) : i < j /\ shape[j] => Counted(shape, i) < Counted(shape, j)
           /\ \A n \in 1..Counted(shape, Len(shape)) :
                \E i \in 1..Len(shape) : shape[i] /\ Counted(shape, i) = n
<1> DEFINE Blank(i) == {j \in 1..i : shape[j]}
<1>l. Len(shape) \in Nat  BY LenProperties
<1>1. ASSUME NEW i \in 0..Len(shape)
      PROVE  IsFiniteSet(Blank(i)) /\ Counted(shape, i) \in Nat
  <2>1. IsFiniteSet(1..i)  BY <1>l, FS_Interval
  <2>2. IsFiniteSet(Blank(i))  BY <2>1, FS_Subset
  <2> QED  BY <2>2, FS_CardinalityType DEF Counted
<1>2. ASSUME NEW i \in 0..Len(shape), NEW j \in 0..Len(shape), i <= j
      PROVE  Counted(shape, i) <= Counted(shape, j)
  <2>1. Blank(i) \subseteq Blank(j)  BY <1>2, <1>l
  <2>2. IsFiniteSet(Blank(j))  BY <1>1
  <2> QED  BY <2>1, <2>2, FS_Subset DEF Counted
<1>3. ASSUME NEW i \in 0..Len(shape), NEW j \in 1..Len(shape), i < j, shape[j]
      PROVE  Counted(shape, i) < Counted(shape, j)
  <2>1. Blank(i) \in SUBSET Blank(j) /\ j \in Blank(j) /\ j \notin Blank(i)  BY <1>3, <1>l
  <2>2. j \in 0..Len(shape)  BY <1>l
  <2>3. IsFiniteSet(Blank(j)) /\ Counted(shape, i) \in Nat /\ Counted(shape, j) \in Nat
    BY <1>1, <2>2
  <2>4. PICK x, y : x = Blank(i) /\ y = Blank(j)  OBVIOUS
  <2>5. x \in SUBSET y /\ x # y /\ IsFiniteSet(y)  BY <2>1, <2>3, <2>4
  <2>6. Cardinality(x) <= Cardinality(y) /\ Cardinality(x) # Cardinality(y)  BY <2>5, FS_Subset
  <2>7. Counted(shape, i) = Cardinality(x) /\ Counted(shape, j) = Cardinality(y)
    BY <2>4 DEF Counted
  <2> QED  BY <2>3, <2>6, <2>7
<1>4. Counted(shape, 0) = 0
  <2>1. Blank(0) = {}  OBVIOUS
  <2> QED  BY <2>1, FS_EmptySet DEF Counted
<1>5. ASSUME NEW n \in 1..Counted(shape, Len(shape))
      PROVE  \E i \in 1..Len(shape) : shape[i] /\ Counted(shape, i) = n
  <2>t. PICK T : T = Blank(Len(shape))  OBVIOUS
  <2>n. PICK N : N = Counted(shape, Len(shape))  OBVIOUS
  <2> DEFINE f == [i \in T |-> Counted(shape, i)]
  <2>1. IsFiniteSet(T) /\ N \in Nat /\ N = Cardinality(T) /\ n \in 1..N
    <3>1. Len(shape) \in 0..Len(shape)  BY <1>l
    <3>2. IsFiniteSet(T) /\ N \in Nat  BY <1>1, <2>t, <2>n, <3>1
    <3>3. N = Cardinality(T)  BY <2>t, <2>n DEF Counted
    <3> QED  BY <2>n, <3>2, <3>3
  <2>2. \A i \in T : i \in 1..Len(shape) /\ i \in 0..Len(shape) /\ shape[i]  BY <1>l, <2>t
  <2>3. ASSUME NEW i \in T PROVE Counted(shape, i) \in 1..N
    <3>1. 0 < Counted(shape, i)
      <4>1. 0 \in 0..Len(shape) /\ 0 < i  BY <1>l, <2>2
      <4> QED  BY <1>3, <1>4, <2>2, <4>1
    <3>2. Counted(shape, i) <= N
      <4>1. Len(shape) \in 0..Len(shape) /\ i <= Len(shape)  BY <1>l, <2>2
      <4>2. Counted(shape, i) <= Counted(shape, Len(shape))  BY <1>2, <2>2, <4>1
      <4> QED  BY <2>n, <4>2
    <3>3. Counted(shape, i) \in Nat  BY <1>1, <2>2
    <3> QED  BY <2>1, <3>1, <3>2, <3>3
  <2>4. ASSUME NEW i \in T, NEW j \in T, f[i] = f[j] PROVE i = j
    <3>1. Counted(shape, i) = Counted(shape, j)  BY <2>4
    <3>2. i \in Int /\ j \in Int /\ Counted(shape, i) \in Nat /\ Counted(shape, j) \in Nat
      <4>1. /\ i \in 1..Len(shape) /\ j \in 1..Len(shape)
            /\ i \in 0..Len(shape) /\ j \in 0..Len(shape)
        BY <2>2
      <4>2. Counted(shape, i) \in Nat /\ Counted(shape, j) \in Nat  BY <1>1, <4>1
      <4> QED  BY <1>l, <4>1, <4>2
    <3>3. ~(i < j)  BY <1>3, <2>2, <3>1, <3>2
    <3>4. ~(j < i)  BY <1>3, <2>2, <3>1, <3>2
    <3> QED  BY <3>2, <3>3, <3>4
  <2>5. f \in Injection(T, 1..N)
    <3>1. f \in [T -> 1..N]  BY <2>3
    <3> QED  BY <2>4, <3>1, Zenon DEF Injection, IsInjective
  <2>6. IsFiniteSet(1..N) /\ Cardinality(1..N) = N  BY <2>1, FS_Interval
  <2>7. f \in Surjection(T, 1..N)  BY <2>1, <2>5, <2>6, FS_Injection
  <2>8. PICK i \in T : f[i] = n  BY <2>1, <2>7 DEF Surjection
  <2> QED  BY <2>2, <2>8
<1>6. \A i \in 1..Len(shape) : shape[i] => 0 < Counted(shape, i)
  BY <1>l, <1>3, <1>4
<1>7. \A i \in 0..Len(shape) : Counted(shape, i) <= Counted(shape, Len(shape))
  BY <1>l, <1>2
<1>8. \A i, j \in 1..Len(shape) : i < j /\ shape[j] => Counted(shape, i) < Counted(shape, j)
  BY <1>l, <1>3
<1> QED  BY <1>1, <1>5, <1>6, <1>7, <1>8

\* A frame numbers its lines with text on from what the client has said, up to
\* what it has said with the frame.
LEMMA NumberedFacts ==
    ASSUME NEW c \in Clients, NEW shape \in Shapes, said[c] \in Nat,
           NEW top, top = said[c] + Cardinality({i \in 1..Len(shape) : shape[i]})
    PROVE  /\ Numbered(c, shape) \in Seq(Lines) /\ top \in Nat /\ said[c] <= top
           /\ \A k \in DOMAIN Numbered(c, shape) :
                LET line == Numbered(c, shape)[k]
                IN  line[1] = c /\ line[2] <= top /\ (HasText(line) => said[c] < line[2])
           /\ \A k, l \in DOMAIN Numbered(c, shape) :
                /\ k < l
                /\ HasText(Numbered(c, shape)[k]) /\ HasText(Numbered(c, shape)[l])
                => Numbered(c, shape)[k][2] < Numbered(c, shape)[l][2]
           /\ \A n \in (said[c] + 1)..top :
                \E k \in DOMAIN Numbered(c, shape) : Numbered(c, shape)[k] = <<c, n>>
<1>s. shape \in Seq(BOOLEAN)  BY WsAssumption
<1>l. PICK N \in Nat : N = Len(shape)  BY <1>s, LenProperties
<1>b. PICK b \in Nat : b = said[c]  OBVIOUS
<1>1. /\ \A i \in 0..N : Counted(shape, i) \in Nat /\ Counted(shape, i) <= Counted(shape, N)
      /\ \A i \in 1..N : shape[i] => 0 < Counted(shape, i)
      /\ \A i, j \in 1..N : i < j /\ shape[j] => Counted(shape, i) < Counted(shape, j)
      /\ \A n \in 1..Counted(shape, N) : \E i \in 1..N : shape[i] /\ Counted(shape, i) = n
  BY <1>s, <1>l, CountedFacts
<1>2. top = b + Counted(shape, N) /\ Counted(shape, N) \in Nat
  <2>1. Counted(shape, Len(shape)) = Cardinality({i \in 1..Len(shape) : shape[i]})  BY DEF Counted
  <2>2. N \in 0..N  OBVIOUS
  <2> QED  BY <1>1, <1>l, <1>b, <2>1, <2>2
<1>3. PICK t : t = Numbered(c, shape)  OBVIOUS
<1>4. t = [i \in 1..N |-> <<c, IF shape[i] THEN b + Counted(shape, i) ELSE 0>>]
  BY <1>3, <1>l, <1>b DEF Numbered, Counted
<1>5. /\ DOMAIN t = 1..N
      /\ \A i \in 1..N : t[i] = <<c, IF shape[i] THEN b + Counted(shape, i) ELSE 0>>
  BY <1>4
<1>6. ASSUME NEW i \in 1..N
      PROVE  /\ t[i] \in Lines /\ t[i][1] = c /\ t[i][2] <= top
             /\ HasText(t[i]) => shape[i] /\ t[i][2] = b + Counted(shape, i) /\ b < t[i][2]
             /\ shape[i] => t[i] = <<c, b + Counted(shape, i)>>
  <2>1. i \in 0..N  OBVIOUS
  <2>2. Counted(shape, i) \in Nat /\ Counted(shape, i) <= Counted(shape, N)  BY <1>1, <2>1
  <2>3. CASE shape[i]
    <3>1. t[i] = <<c, b + Counted(shape, i)>> /\ 0 < Counted(shape, i)  BY <1>1, <1>5, <2>3
    <3>2. b + Counted(shape, i) \in Nat /\ b < b + Counted(shape, i) /\ b + Counted(shape, i) <= top
      BY <1>2, <2>2, <3>1
    <3> QED  BY <2>3, <3>1, <3>2 DEF Lines
  <2>4. CASE ~shape[i]
    <3>1. t[i] = <<c, 0>>  BY <1>5, <2>4
    <3> QED  BY <2>4, <3>1, <1>2 DEF Lines, HasText
  <2> QED  BY <2>3, <2>4
<1>7. t \in Seq(Lines)
  <2>1. t \in [1..N -> Lines]  BY <1>4, <1>5, <1>6
  <2> QED  BY <2>1
<1>8. ASSUME NEW k \in 1..N, NEW l \in 1..N, k < l, HasText(t[k]), HasText(t[l])
      PROVE  t[k][2] < t[l][2]
  <2>1. Counted(shape, k) < Counted(shape, l)  BY <1>1, <1>6, <1>8
  <2>2. k \in 0..N /\ l \in 0..N  OBVIOUS
  <2>3. Counted(shape, k) \in Nat /\ Counted(shape, l) \in Nat  BY <1>1, <2>2
  <2>4. t[k][2] = b + Counted(shape, k) /\ t[l][2] = b + Counted(shape, l)  BY <1>6, <1>8
  <2> QED  BY <2>1, <2>3, <2>4
<1>9. ASSUME NEW n \in (b + 1)..top PROVE \E k \in 1..N : t[k] = <<c, n>>
  <2>1. n - b \in 1..Counted(shape, N)  BY <1>2
  <2>2. PICK i \in 1..N : shape[i] /\ Counted(shape, i) = n - b  BY <1>1, <2>1
  <2>3. b + (n - b) = n  OBVIOUS
  <2> QED  BY <1>6, <2>2, <2>3
<1>10. top \in Nat /\ b <= top  BY <1>2
<1> QED  BY <1>3, <1>5, <1>b, <1>6, <1>7, <1>8, <1>9, <1>10

-----------------------------------------------------------------------------
(* Type correctness *)

\* The server starts with a state of these types.
LEMMA TypeInitial == Init => WsType
<1> SUFFICES ASSUME Init PROVE WsType
  OBVIOUS
<1> QED  BY EmptyFacts, WsAssumption DEF Init, WsType

\* The socket and per_client_rx of the connection that is served are dropped.
LEMMA TypeLetGo ==
    ASSUME WsType, hpc \in {"handshake", "read", "drain", "flush"}, NEW how, LetGo(how),
           UNCHANGED <<engineVars, fwdVars, regs, text, backlog, said, frames, received>>
    PROVE  WsType'
<1>1. serving \in Clients /\ text = <<>>  BY DEF WsType
<1>2. queue' \in [Clients -> Seq(Msgs)] /\ wbuf' \in [Clients -> Seq(Msgs)]
  BY EmptyFacts DEF WsType, LetGo
<1>3. sock' \in [Clients -> Seq(Posts)] /\ inbound' \in [Clients -> Seq(Frames)]
  BY EmptyFacts DEF WsType, LetGo
<1>4. /\ remote' \in [Clients -> {"away", "dialing", "open", "closing", "gone"}]
      /\ closed' \subseteq Clients
  BY <1>1 DEF WsType, LetGo
<1>5. serving' = None /\ hpc' = "accept" /\ text' = <<>>  BY <1>1 DEF LetGo
<1> QED  BY <1>2, <1>3, <1>4, <1>5 DEF WsType, engineVars, fwdVars

\* A drain or a flush moves frames of the connection that is served towards
\* the client, none added, none lost, in their order.
Written(k, w, q) ==
    /\ queue' = [queue EXCEPT ![serving] = q]
    /\ wbuf' = [wbuf EXCEPT ![serving] = w]
    /\ sock' = [sock EXCEPT ![serving] = k]
    /\ Len(k) <= SockCap /\ Path(received[serving], k, w, q)
    /\ Range(sock[serving]) \subseteq Range(k)
    /\ Range(k) \cup Range(w) \cup Range(q) =
        Range(sock[serving]) \cup Range(wbuf[serving]) \cup Range(queue[serving])

\* What DrainOne and Flush have in common: messages move on, in order, or stay.
LEMMA WriteStep ==
    ASSUME WsType, Delivery, DrainOne \/ Flush
    PROVE  /\ \E k \in Seq(Posts), w \in Seq(Msgs), q \in Seq(Msgs) : Written(k, w, q)
           /\ serving \in Clients
           /\ {hpc, hpc'} \subseteq {"read", "drain", "flush"}
           /\ UNCHANGED <<engineVars, fwdVars, regs, serving, text, closed, backlog, inbound, remote,
                          said, frames, received>>
<1>c. serving \in Clients  BY DEF WsType, DrainOne, Flush
<1>m. Msgs \in SUBSET Posts /\ Msgs \in SUBSET Int  BY WsAssumption DEF Msgs, Posts
<1>0. PICK r, s, v, p : r = received[serving] /\ s = sock[serving] /\ v = wbuf[serving] /\ p = queue[serving]
  OBVIOUS
<1>1. /\ s \in Seq(Posts) /\ v \in Seq(Msgs) /\ p \in Seq(Msgs) /\ Len(s) <= SockCap
      /\ Path(r, s, v, p)
  BY <1>c, <1>0 DEF WsType, Delivery, DeliveryTo
<1>2. CASE Flush
  <2>1. PICK after : after = Pushed(v, s)  OBVIOUS
  <2>2. Rising(v) /\ Rising(s) /\ Below(Range(s), Range(v))  BY <1>1 DEF Path
  <2>3. /\ after.wbuf \in Seq(Msgs) /\ after.sock \in Seq(Posts) /\ Len(after.sock) <= SockCap
        /\ Rising(after.wbuf) /\ Rising(after.sock) /\ Below(Range(after.sock), Range(after.wbuf))
        /\ Range(after.sock) \cup Range(after.wbuf) = Range(s) \cup Range(v)
        /\ Range(s) \subseteq Range(after.sock) /\ Range(after.wbuf) \subseteq Range(v)
    BY <1>m, <1>1, <2>1, <2>2, PushedFacts
  <2>4. PICK k, w : k = after.sock /\ w = after.wbuf  OBVIOUS
  <2>5. Path(r, k, w, p)  BY <1>1, <2>3, <2>4 DEF Path, Below
  <2>6. queue' = [queue EXCEPT ![serving] = p]  BY <1>0, <1>2, <1>c DEF Flush, WsType
  <2>7. wbuf' = [wbuf EXCEPT ![serving] = w] /\ sock' = [sock EXCEPT ![serving] = k]
    BY <1>0, <1>2, <2>1, <2>4 DEF Flush
  <2>8. Written(k, w, p)  BY <1>0, <2>3, <2>4, <2>5, <2>6, <2>7 DEF Written
  <2>9. k \in Seq(Posts) /\ w \in Seq(Msgs)  BY <2>3, <2>4
  <2> QED  BY <1>1, <1>2, <1>c, <2>8, <2>9 DEF Flush
<1>3. CASE DrainOne
  <2>0. p # <<>>  BY <1>0, <1>3 DEF DrainOne
  <2>1. PICK h, q : h = Head(p) /\ q = Tail(p)  OBVIOUS
  <2>2. h \in Msgs /\ q \in Seq(Msgs) /\ Range(p) = {h} \cup Range(q)
    BY <1>1, <2>0, <2>1, TailFacts
  <2>3. Rising(q) /\ \A x \in Range(q) : h < x  BY <1>1, <1>m, <2>0, <2>1, RisingTail DEF Path
  <2>4. PICK a : a = Append(v, h)  OBVIOUS
  <2>5. a \in Seq(Msgs) /\ Range(a) = Range(v) \cup {h}  BY <1>1, <2>2, <2>4, AppendFacts
  <2>6. \A x \in Range(v) : x < h  BY <1>1, <2>2 DEF Path, Below
  <2>7. Rising(a)  BY <1>1, <1>m, <2>2, <2>4, <2>6, RisingAppend DEF Path
  <2>8. Below(Range(s), Range(a)) /\ Rising(s)  BY <1>1, <2>2, <2>5 DEF Path, Below
  <2>9. PICK after : after = Pushed(a, s)  OBVIOUS
  <2>10. /\ after.wbuf \in Seq(Msgs) /\ after.sock \in Seq(Posts) /\ Len(after.sock) <= SockCap
         /\ Rising(after.wbuf) /\ Rising(after.sock) /\ Below(Range(after.sock), Range(after.wbuf))
         /\ Range(after.sock) \cup Range(after.wbuf) = Range(s) \cup Range(a)
         /\ Range(s) \subseteq Range(after.sock) /\ Range(after.wbuf) \subseteq Range(a)
    BY <1>m, <1>1, <2>5, <2>7, <2>8, <2>9, PushedFacts
  <2>11. PICK k, w : k = after.sock /\ w = after.wbuf  OBVIOUS
  <2>12. /\ Rising(r) /\ Below(Range(r), Range(s)) /\ Below(Range(r), Range(v)) /\ Below(Range(r), Range(p))
         /\ Below(Range(s), Range(p)) /\ Below(Range(v), Range(p))
    BY <1>1 DEF Path
  <2>13. /\ Below(Range(r), Range(a)) /\ Below(Range(a), Range(q))
         /\ Below(Range(s), Range(q)) /\ Below(Range(r), Range(q))
    BY <2>2, <2>3, <2>5, <2>12 DEF Below
  <2>14. /\ Below(Range(r), Range(k)) /\ Below(Range(r), Range(w)) /\ Below(Range(k), Range(q))
         /\ Below(Range(w), Range(q))
    BY <2>10, <2>11, <2>12, <2>13 DEF Below
  <2>15. Path(r, k, w, q)  BY <2>3, <2>10, <2>11, <2>12, <2>13, <2>14 DEF Path
  <2>16. queue' = [queue EXCEPT ![serving] = q]  BY <1>0, <1>3, <1>c, <2>1 DEF DrainOne, WsType
  <2>17. wbuf' = [wbuf EXCEPT ![serving] = w] /\ sock' = [sock EXCEPT ![serving] = k]
    BY <1>0, <1>3, <2>1, <2>4, <2>9, <2>11 DEF DrainOne
  <2>18. Range(k) \cup Range(w) \cup Range(q) = Range(s) \cup Range(v) \cup Range(p)
    BY <2>2, <2>5, <2>10, <2>11
  <2>19. Written(k, w, q)  BY <1>0, <2>10, <2>11, <2>15, <2>16, <2>17, <2>18 DEF Written
  <2>20. k \in Seq(Posts) /\ w \in Seq(Msgs)  BY <2>10, <2>11
  <2>21. {hpc, hpc'} \subseteq {"read", "drain", "flush"}  BY <1>3 DEF DrainOne
  <2> QED  BY <1>3, <1>c, <2>2, <2>19, <2>20, <2>21 DEF DrainOne
<1> QED  BY <1>2, <1>3

\* One case per step of the engine's ends, the two threads and the clients.
LEMMA TypeNext == WsType /\ Delivery /\ [Next]_vars => WsType'
<1> SUFFICES ASSUME WsType, Delivery, [Next]_vars PROVE WsType'
  OBVIOUS
<1> USE DEF engineVars, fwdVars, netVars, serverVars
<1>n. None \notin Clients /\ Msgs \in SUBSET Posts  BY WsAssumption DEF Clients, Msgs, Posts
<1>1. CASE Emit
  <2>1. emitted + 1 \in Msgs /\ emitted + 1 \in 0..MaxMsgs  BY <1>1, WsAssumption DEF Emit, WsType, Msgs
  <2>2. outq' \in Seq(Msgs)  BY <1>1, <2>1, AppendFacts DEF Emit, WsType
  <2> QED  BY <1>1, <2>1, <2>2 DEF Emit, WsType
<1>2. CASE TakeLines
  <2>1. taken \o inq \in Seq(Lines)  BY ConcatProperties DEF WsType
  <2> QED  BY <1>2, <2>1, EmptyFacts DEF TakeLines, WsType
<1>c. ASSUME CheckRegistration PROVE current' \in Clients \cup {None} /\ regs' \in Seq(Clients)
  <2>1. CASE regs = <<>>  BY <1>c, <2>1 DEF CheckRegistration, WsType
  <2>2. CASE regs # <<>>
    <3>1. Head(regs) \in Clients /\ Tail(regs) \in Seq(Clients)  BY <2>2, TailFacts DEF WsType
    <3> QED  BY <1>c, <2>2, <3>1 DEF CheckRegistration
  <2> QED  BY <2>1, <2>2
<1>3. CASE FwdTop \/ FwdRecheck  BY <1>3, <1>c DEF FwdTop, FwdRecheck, WsType
<1>4. CASE FwdTimeout  BY <1>4 DEF FwdTimeout, WsType
<1>5. CASE FwdRecv
  <2>1. Head(outq) \in Msgs /\ Tail(outq) \in Seq(Msgs)  BY <1>5, TailFacts DEF FwdRecv, WsType
  <2> QED  BY <1>5, <2>1 DEF FwdRecv, WsType
<1>6. CASE FwdSend
  <2>1. fmsg \in Msgs  BY <1>6 DEF FwdSend, WsType
  <2>2. queue' \in [Clients -> Seq(Msgs)] /\ current' \in Clients \cup {None}
    <3>1. CASE current # None /\ Registered(current)
      <4>1. current \in Clients  BY <3>1 DEF WsType
      <4>2. Append(queue[current], fmsg) \in Seq(Msgs)  BY <2>1, <4>1, AppendFacts DEF WsType
      <4> QED  BY <1>6, <3>1, <4>1, <4>2 DEF FwdSend, WsType
    <3>2. CASE ~(current # None /\ Registered(current))  BY <1>6, <3>2 DEF FwdSend, WsType
    <3> QED  BY <3>1, <3>2
  <2> QED  BY <1>6, <2>2 DEF FwdSend, WsType
<1>7. CASE Accept
  <2>1. Head(backlog) \in Clients /\ Tail(backlog) \in Seq(Clients)
    BY <1>7, TailFacts DEF Accept, WsType
  <2> QED  BY <1>7, <1>n, <2>1 DEF Accept, WsType
<1>8. CASE Handshake  BY <1>8 DEF Handshake, WsType
<1>9. CASE HandshakeFails  BY <1>9, TypeLetGo DEF HandshakeFails
<1>10. CASE Register
  <2>1. serving \in Clients /\ Greeting \in Posts  BY <1>10 DEF Register, WsType, Posts
  <2>2. Append(sock[serving], Greeting) \in Seq(Posts) /\ Append(regs, serving) \in Seq(Clients)
    BY <2>1, AppendFacts DEF WsType
  <2> QED  BY <1>10, <2>1, <2>2 DEF Register, WsType
<1>11. CASE ReadText
  <2>1. serving \in Clients  BY <1>11 DEF ReadText, WsType
  <2>2. PICK f \in Frames : f = Head(inbound[serving])  BY <1>11, <2>1, TailFacts DEF ReadText, WsType
  <2>3. Tail(inbound[serving]) \in Seq(Frames)  BY <1>11, <2>1, TailFacts DEF ReadText, WsType
  <2>4. f.lines \in Seq(Lines)  BY <2>2 DEF Frames
  <2> QED  BY <1>11, <2>1, <2>2, <2>3, <2>4 DEF ReadText, WsType
<1>12. CASE PassLine
  <2>1. Head(text) \in Lines /\ Tail(text) \in Seq(Lines)  BY <1>12, TailFacts DEF PassLine, WsType
  <2>2. Append(inq, Head(text)) \in Seq(Lines)  BY <2>1, AppendFacts DEF WsType
  <2> QED  BY <1>12, <2>1, <2>2 DEF PassLine, WsType
<1>13. CASE FrameDone  BY <1>13 DEF FrameDone, WsType
<1>14. CASE ReadClose  BY <1>14, TypeLetGo DEF ReadClose
<1>15. CASE ReadWouldBlock  BY <1>15 DEF ReadWouldBlock, WsType
<1>16. CASE ConnectionLost  BY <1>16, TypeLetGo DEF ConnectionLost
<1>17. CASE DrainOne \/ Flush
  <2>1. PICK k \in Seq(Posts), w \in Seq(Msgs), q \in Seq(Msgs) : Written(k, w, q)
    BY <1>17, WriteStep
  <2>2. /\ queue' \in [Clients -> Seq(Msgs)] /\ wbuf' \in [Clients -> Seq(Msgs)]
        /\ sock' \in [Clients -> Seq(Posts)]
    BY <2>1 DEF Written, WsType
  <2> QED  BY <1>17, <2>2, WriteStep DEF WsType
<1>18. ASSUME NEW c \in Clients, Client(c) PROVE WsType'
  <2>1. CASE Connect(c)
    <3>1. Append(backlog, c) \in Seq(Clients)  BY AppendFacts DEF WsType
    <3> QED  BY <2>1, <3>1 DEF Connect, WsType
  <2>2. CASE ClientReads(c)
    <3>1. Head(sock[c]) \in Posts /\ Tail(sock[c]) \in Seq(Posts)
      BY <2>2, TailFacts DEF ClientReads, WsType
    <3>2. Append(received[c], Head(sock[c])) \in Seq(Posts)  BY <3>1, AppendFacts DEF WsType
    <3> QED  BY <2>2, <3>1, <3>2 DEF ClientReads, WsType
  <2>3. CASE ClientCloses(c)
    <3>1. Close \in Frames  BY EmptyFacts DEF Close, Frames
    <3>2. Append(inbound[c], Close) \in Seq(Frames)  BY <3>1, AppendFacts DEF WsType
    <3> QED  BY <2>3, <3>2 DEF ClientCloses, WsType
  <2>4. CASE ClientVanishes(c)  BY <2>4, EmptyFacts DEF ClientVanishes, WsType
  <2>5. ASSUME NEW shape \in Shapes, ClientSends(c, shape) PROVE WsType'
    <3>1. PICK top : top = said[c] + Cardinality({i \in 1..Len(shape) : shape[i]})  OBVIOUS
    <3>2. Numbered(c, shape) \in Seq(Lines) /\ top \in Nat
      <4>1. said[c] \in Nat  BY DEF WsType
      <4> QED  BY <3>1, <4>1, NumberedFacts
    <3>3. Text(Numbered(c, shape)) \in Frames  BY <3>2 DEF Text, Frames
    <3>4. Append(inbound[c], Text(Numbered(c, shape))) \in Seq(Frames)
      BY <3>3, AppendFacts DEF WsType
    <3>5. said' = [said EXCEPT ![c] = top]  BY <2>5, <3>1 DEF ClientSends
    <3> QED  BY <2>5, <3>2, <3>4, <3>5, ZenonT(30) DEF ClientSends, WsType
  <2> QED  BY <1>18, <2>1, <2>2, <2>3, <2>4, <2>5 DEF Client
<1>19. CASE UNCHANGED vars  BY <1>19 DEF vars, WsType
<1> QED
  BY <1>1, <1>2, <1>3, <1>4, <1>5, <1>6, <1>7, <1>8, <1>9, <1>10, <1>11, <1>12, <1>13, <1>14,
     <1>15, <1>16, <1>17, <1>18, <1>19 DEF Next, Forwarder, Handler

-----------------------------------------------------------------------------
(* Connections *)

\* A connection never goes back to a place before the one it has.
Forward == \A c \in Clients : (Waits(c)' => Waits(c)) /\ (Unregistered(c)' => Unregistered(c))

\* Steps that move no connection.
LEMMA PlaceKept ==
    ASSUME Connections, UNCHANGED <<remote, backlog, serving>>,
           hpc' = hpc \/ {hpc, hpc'} \subseteq {"read", "lines", "drain", "flush"}
    PROVE  /\ Connections' /\ Forward
           /\ \A c \in Clients : Registered(c)' <=> Registered(c)
<1>1. \A c \in Clients : Waits(c)' <=> Waits(c)  BY DEF Waits
<1>2. \A c \in Clients : Unregistered(c)' <=> Unregistered(c)  BY <1>1 DEF Unregistered
<1>3. \A c \in Clients : Registered(c)' <=> Registered(c)  BY DEF Registered
<1>4. Connections'
  <2>1. hpc \notin {"accept", "handshake"} => hpc' \notin {"accept", "handshake"}  OBVIOUS
  <2> QED  BY <1>1, <2>1 DEF Connections
<1> QED  BY <1>1, <1>2, <1>3, <1>4 DEF Forward

\* The connection that is served ends.
LEMMA PlaceLetGo ==
    ASSUME WsType, Connections, serving \in Clients, NEW how, LetGo(how), UNCHANGED backlog
    PROVE  /\ Connections' /\ Forward
           /\ \A c \in Clients : ~Registered(c)'
<1>1. /\ serving' = None /\ hpc' = "accept" /\ None \notin Clients
      /\ \A c \in Clients : remote'[c] = IF c = serving THEN "gone" ELSE remote[c]
  BY WsAssumption DEF LetGo, WsType, Clients
<1>2. \A c \in Clients : (Waits(c)' => Waits(c)) /\ (c # serving /\ Waits(c) => Waits(c)')
  BY <1>1 DEF Waits
<1>3. \A c \in Clients : Unregistered(c)' => Unregistered(c)  BY <1>1, <1>2 DEF Unregistered
<1>4. \A c \in Clients : ~Registered(c)'  BY <1>1 DEF Registered
<1>5. serving # None /\ remote[serving] # "away"  BY <1>1 DEF Connections
<1>6. \A c \in Clients : (remote'[c] = "away" <=> remote[c] = "away")  BY <1>1, <1>5
<1>7. Range(backlog) \subseteq Clients  BY RangeFacts DEF WsType
<1>8. \A b \in Range(backlog) : \A c \in Clients : ~Waits(c)' => c < b
  <2> SUFFICES ASSUME NEW b \in Range(backlog), NEW c \in Clients, ~Waits(c)' PROVE c < b
    OBVIOUS
  <2>1. CASE c = serving  BY <1>5, <2>1 DEF Connections
  <2>2. CASE c # serving  BY <1>2, <2>2 DEF Connections
  <2> QED  BY <2>1, <2>2
<1>9. \A c \in Clients : ~(remote'[c] \in {"open", "closing"})  BY <1>1 DEF Connections
<1>10. Connections'
  <2>1. \A b \in Range(backlog) : remote'[b] # "away"  BY <1>6, <1>7 DEF Connections
  <2>2. \A d, e \in Clients : remote'[d] = "away" /\ remote'[e] # "away" => e < d
    BY <1>6 DEF Connections
  <2> QED  BY <1>1, <1>8, <1>9, <2>1, <2>2 DEF Connections
<1> QED  BY <1>2, <1>3, <1>4, <1>10 DEF Forward

\* The client that waited longest is taken from the backlog.
LEMMA PlaceAccept ==
    ASSUME WsType, Connections, Accept
    PROVE  /\ Connections' /\ Forward /\ UNCHANGED remote
           /\ serving = None /\ serving' \in Clients /\ hpc' = "handshake" /\ Waits(serving')
           /\ \A c \in Clients : ~Waits(c) => c < serving'
<1>1. PICK s : s = Head(backlog)  OBVIOUS
<1>2. /\ s \in Clients /\ Range(backlog) = {s} \cup Range(backlog') /\ backlog \in Seq(Clients)
      /\ backlog # <<>> /\ backlog' = Tail(backlog)
  BY <1>1, TailFacts DEF Accept, WsType
<1>3. /\ serving = None /\ serving' = s /\ hpc = "accept" /\ hpc' = "handshake" /\ UNCHANGED remote
      /\ None \notin Clients
  BY <1>1, WsAssumption DEF Accept, WsType, Clients
<1>4. \A c \in Clients : Waits(c)' <=> Waits(c)  BY <1>2, <1>3 DEF Waits
<1>5. \A c \in Clients : Unregistered(c)' <=> Unregistered(c)  BY <1>3, <1>4 DEF Unregistered
<1>6. \A c \in Clients : ~Waits(c) => c < s  BY <1>2 DEF Connections
<1>7. Rising(backlog)  BY DEF Connections, Rising
<1>8. Clients \in SUBSET Int  BY DEF Clients
<1>9. Rising(Tail(backlog)) /\ \A x \in Range(Tail(backlog)) : Head(backlog) < x
  BY <1>2, <1>7, <1>8, RisingTail
<1>10. Rising(backlog') /\ \A b \in Range(backlog') : s < b  BY <1>1, <1>2, <1>9
<1>11. Connections'
  <2>1. /\ \A b \in Range(backlog') : remote'[b] # "away" /\ serving' < b
        /\ \A b \in Range(backlog') : \A c \in Clients : ~Waits(c)' => c < b
    BY <1>2, <1>3, <1>4, <1>10 DEF Connections
  <2>2. remote'[serving'] # "away"  BY <1>2, <1>3 DEF Connections
  <2>3. \A c \in Clients : ~(remote'[c] \in {"open", "closing"})  BY <1>3 DEF Connections
  <2>4. \A d, e \in Clients : remote'[d] = "away" /\ remote'[e] # "away" => e < d
    BY <1>3 DEF Connections
  <2> QED  BY <1>10, <2>1, <2>2, <2>3, <2>4 DEF Connections, Rising
<1> QED  BY <1>2, <1>3, <1>4, <1>5, <1>6, <1>11 DEF Forward, Waits

\* Whoever has registered does not wait.
LEMMA RegisteredFacts ==
    ASSUME WsType, Connections, serving \in Clients, hpc \notin {"accept", "handshake"}
    PROVE  ~Waits(serving) /\ (hpc # "greet" => ~Unregistered(serving) /\ Registered(serving))
<1>1. serving # None  BY WsAssumption DEF Clients
<1>2. remote[serving] # "away" /\ ~(serving < serving)  BY <1>1 DEF Connections, Clients
<1>3. serving \notin Range(backlog)  BY <1>1, <1>2 DEF Connections
<1> QED  BY <1>2, <1>3 DEF Waits, Unregistered, Registered, WsType

\* No step reorders the connections or takes one back.
LEMMA PlacesNext == WsType /\ Delivery /\ Connections /\ [Next]_vars => Connections' /\ Forward
<1> SUFFICES ASSUME WsType, Delivery, Connections, [Next]_vars PROVE Connections' /\ Forward
  OBVIOUS
<1> USE DEF engineVars, fwdVars, netVars, serverVars
<1>n. None \notin Clients  BY WsAssumption DEF Clients
<1>1. CASE Emit \/ TakeLines \/ Forwarder
  <2>1. UNCHANGED <<remote, backlog, serving, hpc>>
    BY <1>1 DEF Emit, TakeLines, Forwarder, FwdTop, FwdTimeout, FwdRecv, FwdRecheck, FwdSend
  <2> QED  BY <2>1, PlaceKept
<1>2. CASE Accept  BY <1>2, PlaceAccept
<1>3. CASE Handshake
  <2>1. serving \in Clients /\ serving # None  BY <1>3, <1>n DEF Handshake, WsType
  <2>2. /\ \A c \in Clients : remote'[c] = IF c = serving THEN "open" ELSE remote[c]
        /\ hpc = "handshake" /\ hpc' = "greet" /\ UNCHANGED <<backlog, serving>>
        /\ remote[serving] = "dialing"
    BY <1>3 DEF Handshake, WsType
  <2>3. \A c \in Clients : (Waits(c)' => Waits(c)) /\ (c # serving /\ Waits(c) => Waits(c)')
    BY <2>2 DEF Waits
  <2>4. \A c \in Clients : Unregistered(c)' => Unregistered(c)
    BY <2>2, <2>3 DEF Unregistered, Waits
  <2>5. \A c \in Clients : (remote'[c] = "away" <=> remote[c] = "away")  BY <2>2
  <2>6. Range(backlog) \subseteq Clients  BY RangeFacts DEF WsType
  <2>7. ASSUME NEW b \in Range(backlog), NEW c \in Clients, ~Waits(c)' PROVE c < b
    <3>1. CASE c = serving  BY <2>1, <3>1 DEF Connections
    <3>2. CASE c # serving  BY <2>3, <2>7, <3>2 DEF Connections
    <3> QED  BY <3>1, <3>2
  <2>8. Connections'
    <3>1. \A b \in Range(backlog) : remote'[b] # "away"  BY <2>5, <2>6 DEF Connections
    <3>2. \A d, e \in Clients : remote'[d] = "away" /\ remote'[e] # "away" => e < d
      BY <2>5 DEF Connections
    <3>3. remote'[serving] # "away"  BY <2>1, <2>2
    <3>4. \A c \in Clients : remote'[c] \in {"open", "closing"} => serving = c
      BY <2>2 DEF Connections
    <3> QED  BY <2>2, <2>7, <3>1, <3>2, <3>3, <3>4 DEF Connections
  <2> QED  BY <2>3, <2>4, <2>8 DEF Forward
<1>4. CASE HandshakeFails \/ ReadClose \/ ConnectionLost
  <2>1. serving \in Clients /\ UNCHANGED backlog
    BY <1>4 DEF HandshakeFails, ReadClose, ConnectionLost, WsType
  <2>2. PICK how : LetGo(how)  BY <1>4 DEF HandshakeFails, ReadClose, ConnectionLost
  <2> QED  BY <2>1, <2>2, PlaceLetGo
<1>5. CASE Register
  <2>1. UNCHANGED <<remote, backlog, serving>> /\ hpc = "greet" /\ hpc' = "read"
    BY <1>5 DEF Register
  <2>2. \A c \in Clients : Waits(c)' <=> Waits(c)  BY <2>1 DEF Waits
  <2>3. \A c \in Clients : Unregistered(c)' => Unregistered(c)  BY <2>1, <2>2 DEF Unregistered
  <2>4. Connections'  BY <2>1, <2>2 DEF Connections
  <2> QED  BY <2>2, <2>3, <2>4 DEF Forward
<1>6. CASE ReadText \/ PassLine \/ FrameDone \/ ReadWouldBlock
  <2>1. /\ UNCHANGED <<remote, backlog, serving>>
        /\ hpc' = hpc \/ {hpc, hpc'} \subseteq {"read", "lines", "drain", "flush"}
    BY <1>6 DEF ReadText, PassLine, FrameDone, ReadWouldBlock
  <2> QED  BY <2>1, PlaceKept
<1>7. CASE DrainOne \/ Flush
  <2>1. /\ UNCHANGED <<remote, backlog, serving>>
        /\ {hpc, hpc'} \subseteq {"read", "drain", "flush"}
    BY <1>7, WriteStep
  <2>2. {hpc, hpc'} \subseteq {"read", "lines", "drain", "flush"}  BY <2>1
  <2> QED  BY <2>1, <2>2, PlaceKept
<1>8. ASSUME NEW c \in Clients, Connect(c) PROVE Connections' /\ Forward
  <2>1. /\ remote[c] = "away" /\ \A d \in Clients : d < c => remote[d] # "away"
        /\ UNCHANGED <<serving, hpc>> /\ backlog' = Append(backlog, c)
        /\ \A d \in Clients : remote'[d] = IF d = c THEN "dialing" ELSE remote[d]
    BY <1>8 DEF Connect, WsType
  <2>2. Range(backlog') = Range(backlog) \cup {c}  BY <2>1, AppendFacts DEF WsType
  <2>3. \A d \in Clients : Waits(d)' <=> Waits(d)  BY <2>1, <2>2 DEF Waits
  <2>4. \A d \in Clients : Unregistered(d)' <=> Unregistered(d)  BY <2>1, <2>3 DEF Unregistered
  <2>5. Range(backlog) \subseteq Clients  BY RangeFacts DEF WsType
  <2>6. \A d \in Clients : remote[d] # "away" => d < c  BY <2>1 DEF Connections
  <2>7. Rising(backlog')
    <3>1. \A b \in Range(backlog) : b < c  BY <2>5, <2>6 DEF Connections
    <3>2. Clients \in SUBSET Int /\ Rising(backlog) /\ backlog \in Seq(Clients)
      BY DEF Clients, Connections, Rising, WsType
    <3>3. Rising(Append(backlog, c))  BY <3>1, <3>2, RisingAppend
    <3> QED  BY <2>1, <3>3
  <2>8. \A b \in Range(backlog') : remote'[b] # "away" /\ (serving' # None => serving' < b)
    <3>1. serving # None => serving \in Clients /\ serving < c  BY <2>6 DEF Connections, WsType
    <3> QED  BY <2>1, <2>2, <2>5, <3>1 DEF Connections
  <2>9. \A b \in Range(backlog') : \A d \in Clients : ~Waits(d)' => d < b
    <3>1. \A d \in Clients : ~Waits(d) => d < c  BY <2>6 DEF Waits
    <3> QED  BY <2>2, <2>3, <3>1 DEF Connections
  <2>10. serving' # None => remote'[serving'] # "away"
    BY <2>1 DEF Connections, WsType
  <2>11. \A d, e \in Clients : remote'[d] = "away" /\ remote'[e] # "away" => e < d
    <3> SUFFICES ASSUME NEW d \in Clients, NEW e \in Clients, remote'[d] = "away", remote'[e] # "away"
                 PROVE  e < d
      OBVIOUS
    <3>1. d # c /\ remote[d] = "away"  BY <2>1
    <3>2. c < d  BY <2>1, <3>1 DEF Clients
    <3>3. CASE e = c  BY <3>2, <3>3
    <3>4. CASE e # c  BY <2>1, <3>1, <3>4 DEF Connections
    <3> QED  BY <3>3, <3>4
  <2>12. \A d \in Clients : remote'[d] \in {"open", "closing"} =>
            serving' = d /\ hpc' \notin {"accept", "handshake"}
    BY <2>1 DEF Connections
  <2>13. Connections'  BY <2>7, <2>8, <2>9, <2>10, <2>11, <2>12 DEF Connections, Rising
  <2> QED  BY <2>3, <2>4, <2>13 DEF Forward
<1>9. ASSUME NEW c \in Clients, ClientCloses(c) \/ ClientVanishes(c) PROVE Connections' /\ Forward
  <2>1. /\ UNCHANGED <<serving, hpc, backlog>> /\ remote[c] # "away" /\ remote'[c] # "away"
        /\ \A d \in Clients : d # c => remote'[d] = remote[d]
        /\ remote'[c] \in {"open", "closing"} => remote[c] \in {"open", "closing"}
    BY <1>9 DEF ClientCloses, ClientVanishes, WsType
  <2>2. \A d \in Clients : (remote'[d] = "away" <=> remote[d] = "away")  BY <2>1
  <2>3. \A d \in Clients : Waits(d)' <=> Waits(d)  BY <2>1, <2>2 DEF Waits
  <2>4. \A d \in Clients : Unregistered(d)' <=> Unregistered(d)  BY <2>1, <2>3 DEF Unregistered
  <2>5. Range(backlog) \subseteq Clients  BY RangeFacts DEF WsType
  <2>6. /\ \A b \in Range(backlog) : remote'[b] # "away"
        /\ serving # None => remote'[serving] # "away"
    BY <2>2, <2>5 DEF Connections, WsType
  <2>7. /\ \A d, e \in Clients : remote'[d] = "away" /\ remote'[e] # "away" => e < d
        /\ \A b \in Range(backlog) : \A d \in Clients : ~Waits(d)' => d < b
    BY <2>2, <2>3 DEF Connections
  <2>8. \A d \in Clients : remote'[d] \in {"open", "closing"} =>
            serving = d /\ hpc \notin {"accept", "handshake"}
    BY <2>1 DEF Connections
  <2>9. Connections'  BY <2>1, <2>6, <2>7, <2>8 DEF Connections
  <2> QED  BY <2>3, <2>4, <2>9 DEF Forward
<1>10. ASSUME NEW c \in Clients, ClientReads(c) \/ \E shape \in Shapes : ClientSends(c, shape)
       PROVE  Connections' /\ Forward
  <2>1. UNCHANGED <<remote, backlog, serving, hpc>>  BY <1>10 DEF ClientReads, ClientSends
  <2> QED  BY <2>1, PlaceKept
<1>11. CASE UNCHANGED vars
  <2>1. UNCHANGED <<remote, backlog, serving, hpc>>  BY <1>11 DEF vars
  <2> QED  BY <2>1, PlaceKept
<1> QED
  BY <1>1, <1>2, <1>3, <1>4, <1>5, <1>6, <1>7, <1>8, <1>9, <1>10, <1>11
  DEF Next, Handler, Client

-----------------------------------------------------------------------------
(* From the engine to the clients *)

\* A client of which nothing changes, and that comes to no new place.
LEMMA DeliveryKept ==
    ASSUME Forward, NEW c \in Clients, DeliveryTo(c),
           received'[c] = received[c], sock'[c] = sock[c], wbuf'[c] = wbuf[c], queue'[c] = queue[c],
           Registered(c)' /\ remote'[c] # "gone" => Registered(c) /\ remote[c] # "gone"
    PROVE  DeliveryTo(c)' /\ Has(c)' = Has(c)
<1>1. Has(c)' = Has(c)  BY DEF Has
<1>2. Unregistered(c)' => Unregistered(c)  BY DEF Forward
<1> QED  BY <1>1, <1>2 DEF DeliveryTo

\* Steps that leave the clients and their queues alone.
LEMMA DeliveryStays ==
    ASSUME Delivery, Forward, UNCHANGED <<received, sock, wbuf, queue>>,
           \A c \in Clients : Registered(c)' /\ remote'[c] # "gone" => Registered(c) /\ remote[c] # "gone"
    PROVE  Delivery' /\ \A c \in Clients : Has(c)' = Has(c)
BY DeliveryKept DEF Delivery

\* The connection that is served ends: only what the client has read is left.
LEMMA DeliveryLetGo ==
    ASSUME WsType, Connections, Delivery, serving \in Clients, NEW how, LetGo(how),
           UNCHANGED <<backlog, received>>
    PROVE  Delivery' /\ \A c \in Clients : Has(c)' \subseteq Has(c)
<1>1. Forward /\ \A c \in Clients : ~Registered(c)'  BY PlaceLetGo
<1>2. ASSUME NEW c \in Clients, c # serving PROVE DeliveryTo(c)' /\ Has(c)' = Has(c)
  <2>1. sock'[c] = sock[c] /\ wbuf'[c] = wbuf[c] /\ queue'[c] = queue[c]
    BY <1>2 DEF LetGo, WsType
  <2> QED  BY <1>1, <2>1, DeliveryKept DEF Delivery
<1>3. PICK s : s = serving  OBVIOUS
<1>4. /\ s \in Clients /\ sock'[s] = <<>> /\ wbuf'[s] = <<>> /\ queue'[s] = <<>>
      /\ received'[s] = received[s]
  BY <1>3 DEF LetGo, WsType
<1>5. Has(s)' = Range(received[s]) /\ Has(s)' \subseteq Has(s)  BY <1>4, EmptyFacts DEF Has
<1>6. DeliveryTo(s)  BY <1>4 DEF Delivery
<1>7. Path(received[s], <<>>, <<>>, <<>>)  BY <1>6, EmptyFacts DEF DeliveryTo, Path, Below
<1>8. Len(<<>>) <= SockCap  BY WsAssumption, EmptyFacts
<1>9. Unregistered(s)' => Has(s)' = {}  BY <1>1, <1>4, <1>5, <1>6 DEF Forward, DeliveryTo
<1>10. DeliveryTo(s)'  BY <1>1, <1>4, <1>6, <1>7, <1>8, <1>9 DEF DeliveryTo
<1> QED  BY <1>2, <1>3, <1>5, <1>10 DEF Delivery

\* The forwarder hands its message to the client that is served.
LEMMA DeliverySend ==
    ASSUME WsType, Connections, Delivery, Outgoing, FwdSend
    PROVE  /\ Delivery'
           /\ \/ \A c \in Clients : Has(c)' = Has(c)
              \/ \E s \in Clients : /\ Has(s)' = Has(s) \cup {fmsg}
                                    /\ \A c \in Clients : c # s => Has(c)' = Has(c)
<1> USE DEF engineVars, netVars
<1>0. UNCHANGED <<remote, backlog, serving, hpc, received, sock, wbuf>>  BY DEF FwdSend
<1>1. Forward /\ \A c \in Clients : Registered(c)' <=> Registered(c)  BY <1>0, PlaceKept
<1>2. CASE ~(current # None /\ Registered(current))
  <2>1. UNCHANGED queue  BY <1>2 DEF FwdSend
  <2> QED  BY <1>0, <1>1, <2>1, DeliveryStays
<1>3. CASE current # None /\ Registered(current)
  <2>1. PICK s : s = current  OBVIOUS
  <2>2. s \in Clients /\ Registered(s) /\ queue' = [queue EXCEPT ![s] = Append(@, fmsg)]
    BY <1>3, <2>1 DEF WsType, FwdSend
  <2>3. \A c \in Clients : c # s => queue'[c] = queue[c]  BY <2>2 DEF WsType
  <2>4. queue'[s] = Append(queue[s], fmsg) /\ queue[s] \in Seq(Msgs)  BY <2>2 DEF WsType
  <2>5. ASSUME NEW c \in Clients, c # s PROVE DeliveryTo(c)' /\ Has(c)' = Has(c)
    BY <1>0, <1>1, <2>3, <2>5, DeliveryKept DEF Delivery
  <2>6. InHand /\ fmsg \in Msgs  BY DEF FwdSend, InHand, WsType
  <2>7. \A m \in Has(s) : m < fmsg  BY <2>2, <2>6 DEF Outgoing
  <2>8. Range(queue'[s]) = Range(queue[s]) \cup {fmsg}  BY <2>4, <2>6, AppendFacts
  <2>9. Has(s)' = Has(s) \cup {fmsg}  BY <1>0, <2>8 DEF Has
  <2>10. DeliveryTo(s)  BY <2>2 DEF Delivery
  <2>11. Rising(queue'[s])
    <3>1. Msgs \in SUBSET Int /\ Rising(queue[s]) /\ \A m \in Range(queue[s]) : m < fmsg
      BY <2>7, <2>10 DEF Msgs, DeliveryTo, Path, Has
    <3>2. Rising(Append(queue[s], fmsg))  BY <2>4, <2>6, <3>1, RisingAppend
    <3> QED  BY <2>4, <3>2
  <2>12. Path(received[s], sock[s], wbuf[s], queue'[s])
    <3>1. Path(received[s], sock[s], wbuf[s], queue[s])  BY <2>10 DEF DeliveryTo
    <3>2. /\ Below(Range(received[s]), Range(queue'[s])) /\ Below(Range(sock[s]), Range(queue'[s]))
          /\ Below(Range(wbuf[s]), Range(queue'[s]))
      BY <2>7, <2>8, <3>1 DEF Path, Below, Has
    <3> QED  BY <2>11, <3>1, <3>2 DEF Path
  <2>13. ~Unregistered(s)'
    <3>1. serving = s /\ hpc \notin {"accept", "handshake", "greet"}  BY <2>2 DEF Registered
    <3>2. ~Unregistered(s)  BY <2>2, <3>1, RegisteredFacts
    <3> QED  BY <1>1, <2>2, <3>2 DEF Forward
  <2>14. DeliveryTo(s)'  BY <1>0, <1>1, <2>2, <2>10, <2>12, <2>13 DEF DeliveryTo
  <2>15. Delivery'  BY <2>5, <2>14 DEF Delivery
  <2> QED  BY <2>2, <2>5, <2>9, <2>15
<1> QED  BY <1>2, <1>3

\* The greeting is the first document that is written to a client.
LEMMA DeliveryRegister ==
    ASSUME WsType, Connections, Delivery, Register
    PROVE  /\ Delivery'
           /\ \E s \in Clients : Has(s)' = {Greeting} /\ \A c \in Clients : c # s => Has(c)' = Has(c)
<1> USE DEF engineVars, fwdVars
<1>1. PICK s : s = serving  OBVIOUS
<1>2. s \in Clients /\ hpc = "greet" /\ hpc' = "read" /\ serving' = s
  BY <1>1 DEF Register, WsType
<1>3. /\ sock' = [sock EXCEPT ![s] = Append(@, Greeting)]
      /\ UNCHANGED <<remote, backlog, received, wbuf, queue, serving>>
  BY <1>1 DEF Register
<1>4. \A c \in Clients : Waits(c)' <=> Waits(c)  BY <1>2, <1>3 DEF Waits
<1>5. Forward
  <2>1. \A c \in Clients : Unregistered(c)' => Unregistered(c)  BY <1>2, <1>3, <1>4 DEF Unregistered
  <2> QED  BY <1>4, <2>1 DEF Forward
<1>6. \A c \in Clients : c # s => ~Registered(c)'  BY <1>2 DEF Registered
<1>7. ASSUME NEW c \in Clients, c # s PROVE DeliveryTo(c)' /\ Has(c)' = Has(c)
  <2>1. sock'[c] = sock[c]  BY <1>3, <1>7 DEF WsType
  <2> QED  BY <1>3, <1>5, <1>6, <1>7, <2>1, DeliveryKept DEF Delivery
<1>8. Has(s) = {}  BY <1>1, <1>2 DEF Delivery, DeliveryTo, Unregistered
<1>9. received[s] = <<>> /\ sock[s] = <<>> /\ wbuf[s] = <<>> /\ queue[s] = <<>>
  <2>1. /\ received[s] \in Seq(Posts) /\ sock[s] \in Seq(Posts)
        /\ wbuf[s] \in Seq(Msgs) /\ queue[s] \in Seq(Msgs)
    BY <1>2 DEF WsType
  <2> QED  BY <1>8, <2>1, RangeFacts DEF Has
<1>10. PICK k : k = Append(<<>>, Greeting)  OBVIOUS
<1>11. k \in Seq(Posts) /\ Len(k) = 1 /\ Range(k) = {Greeting} /\ DOMAIN k = 1..1
  <2>0. PICK e : e = <<>>  OBVIOUS
  <2>1. e \in Seq(Posts) /\ Greeting \in Posts /\ Len(e) = 0 /\ Range(e) = {}
    BY <2>0, EmptyFacts DEF Posts
  <2>a. k = Append(e, Greeting)  BY <1>10, <2>0
  <2>b. e \in Seq(Posts) /\ Greeting \in Posts  BY <2>1
  <2>2. Len(k) = Len(e) + 1 /\ Range(k) = Range(e) \cup {Greeting} /\ k \in Seq(Posts)
    <3>1. Append(e, Greeting) \in Seq(Posts) /\ Len(Append(e, Greeting)) = Len(e) + 1
      BY <2>b, AppendProperties
    <3>2. Range(Append(e, Greeting)) = Range(e) \cup {Greeting}  BY <2>b, AppendFacts
    <3> QED  BY <2>a, <3>1, <3>2
  <2>3. DOMAIN k = 1..Len(k)  BY <2>2, LenProperties
  <2> QED  BY <2>1, <2>2, <2>3
<1>12. sock'[s] = k  BY <1>2, <1>3, <1>9, <1>10 DEF WsType
<1>13. Has(s)' = {Greeting}  BY <1>3, <1>9, <1>11, <1>12, EmptyFacts DEF Has
<1>14. Rising(k)  BY <1>11 DEF Rising
<1>15. Path(<<>>, k, <<>>, <<>>)  BY <1>14, EmptyFacts DEF Path, Below
<1>16. ~Unregistered(s)'
  <2>1. ~Waits(s)  BY <1>1, <1>2, RegisteredFacts
  <2> QED  BY <1>2, <1>4, <2>1 DEF Unregistered
<1>17. Len(k) <= SockCap  BY <1>11, WsAssumption
<1>18. DeliveryTo(s)'  BY <1>3, <1>9, <1>11, <1>12, <1>15, <1>16, <1>17 DEF DeliveryTo
<1> QED  BY <1>2, <1>7, <1>13, <1>18 DEF Delivery

\* The client reads on; the first thing it reads is the greeting.
LEMMA DeliveryRead ==
    ASSUME WsType, Connections, Delivery, NEW s \in Clients, ClientReads(s)
    PROVE  Delivery' /\ \A c \in Clients : Has(c)' = Has(c)
<1> USE DEF serverVars, engineVars, fwdVars
<1>1. UNCHANGED <<remote, backlog, serving, hpc, wbuf, queue>>  BY DEF ClientReads
<1>2. Forward /\ \A c \in Clients : Registered(c)' <=> Registered(c)  BY <1>1, PlaceKept
<1>3. PICK r, k, h, t : r = received[s] /\ k = sock[s] /\ h = Head(k) /\ t = Tail(k)  OBVIOUS
<1>4. /\ r \in Seq(Posts) /\ k \in Seq(Posts) /\ k # <<>>
      /\ received' = [received EXCEPT ![s] = Append(r, h)] /\ sock' = [sock EXCEPT ![s] = t]
  BY <1>3 DEF ClientReads, WsType
<1>5. received'[s] = Append(r, h) /\ sock'[s] = t  BY <1>4 DEF WsType
<1>6. ASSUME NEW c \in Clients, c # s PROVE DeliveryTo(c)' /\ Has(c)' = Has(c)
  <2>1. received'[c] = received[c] /\ sock'[c] = sock[c]  BY <1>4, <1>6 DEF WsType
  <2> QED  BY <1>1, <1>2, <2>1, DeliveryKept DEF Delivery
<1>7. /\ h \in Posts /\ t \in Seq(Posts) /\ Range(k) = {h} \cup Range(t) /\ Len(t) = Len(k) - 1
      /\ Len(k) \in Nat
  BY <1>3, <1>4, TailFacts
<1>8. /\ Range(Append(r, h)) = Range(r) \cup {h} /\ Len(r) \in Nat
      /\ Append(r, h)[Len(r) + 1] = h /\ \A i \in 1..Len(r) : Append(r, h)[i] = r[i]
  BY <1>4, <1>7, AppendFacts
<1>9. DeliveryTo(s) /\ Path(r, k, wbuf[s], queue[s]) /\ Len(k) <= SockCap
  BY <1>3 DEF Delivery, DeliveryTo
<1>10. Posts \in SUBSET Int  BY DEF Posts, Msgs, Greeting
<1>11. Rising(t) /\ \A x \in Range(t) : h < x  BY <1>3, <1>4, <1>9, <1>10, RisingTail DEF Path
<1>12. Rising(Append(r, h))
  <2>1. \A x \in Range(r) : x < h  BY <1>7, <1>9 DEF Path, Below
  <2> QED  BY <1>4, <1>7, <1>9, <1>10, <2>1, RisingAppend DEF Path
<1>13. Path(Append(r, h), t, wbuf[s], queue[s])
  <2>1. /\ Below(Range(Append(r, h)), Range(t)) /\ Below(Range(Append(r, h)), Range(wbuf[s]))
        /\ Below(Range(Append(r, h)), Range(queue[s]))
        /\ Below(Range(t), Range(wbuf[s])) /\ Below(Range(t), Range(queue[s]))
    BY <1>7, <1>8, <1>9, <1>11 DEF Path, Below
  <2> QED  BY <1>9, <1>11, <1>12, <2>1 DEF Path
<1>14. Range(Append(r, h)) \cup Range(t) = Range(r) \cup Range(k)  BY <1>7, <1>8
<1>15. Has(s)' = Has(s)  BY <1>1, <1>3, <1>5, <1>14 DEF Has
<1>16. Has(s) # {}  BY <1>3, <1>7 DEF Has
<1>17. ~Unregistered(s)  BY <1>9, <1>16 DEF DeliveryTo
<1>18. Registered(s) /\ remote[s] # "gone"
  <2>1. remote[s] \in {"open", "closing"}  BY DEF ClientReads
  <2>2. serving = s /\ hpc \notin {"accept", "handshake"}  BY <2>1 DEF Connections
  <2> QED  BY <1>17, <2>1, <2>2 DEF Registered, Unregistered, WsType
<1>19. Append(r, h)[1] = Greeting
  <2>1. CASE r # <<>>
    <3>1. r[1] = Greeting  BY <1>3, <1>9, <2>1 DEF DeliveryTo
    <3>2. 1 \in 1..Len(r)  BY <1>4, <2>1, TailFacts
    <3> QED  BY <1>8, <3>1, <3>2
  <2>2. CASE r = <<>>
    <3>1. Greeting \in Range(k)  BY <1>3, <1>9, <1>18, <2>2, EmptyFacts DEF DeliveryTo
    <3>2. ~(h < Greeting)  BY <1>7 DEF Posts, Msgs, Greeting
    <3>3. h = Greeting  BY <1>7, <1>11, <3>1, <3>2
    <3>4. Len(r) + 1 = 1  BY <2>2, EmptyFacts
    <3> QED  BY <1>8, <3>3, <3>4
  <2> QED  BY <2>1, <2>2
<1>20. Len(t) <= SockCap  BY <1>7, <1>9, WsAssumption
<1>21. Greeting \in Range(Append(r, h)) \cup Range(t)
  BY <1>3, <1>9, <1>14, <1>18 DEF DeliveryTo
<1>22. ~Unregistered(s)'  BY <1>2, <1>17 DEF Forward
<1>23. DeliveryTo(s)'
  BY <1>1, <1>5, <1>13, <1>19, <1>20, <1>21, <1>22 DEF DeliveryTo
<1> QED  BY <1>6, <1>15, <1>23 DEF Delivery

\* One case per step. What clients have grows with FwdSend and Register only.
LEMMA DeliveryNext ==
    ASSUME WsType, Connections, Delivery, Outgoing, [Next]_vars
    PROVE  Delivery' /\ (FwdSend \/ Register \/ \A c \in Clients : Has(c)' \subseteq Has(c))
<1> USE DEF engineVars, fwdVars, netVars, serverVars
<1>f. Forward  BY PlacesNext
<1>1. CASE Emit \/ TakeLines \/ FwdTop \/ FwdTimeout \/ FwdRecv \/ FwdRecheck
  <2>1. UNCHANGED <<remote, backlog, serving, hpc, received, sock, wbuf, queue>>
    BY <1>1 DEF Emit, TakeLines, FwdTop, FwdTimeout, FwdRecv, FwdRecheck
  <2>2. \A c \in Clients : Registered(c)' <=> Registered(c)  BY <2>1 DEF Registered
  <2> QED  BY <1>f, <2>1, <2>2, DeliveryStays
<1>2. CASE FwdSend  BY <1>2, DeliverySend
<1>3. CASE Accept \/ Handshake
  <2>1. UNCHANGED <<received, sock, wbuf, queue>>  BY <1>3 DEF Accept, Handshake
  <2>2. hpc' \in {"handshake", "greet"}  BY <1>3 DEF Accept, Handshake
  <2>3. \A c \in Clients : ~Registered(c)'  BY <2>2 DEF Registered
  <2> QED  BY <1>f, <2>1, <2>3, DeliveryStays
<1>4. CASE HandshakeFails \/ ReadClose \/ ConnectionLost
  <2>1. serving \in Clients /\ UNCHANGED <<backlog, received>>
    BY <1>4 DEF HandshakeFails, ReadClose, ConnectionLost, WsType
  <2>2. PICK how : LetGo(how)  BY <1>4 DEF HandshakeFails, ReadClose, ConnectionLost
  <2> QED  BY <2>1, <2>2, DeliveryLetGo
<1>5. CASE Register  BY <1>5, DeliveryRegister
<1>6. CASE ReadText \/ PassLine \/ FrameDone \/ ReadWouldBlock
  <2>1. /\ UNCHANGED <<remote, backlog, serving, received, sock, wbuf, queue>>
        /\ hpc' = hpc \/ {hpc, hpc'} \subseteq {"read", "lines", "drain", "flush"}
    BY <1>6 DEF ReadText, PassLine, FrameDone, ReadWouldBlock
  <2>2. \A c \in Clients : Registered(c)' <=> Registered(c)  BY <2>1, PlaceKept
  <2> QED  BY <1>f, <2>1, <2>2, DeliveryStays
<1>7. CASE DrainOne \/ Flush
  <2>1. PICK k \in Seq(Posts), w \in Seq(Msgs), q \in Seq(Msgs) : Written(k, w, q)
    BY <1>7, WriteStep
  <2>2. PICK s : s = serving  OBVIOUS
  <2>3. /\ s \in Clients /\ UNCHANGED <<remote, backlog, serving, received>>
        /\ {hpc, hpc'} \subseteq {"read", "drain", "flush"}
    BY <1>7, <2>2, WriteStep
  <2>4. {hpc, hpc'} \subseteq {"read", "lines", "drain", "flush"}  BY <2>3
  <2>5. \A c \in Clients : Registered(c)' <=> Registered(c)  BY <2>3, <2>4, PlaceKept
  <2>6. ASSUME NEW c \in Clients, c # s PROVE DeliveryTo(c)' /\ Has(c)' = Has(c)
    <3>1. queue'[c] = queue[c] /\ wbuf'[c] = wbuf[c] /\ sock'[c] = sock[c]
      BY <2>1, <2>2, <2>6 DEF Written, WsType
    <3> QED  BY <1>f, <2>3, <2>5, <3>1, DeliveryKept DEF Delivery
  <2>7. queue'[s] = q /\ wbuf'[s] = w /\ sock'[s] = k /\ received'[s] = received[s]
    BY <2>1, <2>2, <2>3 DEF Written, WsType
  <2>8. /\ Len(k) <= SockCap /\ Path(received[s], k, w, q) /\ Range(sock[s]) \subseteq Range(k)
        /\ Range(k) \cup Range(w) \cup Range(q) = Range(sock[s]) \cup Range(wbuf[s]) \cup Range(queue[s])
    BY <2>1, <2>2 DEF Written
  <2>9. Has(s)' = Has(s)  BY <2>7, <2>8 DEF Has
  <2>10. DeliveryTo(s) /\ (Unregistered(s)' => Unregistered(s))
    BY <1>f, <2>3 DEF Delivery, Forward
  <2>11. DeliveryTo(s)'  BY <2>3, <2>5, <2>7, <2>8, <2>9, <2>10 DEF DeliveryTo
  <2> QED  BY <2>6, <2>9, <2>11 DEF Delivery
<1>8. ASSUME NEW s \in Clients, Client(s)
      PROVE  Delivery' /\ \A c \in Clients : Has(c)' \subseteq Has(c)
  <2>1. UNCHANGED <<serving, hpc>> /\ \A c \in Clients : Registered(c)' <=> Registered(c)
    BY <1>8
    DEF Client, Connect, ClientReads, ClientCloses, ClientVanishes, ClientSends, Registered
  <2>2. CASE ClientReads(s)  BY <2>2, DeliveryRead
  <2>3. CASE Connect(s) \/ ClientCloses(s) \/ \E shape \in Shapes : ClientSends(s, shape)
    <3>1. /\ UNCHANGED <<received, sock, wbuf, queue>>
          /\ \A c \in Clients : remote'[c] # "gone" => remote[c] # "gone"
      BY <2>3 DEF Connect, ClientCloses, ClientSends, WsType
    <3> QED  BY <1>f, <2>1, <3>1, DeliveryStays
  <2>4. CASE ClientVanishes(s)
    <3>1. ASSUME NEW c \in Clients, c # s PROVE DeliveryTo(c)' /\ Has(c)' = Has(c)
      <4>1. /\ received'[c] = received[c] /\ sock'[c] = sock[c] /\ wbuf'[c] = wbuf[c]
            /\ queue'[c] = queue[c] /\ remote'[c] = remote[c]
        BY <2>4, <3>1 DEF ClientVanishes, WsType
      <4> QED  BY <1>f, <2>1, <4>1, DeliveryKept DEF Delivery
    <3>2. /\ received'[s] = received[s] /\ sock'[s] = <<>> /\ wbuf'[s] = wbuf[s]
          /\ queue'[s] = queue[s] /\ remote'[s] = "gone"
      BY <2>4 DEF ClientVanishes, WsType
    <3>3. Has(s)' \subseteq Has(s)  BY <3>2, EmptyFacts DEF Has
    <3>4. DeliveryTo(s) /\ (Unregistered(s)' => Unregistered(s))  BY <1>f DEF Delivery, Forward
    <3>5. Path(received[s], <<>>, wbuf[s], queue[s])
      BY <3>4, EmptyFacts DEF DeliveryTo, Path, Below
    <3>6. Len(<<>>) <= SockCap  BY WsAssumption, EmptyFacts
    <3>7. DeliveryTo(s)'  BY <3>2, <3>3, <3>4, <3>5, <3>6 DEF DeliveryTo
    <3> QED  BY <3>1, <3>3, <3>7 DEF Delivery
  <2> QED  BY <1>8, <2>2, <2>3, <2>4 DEF Client
<1>9. CASE UNCHANGED vars
  <2>1. UNCHANGED <<remote, backlog, serving, hpc, received, sock, wbuf, queue>>  BY <1>9 DEF vars
  <2>2. \A c \in Clients : Registered(c)' <=> Registered(c)  BY <2>1 DEF Registered
  <2> QED  BY <1>f, <2>1, <2>2, DeliveryStays
<1> QED
  BY <1>1, <1>2, <1>3, <1>4, <1>5, <1>6, <1>7, <1>8, <1>9 DEF Next, Forwarder, Handler

\* What clients have stays older than what is still to come, and is of one
\* client each.
LEMMA OutgoingKept ==
    ASSUME Outgoing, UNCHANGED <<outq, emitted, fmsg>>, InHand' => InHand,
           \A c \in Clients : Has(c)' \subseteq Has(c)
    PROVE  Outgoing'
<1>1. \A c \in Clients : \A m \in Has(c)' : m \in Has(c)  OBVIOUS
<1>2. Rising(outq') /\ \A m \in Range(outq') : m <= emitted'  BY DEF Outgoing
<1>3. InHand' => fmsg' <= emitted' /\ \A m \in Range(outq') : fmsg' < m  BY DEF Outgoing
<1>4. \A c \in Clients : \A m \in Has(c)' :
        /\ m <= emitted' /\ (InHand' => m < fmsg')
        /\ \A n \in Range(outq') : m < n
  BY <1>1 DEF Outgoing
<1>5. \A c, d \in Clients : c # d => Has(c)' \cap Has(d)' \subseteq {Greeting}
  BY <1>1 DEF Outgoing
<1> QED  BY <1>2, <1>3, <1>4, <1>5 DEF Outgoing

\* The order of what is on its way out, and to whom, is kept by every step.
LEMMA OutgoingNext == WsType /\ Connections /\ Delivery /\ Outgoing /\ [Next]_vars => Outgoing'
<1> SUFFICES ASSUME WsType, Connections, Delivery, Outgoing, [Next]_vars PROVE Outgoing'
  OBVIOUS
<1> USE DEF engineVars, fwdVars, netVars, serverVars
<1>i. outq \in Seq(Msgs) /\ Msgs \in SUBSET Int /\ emitted \in Int /\ Range(outq) \subseteq Int
  <2>1. outq \in Seq(Msgs) /\ Msgs \in SUBSET Int /\ emitted \in Int  BY DEF WsType, Msgs
  <2> QED  BY <2>1, RangeFacts
<1>h. \A c \in Clients : Has(c) \subseteq Int /\ Has(c) \subseteq Posts
  <2> SUFFICES ASSUME NEW c \in Clients PROVE Has(c) \subseteq Posts
    BY DEF Posts, Msgs, Greeting
  <2>1. /\ received[c] \in Seq(Posts) /\ sock[c] \in Seq(Posts)
        /\ wbuf[c] \in Seq(Msgs) /\ queue[c] \in Seq(Msgs)
    BY DEF WsType
  <2> QED  BY <2>1, RangeFacts DEF Has, Posts
<1>1. CASE Emit
  <2>1. PICK e : e = emitted + 1  OBVIOUS
  <2>2. e \in Msgs /\ outq' = Append(outq, e) /\ emitted' = e /\ emitted < e
    BY <1>1, <2>1, WsAssumption DEF Emit, WsType, Msgs
  <2>3. Range(outq') = Range(outq) \cup {e}  BY <1>i, <2>2, AppendFacts
  <2>4. \A m \in Range(outq) : m < e  BY <1>i, <2>2 DEF Outgoing
  <2>5. Rising(outq')
    <3>1. Rising(Append(outq, e))  BY <1>i, <2>2, <2>4, RisingAppend DEF Outgoing
    <3> QED  BY <2>2, <3>1
  <2>6. UNCHANGED <<fpc, fmsg, received, sock, wbuf, queue>>  BY <1>1 DEF Emit
  <2>7. \A c \in Clients : Has(c)' = Has(c)  BY <2>6 DEF Has
  <2>8. (InHand' <=> InHand) /\ (InHand => fmsg \in Int)  BY <2>6 DEF InHand, WsType, Msgs
  <2>9. \A c \in Clients : \A m \in Has(c) : m < e  BY <1>i, <1>h, <2>2 DEF Outgoing
  <2>10. InHand => fmsg < e  BY <1>i, <2>2, <2>8 DEF Outgoing
  <2>11. e <= e /\ \A m \in Int : m < e => m <= e  BY <1>i, <2>2
  <2>12. \A m \in Range(outq') : m <= emitted'  BY <1>i, <2>2, <2>3, <2>4, <2>11
  <2>13. InHand' => fmsg' <= emitted' /\ \A m \in Range(outq') : fmsg' < m
    BY <2>2, <2>3, <2>6, <2>8, <2>10, <2>11 DEF Outgoing
  <2>14. \A c \in Clients : \A m \in Has(c)' :
            /\ m <= emitted' /\ (InHand' => m < fmsg')
            /\ \A n \in Range(outq') : m < n
    BY <1>h, <2>2, <2>3, <2>6, <2>7, <2>8, <2>9, <2>11 DEF Outgoing
  <2>15. \A c, d \in Clients : c # d => Has(c)' \cap Has(d)' \subseteq {Greeting}
    BY <2>7 DEF Outgoing
  <2> QED  BY <2>5, <2>12, <2>13, <2>14, <2>15 DEF Outgoing
<1>2. CASE FwdRecv
  <2>1. PICK h, t : h = Head(outq) /\ t = Tail(outq)  OBVIOUS
  <2>2. outq # <<>> /\ fmsg' = h /\ outq' = t  BY <1>2, <2>1 DEF FwdRecv
  <2>3. h \in Msgs /\ Range(outq) = {h} \cup Range(t)  BY <1>i, <2>1, <2>2, TailFacts
  <2>4. Rising(t) /\ \A m \in Range(t) : h < m  BY <1>i, <2>1, <2>2, RisingTail DEF Outgoing
  <2>5. UNCHANGED <<emitted, received, sock, wbuf, queue>>  BY <1>2 DEF FwdRecv
  <2>6. \A c \in Clients : Has(c)' = Has(c)  BY <2>5 DEF Has
  <2>7. Rising(outq') /\ \A m \in Range(outq') : m <= emitted'
    BY <2>2, <2>3, <2>4, <2>5 DEF Outgoing
  <2>8. fmsg' <= emitted' /\ \A m \in Range(outq') : fmsg' < m
    BY <2>2, <2>3, <2>4, <2>5 DEF Outgoing
  <2>9. \A c \in Clients : \A m \in Has(c)' :
            m <= emitted' /\ m < fmsg' /\ \A n \in Range(outq') : m < n
    BY <2>2, <2>3, <2>5, <2>6 DEF Outgoing
  <2>10. \A c, d \in Clients : c # d => Has(c)' \cap Has(d)' \subseteq {Greeting}
    BY <2>6 DEF Outgoing
  <2> QED  BY <2>7, <2>8, <2>9, <2>10 DEF Outgoing
<1>3. CASE FwdSend
  <2>1. /\ UNCHANGED <<outq, emitted>> /\ ~InHand' /\ InHand /\ fmsg \in Int
    BY <1>3 DEF FwdSend, InHand, WsType, Msgs
  <2>2. Rising(outq') /\ \A m \in Range(outq') : m <= emitted'  BY <2>1 DEF Outgoing
  <2>3. \A c \in Clients : \A m \in Has(c)' : m \in Has(c) \/ m = fmsg  BY <1>3, DeliverySend
  <2>4. \A c \in Clients : \A m \in Has(c)' : m <= emitted' /\ \A n \in Range(outq') : m < n
    BY <2>1, <2>3 DEF Outgoing
  <2>5. \A c, d \in Clients : c # d => Has(c)' \cap Has(d)' \subseteq {Greeting}
    <3>1. \A c \in Clients : fmsg \notin Has(c)
      <4>1. ~(fmsg < fmsg)  BY <2>1
      <4> QED  BY <2>1, <4>1 DEF Outgoing
    <3>2. CASE \A c \in Clients : Has(c)' = Has(c)  BY <3>2 DEF Outgoing
    <3>3. ASSUME NEW s \in Clients, Has(s)' = Has(s) \cup {fmsg},
                 \A c \in Clients : c # s => Has(c)' = Has(c)
          PROVE  \A c, d \in Clients : c # d => Has(c)' \cap Has(d)' \subseteq {Greeting}
      BY <3>1, <3>3 DEF Outgoing
    <3> QED  BY <1>3, <3>2, <3>3, DeliverySend
  <2> QED  BY <2>1, <2>2, <2>4, <2>5 DEF Outgoing
<1>4. CASE Register
  <2>1. UNCHANGED <<outq, emitted, fpc, fmsg>>  BY <1>4 DEF Register
  <2>2. PICK s \in Clients : Has(s)' = {Greeting} /\ \A c \in Clients : c # s => Has(c)' = Has(c)
    BY <1>4, DeliveryRegister
  <2>3. (InHand' <=> InHand) /\ (InHand => Greeting < fmsg)
    BY <2>1 DEF InHand, WsType, Msgs, Greeting
  <2>4. Greeting <= emitted /\ \A m \in Range(outq) : Greeting < m
    <3>1. Range(outq) \subseteq Msgs  BY <1>i, RangeFacts
    <3> QED  BY <3>1 DEF WsType, Msgs, Greeting
  <2>5. Rising(outq') /\ \A m \in Range(outq') : m <= emitted'  BY <2>1 DEF Outgoing
  <2>6. InHand' => fmsg' <= emitted' /\ \A m \in Range(outq') : fmsg' < m
    BY <2>1, <2>3 DEF Outgoing
  <2>7. \A c \in Clients : \A m \in Has(c)' : m = Greeting \/ m \in Has(c)  BY <2>2
  <2>8. \A c \in Clients : \A m \in Has(c)' :
            /\ m <= emitted' /\ (InHand' => m < fmsg')
            /\ \A n \in Range(outq') : m < n
    BY <2>1, <2>3, <2>4, <2>7 DEF Outgoing
  <2>9. \A c, d \in Clients : c # d => Has(c)' \cap Has(d)' \subseteq {Greeting}
    BY <2>2, <2>7 DEF Outgoing
  <2> QED  BY <2>5, <2>6, <2>8, <2>9 DEF Outgoing
<1>5. CASE ~(FwdSend \/ Register \/ Emit \/ FwdRecv)
  <2>1. \A c \in Clients : Has(c)' \subseteq Has(c)  BY <1>5, DeliveryNext
  <2>2. UNCHANGED <<outq, emitted>> /\ (UNCHANGED <<fpc, fmsg>> \/ FwdTop \/ FwdTimeout \/ FwdRecheck)
    BY <1>5, WriteStep
    DEF Next, Forwarder, Handler, Client, vars, TakeLines, FwdTop, FwdTimeout, FwdRecheck, Accept,
        Handshake, HandshakeFails, ReadText, PassLine, FrameDone, ReadClose, ReadWouldBlock,
        ConnectionLost, Connect, ClientReads, ClientCloses, ClientVanishes, ClientSends
  <2>3. InHand' => InHand  BY <2>2 DEF FwdTop, FwdTimeout, FwdRecheck, InHand
  <2>4. UNCHANGED fmsg  BY <2>2 DEF FwdTop, FwdTimeout, FwdRecheck
  <2> QED  BY <2>1, <2>2, <2>3, <2>4, OutgoingKept
<1> QED  BY <1>1, <1>2, <1>3, <1>4, <1>5

-----------------------------------------------------------------------------
(* From the clients to the engine *)

\* The line h, if it has text, is the first one that the client has not had passed on.
IsNext(a, h, c, top) ==
    HasText(h) =>
        /\ h[1] = c /\ h[2] \in 1..top
        /\ \A i \in DOMAIN a : a[i][1] = c => a[i][2] < h[2]
        /\ \A n \in 1..(h[2] - 1) : \E i \in DOMAIN a : a[i] = <<c, n>>

\* A line that is passed on is the first of those that follow.
LEMMA FollowPass ==
    ASSUME NEW a \in Seq(Lines), NEW t \in Seq(Lines), NEW box \in Seq(Frames), NEW c \in Clients,
           NEW top \in Nat, t # <<>>, LinesFollow(a, t, box, c, top),
           NEW b, b = (IF HasText(Head(t)) THEN Append(a, Head(t)) ELSE a)
    PROVE  LinesFollow(b, Tail(t), box, c, top) /\ IsNext(a, Head(t), c, top)
<1>0. PICK h, u : h = Head(t) /\ u = Tail(t)  OBVIOUS
<1>1. /\ h \in Lines /\ h = t[1] /\ Len(t) \in Nat \ {0} /\ DOMAIN t = 1..Len(t)
      /\ DOMAIN u = 1..(Len(t) - 1)
      /\ \A i \in 1..(Len(t) - 1) : u[i] = t[i + 1] /\ i + 1 \in 1..Len(t)
      /\ \A i \in 1..Len(t) : i = 1 \/ (i - 1 \in 1..(Len(t) - 1) /\ u[i - 1] = t[i])
  BY <1>0, TailFacts
<1>2. Len(box) \in Nat /\ 0 \in 0..Len(box) /\ Owned(a, t, box, c, top) /\ Ordered(t, box) /\ Covered(a, t, box, c, top)
  BY LenProperties DEF LinesFollow
<1>3. /\ \A f \in 0..Len(box) : f # 0 => Frame(u, box, f) = Frame(t, box, f)
      /\ Frame(u, box, 0) = u /\ Frame(t, box, 0) = t
  BY DEF Frame
<1>4. /\ h[1] = c /\ h[2] <= top
      /\ HasText(h) => \A i \in DOMAIN a : a[i][1] = c => a[i][2] < h[2]
  <2>1. 1 \in DOMAIN Frame(t, box, 0) /\ Frame(t, box, 0)[1] = h  BY <1>1, <1>3
  <2> QED  BY <1>2, <2>1 DEF Owned
\* The lines after the first, wherever they are.
<1>5. ASSUME NEW f \in 0..Len(box), NEW k \in DOMAIN Frame(u, box, f)
      PROVE  \E m \in DOMAIN Frame(t, box, f) :
                /\ Frame(t, box, f)[m] = Frame(u, box, f)[k]
                /\ m = (IF f = 0 THEN k + 1 ELSE k)
                /\ 0 < f \/ (0 = f /\ 1 < m)
  <2>1. CASE f = 0
    <3>1. k \in 1..(Len(t) - 1)  BY <1>1, <1>3, <1>5, <2>1
    <3>2. k + 1 \in DOMAIN t /\ t[k + 1] = u[k] /\ 1 < k + 1  BY <1>1, <3>1
    <3> QED  BY <1>3, <2>1, <3>2
  <2>2. CASE f # 0
    <3>1. 0 < f  BY <1>2, <2>2
    <3> QED  BY <1>3, <2>2, <3>1
  <2> QED  BY <2>1, <2>2
<1>6. ASSUME NEW f \in 0..Len(box), NEW m \in DOMAIN Frame(t, box, f)
      PROVE  \/ f = 0 /\ m = 1 /\ Frame(t, box, f)[m] = h
             \/ \E k \in DOMAIN Frame(u, box, f) : Frame(u, box, f)[k] = Frame(t, box, f)[m]
  <2>1. CASE f = 0
    <3>1. m \in 1..Len(t)  BY <1>1, <1>3, <2>1
    <3>2. m = 1 \/ (m - 1 \in DOMAIN u /\ u[m - 1] = t[m])  BY <1>1, <3>1
    <3> QED  BY <1>1, <1>3, <2>1, <3>2
  <2>2. CASE f # 0  BY <1>3, <2>2
  <2> QED  BY <2>1, <2>2
<1>7. ASSUME NEW f \in 0..Len(box), NEW k \in DOMAIN Frame(u, box, f), HasText(h), HasText(Frame(u, box, f)[k])
      PROVE  h[2] < Frame(u, box, f)[k][2]
  <2>1. PICK m \in DOMAIN Frame(t, box, f) : Frame(t, box, f)[m] = Frame(u, box, f)[k] /\ (0 < f \/ (0 = f /\ 1 < m))
    BY <1>5
  <2>2. 1 \in DOMAIN Frame(t, box, 0) /\ Frame(t, box, 0)[1] = h  BY <1>1, <1>3
  <2> QED  BY <1>2, <1>7, <2>1, <2>2 DEF Ordered
<1>8. HasText(h) => b = Append(a, h) /\ b \in Seq(Lines)
  BY <1>0, <1>1, AppendFacts
<1>9. /\ ~HasText(h) => b = a
      /\ HasText(h) => /\ Len(a) \in Nat /\ DOMAIN a = 1..Len(a) /\ DOMAIN b = 1..(Len(a) + 1)
                       /\ b[Len(a) + 1] = h /\ \A i \in 1..Len(a) : b[i] = a[i] /\ i \in 1..(Len(a) + 1)
                       /\ \A i \in 1..(Len(a) + 1) : i = Len(a) + 1 \/ i \in 1..Len(a)
  BY <1>0, <1>1, AppendFacts
<1>10. /\ \A i \in DOMAIN a : i \in DOMAIN b /\ b[i] = a[i]
       /\ \A i \in DOMAIN b : (i \in DOMAIN a /\ b[i] = a[i]) \/ (HasText(h) /\ b[i] = h)
       /\ HasText(h) => \E i \in DOMAIN b : b[i] = h
  <2>1. CASE HasText(h)
    <3>1. Len(a) + 1 \in 1..(Len(a) + 1)  BY <1>9, <2>1
    <3> QED  BY <1>9, <2>1, <3>1
  <2>2. CASE ~HasText(h)  BY <1>9, <2>2
  <2> QED  BY <2>1, <2>2
<1>11. Owned(b, u, box, c, top)
  <2> SUFFICES ASSUME NEW f \in 0..Len(box), NEW k \in DOMAIN Frame(u, box, f),
                      NEW line, line = Frame(u, box, f)[k]
               PROVE  /\ line[1] = c /\ line[2] <= top
                      /\ HasText(line) => \A i \in DOMAIN b : b[i][1] = c => b[i][2] < line[2]
    BY DEF Owned
  <2>1. PICK m \in DOMAIN Frame(t, box, f) : Frame(t, box, f)[m] = line  BY <1>5
  <2>2. /\ line[1] = c /\ line[2] <= top
        /\ HasText(line) => \A i \in DOMAIN a : a[i][1] = c => a[i][2] < line[2]
    BY <1>2, <2>1 DEF Owned
  <2>3. ASSUME HasText(line), NEW i \in DOMAIN b, b[i][1] = c PROVE b[i][2] < line[2]
    <3>1. CASE i \in DOMAIN a /\ b[i] = a[i]  BY <2>2, <2>3, <3>1
    <3>2. CASE HasText(h) /\ b[i] = h  BY <1>7, <2>3, <3>2
    <3> QED  BY <1>10, <3>1, <3>2
  <2> QED  BY <2>2, <2>3
<1>12. Ordered(u, box)
  <2> SUFFICES ASSUME NEW f \in 0..Len(box), NEW g \in 0..Len(box),
                      NEW k \in DOMAIN Frame(u, box, f), NEW l \in DOMAIN Frame(u, box, g),
                      f < g \/ (f = g /\ k < l),
                      HasText(Frame(u, box, f)[k]), HasText(Frame(u, box, g)[l])
               PROVE  Frame(u, box, f)[k][2] < Frame(u, box, g)[l][2]
    BY DEF Ordered
  <2>1. PICK m \in DOMAIN Frame(t, box, f) :
            Frame(t, box, f)[m] = Frame(u, box, f)[k] /\ m = (IF f = 0 THEN k + 1 ELSE k)
    BY <1>5
  <2>2. PICK n \in DOMAIN Frame(t, box, g) :
            Frame(t, box, g)[n] = Frame(u, box, g)[l] /\ n = (IF g = 0 THEN l + 1 ELSE l)
    BY <1>5
  <2>3. f < g \/ (f = g /\ m < n)
    <3>1. CASE f < g  BY <3>1
    <3>2. CASE f = g /\ k < l /\ f = 0
      <4>1. k \in Int /\ l \in Int  BY <1>1, <1>3, <3>2
      <4> QED  BY <2>1, <2>2, <3>2, <4>1
    <3>3. CASE f = g /\ k < l /\ f # 0  BY <2>1, <2>2, <3>3
    <3> QED  BY <3>1, <3>2, <3>3
  <2> QED  BY <1>2, <2>1, <2>2, <2>3 DEF Ordered
<1>13. Covered(b, u, box, c, top)
  <2> SUFFICES ASSUME NEW n \in 1..top,
                      ~\E f \in 0..Len(box) : \E k \in DOMAIN Frame(u, box, f) : Frame(u, box, f)[k] = <<c, n>>
               PROVE  \E i \in DOMAIN b : b[i] = <<c, n>>
    BY DEF Covered
  <2>1. CASE \E i \in DOMAIN a : a[i] = <<c, n>>  BY <1>10, <2>1
  <2>2. CASE \E f \in 0..Len(box) : \E m \in DOMAIN Frame(t, box, f) : Frame(t, box, f)[m] = <<c, n>>
    <3>0. PICK f \in 0..Len(box) : \E m \in DOMAIN Frame(t, box, f) : Frame(t, box, f)[m] = <<c, n>>
      BY <2>2
    <3>1. PICK m \in DOMAIN Frame(t, box, f) : Frame(t, box, f)[m] = <<c, n>>  BY <3>0
    <3>2. h = <<c, n>>  BY <1>6, <3>1
    <3>3. HasText(h)  BY <3>2 DEF HasText
    <3> QED  BY <1>10, <3>2, <3>3
  <2> QED  BY <1>2, <2>1, <2>2 DEF Covered
<1>14. ASSUME HasText(h) PROVE h[2] \in 1..top
  <2>1. h[2] \in Nat /\ h[2] # 0  BY <1>1, <1>14 DEF HasText, Lines
  <2> QED  BY <1>4, <2>1
<1>15. ASSUME HasText(h), NEW n \in 1..(h[2] - 1)
       PROVE  \E i \in DOMAIN a : a[i] = <<c, n>>
  <2>1. h[2] \in 1..top  BY <1>14, <1>15
  <2>2. n \in 1..top /\ n < h[2] /\ n # 0  BY <2>1
  <2>3. CASE \E f \in 0..Len(box) : \E m \in DOMAIN Frame(t, box, f) : Frame(t, box, f)[m] = <<c, n>>
    <3>0. PICK f \in 0..Len(box) : \E m \in DOMAIN Frame(t, box, f) : Frame(t, box, f)[m] = <<c, n>>
      BY <2>3
    <3>1. PICK m \in DOMAIN Frame(t, box, f) : Frame(t, box, f)[m] = <<c, n>>  BY <3>0
    <3>2. h # <<c, n>>  BY <2>1, <2>2
    <3>3. PICK k \in DOMAIN Frame(u, box, f) : Frame(u, box, f)[k] = <<c, n>>  BY <1>6, <3>1, <3>2
    <3>4. HasText(Frame(u, box, f)[k]) /\ Frame(u, box, f)[k][2] = n  BY <2>2, <3>3 DEF HasText
    <3>5. h[2] < n  BY <1>7, <1>15, <3>4
    <3> QED  BY <2>1, <2>2, <3>5
  <2> QED  BY <1>2, <2>2, <2>3 DEF Covered
<1>16. LinesFollow(b, u, box, c, top)  BY <1>11, <1>12, <1>13 DEF LinesFollow
<1>17. IsNext(a, h, c, top)  BY <1>4, <1>14, <1>15 DEF IsNext
<1> QED  BY <1>0, <1>16, <1>17

\* The next frame is taken when the one in hand is used up.
LEMMA FollowRead ==
    ASSUME NEW a, NEW t, t = <<>>, NEW box \in Seq(Frames), box # <<>>, NEW c, NEW top,
           LinesFollow(a, t, box, c, top)
    PROVE  LinesFollow(a, Head(box).lines, Tail(box), c, top)
<1>0. PICK u, rest : u = Head(box).lines /\ rest = Tail(box)  OBVIOUS
<1>1. PICK N \in Nat \ {0} : /\ N = Len(box) /\ Head(box) = box[1] /\ Len(rest) = N - 1
                             /\ \A i \in 1..(N - 1) : rest[i] = box[i + 1]
  BY <1>0, TailFacts
<1>2. \A f \in 0..(N - 1) : f + 1 \in 0..N /\ Frame(u, rest, f) = Frame(t, box, f + 1)
  <2> SUFFICES ASSUME NEW f \in 0..(N - 1) PROVE Frame(u, rest, f) = Frame(t, box, f + 1)
    BY <1>1
  <2>1. f + 1 # 0  OBVIOUS
  <2>2. CASE f = 0  BY <1>0, <1>1, <2>2 DEF Frame
  <2>3. CASE f # 0
    <3>1. f \in 1..(N - 1)  BY <2>3
    <3> QED  BY <1>1, <2>1, <2>3, <3>1 DEF Frame
  <2> QED  BY <2>2, <2>3
<1>3. \A g \in 0..N : \A k \in DOMAIN Frame(t, box, g) :
        /\ g - 1 \in 0..(N - 1) /\ k \in DOMAIN Frame(u, rest, g - 1)
        /\ Frame(u, rest, g - 1)[k] = Frame(t, box, g)[k]
  <2> SUFFICES ASSUME NEW g \in 0..N, NEW k \in DOMAIN Frame(t, box, g)
               PROVE  g - 1 \in 0..(N - 1) /\ Frame(u, rest, g - 1) = Frame(t, box, g)
    OBVIOUS
  <2>1. g # 0  BY EmptyFacts DEF Frame
  <2>2. g - 1 \in 0..(N - 1) /\ (g - 1) + 1 = g  BY <2>1
  <2> QED  BY <1>2, <2>2
<1>4. Owned(a, t, box, c, top) /\ Ordered(t, box) /\ Covered(a, t, box, c, top)  BY DEF LinesFollow
<1>5. Owned(a, u, rest, c, top)
  <2> SUFFICES ASSUME NEW f \in 0..(N - 1), NEW k \in DOMAIN Frame(u, rest, f),
                      NEW line, line = Frame(u, rest, f)[k]
               PROVE  /\ line[1] = c /\ line[2] <= top
                      /\ HasText(line) => \A i \in DOMAIN a : a[i][1] = c => a[i][2] < line[2]
    BY <1>1 DEF Owned
  <2>1. f + 1 \in 0..Len(box) /\ k \in DOMAIN Frame(t, box, f + 1) /\ Frame(t, box, f + 1)[k] = line
    BY <1>1, <1>2
  <2> QED  BY <1>4, <2>1 DEF Owned
<1>6. Ordered(u, rest)
  <2> SUFFICES ASSUME NEW f \in 0..(N - 1), NEW g \in 0..(N - 1),
                      NEW k \in DOMAIN Frame(u, rest, f), NEW l \in DOMAIN Frame(u, rest, g),
                      f < g \/ (f = g /\ k < l),
                      HasText(Frame(u, rest, f)[k]), HasText(Frame(u, rest, g)[l])
               PROVE  Frame(u, rest, f)[k][2] < Frame(u, rest, g)[l][2]
    BY <1>1 DEF Ordered
  <2>1. /\ f + 1 \in 0..Len(box) /\ Frame(t, box, f + 1) = Frame(u, rest, f)
        /\ g + 1 \in 0..Len(box) /\ Frame(t, box, g + 1) = Frame(u, rest, g)
    BY <1>1, <1>2
  <2>2. f + 1 < g + 1 \/ (f + 1 = g + 1 /\ k < l)  OBVIOUS
  <2> QED  BY <1>4, <2>1, <2>2 DEF Ordered
<1>7. Covered(a, u, rest, c, top)
  <2> SUFFICES ASSUME NEW n \in 1..top, ~\E i \in DOMAIN a : a[i] = <<c, n>>
               PROVE  \E f \in 0..(N - 1) : \E k \in DOMAIN Frame(u, rest, f) : Frame(u, rest, f)[k] = <<c, n>>
    BY <1>1 DEF Covered
  <2>1. PICK g \in 0..N : \E k \in DOMAIN Frame(t, box, g) : Frame(t, box, g)[k] = <<c, n>>
    BY <1>1, <1>4 DEF Covered
  <2>2. PICK k \in DOMAIN Frame(t, box, g) : Frame(t, box, g)[k] = <<c, n>>  BY <2>1
  <2> QED  BY <1>3, <2>2
<1> QED  BY <1>0, <1>5, <1>6, <1>7 DEF LinesFollow

\* A frame is added whose lines go on from what the client has said.
LEMMA FollowAppend ==
    ASSUME NEW a \in Seq(Lines), NEW t \in Seq(Lines), NEW box \in Seq(Frames), NEW c \in Clients,
           NEW top \in Nat, NEW up \in Nat, top <= up, LinesFollow(a, t, box, c, top),
           \A i \in DOMAIN a : a[i][1] = c => a[i][2] <= top,
           NEW frame \in Frames,
           \A k \in DOMAIN frame.lines :
                LET line == frame.lines[k]
                IN  line[1] = c /\ line[2] <= up /\ (HasText(line) => top < line[2]),
           \A k, l \in DOMAIN frame.lines :
                k < l /\ HasText(frame.lines[k]) /\ HasText(frame.lines[l])
                    => frame.lines[k][2] < frame.lines[l][2],
           \A n \in (top + 1)..up : \E k \in DOMAIN frame.lines : frame.lines[k] = <<c, n>>
    PROVE  LinesFollow(a, t, Append(box, frame), c, up)
<1>0. PICK b, L : b = Append(box, frame) /\ L = frame.lines  OBVIOUS
<1>1. PICK N \in Nat : /\ N = Len(box) /\ Len(b) = N + 1 /\ b[N + 1] = frame
                       /\ \A f \in 1..N : b[f] = box[f]
  BY <1>0, AppendFacts
<1>2. /\ \A f \in 0..N : f \in 0..(N + 1) /\ Frame(t, b, f) = Frame(t, box, f)
      /\ N + 1 \in 0..(N + 1) /\ Frame(t, b, N + 1) = L
      /\ \A f \in 0..(N + 1) : f \in 0..N \/ f = N + 1
  <2>1. ASSUME NEW f \in 0..N PROVE f \in 0..(N + 1) /\ Frame(t, b, f) = Frame(t, box, f)
    <3>1. CASE f = 0  BY <3>1 DEF Frame
    <3>2. CASE f # 0
      <4>1. f \in 1..N  BY <3>2
      <4> QED  BY <1>1, <3>2, <4>1 DEF Frame
    <3> QED  BY <3>1, <3>2
  <2>2. N + 1 \in 0..(N + 1) /\ N + 1 # 0  OBVIOUS
  <2> QED  BY <1>0, <1>1, <2>1, <2>2 DEF Frame
<1>3. /\ \A k \in DOMAIN L : L[k][1] = c /\ L[k][2] <= up /\ (HasText(L[k]) => top < L[k][2])
      /\ \A k, l \in DOMAIN L : k < l /\ HasText(L[k]) /\ HasText(L[l]) => L[k][2] < L[l][2]
      /\ \A n \in (top + 1)..up : \E k \in DOMAIN L : L[k] = <<c, n>>
  BY <1>0
<1>4. Owned(a, t, box, c, top) /\ Ordered(t, box) /\ Covered(a, t, box, c, top)  BY DEF LinesFollow
<1>5. L \in Seq(Lines) /\ \A k \in DOMAIN L : L[k][2] \in Nat
  <2>1. L \in Seq(Lines)  BY <1>0 DEF Frames
  <2>2. \A k \in DOMAIN L : L[k] \in Lines  BY <2>1, LenProperties, ElementOfSeq
  <2> QED  BY <2>1, <2>2 DEF Lines
<1>6. \A i \in DOMAIN a : a[i][2] \in Nat
  <2>1. \A i \in DOMAIN a : a[i] \in Lines  BY LenProperties, ElementOfSeq
  <2> QED  BY <2>1 DEF Lines
<1>7. ASSUME NEW f \in 0..N, NEW k \in DOMAIN Frame(t, box, f)
      PROVE  Frame(t, box, f)[k][2] \in Nat /\ Frame(t, box, f)[k][2] <= top
  <2>1. Frame(t, box, f) \in Seq(Lines)
    <3>1. CASE f = 0  BY <3>1 DEF Frame
    <3>2. CASE f # 0
      <4>1. f \in 1..Len(box)  BY <1>1, <3>2
      <4>2. box[f] \in Frames  BY <4>1, ElementOfSeq
      <4> QED  BY <3>2, <4>2 DEF Frame, Frames
    <3> QED  BY <3>1, <3>2
  <2>2. Frame(t, box, f)[k] \in Lines  BY <2>1, LenProperties, ElementOfSeq
  <2>3. Frame(t, box, f)[k][2] <= top  BY <1>1, <1>4 DEF Owned
  <2> QED  BY <2>2, <2>3 DEF Lines
<1>8. Owned(a, t, b, c, up)
  <2> SUFFICES ASSUME NEW f \in 0..(N + 1), NEW k \in DOMAIN Frame(t, b, f),
                      NEW line, line = Frame(t, b, f)[k]
               PROVE  /\ line[1] = c /\ line[2] <= up
                      /\ HasText(line) => \A i \in DOMAIN a : a[i][1] = c => a[i][2] < line[2]
    BY <1>1 DEF Owned
  <2>1. CASE f \in 0..N
    <3>1. k \in DOMAIN Frame(t, box, f) /\ line = Frame(t, box, f)[k]  BY <1>2, <2>1
    <3>2. /\ line[1] = c /\ line[2] <= top
          /\ HasText(line) => \A i \in DOMAIN a : a[i][1] = c => a[i][2] < line[2]
      BY <1>1, <1>4, <2>1, <3>1 DEF Owned
    <3>3. line[2] \in Nat  BY <1>7, <2>1, <3>1
    <3>4. line[2] <= up  BY <3>2, <3>3
    <3> QED  BY <3>2, <3>4
  <2>2. CASE f = N + 1
    <3>1. k \in DOMAIN L /\ line = L[k]  BY <1>2, <2>2
    <3>2. line[1] = c /\ line[2] <= up /\ (HasText(line) => top < line[2]) /\ line[2] \in Nat
      BY <1>3, <1>5, <3>1
    <3>3. ASSUME HasText(line), NEW i \in DOMAIN a, a[i][1] = c PROVE a[i][2] < line[2]
      <4>1. a[i][2] <= top /\ a[i][2] \in Nat /\ top < line[2]  BY <1>6, <3>2, <3>3
      <4> QED  BY <3>2, <4>1
    <3> QED  BY <3>2, <3>3
  <2> QED  BY <1>2, <2>1, <2>2
<1>9. Ordered(t, b)
  <2> SUFFICES ASSUME NEW f \in 0..(N + 1), NEW g \in 0..(N + 1),
                      NEW k \in DOMAIN Frame(t, b, f), NEW l \in DOMAIN Frame(t, b, g),
                      f < g \/ (f = g /\ k < l),
                      HasText(Frame(t, b, f)[k]), HasText(Frame(t, b, g)[l])
               PROVE  Frame(t, b, f)[k][2] < Frame(t, b, g)[l][2]
    BY <1>1 DEF Ordered
  <2>1. CASE f \in 0..N /\ g \in 0..N
    <3>1. Frame(t, b, f) = Frame(t, box, f) /\ Frame(t, b, g) = Frame(t, box, g)  BY <1>2, <2>1
    <3> QED  BY <1>1, <1>4, <2>1, <3>1 DEF Ordered
  <2>2. CASE f \in 0..N /\ g = N + 1
    <3>1. /\ k \in DOMAIN Frame(t, box, f) /\ Frame(t, b, f)[k] = Frame(t, box, f)[k]
          /\ l \in DOMAIN L /\ Frame(t, b, g)[l] = L[l]
      BY <1>2, <2>2
    <3>2. Frame(t, b, f)[k][2] <= top /\ Frame(t, b, f)[k][2] \in Nat  BY <1>7, <2>2, <3>1
    <3>3. top < L[l][2] /\ L[l][2] \in Nat  BY <1>3, <1>5, <3>1
    <3> QED  BY <3>1, <3>2, <3>3
  <2>3. CASE f = N + 1
    <3>1. g = N + 1 /\ k < l  BY <2>3
    <3> QED  BY <1>2, <1>3, <2>3, <3>1
  <2> QED  BY <1>2, <2>1, <2>2, <2>3
<1>10. Covered(a, t, b, c, up)
  <2> SUFFICES ASSUME NEW n \in 1..up, ~\E i \in DOMAIN a : a[i] = <<c, n>>
               PROVE  \E f \in 0..(N + 1) : \E k \in DOMAIN Frame(t, b, f) : Frame(t, b, f)[k] = <<c, n>>
    BY <1>1 DEF Covered
  <2>1. CASE n <= top
    <3>1. n \in 1..top  BY <2>1
    <3>2. PICK f \in 0..N : \E k \in DOMAIN Frame(t, box, f) : Frame(t, box, f)[k] = <<c, n>>
      BY <1>1, <1>4, <3>1 DEF Covered
    <3> QED  BY <1>2, <3>2
  <2>2. CASE ~(n <= top)
    <3>1. n \in (top + 1)..up  BY <2>2
    <3> QED  BY <1>2, <1>3, <3>1
  <2> QED  BY <2>1, <2>2
<1> QED  BY <1>0, <1>8, <1>9, <1>10 DEF LinesFollow

\* A line reaches the engine's channel at its end; taking lines changes nothing.
LEMMA ArrivedStep ==
    ASSUME WsType, [Next]_vars
    PROVE  /\ Arrived \in Seq(Lines)
           /\ \/ Arrived' = Arrived /\ (PassLine => ~HasText(Head(text)))
              \/ PassLine /\ HasText(Head(text)) /\ Arrived' = Append(Arrived, Head(text))
<1> USE DEF engineVars, serverVars
<1>1. taken \in Seq(Lines) /\ inq \in Seq(Lines)  BY DEF WsType
<1>2. Arrived \in Seq(Lines)  BY <1>1, ConcatProperties DEF Arrived
<1>3. CASE TakeLines
  <2>1. (taken \o inq) \o <<>> = taken \o inq  BY <1>1, <1>2, ConcatEmptySeq DEF Arrived
  <2>2. ~PassLine
    <3>1. Len(inq) # 0  BY <1>1, <1>3, TailFacts DEF TakeLines
    <3>2. inq' = <<>>  BY <1>3 DEF TakeLines
    <3>3. ASSUME PassLine PROVE inq' # <<>>
      <4>1. CASE HasText(Head(text))
        <5>1. Head(text) \in Lines  BY <3>3, TailFacts DEF PassLine, WsType
        <5>2. Append(inq, Head(text)) # <<>>  BY <1>1, <5>1, AppendFacts
        <5> QED  BY <3>3, <4>1, <5>2 DEF PassLine
      <4>2. CASE ~HasText(Head(text))  BY <1>3, <3>3, <4>2 DEF PassLine, TakeLines
      <4> QED  BY <4>1, <4>2
    <3> QED  BY <3>2, <3>3
  <2> QED  BY <1>2, <1>3, <2>1, <2>2 DEF TakeLines, Arrived
<1>4. CASE PassLine
  <2>1. PICK h \in Lines : h = Head(text)  BY <1>4, TailFacts DEF PassLine, WsType
  <2>2. UNCHANGED taken /\ inq' = IF HasText(h) THEN Append(inq, h) ELSE inq
    BY <1>4, <2>1 DEF PassLine
  <2>3. taken \o Append(inq, h) = Append(taken \o inq, h)
    <3>1. Append(inq, h) = inq \o <<h>>  BY <1>1, AppendIsConcat
    <3>2. Append(taken \o inq, h) = (taken \o inq) \o <<h>>
      BY <1>2, AppendIsConcat DEF Arrived
    <3>3. <<h>> \in Seq(Lines)  OBVIOUS
    <3>4. (taken \o inq) \o <<h>> = taken \o (inq \o <<h>>)  BY <1>1, <3>3, ConcatAssociative
    <3> QED  BY <3>1, <3>2, <3>4
  <2>4. CASE HasText(h)  BY <1>2, <1>4, <2>1, <2>2, <2>3, <2>4 DEF Arrived
  <2>5. CASE ~HasText(h)  BY <1>2, <1>4, <2>1, <2>2, <2>5 DEF Arrived
  <2> QED  BY <2>4, <2>5
<1>5. CASE ~(TakeLines \/ PassLine)
  <2>1. UNCHANGED <<taken, inq>>
    BY <1>5
    DEF Next, Forwarder, Handler, Client, vars, Emit, FwdTop, FwdTimeout, FwdRecv, FwdRecheck, FwdSend,
        Accept, Handshake, HandshakeFails, Register, ReadText, FrameDone, ReadClose, ReadWouldBlock,
        ConnectionLost, DrainOne, Flush, Connect, ClientReads, ClientCloses, ClientVanishes, ClientSends
  <2> QED  BY <1>2, <1>5, <2>1 DEF Arrived
<1> QED  BY <1>3, <1>4, <1>5

\* What is not yet read of a client is of the one that is served; a Close
\* frame is the last.
LEMMA InboundNext == WsType /\ Delivery /\ Connections /\ Inbound /\ [Next]_vars => Inbound'
<1> SUFFICES ASSUME WsType, Delivery, Connections, Inbound, [Next]_vars PROVE Inbound'
  OBVIOUS
<1> USE DEF engineVars, fwdVars, netVars, serverVars
<1> DEFINE In(c) ==
      /\ inbound[c] # <<>> => serving = c /\ hpc \notin {"accept", "handshake"}
      /\ Waits(c) => said[c] = 0
      /\ \A f \in DOMAIN inbound[c] : inbound[c][f].kind = "close" =>
            f = Len(inbound[c]) /\ inbound[c][f].lines = <<>> /\ remote[c] # "open"
<1>f. Forward  BY PlacesNext
<1>k. ASSUME NEW c \in Clients, inbound'[c] = inbound[c], said'[c] = said[c],
             inbound[c] # <<>> => serving' = c /\ hpc' \notin {"accept", "handshake"},
             remote'[c] = "open" /\ inbound[c] # <<>> => remote[c] = "open"
      PROVE  In(c)'
  <2>1. In(c)  BY DEF Inbound
  <2>2. Waits(c)' => said'[c] = 0  BY <1>f, <1>k, <2>1 DEF Forward
  <2>3. inbound[c] = <<>> => DOMAIN inbound[c] = {}  BY EmptyFacts
  <2> QED  BY <1>k, <2>1, <2>2, <2>3
<1>e. ASSUME NEW c \in Clients, inbound'[c] = <<>>, said'[c] = said[c] PROVE In(c)'
  <2>1. In(c)  BY DEF Inbound
  <2>2. Waits(c)' => said'[c] = 0  BY <1>f, <1>e, <2>1 DEF Forward
  <2>3. DOMAIN inbound'[c] = {}  BY <1>e, EmptyFacts
  <2> QED  BY <1>e, <2>2, <2>3
<1>p. (\A c \in Clients : In(c)') => Inbound'  BY DEF Inbound
<1>1. CASE HandshakeFails \/ ReadClose \/ ConnectionLost
  <2>1. /\ serving \in Clients /\ UNCHANGED said /\ inbound' = [inbound EXCEPT ![serving] = <<>>]
    BY <1>1 DEF HandshakeFails, ReadClose, ConnectionLost, LetGo, WsType
  <2>2. ASSUME NEW c \in Clients PROVE In(c)'
    <3>1. inbound[c] # <<>> => c = serving  BY DEF Inbound
    <3>2. inbound'[c] = <<>>  BY <2>1, <3>1 DEF WsType
    <3> QED  BY <1>e, <2>1, <3>2
  <2> QED  BY <1>p, <2>2
<1>2. CASE Accept
  <2>1. hpc = "accept" /\ UNCHANGED <<said, inbound>>  BY <1>2 DEF Accept
  <2>2. ASSUME NEW c \in Clients PROVE In(c)'
    <3>1. inbound'[c] = <<>>  BY <2>1 DEF Inbound
    <3> QED  BY <1>e, <2>1, <3>1
  <2> QED  BY <1>p, <2>2
<1>3. CASE Handshake
  <2>1. hpc = "handshake" /\ UNCHANGED <<said, inbound>>  BY <1>3 DEF Handshake
  <2>2. ASSUME NEW c \in Clients PROVE In(c)'
    <3>1. inbound'[c] = <<>>  BY <2>1 DEF Inbound
    <3> QED  BY <1>e, <2>1, <3>1
  <2> QED  BY <1>p, <2>2
<1>4. CASE ReadText
  <2>1. PICK s : s = serving  OBVIOUS
  <2>2. PICK b, t : b = inbound[s] /\ t = Tail(b)  OBVIOUS
  <2>3. /\ s \in Clients /\ b # <<>> /\ b \in Seq(Frames) /\ UNCHANGED <<said, remote, serving>>
        /\ inbound' = [inbound EXCEPT ![s] = t] /\ hpc' = "lines" /\ hpc = "read"
    BY <1>4, <2>1, <2>2 DEF ReadText, WsType
  <2>4. ASSUME NEW c \in Clients, c # s PROVE In(c)'
    <3>1. inbound[c] = <<>> /\ inbound'[c] = inbound[c]  BY <2>1, <2>3, <2>4 DEF Inbound, WsType
    <3> QED  BY <1>e, <2>3, <3>1
  <2>5. In(s)'
    <3>1. inbound'[s] = t  BY <2>3 DEF WsType
    <3>2. /\ Len(b) \in Nat \ {0} /\ DOMAIN b = 1..Len(b) /\ DOMAIN t = 1..(Len(b) - 1)
          /\ Len(t) = Len(b) - 1
          /\ \A i \in 1..(Len(b) - 1) : t[i] = b[i + 1] /\ i + 1 \in 1..Len(b)
      BY <2>2, <2>3, TailFacts
    <3>3. In(s)  BY <2>3 DEF Inbound
    <3>4. ASSUME NEW f \in DOMAIN t, t[f].kind = "close"
          PROVE  f = Len(t) /\ t[f].lines = <<>> /\ remote[s] # "open"
      <4>1. f + 1 \in DOMAIN b /\ b[f + 1] = t[f] /\ f \in Int  BY <3>2
      <4>2. f + 1 = Len(b) /\ t[f].lines = <<>> /\ remote[s] # "open"
        BY <2>2, <3>3, <3>4, <4>1
      <4> QED  BY <3>2, <4>1, <4>2
    <3>5. Waits(s)' => said'[s] = 0  BY <1>f, <2>3, <3>3 DEF Forward
    <3> QED  BY <2>1, <2>3, <3>1, <3>4, <3>5
  <2> QED  BY <1>p, <2>4, <2>5
<1>5. ASSUME NEW s \in Clients, NEW frame \in Frames, UNCHANGED <<serving, hpc, backlog>>,
             remote[s] = "open", inbound' = [inbound EXCEPT ![s] = Append(@, frame)],
             \A c \in Clients : c # s => said'[c] = said[c] /\ remote'[c] = remote[c],
             frame.kind = "close" => frame.lines = <<>> /\ remote'[s] # "open"
      PROVE  Inbound'
  <2>1. serving = s /\ hpc \notin {"accept", "handshake"}  BY <1>5 DEF Connections
  <2>2. PICK b, t : b = inbound[s] /\ t = Append(b, frame)  OBVIOUS
  <2>3. b \in Seq(Frames) /\ inbound'[s] = t  BY <1>5, <2>2 DEF WsType
  <2>4. ASSUME NEW c \in Clients, c # s PROVE In(c)'
    <3>1. inbound[c] = <<>> /\ inbound'[c] = inbound[c]  BY <1>5, <2>1, <2>4 DEF Inbound, WsType
    <3> QED  BY <1>5, <1>e, <2>4, <3>1
  <2>5. /\ DOMAIN b = 1..Len(b) /\ DOMAIN t = 1..(Len(b) + 1) /\ Len(t) = Len(b) + 1
        /\ t[Len(b) + 1] = frame /\ \A i \in 1..Len(b) : t[i] = b[i]
        /\ \A i \in 1..(Len(b) + 1) : i = Len(b) + 1 \/ i \in 1..Len(b)
    BY <2>2, <2>3, AppendFacts
  <2>6. \A f \in DOMAIN b : b[f].kind # "close"  BY <1>5, <2>2 DEF Inbound
  <2>7. \A f \in DOMAIN t : t[f].kind = "close" =>
            f = Len(t) /\ t[f].lines = <<>> /\ remote'[s] # "open"
    BY <1>5, <2>5, <2>6
  <2>8. ~Waits(s)
    <3>1. serving \in Clients  BY <2>1
    <3>2. ~Waits(serving)  BY <2>1, <3>1, RegisteredFacts
    <3> QED  BY <2>1, <3>2
  <2>9. ~Waits(s)'  BY <1>f, <2>8 DEF Forward
  <2>10. In(s)'  BY <1>5, <2>1, <2>3, <2>7, <2>9
  <2> QED  BY <1>p, <2>4, <2>10
<1>6. ASSUME NEW s \in Clients, NEW shape \in Shapes, ClientSends(s, shape) PROVE Inbound'
  <2>1. PICK top : top = said[s] + Cardinality({i \in 1..Len(shape) : shape[i]})  OBVIOUS
  <2>2. Numbered(s, shape) \in Seq(Lines)  BY <2>1, NumberedFacts DEF WsType
  <2>n. PICK lines : lines = Numbered(s, shape)  OBVIOUS
  <2>a. Text(lines) \in Frames  BY <2>2, <2>n DEF Text, Frames
  <2>b. Text(lines).kind # "close"  BY DEF Text
  <2>3. PICK frame \in Frames : frame = Text(Numbered(s, shape)) /\ frame.kind # "close"
    BY <2>a, <2>b, <2>n
  <2>4. /\ UNCHANGED <<serving, hpc, backlog, remote>> /\ remote[s] = "open"
        /\ inbound' = [inbound EXCEPT ![s] = Append(@, frame)]
        /\ \A c \in Clients : c # s => said'[c] = said[c]
    BY <1>6, <2>3 DEF ClientSends, WsType
  <2> QED  BY <1>5, <2>3, <2>4
<1>7. ASSUME NEW s \in Clients, ClientCloses(s) PROVE Inbound'
  <2>a. Close \in Frames  BY EmptyFacts DEF Close, Frames
  <2>b. Close.lines = <<>>  BY DEF Close
  <2>1. PICK frame \in Frames : frame = Close /\ frame.lines = <<>>  BY <2>a, <2>b
  <2>2. /\ UNCHANGED <<serving, hpc, backlog, said>> /\ remote[s] = "open" /\ remote'[s] # "open"
        /\ inbound' = [inbound EXCEPT ![s] = Append(@, frame)]
        /\ \A c \in Clients : c # s => remote'[c] = remote[c]
    BY <1>7, <2>1 DEF ClientCloses, WsType
  <2> QED  BY <1>5, <2>1, <2>2
<1>8. ASSUME UNCHANGED <<inbound, said>>,
             \A c \in Clients : remote'[c] = "open" => remote[c] = "open",
             (UNCHANGED <<serving, hpc>>) \/
             (UNCHANGED serving /\ hpc' \notin {"accept", "handshake"})
      PROVE  Inbound'
  <2>1. ASSUME NEW c \in Clients PROVE In(c)'
    <3>1. inbound[c] # <<>> => serving = c /\ hpc \notin {"accept", "handshake"}  BY DEF Inbound
    <3> QED  BY <1>8, <1>k, <3>1
  <2> QED  BY <1>p, <2>1
<1>9. CASE Emit \/ TakeLines \/ Forwarder \/ UNCHANGED vars
  <2>1. UNCHANGED <<inbound, said, remote, serving, hpc>>
    BY <1>9 DEF Emit, TakeLines, Forwarder, FwdTop, FwdTimeout, FwdRecv, FwdRecheck, FwdSend, vars
  <2> QED  BY <1>8, <2>1
<1>10. CASE Register \/ PassLine \/ FrameDone \/ ReadWouldBlock
  <2>1. UNCHANGED <<inbound, said, remote, serving>> /\ hpc' \notin {"accept", "handshake"}
    BY <1>10 DEF Register, PassLine, FrameDone, ReadWouldBlock
  <2> QED  BY <1>8, <2>1
<1>11. CASE DrainOne \/ Flush
  <2>1. UNCHANGED <<inbound, said, remote, serving>> /\ {hpc, hpc'} \subseteq {"read", "drain", "flush"}
    BY <1>11, WriteStep
  <2>2. hpc' \notin {"accept", "handshake"}  BY <2>1
  <2> QED  BY <1>8, <2>1, <2>2
<1>12. ASSUME NEW s \in Clients, Connect(s) \/ ClientReads(s) \/ ClientVanishes(s) PROVE Inbound'
  <2>1. /\ UNCHANGED <<inbound, said, serving, hpc>>
        /\ \A c \in Clients : remote'[c] = "open" => remote[c] = "open"
    BY <1>12 DEF Connect, ClientReads, ClientVanishes, WsType
  <2> QED  BY <1>8, <2>1
<1> QED
  BY <1>1, <1>2, <1>3, <1>4, <1>6, <1>7, <1>9, <1>10, <1>11, <1>12 DEF Next, Handler, Client

\* The lines that follow, as frames are sent, taken and passed on.
LEMMA FollowingNext ==
    WsType /\ Delivery /\ Connections /\ Inbound /\ LinesInOrder /\ Following /\ [Next]_vars => Following'
<1> SUFFICES ASSUME WsType, Delivery, Connections, Inbound, LinesInOrder, Following, [Next]_vars,
                    serving' # None
             PROVE  LinesFollow(Arrived, text, inbound[serving], serving, said[serving])'
  BY DEF Following
<1> USE DEF engineVars, fwdVars, netVars, serverVars
<1>0. PICK a, t, b, c, top : a = Arrived /\ t = text /\ b = inbound[serving] /\ c = serving /\ top = said[serving]
  OBVIOUS
<1>a. a \in Seq(Lines) /\ t \in Seq(Lines)  BY <1>0, ArrivedStep DEF WsType
<1>s. ASSUME c # None
      PROVE  c \in Clients /\ b \in Seq(Frames) /\ top \in Nat /\ LinesFollow(a, t, b, c, top)
  BY <1>0, <1>s DEF Following, WsType
<1>1. CASE Accept
  <2>1. PICK s \in Clients : s = serving' /\ Waits(s) /\ hpc = "accept" /\ serving = None /\ ~PassLine
    BY <1>1, PlaceAccept DEF PassLine, Accept
  <2>2. UNCHANGED <<text, inbound, said>>  BY <1>1 DEF Accept
  <2>3. text = <<>> /\ inbound[s] = <<>> /\ said[s] = 0
    <3>1. None \notin Clients  BY WsAssumption DEF Clients
    <3> QED  BY <2>1, <3>1 DEF WsType, Inbound
  <2>4. PICK e : e = <<>>  OBVIOUS
  <2>5. DOMAIN e = {} /\ 0..Len(e) = {0} /\ Frame(e, e, 0) = e /\ 1..0 = {}
    BY <2>4, EmptyFacts DEF Frame
  <2>6. LinesFollow(Arrived', e, e, s, 0)  BY <2>5 DEF LinesFollow, Owned, Ordered, Covered
  <2> QED  BY <2>1, <2>2, <2>3, <2>4, <2>6
<1>2. CASE HandshakeFails \/ ReadClose \/ ConnectionLost
  BY <1>2 DEF HandshakeFails, ReadClose, ConnectionLost, LetGo
<1>3. CASE ReadText
  <2>1. c \in Clients /\ c # None /\ t = <<>> /\ b # <<>> /\ ~PassLine
    BY <1>0, <1>3, WsAssumption DEF ReadText, PassLine, WsType, Clients
  <2>2. /\ inbound'[c] = Tail(b) /\ text' = Head(b).lines /\ serving' = c /\ said'[c] = top
    BY <1>0, <1>3, <2>1 DEF ReadText, WsType
  <2>3. Arrived' = a  BY <1>0, <2>1, ArrivedStep
  <2>4. LinesFollow(a, Head(b).lines, Tail(b), c, top)  BY <1>s, <2>1, FollowRead
  <2>5. LinesFollow(Arrived', text', inbound'[c], c, said'[c])  BY <2>2, <2>3, <2>4
  <2> QED  BY <2>2, <2>5
<1>4. CASE PassLine
  <2>1. c \in Clients /\ c # None /\ t # <<>>
    BY <1>0, <1>4, WsAssumption DEF PassLine, WsType, Clients
  <2>2. inbound'[c] = b /\ text' = Tail(t) /\ serving' = c /\ said'[c] = top
    BY <1>0, <1>4 DEF PassLine
  <2>3. Arrived' = IF HasText(Head(t)) THEN Append(a, Head(t)) ELSE a
    BY <1>0, <1>4, ArrivedStep
  <2>4. LinesFollow(Arrived', Tail(t), b, c, top)  BY <1>a, <1>s, <2>1, <2>3, FollowPass
  <2>5. LinesFollow(Arrived', text', inbound'[c], c, said'[c])  BY <2>2, <2>4
  <2> QED  BY <2>2, <2>5
<1>5. ASSUME NEW s \in Clients, NEW frame \in Frames, NEW up \in Nat, remote[s] = "open",
             UNCHANGED <<text, serving>>, Arrived' = Arrived,
             inbound' = [inbound EXCEPT ![s] = Append(@, frame)],
             said' = [said EXCEPT ![s] = up], said[s] <= up,
             \A k \in DOMAIN frame.lines :
                LET line == frame.lines[k]
                IN  line[1] = s /\ line[2] <= up /\ (HasText(line) => said[s] < line[2]),
             \A k, l \in DOMAIN frame.lines :
                k < l /\ HasText(frame.lines[k]) /\ HasText(frame.lines[l])
                    => frame.lines[k][2] < frame.lines[l][2],
             \A n \in (said[s] + 1)..up : \E k \in DOMAIN frame.lines : frame.lines[k] = <<s, n>>
      PROVE  LinesFollow(Arrived, text, inbound[serving], serving, said[serving])'
  <2>1. c = s /\ c # None  BY <1>0, <1>5, WsAssumption DEF Connections, Clients
  <2>2. top = said[s] /\ b = inbound[s]  BY <1>0, <2>1
  <2>3. inbound'[c] = Append(b, frame) /\ said'[c] = up /\ serving' = c /\ text' = t /\ Arrived' = a
    BY <1>0, <1>5, <2>1, <2>2 DEF WsType
  <2>4. \A i \in DOMAIN a : a[i][1] = c => a[i][2] <= top
    <3>1. DOMAIN a = 1..Len(a)  BY <1>a, LenProperties
    <3>2. \A i \in 1..Len(a) : a[i][2] \in 1..said[a[i][1]]  BY <1>0 DEF LinesInOrder
    <3> QED  BY <2>1, <2>2, <3>1, <3>2
  <2>5. /\ \A k \in DOMAIN frame.lines :
            LET line == frame.lines[k]
            IN  line[1] = c /\ line[2] <= up /\ (HasText(line) => top < line[2])
        /\ \A n \in (top + 1)..up : \E k \in DOMAIN frame.lines : frame.lines[k] = <<c, n>>
        /\ top <= up
    BY <1>5, <2>1, <2>2
  <2>6. LinesFollow(a, t, Append(b, frame), c, up)
    BY <1>5, <1>a, <1>s, <2>1, <2>4, <2>5, FollowAppend
  <2> QED  BY <2>3, <2>6
<1>6. ASSUME NEW s \in Clients, NEW shape \in Shapes, ClientSends(s, shape)
      PROVE  LinesFollow(Arrived, text, inbound[serving], serving, said[serving])'
  <2>1. PICK up : up = said[s] + Cardinality({i \in 1..Len(shape) : shape[i]})  OBVIOUS
  <2>2. PICK L : L = Numbered(s, shape)  OBVIOUS
  <2>a. said[s] \in Nat  BY DEF WsType
  <2>b. L \in Seq(Lines) /\ up \in Nat /\ said[s] <= up  BY <2>1, <2>2, <2>a, NumberedFacts
  <2>c. \A k \in DOMAIN L :
            LET line == L[k]
            IN  line[1] = s /\ line[2] <= up /\ (HasText(line) => said[s] < line[2])
    BY <2>1, <2>2, <2>a, NumberedFacts
  <2>d. \A k, l \in DOMAIN L : k < l /\ HasText(L[k]) /\ HasText(L[l]) => L[k][2] < L[l][2]
    BY <2>1, <2>2, <2>a, NumberedFacts
  <2>e. \A n \in (said[s] + 1)..up : \E k \in DOMAIN L : L[k] = <<s, n>>
    BY <2>1, <2>2, <2>a, NumberedFacts
  <2>4. PICK frame : frame = Text(L)  OBVIOUS
  <2>5. frame \in Frames /\ frame.lines = L  BY <2>b, <2>4 DEF Text, Frames
  <2>6. /\ UNCHANGED <<text, serving, taken, inq>> /\ remote[s] = "open"
        /\ inbound' = [inbound EXCEPT ![s] = Append(@, frame)] /\ said' = [said EXCEPT ![s] = up]
    BY <1>6, <2>1, <2>2, <2>4 DEF ClientSends
  <2>7. Arrived' = Arrived  BY <2>6 DEF Arrived
  <2>8. /\ \A k \in DOMAIN frame.lines :
            LET line == frame.lines[k]
            IN  line[1] = s /\ line[2] <= up /\ (HasText(line) => said[s] < line[2])
        /\ \A k, l \in DOMAIN frame.lines :
            k < l /\ HasText(frame.lines[k]) /\ HasText(frame.lines[l])
                => frame.lines[k][2] < frame.lines[l][2]
        /\ \A n \in (said[s] + 1)..up : \E k \in DOMAIN frame.lines : frame.lines[k] = <<s, n>>
    BY <2>c, <2>d, <2>e, <2>5
  <2> QED  BY <1>5, <2>b, <2>5, <2>6, <2>7, <2>8
<1>7. ASSUME NEW s \in Clients, ClientCloses(s)
      PROVE  LinesFollow(Arrived, text, inbound[serving], serving, said[serving])'
  <2>1. PICK frame : frame = Close  OBVIOUS
  <2>2. frame \in Frames /\ frame.lines = <<>> /\ DOMAIN frame.lines = {}
    BY <2>1, EmptyFacts DEF Close, Frames
  <2>3. PICK up \in Nat : up = said[s]  BY DEF WsType
  <2>4. /\ UNCHANGED <<text, serving, taken, inq, said>> /\ remote[s] = "open"
        /\ inbound' = [inbound EXCEPT ![s] = Append(@, frame)]
    BY <1>7, <2>1 DEF ClientCloses
  <2>5. Arrived' = Arrived  BY <2>4 DEF Arrived
  <2>6. said' = [said EXCEPT ![s] = up]  BY <2>3, <2>4 DEF WsType
  <2>7. (said[s] + 1)..up = {} /\ said[s] <= up  BY <2>3
  <2> QED  BY <1>5, <2>2, <2>4, <2>5, <2>6, <2>7
<1>8. ASSUME UNCHANGED <<text, serving, inbound, said>>, ~PassLine
      PROVE  LinesFollow(Arrived, text, inbound[serving], serving, said[serving])'
  <2>1. Arrived' = Arrived  BY <1>8, ArrivedStep
  <2> QED  BY <1>8, <2>1 DEF Following
<1>9. CASE ~(Accept \/ HandshakeFails \/ ReadClose \/ ConnectionLost \/ ReadText \/ PassLine
             \/ \E s \in Clients : ClientCloses(s) \/ \E shape \in Shapes : ClientSends(s, shape))
  <2>1. UNCHANGED <<text, serving, inbound, said>>
    BY <1>9, WriteStep
    DEF Next, Forwarder, Handler, Client, vars, Emit, TakeLines, FwdTop, FwdTimeout, FwdRecv,
        FwdRecheck, FwdSend, Handshake, Register, FrameDone, ReadWouldBlock, Connect, ClientReads,
        ClientVanishes
  <2> QED  BY <1>8, <1>9, <2>1
<1> QED  BY <1>1, <1>2, <1>3, <1>4, <1>6, <1>7, <1>9

\* The line that is passed on is the next one of the client that is served.
LEMMA PassedLine ==
    ASSUME WsType, Connections, Following, OfServed, PassLine, HasText(Head(text))
    PROVE  /\ serving \in Clients /\ Head(text)[1] = serving /\ Head(text)[2] \in 1..said[serving]
           /\ Head(text) \in Lines /\ ~Waits(serving)
           /\ \A i \in DOMAIN Arrived : Before(Arrived[i], Head(text))
           /\ \A n \in 1..(Head(text)[2] - 1) : \E i \in DOMAIN Arrived : Arrived[i] = <<serving, n>>
<1>0. PICK a, t, b, c, top : a = Arrived /\ t = text /\ b = inbound[serving] /\ c = serving /\ top = said[serving]
  OBVIOUS
<1>1. c \in Clients /\ serving # None /\ hpc = "lines" /\ t # <<>>
  BY <1>0, WsAssumption DEF PassLine, WsType, Clients
<1>2. /\ a \in Seq(Lines) /\ t \in Seq(Lines) /\ b \in Seq(Frames) /\ top \in Nat
      /\ LinesFollow(a, t, b, c, top)
  BY <1>0, <1>1, ConcatProperties DEF Following, WsType, Arrived
<1>3. /\ Head(t)[1] = c /\ Head(t)[2] \in 1..top
      /\ \A i \in DOMAIN a : a[i][1] = c => a[i][2] < Head(t)[2]
      /\ \A n \in 1..(Head(t)[2] - 1) : \E i \in DOMAIN a : a[i] = <<c, n>>
  <2>1. PICK after : after = Append(a, Head(t))  OBVIOUS
  <2>2. HasText(Head(t))  BY <1>0
  <2>3. after = (IF HasText(Head(t)) THEN Append(a, Head(t)) ELSE a)  BY <2>1, <2>2
  <2>4. LinesFollow(after, Tail(t), b, c, top) /\ IsNext(a, Head(t), c, top)
    BY <1>1, <1>2, <2>3, FollowPass
  <2> QED  BY <2>2, <2>4 DEF IsNext
<1>4. ~Waits(serving)  BY <1>0, <1>1, RegisteredFacts
<1>5. ASSUME NEW i \in DOMAIN a PROVE Before(a[i], Head(t))
  <2>1. a[i][1] <= c  BY <1>0, <1>1 DEF OfServed
  <2>2. a[i][1] \in Int
    <3>1. a[i] \in Lines  BY <1>2, LenProperties, ElementOfSeq
    <3> QED  BY <3>1 DEF Lines, Clients
  <2>3. a[i][1] = c \/ a[i][1] < c  BY <1>1, <2>1, <2>2 DEF Clients
  <2> QED  BY <1>3, <2>3 DEF Before
<1>6. Head(t) \in Lines  BY <1>1, <1>2, TailFacts
<1> QED  BY <1>0, <1>1, <1>3, <1>4, <1>5, <1>6

\* What has arrived is of clients that were served.
LEMMA OfServedNext ==
    WsType /\ Delivery /\ Connections /\ Following /\ OfServed /\ [Next]_vars => OfServed'
<1> SUFFICES ASSUME WsType, Delivery, Connections, Following, OfServed, [Next]_vars PROVE OfServed'
  OBVIOUS
<1> USE DEF engineVars, fwdVars, netVars, serverVars
<1>f. Forward  BY PlacesNext
<1>0. PICK a, b : a = Arrived /\ b = Arrived'  OBVIOUS
<1>a. a \in Seq(Lines) /\ \A i \in DOMAIN a : a[i][1] \in Clients
  <2>1. a \in Seq(Lines)  BY <1>0, ArrivedStep
  <2>2. \A i \in DOMAIN a : a[i] \in Lines  BY <2>1, LenProperties, ElementOfSeq
  <2> QED  BY <2>1, <2>2 DEF Lines
<1>1. ASSUME NEW c \in Clients, ~Waits(c), serving # None => c <= serving
      PROVE  ~Waits(c)' /\ (serving' # None => c <= serving')
  <2>1. ~Waits(c)'  BY <1>f, <1>1 DEF Forward
  <2>2. CASE Accept
    <3>1. PICK s \in Clients : s = serving' /\ \A d \in Clients : ~Waits(d) => d < s
      BY <2>2, PlaceAccept
    <3>2. c < s  BY <1>1, <3>1
    <3> QED  BY <2>1, <3>1, <3>2 DEF Clients
  <2>3. CASE HandshakeFails \/ ReadClose \/ ConnectionLost
    BY <2>1, <2>3 DEF HandshakeFails, ReadClose, ConnectionLost, LetGo
  <2>4. CASE ~(Accept \/ HandshakeFails \/ ReadClose \/ ConnectionLost)
    <3>1. UNCHANGED serving
      BY <2>4, WriteStep
      DEF Next, Forwarder, Handler, Client, vars, Emit, TakeLines, FwdTop, FwdTimeout, FwdRecv,
          FwdRecheck, FwdSend, Handshake, Register, ReadText, PassLine, FrameDone, ReadWouldBlock,
          Connect, ClientReads, ClientCloses, ClientVanishes, ClientSends
    <3> QED  BY <1>1, <2>1, <3>1
  <2> QED  BY <2>2, <2>3, <2>4
<1>2. ASSUME NEW i \in DOMAIN a
      PROVE  ~Waits(a[i][1])' /\ (serving' # None => a[i][1] <= serving')
  <2>1. PICK c \in Clients : c = a[i][1]  BY <1>a
  <2>2. ~Waits(c) /\ (serving # None => c <= serving)  BY <1>0, <2>1 DEF OfServed
  <2>3. ~Waits(c)' /\ (serving' # None => c <= serving')  BY <1>1, <2>2
  <2> QED  BY <2>1, <2>3
<1>3. CASE b = a  BY <1>0, <1>2, <1>3 DEF OfServed
<1>4. CASE PassLine /\ HasText(Head(text)) /\ b = Append(a, Head(text))
  <2>1. PICK h, s : h = Head(text) /\ s = serving  OBVIOUS
  <2>2. h \in Lines /\ h[1] = s /\ s \in Clients /\ ~Waits(s) /\ b = Append(a, h)
    BY <1>4, <2>1, PassedLine
  <2>3. s <= s  BY <2>2 DEF Clients
  <2>4. ~Waits(s)' /\ (serving' # None => s <= serving')  BY <1>1, <2>1, <2>2, <2>3
  <2>5. \A i \in DOMAIN b : b[i] = h \/ (i \in DOMAIN a /\ b[i] = a[i])
    BY <1>a, <2>2, AppendFacts
  <2>6. ASSUME NEW i \in DOMAIN b
        PROVE  ~Waits(b[i][1])' /\ (serving' # None => b[i][1] <= serving')
    <3>1. CASE b[i] = h  BY <2>2, <2>4, <3>1
    <3>2. CASE i \in DOMAIN a /\ b[i] = a[i]  BY <1>2, <3>2
    <3> QED  BY <2>5, <3>1, <3>2
  <2> QED  BY <1>0, <2>6 DEF OfServed
<1> QED  BY <1>0, <1>3, <1>4, ArrivedStep

\* What a client has said, it has said, and no more once it is gone.
LEMMA SaidStep ==
    ASSUME WsType, Delivery, [Next]_vars
    PROVE  \A c \in Clients : said[c] <= said'[c] /\ (remote[c] = "gone" => said'[c] = said[c])
<1> USE DEF engineVars, fwdVars, netVars, serverVars
<1>1. ASSUME NEW s \in Clients, NEW shape \in Shapes, ClientSends(s, shape)
      PROVE  \A c \in Clients : said[c] <= said'[c] /\ (remote[c] = "gone" => said'[c] = said[c])
  <2>1. PICK up : up = said[s] + Cardinality({i \in 1..Len(shape) : shape[i]})  OBVIOUS
  <2>2. said[s] <= up  BY <2>1, NumberedFacts DEF WsType
  <2>3. said' = [said EXCEPT ![s] = up] /\ remote[s] = "open"  BY <1>1, <2>1 DEF ClientSends
  <2>4. \A c \in Clients : said[c] <= said[c]  BY DEF WsType
  <2> QED  BY <2>2, <2>3, <2>4 DEF WsType
<1>2. CASE ~\E s \in Clients : \E shape \in Shapes : ClientSends(s, shape)
  <2>1. UNCHANGED said
    BY <1>2, WriteStep
    DEF Next, Forwarder, Handler, Client, vars, Emit, TakeLines, FwdTop, FwdTimeout, FwdRecv,
        FwdRecheck, FwdSend, Accept, Handshake, HandshakeFails, Register, ReadText, PassLine,
        FrameDone, ReadClose, ReadWouldBlock, ConnectionLost, Connect, ClientReads, ClientCloses,
        ClientVanishes
  <2>2. \A c \in Clients : said[c] <= said[c]  BY DEF WsType
  <2> QED  BY <2>1, <2>2
<1> QED  BY <1>1, <1>2

\* Lines arrive in order and without gaps.
LEMMA LinesInOrderNext ==
    WsType /\ Delivery /\ Connections /\ Following /\ OfServed /\ LinesInOrder /\ [Next]_vars
        => LinesInOrder'
<1> SUFFICES ASSUME WsType, Delivery, Connections, Following, OfServed, LinesInOrder, [Next]_vars
             PROVE  LinesInOrder'
  OBVIOUS
<1>0. PICK a, b : a = Arrived /\ b = Arrived'  OBVIOUS
<1>1. a \in Seq(Lines) /\ DOMAIN a = 1..Len(a) /\ Len(a) \in Nat  BY <1>0, ArrivedStep, LenProperties
<1>2. \A i \in 1..Len(a) : a[i][1] \in Clients /\ a[i][2] \in Nat
  <2>1. \A i \in 1..Len(a) : a[i] \in Lines  BY <1>1, ElementOfSeq
  <2> QED  BY <2>1 DEF Lines
<1>3. /\ \A i, j \in 1..Len(a) : i < j => Before(a[i], a[j])
      /\ \A i \in 1..Len(a) : a[i][2] \in 1..said[a[i][1]]
      /\ \A i \in 1..Len(a) : \A n \in 1..(a[i][2] - 1) : \E j \in 1..(i - 1) : a[j] = <<a[i][1], n>>
  BY <1>0 DEF LinesInOrder
<1>4. \A i \in 1..Len(a) : a[i][2] \in 1..said'[a[i][1]]
  <2> SUFFICES ASSUME NEW i \in 1..Len(a) PROVE a[i][2] \in 1..said'[a[i][1]]
    OBVIOUS
  <2>1. PICK c \in Clients : c = a[i][1]  BY <1>2
  <2>2. said[c] \in Nat /\ said'[c] \in Nat /\ said[c] <= said'[c]
    BY SaidStep, TypeNext DEF WsType
  <2>3. a[i][2] \in 1..said[c]  BY <1>3, <2>1
  <2>4. a[i][2] \in 1..said'[c]  BY <2>2, <2>3
  <2> QED  BY <2>1, <2>4
<1>5. CASE b = a
  <2>1. \A i, j \in 1..Len(b) : i < j => Before(b[i], b[j])  BY <1>3, <1>5
  <2>2. \A i \in 1..Len(b) :
            /\ b[i][2] \in 1..said'[b[i][1]]
            /\ \A n \in 1..(b[i][2] - 1) : \E j \in 1..(i - 1) : b[j] = <<b[i][1], n>>
    BY <1>3, <1>4, <1>5
  <2> QED  BY <1>0, <2>1, <2>2 DEF LinesInOrder
<1>6. CASE PassLine /\ HasText(Head(text)) /\ b = Append(a, Head(text))
  <2>1. PICK h, s : h = Head(text) /\ s = serving  OBVIOUS
  <2>2. /\ h \in Lines /\ s \in Clients /\ h[1] = s /\ h[2] \in 1..said[s]
        /\ \A i \in DOMAIN a : Before(a[i], h)
        /\ \A n \in 1..(h[2] - 1) : \E i \in DOMAIN a : a[i] = <<s, n>>
    BY <1>0, <1>6, <2>1, PassedLine
  <2>3. /\ Len(b) = Len(a) + 1 /\ b[Len(a) + 1] = h
        /\ \A i \in 1..Len(a) : b[i] = a[i]
        /\ \A i \in 1..(Len(a) + 1) : i = Len(a) + 1 \/ i \in 1..Len(a)
    BY <1>1, <1>6, <2>1, <2>2, AppendFacts
  <2>4. ASSUME NEW i \in 1..Len(b), NEW j \in 1..Len(b), i < j PROVE Before(b[i], b[j])
    <3>1. i \in 1..Len(a)  BY <1>1, <2>3, <2>4
    <3>2. CASE j \in 1..Len(a)  BY <1>3, <2>3, <2>4, <3>1, <3>2
    <3>3. CASE j = Len(a) + 1  BY <1>1, <2>2, <2>3, <3>1, <3>3
    <3> QED  BY <2>3, <3>2, <3>3
  <2>5. h[2] \in 1..said'[h[1]]
    <3>1. said[s] \in Nat /\ said'[s] \in Nat /\ said[s] <= said'[s]
      BY <2>2, SaidStep, TypeNext DEF WsType
    <3>2. h[2] \in 1..said'[s]  BY <2>2, <3>1
    <3> QED  BY <2>2, <3>2
  <2>6. ASSUME NEW i \in 1..Len(b)
        PROVE  /\ b[i][2] \in 1..said'[b[i][1]]
               /\ \A n \in 1..(b[i][2] - 1) : \E j \in 1..(i - 1) : b[j] = <<b[i][1], n>>
    <3>1. CASE i \in 1..Len(a)
      <4>1. b[i] = a[i] /\ \A j \in 1..(i - 1) : j \in 1..Len(a) /\ b[j] = a[j]  BY <1>1, <2>3, <3>1
      <4>2. b[i][2] \in 1..said'[b[i][1]]  BY <1>4, <3>1, <4>1
      <4>3. ASSUME NEW n \in 1..(b[i][2] - 1) PROVE \E j \in 1..(i - 1) : b[j] = <<b[i][1], n>>
        <5>1. PICK j \in 1..(i - 1) : a[j] = <<a[i][1], n>>  BY <1>3, <3>1, <4>1
        <5> QED  BY <4>1, <5>1
      <4> QED  BY <4>2, <4>3
    <3>2. CASE i = Len(a) + 1
      <4>1. b[i] = h /\ i - 1 = Len(a)  BY <1>1, <2>3, <3>2
      <4>2. ASSUME NEW n \in 1..(b[i][2] - 1) PROVE \E j \in 1..(i - 1) : b[j] = <<b[i][1], n>>
        <5>1. PICK j \in 1..Len(a) : a[j] = <<s, n>>  BY <1>1, <2>2, <4>1
        <5>2. j \in 1..(i - 1) /\ b[j] = a[j]  BY <2>3, <4>1
        <5> QED  BY <2>2, <4>1, <5>1, <5>2
      <4> QED  BY <2>5, <4>1, <4>2
    <3> QED  BY <2>3, <3>1, <3>2
  <2> QED  BY <1>0, <2>4, <2>6 DEF LinesInOrder
<1> QED  BY <1>0, <1>5, <1>6, ArrivedStep

\* A connection that ends with a Close frame has had its lines taken over.
LEMMA ClosedNext ==
    WsType /\ Delivery /\ Connections /\ Following /\ Inbound /\ CloseLosesNothing /\ ClosedIsGone /\ [Next]_vars
        => CloseLosesNothing' /\ ClosedIsGone'
<1> SUFFICES ASSUME WsType, Delivery, Connections, Following, Inbound, CloseLosesNothing, ClosedIsGone,
                    [Next]_vars
             PROVE  CloseLosesNothing' /\ ClosedIsGone'
  OBVIOUS
<1> USE DEF engineVars, fwdVars, netVars, serverVars
<1>0. PICK a, b : a = Arrived /\ b = Arrived'  OBVIOUS
<1>1. a \in Seq(Lines) /\ DOMAIN a = 1..Len(a) /\ Len(a) \in Nat  BY <1>0, ArrivedStep, LenProperties
<1>2. ASSUME NEW line, Contains(a, line) PROVE Contains(b, line)
  <2>1. CASE b = a  BY <1>2, <2>1
  <2>2. CASE PassLine /\ HasText(Head(text)) /\ b = Append(a, Head(text))
    <3>1. PICK h \in Lines : h = Head(text)  BY <2>2, TailFacts DEF PassLine, WsType
    <3>2. Len(b) = Len(a) + 1 /\ \A i \in 1..Len(a) : b[i] = a[i] /\ i \in 1..(Len(a) + 1)
      BY <1>1, <2>2, <3>1, AppendFacts
    <3> QED  BY <1>2, <3>2 DEF Contains
  <2> QED  BY <1>0, <2>1, <2>2, ArrivedStep
<1>3. \A c \in closed : c \in Clients /\ remote[c] = "gone" /\ said'[c] = said[c]
  BY SaidStep DEF WsType, ClosedIsGone
<1>4. \A c \in closed : \A n \in 1..said'[c] : Contains(b, <<c, n>>)
  BY <1>0, <1>2, <1>3 DEF CloseLosesNothing
<1>5. \A c \in Clients : remote[c] = "gone" => remote'[c] = "gone"
  BY WriteStep
  DEF Next, Forwarder, Handler, Client, vars, Emit, TakeLines, FwdTop, FwdTimeout, FwdRecv,
      FwdRecheck, FwdSend, Accept, Handshake, HandshakeFails, Register, ReadText, PassLine,
      FrameDone, ReadClose, ReadWouldBlock, ConnectionLost, LetGo, Connect, ClientReads, ClientCloses,
      ClientVanishes, ClientSends, WsType
<1>6. CASE closed' = closed
  <2>1. ClosedIsGone'  BY <1>3, <1>5, <1>6 DEF ClosedIsGone
  <2> QED  BY <1>0, <1>4, <1>6, <2>1 DEF CloseLosesNothing
<1>7. CASE ReadClose
  <2>1. PICK s, x : s = serving /\ x = inbound[s]  OBVIOUS
  <2>2. /\ s \in Clients /\ s # None /\ x # <<>> /\ x \in Seq(Frames) /\ Head(x).kind = "close"
        /\ text = <<>> /\ closed' = closed \cup {s} /\ remote'[s] = "gone" /\ UNCHANGED <<said, taken, inq>>
    BY <1>7, <2>1, WsAssumption DEF ReadClose, LetGo, WsType, Clients
  <2>3. Len(x) \in Nat \ {0} /\ DOMAIN x = 1..Len(x) /\ Head(x) = x[1]  BY <2>2, TailFacts
  <2>4. 1 \in DOMAIN x  BY <2>3
  <2>5. 1 = Len(x) /\ x[1].lines = <<>>  BY <2>1, <2>2, <2>3, <2>4, ZenonT(30) DEF Inbound
  <2>6. \A f \in 0..Len(x) : DOMAIN Frame(text, x, f) = {}
    <3> SUFFICES ASSUME NEW f \in 0..1 PROVE DOMAIN Frame(text, x, f) = {}
      BY <2>5
    <3>1. f = 0 \/ f = 1  OBVIOUS
    <3> QED  BY <2>2, <2>5, <3>1, EmptyFacts DEF Frame
  <2>7. Covered(a, text, x, s, said[s])  BY <1>0, <2>1, <2>2 DEF Following, LinesFollow
  <2>8. \A n \in 1..said[s] : \E i \in 1..Len(a) : a[i] = <<s, n>>  BY <1>1, <2>6, <2>7 DEF Covered
  <2>9. \A n \in 1..said'[s] : Contains(b, <<s, n>>)
    <3>1. \A n \in 1..said[s] : Contains(a, <<s, n>>)  BY <2>8 DEF Contains
    <3> QED  BY <1>2, <2>2, <3>1
  <2>10. \A c \in closed' : remote'[c] = "gone"  BY <1>3, <1>5, <2>2
  <2>11. \A c \in closed' : \A n \in 1..said'[c] : Contains(b, <<c, n>>)  BY <1>4, <2>2, <2>9
  <2> QED  BY <1>0, <2>10, <2>11 DEF CloseLosesNothing, ClosedIsGone
<1>8. CASE ~ReadClose
  <2>1. closed' = closed
    BY <1>8, WriteStep
    DEF Next, Forwarder, Handler, Client, vars, Emit, TakeLines, FwdTop, FwdTimeout, FwdRecv,
        FwdRecheck, FwdSend, Accept, Handshake, HandshakeFails, Register, ReadText, PassLine,
        FrameDone, ReadWouldBlock, ConnectionLost, LetGo, Connect, ClientReads, ClientCloses,
        ClientVanishes, ClientSends
  <2> QED  BY <1>6, <2>1
<1> QED  BY <1>7, <1>8

-----------------------------------------------------------------------------
(* The server *)

\* Nobody has connected.
LEMMA InvInitial == Init => WsInv
<1> SUFFICES ASSUME Init PROVE WsInv
  OBVIOUS
<1>1. WsType  BY TypeInitial
<1>2. \A c \in Clients : Waits(c) /\ ~Registered(c)
  BY WsAssumption DEF Init, Waits, Registered, Clients
<1>3. Connections  BY <1>2, EmptyFacts DEF Init, Connections
<1>4. \A c \in Clients : Has(c) = {}  BY EmptyFacts DEF Init, Has
<1>5. Outgoing  BY <1>4, EmptyFacts DEF Init, Outgoing, InHand
<1>6. Len(<<>>) <= SockCap  BY WsAssumption, EmptyFacts
<1>7. Path(<<>>, <<>>, <<>>, <<>>)  BY EmptyFacts DEF Path, Below
<1>8. Delivery  BY <1>2, <1>4, <1>6, <1>7 DEF Init, Delivery, DeliveryTo
<1>9. Following  BY DEF Init, Following
<1>10. Inbound  BY EmptyFacts DEF Init, Inbound
<1>11. Arrived = <<>>
  <2>1. PICK e : e = <<>>  OBVIOUS
  <2>2. e \in Seq(Lines)  BY <2>1, EmptyFacts
  <2>3. e \o <<>> = e  BY <2>2, ConcatEmptySeq
  <2> QED  BY <2>1, <2>3 DEF Init, Arrived
<1>12. OfServed /\ LinesInOrder  BY <1>11, EmptyFacts DEF OfServed, LinesInOrder
<1>13. CloseLosesNothing /\ ClosedIsGone  BY DEF Init, CloseLosesNothing, ClosedIsGone
<1> QED  BY <1>1, <1>3, <1>5, <1>8, <1>9, <1>10, <1>12, <1>13 DEF WsInv

\* The accept thread, the forwarder and the clients keep the queues, buffers
\* and frames between them in the states that the promises below build on.
THEOREM WsInvariant == Spec => []WsInv
<1>1. WsInv /\ [Next]_vars => WsInv'
  BY TypeNext, PlacesNext, DeliveryNext, OutgoingNext, InboundNext, FollowingNext, OfServedNext,
     LinesInOrderNext, ClosedNext
  DEF WsInv
<1> QED  BY InvInitial, <1>1, PTL DEF Spec

\* The lines of a client reach WsIn in the order sent, without blanks and
\* without gaps, and those of an earlier connection before those of a later.
THEOREM LinesArriveInOrder == Spec => []LinesInOrder
<1>1. WsInv => LinesInOrder  BY DEF WsInv
<1> QED  BY <1>1, WsInvariant, PTL

\* When the handler returns on a Close frame, everything the client had sent
\* has gone to in_tx.
THEOREM CloseIsClean == Spec => []CloseLosesNothing
<1>1. WsInv => CloseLosesNothing  BY DEF WsInv
<1> QED  BY <1>1, WsInvariant, PTL

\* Whatever the registrations, the WouldBlocks and the connections that end: a
\* client reads the greeting and then messages in the order of WsOut::send,
\* and no two clients read the same message.
THEOREM ClientsReadInOrder == Spec => []DeliveredInOrder
<1>1. WsInv => DeliveredInOrder
  <2> SUFFICES ASSUME WsInv PROVE DeliveredInOrder
    OBVIOUS
  <2> USE DEF WsInv
  <2>1. ASSUME NEW c \in Clients, NEW i \in 1..Len(received[c])
        PROVE  /\ (i = 1) = (received[c][i] = Greeting)
               /\ i > 1 => received[c][i] > received[c][i - 1]
               /\ i > 1 => received[c][i] # Greeting
    <3>1. PICK r : r = received[c]  OBVIOUS
    <3>2. r \in Seq(Posts) /\ DOMAIN r = 1..Len(r) /\ Len(r) \in Nat
      BY <3>1, LenProperties DEF WsType
    <3>3. \A j \in 1..Len(r) : r[j] \in Int
      <4>1. \A j \in 1..Len(r) : r[j] \in Posts  BY <3>2, ElementOfSeq
      <4> QED  BY <4>1 DEF Posts, Msgs, Greeting
    <3>4. Rising(r) /\ (r # <<>> => r[1] = Greeting)
      BY <3>1 DEF Delivery, DeliveryTo, Path
    <3>5. i \in 1..Len(r) /\ 1 \in 1..Len(r)  BY <3>1, <3>2
    <3>6. r[1] = Greeting  BY <3>4, <3>5, EmptyFacts
    <3>7. CASE i = 1  BY <3>1, <3>6, <3>7
    <3>8. CASE i # 1
      <4>1. 1 < i /\ i - 1 \in 1..Len(r) /\ i - 1 < i  BY <3>2, <3>5, <3>8
      <4>2. r[1] < r[i] /\ r[i - 1] < r[i]  BY <3>2, <3>4, <3>5, <4>1 DEF Rising
      <4>3. r[i] # Greeting  BY <3>3, <3>5, <3>6, <4>2
      <4>4. r[i] > r[i - 1]  BY <3>3, <3>5, <4>1, <4>2
      <4> QED  BY <3>1, <3>8, <4>3, <4>4
    <3> QED  BY <3>7, <3>8
  <2>2. ASSUME NEW c \in Clients, NEW d \in Clients, c # d, NEW i \in 2..Len(received[c])
        PROVE  ~Contains(received[d], received[c][i])
    <3>1. PICK r, q : r = received[c] /\ q = received[d]  OBVIOUS
    <3>2. DOMAIN r = 1..Len(r) /\ DOMAIN q = 1..Len(q) /\ Len(r) \in Nat
      BY <3>1, LenProperties DEF WsType
    <3>3. i \in 1..Len(r) /\ i > 1  BY <3>1, <3>2
    <3>4. r[i] \in Has(c) /\ r[i] # Greeting
      <4>1. r[i] \in Range(r)  BY <3>2, <3>3 DEF Range
      <4> QED  BY <2>1, <3>1, <3>3, <4>1 DEF Has
    <3>5. r[i] \notin Has(d)  BY <2>2, <3>4 DEF Outgoing
    <3>6. r[i] \notin Range(q)  BY <3>1, <3>5 DEF Has
    <3> QED  BY <3>1, <3>2, <3>6 DEF Contains, Range
  <2> QED  BY <2>1, <2>2 DEF DeliveredInOrder
<1> QED  BY <1>1, WsInvariant, PTL

=============================================================================
