---------------------------- MODULE RingChannel ----------------------------
(***************************************************************************)
(* InternalChannel of src/src/channel.rs: a single-producer single-consumer*)
(* byte ring (RingBuffer) and the file descriptor that wakes its reader    *)
(* (Clock), with the writer's send loop and the two loops that read rings. *)
(*                                                                         *)
(* Every access to a variable both threads touch is a step of its own: the *)
(* writer's load of tail, each byte it stores, its store of head and its   *)
(* write(2) to the clock; the reader's poll(2), its read(2) of the clock,  *)
(* its load of head, each byte it loads and its store of tail.  The code's *)
(* Acquire/Release pairs make this interleaving exact as long as no byte   *)
(* is written and read at once, which is the invariant NoDataRace.         *)
(***************************************************************************)
EXTENDS Integers, Sequences

CONSTANTS
    Messages,    \* the texts send is called with
    Size,        \* their length in bytes, a function on Messages
    Prefix,      \* bytes of the length prefix: 4
    Capacity,    \* bytes in the ring: 65536 for the DAG, 2^20 for the FFI
    Modulus,     \* head and tail are u32: 2^32
    MaxAttempts, \* pushes a send tries before it drops the message: 20
    ClockKind,   \* "eventfd" on Linux, "pipe" on macOS and iOS
    PipeSize,    \* bytes the kernel's pipe buffer holds
    ReadSize,    \* bytes Clock::consume reads at most: 8
    ReaderKind,  \* "node": Dag node threads; "tick": FFI worker and run()
    MaxSends     \* bound on the number of sends of a behaviour

ASSUME RingAssumption ==
    /\ Prefix \in Nat \ {0}
    /\ Capacity \in Nat \ {0}
    /\ Size \in [Messages -> Nat]
    \* a text is its bytes: there is only one empty text
    /\ \A m, n \in Messages : Size[m] = 0 /\ Size[n] = 0 => m = n
    /\ Modulus \in Nat \ {0}
    /\ Modulus % Capacity = 0   \* both capacities are powers of two
    /\ Capacity < Modulus
ASSUME LoopAssumption ==
    /\ MaxAttempts \in Nat \ {0}
    /\ PipeSize \in Nat \ {0}
    /\ ReadSize \in Nat \ {0}
    /\ MaxSends \in Nat
    /\ ClockKind \in {"eventfd", "pipe"}
    /\ ReaderKind \in {"node", "tick"}

VARIABLES
    buf, head, tail,             \* the ring
    clock,                       \* what the fd holds; readable iff > 0
    wpc, wmsg, woff, attempt,    \* the writer inside send
    rpc, roff, rcells,           \* the reader inside its loop and pop
    sent,       \* history: messages pushed, each with its absolute position
    received,   \* history: what recv returned
    wpos, rpos, \* history: bytes ever published and ever freed
    sends       \* number of sends begun

ringVars == <<buf, head, tail>>
writerVars == <<wpc, wmsg, woff, attempt, sends>>
readerVars == <<rpc, roff, rcells>>
historyVars == <<sent, received, wpos, rpos>>
vars == <<ringVars, clock, writerVars, readerVars, historyVars>>
-----------------------------------------------------------------------------
Frame(m) == Prefix + Size[m]

\* Byte i of the frame of m: the length prefix, then the text.
FrameByte(m, i) ==
    IF i < Prefix THEN <<"len", Size[m], i>> ELSE <<"data", m, i - Prefix>>

Bytes == UNION {{FrameByte(m, i) : i \in 0..(Frame(m) - 1)} : m \in Messages}
Zero == <<"zero", 0, 0>>
Corrupt == <<"corrupt">>

\* u32::from_le_bytes of the prefix; a ring never read before is all zeros.
PrefixLength(cells) == IF cells[1][1] = "len" THEN cells[1][2] ELSE 0

\* The text recv returns: some message, if the cells read are its frame.
Text(cells) ==
    IF \E m \in Messages : cells = [i \in 1..Frame(m) |-> FrameByte(m, i - 1)]
    THEN CHOOSE m \in Messages :
            cells = [i \in 1..Frame(m) |-> FrameByte(m, i - 1)]
    ELSE Corrupt

Wrap(n) == n % Modulus            \* u32 arithmetic of a release build
Idx(n) == Wrap(n) % Capacity      \* ((head + i) % capacity) as usize
Used == Wrap(head - tail)         \* head.wrapping_sub(tail)
Free == Capacity - Used

Init ==
    /\ buf = [i \in 0..(Capacity - 1) |-> Zero]
    /\ head = 0 /\ tail = 0
    /\ clock = 0
    /\ wpc = "idle" /\ wmsg \in Messages /\ woff = 0 /\ attempt = 0
    /\ rpc = "poll" /\ roff = 0 /\ rcells = <<>>
    /\ sent = <<>> /\ received = <<>>
    /\ wpos = 0 /\ rpos = 0
    /\ sends = 0
-----------------------------------------------------------------------------
(* Clock. The kernel's side of write(2) and read(2) on the two kinds of fd. *)

\* A one-byte write adds a byte to a pipe with room; an eventfd refuses a
\* write shorter than its 8-byte counter (EINVAL) and does not change.
Signalled(c) ==
    IF ClockKind = "pipe" /\ c < PipeSize THEN c + 1 ELSE c

\* A read takes up to ReadSize bytes of a pipe, or resets an eventfd.
Consumed(c) ==
    IF ClockKind = "pipe" /\ c > ReadSize THEN c - ReadSize ELSE 0
-----------------------------------------------------------------------------
(* The writer: ChannelWriter::send and RingBuffer::push. *)

Send(m) ==
    /\ wpc = "idle" /\ sends < MaxSends
    /\ wpc' = "load" /\ wmsg' = m /\ attempt' = 0 /\ sends' = sends + 1
    /\ UNCHANGED <<ringVars, clock, woff, readerVars, historyVars>>

\* Faulty variant: room is checked for the text without its prefix.
PushLoadNoPrefix ==
    /\ wpc = "load"
    /\ wpc' = IF Size[wmsg] > Free THEN "backoff" ELSE "write"
    /\ woff' = 0
    /\ UNCHANGED <<ringVars, clock, wmsg, attempt, sends, readerVars, historyVars>>

PushLoad ==
    /\ wpc = "load"
    /\ wpc' = IF Frame(wmsg) > Free THEN "backoff" ELSE "write"
    /\ woff' = 0
    /\ UNCHANGED <<ringVars, clock, wmsg, attempt, sends, readerVars, historyVars>>

PushByte ==
    /\ wpc = "write" /\ woff < Frame(wmsg)
    /\ buf' = [buf EXCEPT ![Idx(head + woff)] = FrameByte(wmsg, woff)]
    /\ woff' = woff + 1
    /\ UNCHANGED <<head, tail, clock, wpc, wmsg, attempt, sends, readerVars,
                   historyVars>>

PushStore ==
    /\ wpc = "write" /\ woff = Frame(wmsg)
    /\ head' = Wrap(head + Frame(wmsg))
    /\ wpc' = "signal"
    /\ sent' = Append(sent, [msg |-> wmsg, at |-> wpos])
    /\ wpos' = wpos + Frame(wmsg)
    /\ UNCHANGED <<buf, tail, clock, wmsg, woff, attempt, sends, readerVars,
                   received, rpos>>

\* Faulty variant: send returns without signalling.
SignalForgotten ==
    /\ wpc = "signal"
    /\ wpc' = "idle"
    /\ UNCHANGED <<ringVars, clock, wmsg, woff, attempt, sends, readerVars, historyVars>>

Signal ==
    /\ wpc = "signal"
    /\ clock' = Signalled(clock)
    /\ wpc' = "idle"
    /\ UNCHANGED <<ringVars, wmsg, woff, attempt, sends, readerVars, historyVars>>

\* Faulty variant: the retry is not bounded.
BackoffForever ==
    /\ wpc = "backoff"
    /\ wpc' = "load"
    /\ UNCHANGED <<ringVars, clock, wmsg, woff, attempt, sends, readerVars, historyVars>>

\* Faulty variant: the last attempt overwrites what is unread.
BackoffOverwrites ==
    /\ wpc = "backoff"
    /\ attempt' = attempt + 1
    /\ wpc' = IF attempt + 1 < MaxAttempts THEN "load" ELSE "write"
    /\ UNCHANGED <<ringVars, clock, wmsg, woff, sends, readerVars, historyVars>>

\* Sleep, then the next attempt; after the last one the message is dropped.
Backoff ==
    /\ wpc = "backoff"
    /\ attempt' = attempt + 1
    /\ wpc' = IF attempt + 1 < MaxAttempts THEN "load" ELSE "idle"
    /\ UNCHANGED <<ringVars, clock, wmsg, woff, sends, readerVars, historyVars>>

Writer ==
    \/ PushLoad \/ PushByte \/ PushStore \/ Signal \/ Backoff
-----------------------------------------------------------------------------
(* The reader. A node thread polls, consumes the clock, then drains; the   *)
(* tick loop polls and drains, whatever poll said, and consumes nothing.   *)

PollReady ==
    /\ rpc = "poll" /\ clock > 0
    /\ rpc' = IF ReaderKind = "node" THEN "consume" ELSE "load"
    /\ UNCHANGED <<ringVars, clock, writerVars, roff, rcells, historyVars>>

PollTimeout ==
    /\ rpc = "poll" /\ clock = 0
    /\ rpc' = IF ReaderKind = "node" THEN "poll" ELSE "load"
    /\ UNCHANGED <<ringVars, clock, writerVars, roff, rcells, historyVars>>

\* Faulty variant: the clock is left readable.
ConsumeNothing ==
    /\ rpc = "consume"
    /\ rpc' = "load"
    /\ UNCHANGED <<ringVars, clock, writerVars, roff, rcells, historyVars>>

Consume ==
    /\ rpc = "consume"
    /\ clock' = Consumed(clock)
    /\ rpc' = "load"
    /\ UNCHANGED <<ringVars, writerVars, roff, rcells, historyVars>>

PopLoad ==
    /\ rpc = "load"
    /\ rpc' = IF tail = head THEN "poll" ELSE "read"
    /\ roff' = 0 /\ rcells' = <<>>
    /\ UNCHANGED <<ringVars, clock, writerVars, historyVars>>

\* Bytes pop still has to read: the prefix first, then what it announces.
FrameRead ==
    /\ Len(rcells) >= Prefix
    /\ roff = Prefix + PrefixLength(rcells)

PopByte ==
    /\ rpc = "read" /\ ~FrameRead
    /\ rcells' = Append(rcells, buf[Idx(tail + roff)])
    /\ roff' = roff + 1
    /\ UNCHANGED <<ringVars, clock, writerVars, rpc, historyVars>>

\* Faulty variant: one message per wakeup instead of draining the ring.
PopStoreOnce ==
    /\ rpc = "read" /\ FrameRead
    /\ tail' = Wrap(tail + roff)
    /\ received' = Append(received, Text(rcells))
    /\ rpos' = rpos + roff
    /\ rpc' = "poll"
    /\ UNCHANGED <<buf, head, clock, writerVars, roff, rcells, sent, wpos>>

PopStore ==
    /\ rpc = "read" /\ FrameRead
    /\ tail' = Wrap(tail + roff)
    /\ received' = Append(received, Text(rcells))
    /\ rpos' = rpos + roff
    /\ rpc' = "load"
    /\ UNCHANGED <<buf, head, clock, writerVars, roff, rcells, sent, wpos>>

Reader ==
    \/ PollReady \/ PollTimeout \/ Consume \/ PopLoad \/ PopByte \/ PopStore
-----------------------------------------------------------------------------
Next ==
    \/ \E m \in Messages : Send(m)
    \/ Writer
    \/ Reader

Spec == Init /\ [][Next]_vars

\* Both threads are scheduled by the OS: neither stops between two steps.
FairSpec == Spec /\ WF_vars(Writer) /\ WF_vars(Reader)

\* The reader's thread may be stuck in a script or have died.
WriterFairSpec == Spec /\ WF_vars(Writer)
-----------------------------------------------------------------------------
TypeOK ==
    /\ buf \in [0..(Capacity - 1) -> Bytes \cup {Zero}]
    /\ head \in 0..(Modulus - 1) /\ tail \in 0..(Modulus - 1)
    /\ clock \in 0..PipeSize
    /\ wpc \in {"idle", "load", "write", "signal", "backoff"}
    /\ wmsg \in Messages /\ woff \in Nat /\ attempt \in 0..MaxAttempts
    /\ rpc \in {"poll", "consume", "load", "read"}
    /\ roff \in Nat /\ rcells \in Seq(Bytes \cup {Zero})
    /\ sent \in Seq([msg : Messages, at : Nat])
    /\ received \in Seq(Messages \cup {Corrupt})
    /\ wpos \in Nat /\ rpos \in Nat /\ sends \in 0..MaxSends

SentMessages == [k \in 1..Len(sent) |-> sent[k].msg]

\* push's SAFETY comment, "we never overwrite unread data": the byte the
\* writer is about to store is none of the bytes the reader may still load.
NoDataRace ==
    wpc = "write" /\ woff < Frame(wmsg) =>
        \A j \in 0..(Used - 1) : Idx(tail + j) # Idx(head + woff)

\* The counters of push and pop agree with the bytes really in the ring,
\* also after head and tail have wrapped past u32::MAX at different times.
UsedIsExact ==
    /\ Used = wpos - rpos
    /\ Used <= Capacity

\* What recv returns are the texts send accepted, whole and in order.
FifoDelivery ==
    /\ Len(received) <= Len(sent)
    /\ \A k \in 1..Len(received) : received[k] = sent[k].msg

\* A reader parked in poll(2) over a non-empty ring is about to be woken:
\* its clock is readable or the writer has its signal still to write.
NoLostWakeup ==
    rpc = "poll" /\ head # tail => clock > 0 \/ wpc = "signal"

-----------------------------------------------------------------------------
(* The inductive invariant behind the three ring properties. It places the *)
(* frames at absolute positions, where the counters do not wrap.           *)

\* The position after the frame of the k-th message sent.
End(k) == sent[k].at + Frame(sent[k].msg)

Positions ==
    /\ head = Wrap(wpos) /\ tail = Wrap(rpos)
    /\ rpos <= wpos /\ wpos - rpos <= Capacity

\* Frames lie end to end; the reader stands at the start of the next one.
Layout ==
    /\ \A k \in 1..Len(sent) :
        /\ End(k) <= wpos
        /\ k < Len(sent) => End(k) = sent[k + 1].at
        /\ k = Len(sent) => End(k) = wpos
        /\ \A j \in 1..(k - 1) : End(j) <= sent[k].at
    /\ Len(received) < Len(sent) => rpos = sent[Len(received) + 1].at
    /\ Len(received) = Len(sent) => rpos = wpos

\* The ring holds every byte of every message not yet received.
Stored ==
    \A k \in (Len(received) + 1)..Len(sent) :
        \A i \in 0..(Frame(sent[k].msg) - 1) :
            buf[(sent[k].at + i) % Capacity] = FrameByte(sent[k].msg, i)

Writing ==
    /\ wpc # "idle" => attempt < MaxAttempts
    /\ wpc = "write" =>
        /\ wpos - rpos + Frame(wmsg) <= Capacity
        /\ woff <= Frame(wmsg)
        /\ \A i \in 0..(woff - 1) :
            buf[(wpos + i) % Capacity] = FrameByte(wmsg, i)

Reading ==
    rpc = "read" =>
        /\ Len(received) < Len(sent)
        /\ roff = Len(rcells)
        /\ roff <= Frame(sent[Len(received) + 1].msg)
        /\ \A i \in 1..roff :
            rcells[i] = FrameByte(sent[Len(received) + 1].msg, i - 1)

\* Both threads are where the absolute positions say, and every unread byte
\* is the byte that was sent.
RingInv ==
    /\ TypeOK
    /\ Positions
    /\ Layout
    /\ Stored
    /\ Writing
    /\ Reading
    /\ FifoDelivery

-----------------------------------------------------------------------------
\* Every accepted message is eventually returned by recv.
Delivered ==
    \A n \in 1..MaxSends : Len(sent) >= n ~> Len(received) >= n

\* send returns, after its bounded retry at the latest, also when its text
\* never fits or no one drains the ring.
SendReturns == wpc # "idle" ~> wpc = "idle"

\* A reader with nothing to do blocks in poll(2) again and again.
BlocksWhenIdle == []<>(rpc = "poll" /\ clock = 0)

Fifo == INSTANCE FifoChannel WITH accepted <- SentMessages, taken <- received

\* The ring implements the FIFO of whole messages.
ImplementsFifo == Fifo!Spec
=============================================================================
