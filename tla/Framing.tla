------------------------------- MODULE Framing -------------------------------
(***************************************************************************)
(* How packets travel over a stream (meshwrapper/stream_interface.go):      *)
(* writeMessage puts a header of four bytes before each, and the parser of  *)
(* readMessage finds them again between the debug text of a device.         *)
(*                                                                          *)
(* Both ends of a stream speak this protocol.  Here several goroutines use  *)
(* writeMessage at one end, and readMessages of connected_node.go reads     *)
(* what they wrote at the other.                                            *)
(*                                                                          *)
(* A byte is a small number; START1 and START2 are two of them.  A packet   *)
(* is the sequence of bytes that proto.Marshal returns.  On the wire a byte *)
(* carries the number of the frame it belongs to and its place in it, which *)
(* nobody reads.                                                            *)
(***************************************************************************)
EXTENDS Integers, Sequences

CONSTANTS Writers,    \* goroutines that send
          Packets,    \* what they send
          Noise,      \* the bytes of debug text
          Base,       \* the number of bytes there are (256)
          START1, START2,
          MAX_SIZE,
          MaxFrames,  \* bound: how many frames are sent
          MaxNoise,   \* bound: how many bytes of debug text are sent
          MaxErrors   \* bound: how often reading fails

Bytes == 0..(Base - 1)

ASSUME FramingAssumption ==
    /\ {START1, START2} \subseteq Bytes /\ START1 # START2
    /\ {Base, MAX_SIZE, MaxFrames, MaxNoise, MaxErrors} \subseteq Nat
    /\ MAX_SIZE < Base * Base
    /\ \A m \in Packets : m \in Seq(Bytes) /\ Len(m) < Base * Base
    /\ Noise \subseteq Bytes \ {START1}

None == 0
Body == 4

VARIABLES
    writing,    \* the frame whose header each writer has written, or None
    wire,       \* bytes on their way
    open,       \* whether the writing end is open
    state,      \* readMessage's state, and Body once it has left the loop
    length,     \* the length it has found
    body,       \* what it has read of the packet so far
    received,   \* the packets readMessage returned
    reading,    \* whether readMessages is in its loop
    sent,       \* history: the packets, in the order of their headers
    at,         \* history: the frame the last byte read belongs to
    spoiled,    \* history: frames during which reading failed
    torn,       \* history: the frames that were written into one another
    noises, errors  \* how many there were

writerVars == <<writing, sent, torn>>
parserVars == <<state, length, body>>
vars == <<writerVars, parserVars, wire, open, received, reading, at, spoiled,
          noises, errors>>

Init ==
    /\ writing = [w \in Writers |-> None]
    /\ wire = <<>>
    /\ open = TRUE
    /\ state = 0 /\ length = 0 /\ body = <<>>
    /\ received = <<>>
    /\ reading = TRUE
    /\ sent = <<>>
    /\ at = None
    /\ spoiled = {}
    /\ torn = {}
    /\ noises = 0 /\ errors = 0

-----------------------------------------------------------------------------
(* Writing                                                                  *)

\* A part of frame f that follows its first n bytes.
Tagged(bytes, f, n) ==
    [p \in 1..Len(bytes) |-> [byte |-> bytes[p], frame |-> f, place |-> n + p]]

InBody == {w \in Writers : writing[w] # None}

Header(m) == <<START1, START2, Len(m) \div Base, Len(m) % Base>>

\* The first of two calls of Write.
WriteHeader(w) ==
    /\ open
    /\ writing[w] = None
    /\ Len(sent) < MaxFrames
    /\ \E m \in Packets :
        /\ sent' = Append(sent, m)
        /\ wire' = wire \o Tagged(Header(m), Len(sent'), 0)
    /\ writing' = [writing EXCEPT ![w] = Len(sent')]
    /\ torn' = IF InBody = {} THEN torn
               ELSE torn \union {Len(sent')} \union {writing[v] : v \in InBody}
    /\ UNCHANGED <<open, parserVars, received, reading, at, spoiled,
                   noises, errors>>

\* The second.
WriteBody(w) ==
    /\ open
    /\ writing[w] # None
    /\ wire' = wire \o Tagged(sent[writing[w]], writing[w], 4)
    /\ writing' = [writing EXCEPT ![w] = None]
    /\ UNCHANGED <<sent, torn, open, parserVars, received, reading, at, spoiled,
                   noises, errors>>

\* A device prints debug text between its frames.
WriteNoise ==
    /\ open
    /\ InBody = {}
    /\ noises < MaxNoise
    /\ noises' = noises + 1
    /\ \E b \in Noise : wire' = Append(wire, [byte |-> b, frame |-> None, place |-> 0])
    /\ UNCHANGED <<writerVars, open, parserVars, received, reading, at, spoiled,
                   errors>>

\* The writing end goes away, perhaps between the two.
Close ==
    /\ open
    /\ open' = FALSE
    /\ UNCHANGED <<writerVars, wire, parserVars, received, reading, at, spoiled,
                   noises, errors>>

-----------------------------------------------------------------------------
(* Reading                                                                  *)

Search(s, n) == state' = s /\ length' = n /\ body' = <<>>

\* Where the parser goes from each state when it reads b.
Start(b) ==
    /\ state = 0
    /\ Search(IF b = START1 THEN 1 ELSE 0, 0)

Second(b) ==
    /\ state = 1
    /\ Search(IF b = START2 THEN 2 ELSE 0, 0)

High(b) ==
    /\ state = 2
    /\ Search(3, b * Base)

\* Mutant: the size is not checked.
TooBig_Unchecked(n) == FALSE

TooBig(n) == n > MAX_SIZE

Low(b) ==
    /\ state = 3
    /\ LET n == length + b
       IN  IF TooBig(n) \/ n = 0 THEN Search(0, 0) ELSE Search(Body, n)

\* io.ReadFull has not got all it wants.
Part(c) ==
    /\ state = Body
    /\ Len(body) + 1 < length
    /\ body' = Append(body, c)
    /\ UNCHANGED <<state, length>>

\* readMessage returns a packet, and is called again.
Whole(c) ==
    /\ state = Body
    /\ Len(body) + 1 = length
    /\ received' = Append(received, Append(body, c))
    /\ Search(0, 0)

ReadByte ==
    /\ reading
    /\ wire # <<>>
    /\ LET c == Head(wire)
       IN  \/ (Start(c.byte) \/ Second(c.byte) \/ High(c.byte) \/ Low(c.byte) \/ Part(c))
              /\ UNCHANGED received
           \/ Whole(c)
    /\ wire' = Tail(wire)
    /\ at' = Head(wire).frame
    /\ UNCHANGED <<writerVars, open, reading, spoiled, noises, errors>>

\* Mutant: the next call of readMessage goes on where the last one failed.
Restart_Resumes == UNCHANGED parserVars

\* readMessage begins anew.
Restart == Search(0, 0)

Left(f) == {p \in 1..Len(wire) : wire[p].frame = f}

\* An error other than EOF: readMessages continues with the next byte, which
\* may be in the middle of a frame.
ReadFails ==
    /\ reading
    /\ errors < MaxErrors
    /\ errors' = errors + 1
    /\ Restart
    /\ spoiled' = spoiled \union (IF state = 0 THEN {} ELSE {at})
    /\ UNCHANGED <<writerVars, wire, open, received, reading, at, noises>>

\* Mutant: EOF within a packet is an error like others.
ReadEof_Between ==
    /\ reading
    /\ wire = <<>>
    /\ ~open
    /\ state # Body
    /\ reading' = FALSE
    /\ UNCHANGED <<writerVars, wire, open, parserVars, received, at, spoiled,
                   noises, errors>>

\* EOF, or EOF within a packet: the loop ends.
ReadEof ==
    /\ reading
    /\ wire = <<>>
    /\ ~open
    /\ reading' = FALSE
    /\ UNCHANGED <<writerVars, wire, open, parserVars, received, at, spoiled,
                   noises, errors>>

-----------------------------------------------------------------------------
Writing == (\E w \in Writers : WriteHeader(w) \/ WriteBody(w)) \/ WriteNoise \/ Close

Next == Writing \/ ReadByte \/ ReadFails \/ ReadEof

Spec == Init /\ [][Next]_vars

\* The reader goes on reading.
FairSpec == Spec /\ WF_vars(ReadByte) /\ WF_vars(ReadEof)

-----------------------------------------------------------------------------
(* Properties                                                               *)

Sizes == 1..MAX_SIZE

\* The shape of the state: a packet in the making is shorter than the length
\* that was found for it, and that is within the limit.
TypeOK ==
    /\ writing \in [Writers -> 0..Len(sent)]
    /\ \A p \in 1..Len(wire) : wire[p].byte \in Bytes /\ wire[p].frame \in 0..Len(sent)
    /\ {open, reading} \subseteq BOOLEAN
    /\ torn \subseteq 1..Len(sent)
    /\ state \in 0..Body
    /\ state = Body => length \in Sizes /\ Len(body) < length
    /\ \A i \in 1..Len(received) : Len(received[i]) \in Sizes
    /\ spoiled \subseteq 0..Len(sent)

Deliverable(m) == Len(m) \in Sizes

\* The frames that the reader has seen the end of.
Passed == {f \in 1..Len(sent) : Left(f) = {} /\ \A w \in Writers : writing[w] # f}

Intact == {f \in Passed \ (spoiled \union torn) : Deliverable(sent[f])}

\* The frames whose bytes are searched for a header, in whole or in part.
Searched ==
    (spoiled \ {None}) \union torn \union {f \in 1..Len(sent) : TooBig(Len(sent[f]))}

\* A frame with START1 where no frame starts: in its size or in its packet.
Misleading(f) ==
    \/ START1 \in {Len(sent[f]) \div Base, Len(sent[f]) % Base}
    \/ \E p \in 1..Len(sent[f]) : sent[f][p] = START1

Undisturbed == \A f \in Searched : ~Misleading(f)

\* The packets, without those that hold a byte of a torn frame.
Sound(m) == \A p \in 1..Len(m) : m[p].frame \notin torn

Good == {i \in 1..Len(received) : Sound(received[i])}

Origin(i) == received[i][1].frame

Contents(f) == Tagged(sent[f], f, 4)

\* What readMessage returns are the packets that were written, unchanged and
\* in their order, without any but those that are empty, too big or were
\* struck by an error or written into one another: debug text between them, or
\* START1 and START2 within them, mislead nobody, an error costs one packet,
\* and of frames written into one another none takes a byte of the next
\* (provided no frame that is searched for a header holds a START1).
PacketsInOrder ==
    Undisturbed =>
        /\ \A i \in Good : Origin(i) \in Intact /\ received[i] = Contents(Origin(i))
        /\ \A i, j \in Good : i < j => Origin(i) < Origin(j)
        /\ \A f \in Intact : \E i \in Good : received[i] = Contents(f)

\* Once the other end is gone readMessages returns, at whatever byte the stream
\* ends, and the connection can be made again (connected_node.go:175-178).
ClosedIsNoticed == ~open ~> ~reading
=============================================================================
