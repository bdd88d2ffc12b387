---------------------------- MODULE FramingProofs ----------------------------
(***************************************************************************)
(* Proofs about Framing, for any packets, bytes, sizes and writers, debug  *)
(* text and read errors.                                                   *)
(***************************************************************************)
EXTENDS Framing, TLAPS

Cells == [byte : Bytes, frame : Nat, place : Nat]

\* The size of a packet fits into the two bytes of its header.
LEMMA HeaderIsBytes ==
    ASSUME NEW m \in Packets
    PROVE  Header(m) \in Seq(Bytes) /\ Len(Header(m)) = 4
<1> USE FramingAssumption
<1> DEFINE x == Len(m)
           q == x \div Base
           r == x % Base
<1>1. m \in Seq(Bytes) /\ x \in Nat /\ x < Base * Base
  OBVIOUS
<1>2. Base \in Nat /\ Base > 0
  BY DEF Bytes
<1>3. q \in Int /\ r \in 0..(Base - 1) /\ x = Base * q + r
  BY <1>1, <1>2
<1>4. q >= 0
  <2> SUFFICES ASSUME q <= -1 PROVE FALSE
    BY <1>3
  <2>1. Base * q <= Base * (-1)
    BY <1>2, <1>3
  <2> QED BY <1>1, <1>2, <1>3, <2>1
<1>5. q < Base
  <2> SUFFICES ASSUME q >= Base PROVE FALSE
    BY <1>2, <1>3
  <2>1. Base * q >= Base * Base
    BY <1>2, <1>3
  <2> QED BY <1>1, <1>2, <1>3, <2>1
<1>6. q \in Bytes /\ r \in Bytes
  BY <1>2, <1>3, <1>4, <1>5 DEF Bytes
<1> QED BY <1>6 DEF Header

LEMMA TaggedCells ==
    ASSUME NEW bytes \in Seq(Bytes), NEW f \in Nat, NEW n \in Nat
    PROVE  Tagged(bytes, f, n) \in Seq(Cells) /\ Len(Tagged(bytes, f, n)) = Len(bytes)
  BY DEF Tagged, Cells

\* The shape of the state, as functions and sequences.
TypeInv ==
    /\ sent \in Seq(Packets)
    /\ writing \in [Writers -> 0..Len(sent)]
    /\ wire \in Seq(Cells)
    /\ \A p \in 1..Len(wire) : wire[p].frame <= Len(sent)
    /\ open \in BOOLEAN /\ reading \in BOOLEAN
    /\ torn \subseteq 1..Len(sent)
    /\ state \in 0..Body /\ length \in Nat /\ body \in Seq(Cells)
    /\ state = Body => length \in Sizes /\ Len(body) < length
    /\ received \in Seq(Seq(Cells))
    /\ \A i \in 1..Len(received) : Len(received[i]) \in Sizes
    /\ at \in 0..Len(sent)
    /\ spoiled \subseteq 0..Len(sent)

LEMMA TypeInit == Init => TypeInv
  BY DEF Init, TypeInv, None, Body

LEMMA TypeInvImplies == TypeInv => TypeOK
<1> SUFFICES ASSUME TypeInv PROVE TypeOK
  OBVIOUS
<1>1. \A p \in 1..Len(wire) : wire[p] \in Cells /\ wire[p].frame <= Len(sent)
  BY DEF TypeInv
<1>2. \A p \in 1..Len(wire) : wire[p].byte \in Bytes /\ wire[p].frame \in 0..Len(sent)
  <2> SUFFICES ASSUME NEW p \in 1..Len(wire)
               PROVE  wire[p].byte \in Bytes /\ wire[p].frame \in 0..Len(sent)
    OBVIOUS
  <2>1. wire[p].byte \in Bytes /\ wire[p].frame \in Nat
    BY <1>1 DEF Cells
  <2>2. Len(sent) \in Nat
    BY DEF TypeInv
  <2> QED BY <1>1, <2>1, <2>2
<1> QED BY <1>2 DEF TypeInv, TypeOK

-----------------------------------------------------------------------------
(* Writing                                                                 *)

\* Bytes are put at the end of the stream.
LEMMA Appended ==
    ASSUME NEW w \in Seq(Cells), NEW n \in Nat, NEW m \in Nat, n <= m,
           \A p \in 1..Len(w) : w[p].frame <= n,
           NEW new \in Seq(Cells), \A p \in 1..Len(new) : new[p].frame <= m
    PROVE  w \o new \in Seq(Cells) /\ \A p \in 1..Len(w \o new) : (w \o new)[p].frame <= m
<1>1. Len(w) \in Nat /\ Len(new) \in Nat /\ Len(w \o new) = Len(w) + Len(new)
  OBVIOUS
<1>2. \A p \in 1..Len(w) : w[p].frame \in Nat
  <2>1. \A p \in 1..Len(w) : w[p] \in Cells
    OBVIOUS
  <2> QED BY <2>1 DEF Cells
<1>3. ASSUME NEW p \in 1..Len(w \o new) PROVE (w \o new)[p].frame <= m
  <2>1. CASE p <= Len(w)
    BY <1>1, <1>2, <2>1
  <2>2. CASE p > Len(w)
    BY <1>1, <2>2
  <2> QED BY <1>1, <2>1, <2>2
<1> QED BY <1>3

LEMMA TaggedFrames ==
    ASSUME NEW bytes \in Seq(Bytes), NEW f \in Nat, NEW n \in Nat
    PROVE  \A p \in 1..Len(Tagged(bytes, f, n)) : Tagged(bytes, f, n)[p].frame = f
  BY DEF Tagged

LEMMA HeaderKeeps == ASSUME TypeInv, NEW w \in Writers, WriteHeader(w) PROVE TypeInv'
<1> USE FramingAssumption
<1>1. PICK m \in Packets : /\ sent' = Append(sent, m)
                           /\ wire' = wire \o Tagged(Header(m), Len(sent'), 0)
  BY DEF WriteHeader
<1>2. sent' \in Seq(Packets) /\ Len(sent') = Len(sent) + 1 /\ Len(sent) \in Nat
  BY <1>1 DEF TypeInv
<1>3. Header(m) \in Seq(Bytes)
  BY HeaderIsBytes
<1> DEFINE f == Len(sent')
           new == Tagged(Header(m), f, 0)
<1>4. f \in Nat /\ Len(sent) <= f
  BY <1>2
<1>5. new \in Seq(Cells) /\ \A p \in 1..Len(new) : new[p].frame <= f
  <2>1. /\ new \in Seq(Cells) /\ Len(new) = Len(Header(m))
        /\ \A p \in 1..Len(new) : new[p].frame = f
    <3> HIDE DEF f
    <3> QED BY <1>3, <1>4, 0 \in Nat, TaggedCells, TaggedFrames, Zenon
  <2> HIDE DEF new, f
  <2> QED BY <1>4, <2>1
<1>6. wire' \in Seq(Cells) /\ \A p \in 1..Len(wire') : wire'[p].frame <= f
  <2> HIDE DEF new, f
  <2>1. wire' = wire \o new
    BY <1>1 DEF new, f
  <2>2. wire \in Seq(Cells) /\ \A p \in 1..Len(wire) : wire[p].frame <= Len(sent)
    BY DEF TypeInv
  <2> QED BY <1>2, <1>4, <1>5, <2>1, <2>2, Appended
<1>7. writing' \in [Writers -> 0..Len(sent')]
  BY <1>2, SMTT(30) DEF WriteHeader, TypeInv
<1>8. \A v \in InBody : writing[v] \in 1..Len(sent)
  BY DEF InBody, None, TypeInv
<1>9. torn' \subseteq 1..Len(sent')
  <2>1. torn \subseteq 1..Len(sent) /\ {writing[v] : v \in InBody} \subseteq 1..Len(sent)
    BY <1>8 DEF TypeInv
  <2>2. torn' \subseteq torn \union {Len(sent')} \union {writing[v] : v \in InBody}
    BY DEF WriteHeader
  <2>3. 1..Len(sent) \subseteq 1..Len(sent') /\ Len(sent') \in 1..Len(sent')
    BY <1>2
  <2> HIDE DEF f, new
  <2> QED BY <2>1, <2>2, <2>3
<1>10. UNCHANGED <<open, state, length, body, received, reading, at, spoiled>>
  BY DEF WriteHeader, parserVars
<1>11. at' \in 0..Len(sent') /\ spoiled' \subseteq 0..Len(sent')
  BY <1>2, <1>10, SMTT(30) DEF TypeInv
<1> HIDE DEF f, new
<1> QED BY <1>2, <1>6, <1>7, <1>9, <1>10, <1>11 DEF TypeInv, f

LEMMA BodyKeeps == ASSUME TypeInv, NEW w \in Writers, WriteBody(w) PROVE TypeInv'
<1> USE FramingAssumption
<1> DEFINE f == writing[w]
           new == Tagged(sent[f], f, 4)
<1>1. f \in 1..Len(sent) /\ f \in Nat /\ f <= Len(sent) /\ Len(sent) \in Nat
  BY SMTT(30) DEF WriteBody, None, TypeInv
<1>2. sent[f] \in Seq(Bytes)
  BY <1>1, SMTT(30) DEF TypeInv
<1>3. new \in Seq(Cells) /\ \A p \in 1..Len(new) : new[p].frame <= Len(sent)
  BY <1>1, <1>2, TaggedCells, TaggedFrames, SMTT(30)
<1>4. wire' \in Seq(Cells) /\ \A p \in 1..Len(wire') : wire'[p].frame <= Len(sent)
  <2>1. wire' = wire \o new
    BY DEF WriteBody
  <2>2. wire \in Seq(Cells) /\ \A p \in 1..Len(wire) : wire[p].frame <= Len(sent)
    BY DEF TypeInv
  <2> HIDE DEF new, f
  <2> QED BY <1>1, <1>3, <2>1, <2>2, Appended
<1>5. writing' \in [Writers -> 0..Len(sent)]
  BY <1>1 DEF WriteBody, None, TypeInv
<1>6. UNCHANGED <<sent, torn, open, state, length, body, received, reading, at, spoiled>>
  BY DEF WriteBody, parserVars
<1> QED BY <1>4, <1>5, <1>6 DEF TypeInv

LEMMA NoiseKeeps == ASSUME TypeInv, WriteNoise PROVE TypeInv'
<1> USE FramingAssumption
<1>1. PICK b \in Noise : wire' = Append(wire, [byte |-> b, frame |-> None, place |-> 0])
  BY DEF WriteNoise
<1> DEFINE c == [byte |-> b, frame |-> None, place |-> 0]
<1>2. c \in Cells /\ c.frame = 0
  BY DEF Cells, None
<1>3. wire' \in Seq(Cells) /\ \A p \in 1..Len(wire') : wire'[p].frame <= Len(sent)
  <2>1. wire \in Seq(Cells) /\ Len(sent) \in Nat /\ \A p \in 1..Len(wire) : wire[p].frame <= Len(sent)
    BY DEF TypeInv
  <2> HIDE DEF c
  <2>2. wire' = Append(wire, c)
    BY <1>1 DEF c
  <2> QED BY <1>2, <2>1, <2>2
<1>4. UNCHANGED <<writing, sent, torn, open, state, length, body, received, reading, at, spoiled>>
  BY DEF WriteNoise, writerVars, parserVars
<1> QED BY <1>3, <1>4 DEF TypeInv

-----------------------------------------------------------------------------
(* Reading                                                                 *)

LEMMA ByteKeeps == ASSUME TypeInv, ReadByte PROVE TypeInv'
<1> USE FramingAssumption
<1> DEFINE c == Head(wire)
<1> USE DEF Search, Body
<1>1. wire # <<>> /\ wire \in Seq(Cells) /\ Len(sent) \in Nat
  BY DEF ReadByte, TypeInv
<1>2. /\ c \in Cells /\ c = wire[1] /\ 1 \in 1..Len(wire) /\ Tail(wire) \in Seq(Cells)
      /\ Len(Tail(wire)) = Len(wire) - 1
      /\ \A p \in 1..Len(Tail(wire)) : Tail(wire)[p] = wire[p + 1] /\ p + 1 \in 1..Len(wire)
  BY <1>1
<1>3. c.byte \in Bytes /\ c.frame \in 0..Len(sent)
  <2>1. c.frame <= Len(sent)
    BY <1>2 DEF TypeInv
  <2> QED BY <1>1, <1>2, <2>1 DEF Cells
<1>4. wire' = Tail(wire) /\ at' = c.frame
  BY DEF ReadByte
<1>5. \A p \in 1..Len(wire') : wire'[p].frame <= Len(sent)
  BY <1>2, <1>4 DEF TypeInv
<1>6. UNCHANGED <<writing, sent, torn, open, reading, spoiled>>
  BY DEF ReadByte, writerVars
<1>7. /\ state' \in 0..Body /\ length' \in Nat /\ body' \in Seq(Cells)
      /\ state' = Body => length' \in Sizes /\ Len(body') < length'
      /\ received' \in Seq(Seq(Cells))
      /\ \A i \in 1..Len(received') : Len(received'[i]) \in Sizes
  <2>1. CASE Start(c.byte) \/ Second(c.byte)
    <3>1. state # Body /\ received' = received
      BY <2>1 DEF ReadByte, Start, Second, Whole
    <3>2. state' \in {0, 1, 2} /\ length' = 0 /\ body' = <<>>
      BY <2>1 DEF Start, Second
    <3> QED BY <3>1, <3>2 DEF TypeInv
  <2>2. CASE High(c.byte)
    <3>1. c.byte * Base \in Nat
      BY <1>3 DEF Bytes
    <3> QED BY <2>2, <3>1 DEF ReadByte, High, Whole, TypeInv
  <2>3. CASE Low(c.byte)
    <3>1. length + c.byte \in Nat
      <4>1. length \in Nat
        BY DEF TypeInv
      <4>2. c.byte \in Nat
        BY <1>3 DEF Bytes
      <4> HIDE DEF c
      <4> QED BY <4>1, <4>2
    <3>2. length + c.byte # 0 /\ ~TooBig(length + c.byte) => length + c.byte \in Sizes
      BY <3>1 DEF TooBig, Sizes
    <3>3. received' = received
      BY <2>3 DEF ReadByte, Low, Whole
    <3>4. body' = <<>> /\ Len(body') = 0
      BY <2>3 DEF Low
    <3>5. (state' = 0 /\ length' = 0) \/ (state' = Body /\ length' = length + c.byte /\ length' \in Sizes)
      BY <2>3, <3>2 DEF Low
    <3>6. \A n \in Sizes : n > 0
      BY DEF Sizes
    <3> QED BY <3>1, <3>3, <3>4, <3>5, <3>6, SMTT(30) DEF TypeInv
  <2>4. CASE Part(c)
    BY <1>2, <2>4 DEF ReadByte, Part, Whole, TypeInv
  <2>5. CASE Whole(c)
    <3>1. Append(body, c) \in Seq(Cells) /\ Len(Append(body, c)) = length /\ length \in Sizes
      BY <1>2, <2>5 DEF Whole, TypeInv
    <3>2. received' = Append(received, Append(body, c))
      BY <2>5 DEF Whole
    <3>3. received \in Seq(Seq(Cells)) /\ \A i \in 1..Len(received) : Len(received[i]) \in Sizes
      BY DEF TypeInv
    <3> DEFINE packet == Append(body, c)
    <3>4. received' \in Seq(Seq(Cells)) /\ \A i \in 1..Len(received') : Len(received'[i]) \in Sizes
      <4> HIDE DEF packet
      <4>1. received' = Append(received, packet) /\ packet \in Seq(Cells) /\ Len(packet) \in Sizes
        BY <3>1, <3>2 DEF packet
      <4> QED BY <3>3, <4>1
    <3>5. state' = 0 /\ length' = 0 /\ body' = <<>>
      BY <2>5 DEF Whole
    <3> QED BY <3>4, <3>5
  <2> QED BY <2>1, <2>2, <2>3, <2>4, <2>5 DEF ReadByte
<1> QED BY <1>2, <1>3, <1>4, <1>5, <1>6, <1>7 DEF TypeInv

LEMMA OthersKeep == ASSUME TypeInv, Close \/ ReadFails \/ ReadEof PROVE TypeInv'
<1> USE DEF writerVars, parserVars
<1>1. CASE Close
  BY <1>1 DEF Close, TypeInv
<1>2. CASE ReadEof
  BY <1>2 DEF ReadEof, TypeInv
<1>3. CASE ReadFails
  BY <1>3 DEF ReadFails, Restart, Search, Body, TypeInv
<1> QED BY <1>1, <1>2, <1>3

LEMMA TypeNext == TypeInv /\ [Next]_vars => TypeInv'
<1> SUFFICES ASSUME TypeInv, [Next]_vars PROVE TypeInv'
  OBVIOUS
<1>1. CASE UNCHANGED vars
  BY <1>1 DEF vars, writerVars, parserVars, TypeInv
<1> QED BY <1>1, HeaderKeeps, BodyKeeps, NoiseKeeps, ByteKeeps, OthersKeep DEF Next, Writing

\* Whatever bytes are on the stream, the packet in the making stays within the
\* length that was found for it, and no packet is empty or too big
\* (readMessage).
THEOREM TypeCorrect == Spec => []TypeOK
  BY TypeInit, TypeNext, TypeInvImplies, PTL DEF Spec

-----------------------------------------------------------------------------
(* The inductive invariant                                                 *)

Frames == 1..Len(sent)

Size(f) == Len(sent[f])

\* The cell that carries byte k of frame f, whose packet is m.
CellOf(m, f, k) ==
    [byte |-> IF k <= 4 THEN Header(m)[k] ELSE m[k - 4], frame |-> f, place |-> k]

Cell(f, k) == CellOf(sent[f], f, k)

Busy(f) == \E w \in Writers : writing[w] = f

\* Only frames that are written into one another are written at once.
TogetherInv ==
    \A v, w \in Writers : v # w /\ writing[v] # None /\ writing[w] # None =>
        writing[v] # writing[w] /\ writing[v] \in torn

\* A byte is that of debug text, or of a frame at its place.
CellInv ==
    \A p \in 1..Len(wire) : LET c == wire[p] IN
        \/ c.frame = None /\ c.place = 0 /\ c.byte # START1
        \/ c.frame \in Frames /\ c.place \in 1..(4 + Size(c.frame))
              /\ c = Cell(c.frame, c.place)

\* Each of the two parts of a frame is on the wire in one piece.
NextInv ==
    \A p \in 1..Len(wire) : LET f == wire[p].frame
                                k == wire[p].place IN
        f # None /\ k # 4 /\ k # 4 + Size(f) =>
            p + 1 <= Len(wire) /\ wire[p + 1] = Cell(f, k + 1)

\* And so is a frame that is not torn.
PrevInv ==
    \A p \in 2..Len(wire) : LET f == wire[p].frame
                                k == wire[p].place IN
        f # None /\ f \notin torn /\ k > 1 =>
            wire[p - 1].frame = f /\ wire[p - 1].place = k - 1

\* Headers are in the order of their frames, behind everything that was read or
\* struck by an error when they were written.
StartInv ==
    \A q \in 1..Len(wire) : wire[q].place = 1 =>
        /\ \A p \in 1..(q - 1) : wire[p].frame < wire[q].frame
        /\ at < wire[q].frame
        /\ \A s \in spoiled : s < wire[q].frame

\* What follows a frame that is not torn belongs to later ones.
OrderInv ==
    /\ \A p, q \in 1..Len(wire) : LET f == wire[p].frame
                                      g == wire[q].frame IN
          p < q /\ f # None /\ f \notin torn /\ g # None =>
              f < g \/ (f = g /\ wire[p].place < wire[q].place)
    /\ \A p \in 1..Len(wire) : LET f == wire[p].frame IN
          f # None /\ f \notin torn =>
              \A w \in Writers : writing[w] # None =>
                  f < writing[w] \/ (f = writing[w] /\ wire[p].place <= 4)

\* As long as a frame is not torn, nothing is written behind its header.
BusyInv ==
    \A w \in Writers : writing[w] # None /\ writing[w] \notin torn /\ wire # <<>> =>
        wire[Len(wire)].frame = writing[w] /\ wire[Len(wire)].place = 4

\* Behind position o of the wire are the bytes of the packet of frame f, but
\* for the first n: its own, or, if it is torn, such of torn frames.
Rest(f, n, o) ==
    IF f \in torn
    THEN /\ \A p \in 1..Len(wire) : o < p /\ p <= o + (Size(f) - n) => wire[p].frame \in torn
         /\ Len(wire) < o + (Size(f) - n) => Busy(f)
    ELSE \/ Busy(f) /\ n = 0 /\ Len(wire) = o
         \/ /\ o + (Size(f) - n) <= Len(wire)
            /\ \A j \in 1..(Size(f) - n) : wire[o + j] = Cell(f, 4 + n + j)

RestInv ==
    \A p \in 1..Len(wire) :
        wire[p].frame # None /\ wire[p].place = 4 => Rest(wire[p].frame, 0, p)

\* In a header the parser is where the header is.
HeaderInv ==
    state \in 1..3 =>
        /\ at \in Frames /\ at \notin spoiled
        /\ wire # <<>> /\ wire[1] = Cell(at, state + 1)
        /\ state = 3 => length = (Size(at) \div Base) * Base

\* What the parser takes for the packet of frame h is that, or torn.
Taking(h) ==
    /\ h \in Frames
    /\ length = Size(h)
    /\ Rest(h, Len(body), 0)
    /\ IF h \in torn
       THEN at \in torn /\ \A p \in 1..Len(body) : body[p].frame \in torn
       ELSE /\ at = h /\ h \notin spoiled
            /\ \A p \in 1..Len(body) : body[p] = Cell(h, 4 + p)

BodyInv == state = Body => \E h \in Frames : Taking(h)

\* Within a frame that is not searched for a header the parser is where the
\* frame is.
Reached(f, k) ==
    /\ at = f
    /\ IF k <= 4 THEN state = k - 1 ELSE state = Body /\ Len(body) = k - 5

HeadInv ==
    /\ wire # <<>> /\ wire[1].frame # None /\ wire[1].place > 1
          /\ wire[1].frame \notin Searched => Reached(wire[1].frame, wire[1].place)
    /\ \A w \in Writers : writing[w] # None /\ writing[w] \notin Searched
          /\ wire = <<>> /\ Size(writing[w]) > 0 => Reached(writing[w], 5)

\* Packets that were received are before everything else.
PastInv ==
    \A i \in Good :
        /\ \A p \in 1..Len(wire) : wire[p].frame # None => Origin(i) < wire[p].frame
        /\ \A w \in Writers : writing[w] # None => Origin(i) < writing[w]

WireInv ==
    /\ TogetherInv /\ CellInv /\ NextInv /\ PrevInv /\ StartInv /\ OrderInv
    /\ BusyInv /\ RestInv

ParserInv == HeaderInv /\ BodyInv /\ HeadInv

\* PacketsInOrder alone does not carry over to the next state: it needs where
\* each byte on the wire belongs, where the parser is in it, and that what was
\* received is before all that.  The last two hold only until an error or a
\* torn frame makes the parser search a frame that holds a START1.
IInv == TypeInv /\ WireInv /\ (Undisturbed => ParserInv /\ PastInv) /\ PacketsInOrder

-----------------------------------------------------------------------------
(* What each step does to the bytes                                        *)

LEMMA SentFrames ==
    ASSUME TypeInv, NEW f \in Frames
    PROVE  sent[f] \in Packets /\ sent[f] \in Seq(Bytes) /\ Size(f) \in Nat /\ f \in Nat /\ f > 0
<1>1. sent[f] \in Packets
  BY DEF TypeInv, Frames
<1>2. sent[f] \in Seq(Bytes)
  BY <1>1, FramingAssumption
<1> QED BY <1>1, <1>2 DEF Size, TypeInv, Frames

\* A frame that was sent stays as it is.
LEMMA FramesStay ==
    ASSUME TypeInv, NEW m \in Packets, sent' = Append(sent, m)
    PROVE  /\ Len(sent') = Len(sent) + 1 /\ Len(sent) \in Nat /\ sent'[Len(sent)+1] = m
           /\ \A f \in Frames : f \in Frames' /\ sent'[f] = sent[f] /\ Size(f)' = Size(f)
<1>1. sent \in Seq(Packets) /\ Len(sent) \in Nat
  BY DEF TypeInv
<1>2. Len(sent') = Len(sent) + 1 /\ sent'[Len(sent) + 1] = m /\ \A f \in Frames : f \in Frames' /\ sent'[f] = sent[f]
  BY <1>1 DEF Frames
<1> QED BY <1>1, <1>2 DEF Cell, Size

\* Where the elements of a sequence and of one appended to it are.
LEMMA Concatenated ==
    ASSUME NEW a \in Seq(Cells), NEW b \in Seq(Cells)
    PROVE  /\ Len(a \o b) = Len(a) + Len(b) /\ Len(a) \in Nat /\ Len(b) \in Nat
           /\ \A p \in 1..Len(a) : (a \o b)[p] = a[p]
           /\ \A p \in Len(a)+1..Len(a \o b) :
                 p - Len(a) \in 1..Len(b) /\ (a \o b)[p] = b[p - Len(a)]
  OBVIOUS

LEMMA EmptySequence ==
    ASSUME NEW s \in Seq(Cells)
    PROVE  Len(s) \in Nat /\ (s = <<>> <=> Len(s) = 0)
  OBVIOUS

LEMMA HeaderStep ==
    ASSUME TypeInv, NEW w \in Writers, WriteHeader(w), NEW g, g = Len(sent) + 1
    PROVE  /\ writing[w] = None /\ writing' = [writing EXCEPT ![w] = g]
           /\ Len(sent) \in Nat /\ Len(sent') = g /\ g \in Nat /\ g \in Frames' /\ g \notin Frames
           /\ \A f \in Frames : f \in Frames' /\ sent'[f] = sent[f] /\ Size(f)' = Size(f)
           /\ Size(g)' \in Nat
           /\ Len(wire') = Len(wire) + 4 /\ Len(wire) \in Nat
           /\ \A p \in 1..Len(wire) : wire'[p] = wire[p]
           /\ \A p \in Len(wire)+1..Len(wire') : wire'[p] = CellOf(sent'[g], g, p - Len(wire))
           /\ torn' = IF InBody = {} THEN torn ELSE torn \union {g} \union {writing[v] : v \in InBody}
<1>1. PICK m \in Packets : /\ sent' = Append(sent, m)
                           /\ wire' = wire \o Tagged(Header(m), Len(sent'), 0)
  BY DEF WriteHeader
<1>2. /\ Len(sent') = g /\ Len(sent) \in Nat /\ sent'[g] = m
      /\ \A f \in Frames : f \in Frames' /\ sent'[f] = sent[f] /\ Size(f)' = Size(f)
  BY <1>1, FramesStay
<1>3. g \in Nat /\ g \in Frames' /\ g \notin Frames
  BY <1>2 DEF Frames
<1>4. Size(g)' \in Nat
  <2>1. m \in Seq(Bytes)
    BY FramingAssumption
  <2> QED BY <2>1, <1>2 DEF Size
<1> DEFINE new == Tagged(Header(m), g, 0)
<1>5. Len(new) = 4 /\ new \in Seq(Cells) /\ \A p \in 1..4 : new[p] = CellOf(sent'[g], g, p)
  <2>1. Header(m) \in Seq(Bytes) /\ Len(Header(m)) = 4
    BY HeaderIsBytes
  <2>2. new \in Seq(Cells) /\ Len(new) = 4
    BY <1>3, <2>1, 0 \in Nat, TaggedCells, Zenon
  <2>3. \A p \in 1..4 : new[p] = [byte |-> Header(m)[p], frame |-> g, place |-> p]
    BY <2>1 DEF Tagged
  <2>4. \A p \in 1..4 : CellOf(m, g, p) = [byte |-> Header(m)[p], frame |-> g, place |-> p]
    BY DEF CellOf
  <2> QED BY <1>2, <2>2, <2>3, <2>4
<1>6. /\ Len(wire') = Len(wire) + 4 /\ Len(wire) \in Nat
      /\ \A p \in 1..Len(wire) : wire'[p] = wire[p]
      /\ \A p \in Len(wire)+1..Len(wire') : wire'[p] = CellOf(sent'[g], g, p - Len(wire))
  <2>1. wire' = wire \o new /\ wire \in Seq(Cells)
    BY <1>1, <1>2 DEF TypeInv
  <2>2. new \in Seq(Cells) /\ Len(new) = 4
    BY <1>5
  <2> HIDE DEF new
  <2>3. /\ Len(wire') = Len(wire) + 4 /\ Len(wire) \in Nat
        /\ \A p \in 1..Len(wire) : wire'[p] = wire[p]
        /\ \A p \in Len(wire)+1..Len(wire') : p - Len(wire) \in 1..4 /\ wire'[p] = new[p - Len(wire)]
    <3>1. /\ Len(wire') = Len(wire) + Len(new) /\ Len(wire) \in Nat
          /\ \A p \in 1..Len(wire) : wire'[p] = wire[p]
          /\ \A p \in Len(wire)+1..Len(wire') : p - Len(wire) \in 1..Len(new) /\ wire'[p] = new[p - Len(wire)]
      BY <2>1, <2>2, Concatenated, Zenon
    <3>2. Len(new) = 4
      BY <2>2
    <3>3. 1..Len(new) = 1..4
      BY <3>2
    <3> QED BY <3>1, <3>2, <3>3
  <2> QED BY <1>5, <2>3, Zenon
<1> QED BY <1>2, <1>3, <1>4, <1>6 DEF WriteHeader

LEMMA BodyStep ==
    ASSUME TypeInv, NEW w \in Writers, WriteBody(w), NEW g, g = writing[w]
    PROVE  /\ g \in Frames /\ g # None /\ writing' = [writing EXCEPT ![w] = None]
           /\ Size(g) \in Nat /\ Len(wire') = Len(wire) + Size(g) /\ Len(wire) \in Nat
           /\ \A p \in 1..Len(wire) : wire'[p] = wire[p]
           /\ \A p \in Len(wire)+1..Len(wire') : wire'[p] = Cell(g, 4 + (p - Len(wire)))
<1>1. g \in Frames /\ g # None
  BY DEF WriteBody, None, TypeInv, Frames
<1>2. sent[g] \in Seq(Bytes) /\ Size(g) \in Nat /\ g \in Nat
  BY <1>1, SentFrames
<1> DEFINE new == Tagged(sent[g], g, 4)
<1>3. Len(new) = Size(g) /\ new \in Seq(Cells) /\ \A p \in 1..Size(g) : new[p] = Cell(g, 4 + p)
  <2>1. new \in Seq(Cells) /\ Len(new) = Size(g)
    BY <1>2, 4 \in Nat, TaggedCells, Zenon DEF Size
  <2>2. \A p \in 1..Size(g) : new[p] = [byte |-> sent[g][p], frame |-> g, place |-> 4 + p]
    BY <1>2 DEF Tagged, Size
  <2>3. \A p \in 1..Size(g) : ~(4 + p <= 4) /\ (4 + p) - 4 = p
    BY <1>2
  <2>4. \A p \in 1..Size(g) : Cell(g, 4 + p) = [byte |-> sent[g][p], frame |-> g, place |-> 4 + p]
    BY <2>3 DEF Cell, CellOf
  <2> QED BY <2>1, <2>2, <2>4
<1>4. /\ Len(wire') = Len(wire) + Size(g) /\ Len(wire) \in Nat
      /\ \A p \in 1..Len(wire) : wire'[p] = wire[p]
      /\ \A p \in Len(wire)+1..Len(wire') : wire'[p] = Cell(g, 4 + (p - Len(wire)))
  <2>1. wire' = wire \o new /\ wire \in Seq(Cells)
    BY DEF TypeInv, WriteBody
  <2>2. new \in Seq(Cells) /\ Len(new) = Size(g)
    BY <1>3
  <2> HIDE DEF new
  <2>3. /\ Len(wire') = Len(wire) + Size(g) /\ Len(wire) \in Nat
        /\ \A p \in 1..Len(wire) : wire'[p] = wire[p]
        /\ \A p \in Len(wire)+1..Len(wire') : p - Len(wire) \in 1..Size(g) /\ wire'[p] = new[p - Len(wire)]
    <3>1. /\ Len(wire') = Len(wire) + Len(new) /\ Len(wire) \in Nat
          /\ \A p \in 1..Len(wire) : wire'[p] = wire[p]
          /\ \A p \in Len(wire)+1..Len(wire') : p - Len(wire) \in 1..Len(new) /\ wire'[p] = new[p - Len(wire)]
      BY <2>1, <2>2, Concatenated, Zenon
    <3>2. Len(new) = Size(g)
      BY <2>2
    <3>3. 1..Len(new) = 1..Size(g)
      BY <3>2
    <3> QED BY <3>1, <3>2, <3>3
  <2> QED BY <1>3, <2>3, Zenon
<1> QED BY <1>1, <1>2, <1>4 DEF WriteBody

LEMMA NoiseStep ==
    ASSUME TypeInv, WriteNoise
    PROVE  /\ Len(wire') = Len(wire) + 1 /\ Len(wire) \in Nat
           /\ \A p \in 1..Len(wire) : wire'[p] = wire[p]
           /\ wire'[Len(wire) + 1].frame = None /\ wire'[Len(wire) + 1].place = 0
           /\ wire'[Len(wire) + 1].byte # START1
           /\ \A w \in Writers : writing[w] = None
<1>1. PICK b \in Noise : wire' = Append(wire, [byte |-> b, frame |-> None, place |-> 0])
  BY DEF WriteNoise
<1>2. b # START1
  BY FramingAssumption
<1>3. wire \in Seq(Cells)
  BY DEF TypeInv
<1>4. \A w \in Writers : writing[w] = None
  BY DEF WriteNoise, InBody
<1> QED BY <1>1, <1>2, <1>3, <1>4

LEMMA ByteStep ==
    ASSUME TypeInv, ReadByte
    PROVE  /\ wire # <<>> /\ Len(wire) \in Nat /\ Len(wire) > 0 /\ Len(wire') = Len(wire) - 1
           /\ \A p \in 1..Len(wire') : p + 1 \in 1..Len(wire) /\ wire'[p] = wire[p + 1]
           /\ wire' # <<>> => Len(wire') > 0
           /\ Head(wire) = wire[1] /\ at' = wire[1].frame
           /\ UNCHANGED <<writing, sent, torn, spoiled>>
<1>1. wire # <<>> /\ wire \in Seq(Cells) /\ wire' = Tail(wire) /\ at' = Head(wire).frame
  BY DEF ReadByte, TypeInv
<1>2. UNCHANGED <<writing, sent, torn, spoiled>>
  BY DEF ReadByte, writerVars
<1>3. wire' \in Seq(Cells)
  BY <1>1
<1> QED BY <1>1, <1>2, <1>3

LEMMA CellFields ==
    ASSUME NEW m, NEW f, NEW k
    PROVE  CellOf(m, f, k).frame = f /\ CellOf(m, f, k).place = k
  BY DEF CellOf

\* The cells on the wire, as the invariant knows them.
LEMMA WireCells ==
    ASSUME TypeInv, CellInv, NEW p \in 1..Len(wire)
    PROVE  /\ wire[p].frame \in Nat /\ wire[p].place \in Nat /\ wire[p].frame <= Len(sent)
           /\ wire[p].frame # None => /\ wire[p].frame \in Frames
                                      /\ wire[p].place \in 1..(4 + Size(wire[p].frame))
                                      /\ wire[p] = Cell(wire[p].frame, wire[p].place)
                                      /\ Size(wire[p].frame) \in Nat
           /\ wire[p].frame = None => wire[p].place = 0
<1>1. wire[p] \in Cells /\ wire[p].frame <= Len(sent)
  BY DEF TypeInv
<1>2. wire[p].frame \in Nat /\ wire[p].place \in Nat
  BY <1>1 DEF Cells
<1>3. wire[p].frame # None => wire[p].frame \in Frames
  BY <1>1, <1>2 DEF TypeInv, Frames, None
<1>4. wire[p].frame \in Frames => Size(wire[p].frame) \in Nat
  BY SentFrames
<1>5. \/ wire[p].frame = None /\ wire[p].place = 0
      \/ /\ wire[p].frame \in Frames /\ wire[p].place \in 1..(4 + Size(wire[p].frame))
         /\ wire[p] = Cell(wire[p].frame, wire[p].place)
  BY DEF CellInv
<1>6. None \notin Frames
  BY DEF None, Frames
<1> QED BY <1>1, <1>2, <1>3, <1>4, <1>5, <1>6

-----------------------------------------------------------------------------
(* The wire, when a header is written                                      *)

LEMMA HeaderTogether == ASSUME TypeInv, TogetherInv, NEW w \in Writers, WriteHeader(w)
                        PROVE  TogetherInv'
<1> SUFFICES ASSUME NEW g, g = Len(sent) + 1 PROVE TogetherInv'
  OBVIOUS
<1>1. /\ writing[w] = None /\ writing' = [writing EXCEPT ![w] = g] /\ g \in Nat /\ Len(sent) \in Nat
      /\ torn' = IF InBody = {} THEN torn ELSE torn \union {g} \union {writing[v] : v \in InBody}
  BY HeaderStep
<1>2. writing \in [Writers -> 0..Len(sent)]
  BY DEF TypeInv
<1>3. ASSUME NEW u \in Writers, NEW v \in Writers, u # v, writing'[u] # None, writing'[v] # None
      PROVE  writing'[u] # writing'[v] /\ writing'[u] \in torn'
  <2>1. CASE u = w
    <3>1. v \in InBody /\ writing'[v] = writing[v] /\ writing'[u] = g
      BY <1>1, <1>2, <1>3, <2>1 DEF InBody
    <3> QED BY <1>1, <1>2, <3>1
  <2>2. CASE v = w
    <3>1. u \in InBody /\ writing'[u] = writing[u] /\ writing'[v] = g
      BY <1>1, <1>2, <1>3, <2>2 DEF InBody
    <3> QED BY <1>1, <1>2, <3>1
  <2>3. CASE u # w /\ v # w
    <3>1. writing'[u] = writing[u] /\ writing'[v] = writing[v]
      BY <1>1, <1>2, <2>3
    <3> QED BY <1>1, <1>3, <3>1 DEF TogetherInv
  <2> QED BY <2>1, <2>2, <2>3
<1> QED BY <1>3 DEF TogetherInv

LEMMA HeaderCells ==
    ASSUME TypeInv, NEW w \in Writers, WriteHeader(w), NEW g, g = Len(sent) + 1,
           NEW L, L = Len(wire)
    PROVE  \A p \in L+1..L+4 : wire'[p] = CellOf(sent'[g], g, p - L)
<1>1. /\ Len(wire') = Len(wire) + 4
      /\ \A p \in Len(wire)+1..Len(wire') : wire'[p] = CellOf(sent'[g], g, p - Len(wire))
  BY HeaderStep
<1> QED BY <1>1

\* Where the bytes of a new header are.
LEMMA HeaderPlaces ==
    ASSUME TypeInv, CellInv, NEW w \in Writers, WriteHeader(w), NEW g, g = Len(sent) + 1,
           NEW L, L = Len(wire)
    PROVE  \A p \in L+1..L+4 : wire'[p].frame = g /\ wire'[p].place = p - L /\ p - L \in 1..4
<1>1. L \in Nat /\ \A p \in L+1..L+4 : wire'[p] = CellOf(sent'[g], g, p - L)
  BY HeaderStep
<1> SUFFICES ASSUME NEW p \in L+1..L+4
             PROVE  wire'[p].frame = g /\ wire'[p].place = p - L /\ p - L \in 1..4
  OBVIOUS
<1>2. p - L \in 1..4
  BY <1>1
<1> QED BY <1>1, <1>2, CellFields

LEMMA HeaderFacts ==
    ASSUME TypeInv, CellInv, NEW w \in Writers, WriteHeader(w), NEW g, g = Len(sent) + 1,
           NEW L, L = Len(wire)
    PROVE  /\ writing[w] = None /\ writing' = [writing EXCEPT ![w] = g]
           /\ Len(sent) \in Nat /\ Len(sent') = g /\ g \in Nat /\ g \in Frames' /\ g \notin Frames
           /\ \A f \in Frames : f \in Frames' /\ sent'[f] = sent[f] /\ Size(f)' = Size(f)
           /\ Size(g)' \in Nat
           /\ torn' = IF InBody = {} THEN torn ELSE torn \union {g} \union {writing[v] : v \in InBody}
           /\ Len(wire') = L + 4 /\ L \in Nat
           /\ \A p \in 1..L : wire'[p] = wire[p]
           /\ \A p \in L+1..L+4 : wire'[p] = CellOf(sent'[g], g, p - L)
           /\ \A p \in L+1..L+4 : wire'[p].frame = g /\ wire'[p].place = p - L /\ p - L \in 1..4
           /\ \A p \in 1..L : wire[p].frame \in Nat /\ wire[p].place \in Nat /\ wire[p].frame < g
           /\ \A p \in 1..L : wire[p].frame # None => wire[p].frame \in Frames
           /\ \A f : f \in torn => f \in torn'
           /\ \A v \in Writers : writing[v] # None => writing[v] \in torn' /\ g \in torn'
<1>1. /\ writing[w] = None /\ writing' = [writing EXCEPT ![w] = g]
      /\ Len(sent) \in Nat /\ Len(sent') = g /\ g \in Nat /\ g \in Frames' /\ g \notin Frames
      /\ \A f \in Frames : f \in Frames' /\ sent'[f] = sent[f] /\ Size(f)' = Size(f)
      /\ Size(g)' \in Nat
      /\ torn' = IF InBody = {} THEN torn ELSE torn \union {g} \union {writing[v] : v \in InBody}
  BY HeaderStep
<1>2. /\ Len(wire') = L + 4 /\ L \in Nat
      /\ \A p \in 1..L : wire'[p] = wire[p]
      /\ \A p \in L+1..L+4 : wire'[p] = CellOf(sent'[g], g, p - L)
  BY HeaderStep
<1>3. \A p \in L+1..L+4 : wire'[p].frame = g /\ wire'[p].place = p - L /\ p - L \in 1..4
  BY HeaderPlaces
<1>4. /\ \A p \in 1..L : wire[p].frame \in Nat /\ wire[p].place \in Nat /\ wire[p].frame < g
      /\ \A p \in 1..L : wire[p].frame # None => wire[p].frame \in Frames
  <2> SUFFICES ASSUME NEW p \in 1..L
               PROVE  /\ wire[p].frame \in Nat /\ wire[p].place \in Nat /\ wire[p].frame < g
                      /\ wire[p].frame # None => wire[p].frame \in Frames
    OBVIOUS
  <2>1. /\ wire[p].frame \in Nat /\ wire[p].place \in Nat /\ wire[p].frame <= Len(sent)
        /\ wire[p].frame # None => wire[p].frame \in Frames
    BY WireCells
  <2> QED BY <1>1, <2>1
<1>5. \A f : f \in torn => f \in torn'
  BY <1>1
<1>6. \A v \in Writers : writing[v] # None => writing[v] \in torn' /\ g \in torn'
  BY <1>1 DEF InBody
<1> QED BY <1>1, <1>2, <1>3, <1>4, <1>5, <1>6

LEMMA HeaderRest ==
    ASSUME TypeInv, CellInv, NEW w \in Writers, WriteHeader(w),
           NEW f \in Frames, NEW n \in 0..Size(f), NEW o \in 0..Len(wire), Rest(f, n, o)
    PROVE  Rest(f, n, o)'
<1> SUFFICES ASSUME NEW g, g = Len(sent) + 1, NEW L, L = Len(wire) PROVE Rest(f, n, o)'
  OBVIOUS
<1>1. /\ writing[w] = None /\ writing' = [writing EXCEPT ![w] = g] /\ g \notin Frames
      /\ sent'[f] = sent[f] /\ Size(f)' = Size(f)
  BY HeaderFacts
<1>2. Len(wire') = L + 4 /\ L \in Nat /\ \A p \in 1..L : wire'[p] = wire[p]
  BY HeaderFacts
<1>3. \A p \in L+1..L+4 : wire'[p].frame = g
  <2>1. \A p \in L+1..L+4 : wire'[p].frame = g /\ wire'[p].place = p - L /\ p - L \in 1..4
    BY HeaderPlaces
  <2> QED BY <2>1, Zenon
<1>4. (\A h : h \in torn => h \in torn') /\ (Busy(f) => f \in torn' /\ g \in torn')
  <2>1. f # None
    BY SentFrames DEF None
  <2> QED BY <2>1, HeaderFacts DEF Busy
<1>5. Busy(f) => Busy(f)'
  <2> SUFFICES ASSUME NEW v \in Writers, writing[v] = f PROVE writing'[v] = f
    BY DEF Busy
  <2>1. f # None
    BY SentFrames DEF None
  <2> QED BY <1>1, <2>1 DEF TypeInv
<1>6. Size(f) \in Nat
  BY SentFrames
<1>7. CASE f \in torn
  <2>1. \A p \in 1..L : o < p /\ p <= o + (Size(f) - n) => wire'[p].frame \in torn'
    BY <1>2, <1>4, <1>7 DEF Rest
  <2>2. \A p \in L+1..L+4 : o < p /\ p <= o + (Size(f) - n) => wire'[p].frame \in torn'
    BY <1>2, <1>3, <1>4, <1>6, <1>7 DEF Rest
  <2>3. Len(wire') < o + (Size(f) - n) => Busy(f)'
    BY <1>2, <1>5, <1>6, <1>7 DEF Rest
  <2> QED BY <1>1, <1>2, <1>4, <1>7, <2>1, <2>2, <2>3 DEF Rest
<1>8. CASE f \notin torn /\ Busy(f) /\ n = 0 /\ L = o
  <2>1. \A p \in 1..L+4 : o < p => wire'[p].frame \in torn'
    BY <1>2, <1>3, <1>4, <1>8
  <2> QED BY <1>1, <1>2, <1>4, <1>5, <1>8, <2>1 DEF Rest
<1>9. CASE /\ f \notin torn /\ o + (Size(f) - n) <= L
           /\ \A j \in 1..(Size(f) - n) : wire[o + j] = Cell(f, 4 + n + j)
  <2>1. \A j \in 1..(Size(f) - n) : o + j \in 1..L /\ wire'[o + j] = CellOf(sent[f], f, 4 + n + j)
    BY <1>2, <1>6, <1>9 DEF Cell
  <2>2. CASE f \in torn'
    <3>1. ASSUME NEW p \in 1..L+4, o < p, p <= o + (Size(f) - n) PROVE wire'[p].frame = f
      <4>1. p - o \in 1..(Size(f) - n) /\ o + (p - o) = p
        BY <1>2, <1>6, <3>1
      <4> QED BY <2>1, <4>1, CellFields
    <3>2. ~(Len(wire') < o + (Size(f) - n))
      BY <1>2, <1>6, <1>9
    <3> QED BY <1>1, <1>2, <2>2, <3>1, <3>2 DEF Rest
  <2>3. CASE f \notin torn'
    <3>1. o + (Size(f) - n) <= L + 4
      BY <1>2, <1>6, <1>9
    <3> QED BY <1>1, <1>2, <2>1, <2>3, <3>1 DEF Rest, Cell
  <2> QED BY <2>2, <2>3
<1> QED BY <1>7, <1>8, <1>9 DEF Rest

LEMMA HeaderWire ==
    ASSUME TypeInv, WireInv, NEW w \in Writers, WriteHeader(w)
    PROVE  WireInv'
<1> SUFFICES ASSUME NEW g, g = Len(sent) + 1, NEW L, L = Len(wire) PROVE WireInv'
  OBVIOUS
<1>0. CellInv
  BY DEF WireInv
<1>1. /\ writing[w] = None /\ writing' = [writing EXCEPT ![w] = g]
      /\ Len(sent) \in Nat /\ Len(sent') = g /\ g \in Nat /\ g \in Frames' /\ g \notin Frames
      /\ \A f \in Frames : f \in Frames' /\ sent'[f] = sent[f] /\ Size(f)' = Size(f)
      /\ Size(g)' \in Nat
  BY HeaderFacts DEF WireInv
<1>2. /\ Len(wire') = L + 4 /\ L \in Nat
      /\ \A p \in 1..L : wire'[p] = wire[p]
  BY HeaderFacts DEF WireInv
<1>18. \A p \in L+1..L+4 : wire'[p] = CellOf(sent'[g], g, p - L)
  BY HeaderCells
<1>3. \A p \in L+1..L+4 : wire'[p].frame = g /\ wire'[p].place = p - L /\ p - L \in 1..4
  BY HeaderPlaces DEF WireInv
<1>4. \A p \in 1..L : wire[p].frame \in Nat /\ wire[p].place \in Nat /\ wire[p].frame < g
  BY HeaderFacts DEF WireInv
<1>15. \A p \in 1..L : wire[p].frame # None => wire[p].frame \in Frames
  BY HeaderFacts DEF WireInv
<1>16. \A f \in Frames : f \in Frames' /\ sent'[f] = sent[f] /\ Size(f)' = Size(f)
  BY <1>1
<1>17. g \in Nat /\ L \in Nat
  BY <1>1, <1>2
<1>5. \A f : f \in torn => f \in torn'
  BY HeaderFacts DEF WireInv
<1>6. \A v \in Writers : writing[v] # None => writing[v] \in torn' /\ g \in torn'
  BY HeaderFacts DEF WireInv
<1>7. TogetherInv'
  BY HeaderTogether DEF WireInv
<1>8. CellInv'
  <2> SUFFICES ASSUME NEW p \in 1..L+4
               PROVE  LET c == wire'[p] IN
                        \/ c.frame = None /\ c.place = 0 /\ c.byte # START1
                        \/ c.frame \in Frames' /\ c.place \in 1..(4 + Len(sent'[c.frame]))
                              /\ c = CellOf(sent'[c.frame], c.frame, c.place)
    BY <1>2 DEF CellInv, Cell, Size
  <2>1. CASE p \in 1..L
    BY <1>1, <1>2, <2>1 DEF WireInv, CellInv, Cell, Size
  <2>2. CASE p \in L+1..L+4
    <3>1. p - L \in 1..(4 + Len(sent'[g]))
      BY <1>1, <1>2, <1>3, <2>2 DEF Size
    <3> QED BY <1>1, <1>2, <1>3, <1>18, <2>2, <3>1
  <2> QED BY <1>2, <2>1, <2>2
<1>9. NextInv'
  <2> SUFFICES ASSUME NEW p \in 1..L+4, NEW f, f = wire'[p].frame, NEW k, k = wire'[p].place,
                      f # None, k # 4, k # 4 + Len(sent'[f])
               PROVE  p + 1 <= L + 4 /\ wire'[p + 1] = CellOf(sent'[f], f, k + 1)
    BY <1>2 DEF NextInv, Cell, Size
  <2>1. CASE p \in 1..L
    <3>1. f = wire[p].frame /\ k = wire[p].place
      BY <1>2, <2>1
    <3>3. f \in Frames /\ sent'[f] = sent[f]
      <4>1. wire[p].frame # None
        BY <3>1
      <4>2. wire[p].frame \in Frames
        BY <1>15, <2>1, <4>1
      <4>3. f \in Frames
        BY <3>1, <4>2, Zenon
      <4> QED BY <1>16, <4>3, Zenon
    <3>2. p + 1 <= L /\ wire[p + 1] = CellOf(sent[f], f, k + 1)
      BY <2>1, <3>1, <3>3 DEF WireInv, NextInv, Cell, Size
    <3> QED BY <1>2, <2>1, <3>2, <3>3
  <2>2. CASE p \in L+1..L+4
    <3>1. f = g /\ k = p - L
      BY <1>3, <2>2
    <3>2. p + 1 \in L+1..L+4 /\ (p + 1) - L = k + 1
      BY <1>2, <2>2, <3>1
    <3> QED BY <1>2, <1>18, <3>1, <3>2
  <2> QED BY <1>2, <2>1, <2>2
<1>10. PrevInv'
  <2> SUFFICES ASSUME NEW p \in 2..L+4, NEW f, f = wire'[p].frame, NEW k, k = wire'[p].place,
                      f # None, f \notin torn', k > 1
               PROVE  wire'[p - 1].frame = f /\ wire'[p - 1].place = k - 1
    BY <1>2 DEF PrevInv
  <2>1. CASE p \in 1..L
    <3>1. f = wire[p].frame /\ k = wire[p].place /\ f \notin torn /\ p \in 2..L /\ p - 1 \in 1..L
      BY <1>2, <1>5, <2>1
    <3>2. wire[p - 1].frame = f /\ wire[p - 1].place = k - 1
      BY <3>1 DEF WireInv, PrevInv
    <3> QED BY <1>2, <3>1, <3>2
  <2>2. CASE p \in L+1..L+4
    <3>1. f = g /\ k = p - L
      BY <1>3, <2>2
    <3>2. p - 1 \in L+1..L+4 /\ (p - 1) - L = k - 1
      BY <1>2, <2>2, <3>1
    <3> QED BY <1>3, <3>1, <3>2
  <2> QED BY <1>2, <2>1, <2>2
<1>11. StartInv'
  <2>1. at' = at /\ spoiled' = spoiled /\ at < g /\ \A s \in spoiled : s < g
    BY <1>1 DEF WriteHeader, TypeInv
  <2> SUFFICES ASSUME NEW q \in 1..L+4, wire'[q].place = 1
               PROVE  /\ \A p \in 1..(q - 1) : wire'[p].frame < wire'[q].frame
                      /\ at < wire'[q].frame
                      /\ \A s \in spoiled : s < wire'[q].frame
    BY <1>2, <2>1 DEF StartInv
  <2>2. CASE q \in 1..L
    <3>1. wire'[q] = wire[q] /\ \A p \in 1..(q - 1) : p \in 1..L /\ wire'[p] = wire[p]
      BY <1>2, <2>2
    <3> QED BY <2>2, <3>1 DEF WireInv, StartInv
  <2>3. CASE q \in L+1..L+4
    <3>1. q = L + 1 /\ wire'[q].frame = g
      BY <1>2, <1>3, <2>3
    <3>2. \A p \in 1..(q - 1) : p \in 1..L
      BY <1>2, <3>1
    <3>3. \A p \in 1..(q - 1) : wire'[p].frame < g
      BY <1>2, <1>4, <3>2, Zenon
    <3> QED BY <2>1, <3>1, <3>3, Zenon
  <2> QED BY <1>2, <2>2, <2>3
<1>12. OrderInv'
  <2>1. ASSUME NEW p \in 1..L+4, NEW q \in 1..L+4, p < q, NEW f, f = wire'[p].frame,
               NEW h, h = wire'[q].frame, f # None, f \notin torn', h # None
        PROVE  f < h \/ (f = h /\ wire'[p].place < wire'[q].place)
    <3>1. CASE q \in 1..L
      <4>1. p \in 1..L /\ wire'[p] = wire[p] /\ wire'[q] = wire[q]
        BY <1>2, <2>1, <3>1
      <4> QED BY <1>5, <2>1, <3>1, <4>1 DEF WireInv, OrderInv
    <3>2. CASE q \in L+1..L+4 /\ p \in 1..L
      <4>1. f < g
        BY <1>2, <1>4, <2>1, <3>2
      <4>2. h = g
        BY <1>3, <2>1, <3>2
      <4> QED BY <4>1, <4>2
    <3>3. CASE q \in L+1..L+4 /\ p \in L+1..L+4
      BY <1>2, <1>3, <2>1, <3>3
    <3> QED BY <1>2, <3>1, <3>2, <3>3
  <2>2. ASSUME NEW p \in 1..L+4, NEW f, f = wire'[p].frame, f # None, f \notin torn',
               NEW v \in Writers, writing'[v] # None
        PROVE  f < writing'[v] \/ (f = writing'[v] /\ wire'[p].place <= 4)
    <3>1. CASE v = w
      <4>1. writing'[v] = g
        BY <1>1, <3>1 DEF TypeInv
      <4>2. CASE p \in 1..L
        <5>1. f < g
          BY <1>2, <1>4, <2>2, <4>2
        <5> QED BY <4>1, <5>1
      <4>3. CASE p \in L+1..L+4
        <5>1. f = g /\ wire'[p].place = p - L /\ p - L \in 1..4
          BY <1>3, <2>2, <4>3
        <5> QED BY <4>1, <5>1
      <4> QED BY <1>17, <4>2, <4>3
    <3>2. CASE v # w
      <4>1. writing'[v] = writing[v]
        BY <1>1, <3>2 DEF TypeInv
      <4>2. p \in 1..L
        BY <1>2, <1>3, <1>6, <2>2, <4>1
      <4> QED BY <1>2, <1>5, <2>2, <4>1, <4>2 DEF WireInv, OrderInv
    <3> QED BY <3>1, <3>2
  <2> QED BY <1>2, <2>1, <2>2 DEF OrderInv
<1>13. BusyInv'
  <2> SUFFICES ASSUME NEW v \in Writers, writing'[v] # None, writing'[v] \notin torn'
               PROVE  wire'[L + 4].frame = writing'[v] /\ wire'[L + 4].place = 4
    BY <1>2 DEF BusyInv
  <2>1. v = w
    BY <1>1, <1>6 DEF TypeInv
  <2>2. writing'[v] = g
    BY <1>1, <2>1 DEF TypeInv
  <2> QED BY <1>2, <1>3, <2>2
<1>14. RestInv'
  <2> SUFFICES ASSUME NEW p \in 1..L+4, NEW f, f = wire'[p].frame, f # None, wire'[p].place = 4
               PROVE  Rest(f, 0, p)'
    BY <1>2 DEF RestInv
  <2>1. CASE p \in 1..L
    <3>1. f = wire[p].frame /\ wire[p].place = 4
      BY <1>2, <2>1
    <3>3. f \in Frames /\ Rest(f, 0, p)
      BY <1>15, <2>1, <3>1 DEF WireInv, RestInv
    <3>2. 0 \in 0..Size(f) /\ p \in 0..Len(wire)
      BY <1>2, <2>1, <3>3, SentFrames
    <3> QED BY <3>2, <3>3, HeaderRest DEF WireInv
  <2>2. CASE p \in L+1..L+4
    <3>1. p = L + 4 /\ f = g
      BY <1>2, <1>3, <2>2
    <3>2. Busy(g)'
      BY <1>1 DEF Busy, TypeInv
    <3> QED BY <1>1, <1>2, <3>1, <3>2 DEF Rest
  <2> QED BY <1>2, <2>1, <2>2
<1> QED BY <1>7, <1>8, <1>9, <1>10, <1>11, <1>12, <1>13, <1>14 DEF WireInv

-----------------------------------------------------------------------------
(* The wire, when a packet is written                                       *)

\* What the bytes of a packet are that is written, and where.
LEMMA BodyCells ==
    ASSUME TypeInv, CellInv, NEW w \in Writers, WriteBody(w), NEW g, g = writing[w],
           NEW L, L = Len(wire)
    PROVE  \A p \in L+1..L+Size(g) : wire'[p] = CellOf(sent[g], g, 4 + (p - L))
<1>1. /\ Len(wire') = Len(wire) + Size(g)
      /\ \A p \in Len(wire)+1..Len(wire') : wire'[p] = Cell(g, 4 + (p - Len(wire)))
  BY BodyStep
<1> QED BY <1>1 DEF Cell

LEMMA BodyPlaces ==
    ASSUME TypeInv, CellInv, NEW w \in Writers, WriteBody(w), NEW g, g = writing[w],
           NEW L, L = Len(wire)
    PROVE  \A p \in L+1..L+Size(g) : wire'[p].frame = g /\ wire'[p].place = 4 + (p - L)
                                    /\ p - L \in 1..Size(g)
<1> SUFFICES ASSUME NEW p \in L+1..L+Size(g)
             PROVE  wire'[p].frame = g /\ wire'[p].place = 4 + (p - L) /\ p - L \in 1..Size(g)
  OBVIOUS
<1>1. g \in Nat /\ Size(g) \in Nat /\ L \in Nat
  BY BodyStep, SentFrames
<1>2. p - L \in 1..Size(g)
  BY <1>1
<1>3. wire'[p] = CellOf(sent[g], g, 4 + (p - L))
  BY BodyCells
<1> QED BY <1>2, <1>3, CellFields

LEMMA BodyFacts ==
    ASSUME TypeInv, CellInv, NEW w \in Writers, WriteBody(w), NEW g, g = writing[w],
           NEW L, L = Len(wire)
    PROVE  /\ g \in Frames /\ g \in Nat /\ g # None /\ Size(g) \in Nat /\ L \in Nat
           /\ writing' = [writing EXCEPT ![w] = None] /\ UNCHANGED <<sent, torn>>
           /\ \A v \in Writers : writing'[v] # None => v # w /\ writing'[v] = writing[v]
           /\ Len(wire') = L + Size(g)
           /\ \A p \in 1..L : wire'[p] = wire[p]
           /\ \A p \in L+1..L+Size(g) : wire'[p] = CellOf(sent[g], g, 4 + (p - L))
           /\ \A p \in L+1..L+Size(g) : wire'[p].frame = g /\ wire'[p].place = 4 + (p - L)
                                        /\ p - L \in 1..Size(g)
<1>1. g \in Frames /\ g \in Nat /\ g # None /\ Size(g) \in Nat
  BY BodyStep, SentFrames
<1>2. writing' = [writing EXCEPT ![w] = None] /\ UNCHANGED <<sent, torn>>
  BY DEF WriteBody
<1>3. \A v \in Writers : writing'[v] # None => v # w /\ writing'[v] = writing[v]
  BY <1>2 DEF TypeInv
<1>4. Len(wire') = L + Size(g) /\ L \in Nat /\ \A p \in 1..L : wire'[p] = wire[p]
  BY BodyStep
<1>5. \A p \in L+1..L+Size(g) : wire'[p] = CellOf(sent[g], g, 4 + (p - L))
  BY BodyCells
<1>6. \A p \in L+1..L+Size(g) : wire'[p].frame = g /\ wire'[p].place = 4 + (p - L)
                                /\ p - L \in 1..Size(g)
  BY BodyPlaces
<1> QED BY <1>1, <1>2, <1>3, <1>4, <1>5, <1>6

LEMMA BodyRest ==
    ASSUME TypeInv, CellInv, TogetherInv, NEW w \in Writers, WriteBody(w),
           NEW f \in Frames, NEW n \in 0..Size(f), NEW o \in 0..Len(wire), Rest(f, n, o)
    PROVE  Rest(f, n, o)'
<1> SUFFICES ASSUME NEW g, g = writing[w], NEW L, L = Len(wire) PROVE Rest(f, n, o)'
  OBVIOUS
<1>1. g \in Frames /\ g \in Nat /\ g # None /\ Size(g) \in Nat /\ L \in Nat
  BY BodyFacts
<1>2. writing' = [writing EXCEPT ![w] = None] /\ UNCHANGED <<sent, torn>>
  BY BodyFacts
<1>3. Len(wire') = L + Size(g) /\ \A p \in 1..L : wire'[p] = wire[p]
  BY BodyFacts
<1>4. \A p \in L+1..L+Size(g) : wire'[p] = CellOf(sent[g], g, 4 + (p - L))
  BY BodyCells
<1>5. \A p \in L+1..L+Size(g) : wire'[p].frame = g
  <2>1. \A p \in L+1..L+Size(g) : wire'[p].frame = g /\ wire'[p].place = 4 + (p - L)
                                  /\ p - L \in 1..Size(g)
    BY BodyPlaces
  <2> QED BY <2>1, Zenon
<1>6. Size(f) \in Nat /\ f # None /\ Size(f)' = Size(f)
  BY <1>2, SentFrames DEF None, Size
<1>7. \A v \in Writers : v # w /\ writing[v] # None => writing[v] \in torn /\ g \in torn
  BY <1>1 DEF TogetherInv
<1>8. \A v \in Writers : v # w => writing'[v] = writing[v]
  BY <1>2 DEF TypeInv
<1>9. CASE f \in torn
  <2>1. Busy(f) => g \in torn
    BY <1>6, <1>7, <1>9 DEF Busy
  <2>2. \A p \in 1..L : o < p /\ p <= o + (Size(f) - n) => wire'[p].frame \in torn
    BY <1>3, <1>9 DEF Rest
  <2>3. ASSUME NEW p \in L+1..L+Size(g), o < p, p <= o + (Size(f) - n)
        PROVE  wire'[p].frame \in torn
    <3>1. Len(wire) < o + (Size(f) - n)
      BY <1>1, <1>6, <2>3
    <3> QED BY <1>5, <1>9, <2>1, <3>1 DEF Rest
  <2>4. ASSUME Len(wire') < o + (Size(f) - n) PROVE Busy(f)'
    <3>1. Len(wire) < o + (Size(f) - n)
      BY <1>1, <1>3, <1>6, <2>4
    <3>2. PICK v \in Writers : writing[v] = f
      BY <1>9, <3>1 DEF Rest, Busy
    <3>3. v # w
      BY <1>1, <1>3, <1>6, <2>4, <3>2
    <3> QED BY <1>8, <3>2, <3>3 DEF Busy
  <2>5. \A p \in 1..Len(wire') : o < p /\ p <= o + (Size(f) - n) => wire'[p].frame \in torn
    BY <1>1, <1>3, <2>2, <2>3
  <2> QED BY <1>2, <1>6, <1>9, <2>4, <2>5 DEF Rest
<1>10. CASE f \notin torn /\ Busy(f) /\ n = 0 /\ L = o
  <2>1. f = g
    BY <1>6, <1>7, <1>10 DEF Busy
  <2>2. o + (Size(f) - n) <= Len(wire')
    BY <1>1, <1>3, <1>10, <2>1
  <2>3. ASSUME NEW j \in 1..(Size(f) - n) PROVE wire'[o + j] = CellOf(sent[f], f, 4 + n + j)
    <3>1. o + j \in L+1..L+Size(g) /\ 4 + ((o + j) - L) = 4 + n + j
      BY <1>1, <1>10, <2>1, <2>3
    <3> QED BY <1>4, <2>1, <3>1
  <2> QED BY <1>2, <1>6, <1>10, <2>2, <2>3 DEF Rest, Cell
<1>11. CASE /\ f \notin torn /\ o + (Size(f) - n) <= L
            /\ \A j \in 1..(Size(f) - n) : wire[o + j] = Cell(f, 4 + n + j)
  <2>1. \A j \in 1..(Size(f) - n) : o + j \in 1..L /\ wire'[o + j] = CellOf(sent[f], f, 4 + n + j)
    BY <1>1, <1>3, <1>6, <1>11 DEF Cell
  <2>2. o + (Size(f) - n) <= Len(wire')
    BY <1>1, <1>3, <1>6, <1>11
  <2> QED BY <1>2, <1>6, <1>11, <2>1, <2>2 DEF Rest, Cell
<1> QED BY <1>9, <1>10, <1>11 DEF Rest

LEMMA BodyWire ==
    ASSUME TypeInv, WireInv, NEW w \in Writers, WriteBody(w)
    PROVE  WireInv'
<1> SUFFICES ASSUME NEW g, g = writing[w], NEW L, L = Len(wire), NEW S, S = Size(g) PROVE WireInv'
  OBVIOUS
<1>1. g \in Frames /\ g \in Nat /\ g # None /\ S \in Nat /\ L \in Nat
  BY BodyFacts DEF WireInv
<1>2. UNCHANGED <<sent, torn>> /\ at' = at /\ spoiled' = spoiled
  BY DEF WriteBody
<1>3. \A v \in Writers : writing'[v] # None => v # w /\ writing'[v] = writing[v]
  BY BodyFacts DEF WireInv
<1>4. Len(wire') = L + S /\ \A p \in 1..L : wire'[p] = wire[p]
  BY BodyFacts DEF WireInv
<1>5. \A p \in L+1..L+S : wire'[p] = CellOf(sent[g], g, 4 + (p - L))
  BY BodyCells DEF WireInv
<1>6. \A p \in L+1..L+S : wire'[p].frame = g /\ wire'[p].place = 4 + (p - L) /\ p - L \in 1..S
  BY BodyPlaces DEF WireInv
<1>7. \A p \in 1..L : wire[p].frame \in Nat /\ wire[p].place \in Nat
  BY WireCells DEF WireInv
<1>8. \A v \in Writers : v # w /\ writing[v] # None => writing[v] \in torn /\ g \in torn
  BY <1>1 DEF TogetherInv, WireInv
<1>9. TogetherInv'
  BY <1>2, <1>3 DEF TogetherInv, WireInv
<1>10. CellInv'
  <2> SUFFICES ASSUME NEW p \in 1..L+S
               PROVE  LET c == wire'[p] IN
                        \/ c.frame = None /\ c.place = 0 /\ c.byte # START1
                        \/ c.frame \in Frames /\ c.place \in 1..(4 + Size(c.frame))
                              /\ c = CellOf(sent[c.frame], c.frame, c.place)
    BY <1>2, <1>4 DEF CellInv, Cell, Size, Frames
  <2>1. CASE p \in 1..L
    BY <1>4, <2>1 DEF WireInv, CellInv, Cell
  <2>2. CASE p \in L+1..L+S
    <3>1. 4 + (p - L) \in 1..(4 + Size(g))
      BY <1>1, <1>6, <2>2
    <3> QED BY <1>1, <1>5, <1>6, <2>2, <3>1
  <2> QED BY <1>1, <2>1, <2>2
<1>11. NextInv'
  <2> SUFFICES ASSUME NEW p \in 1..L+S, NEW f, f = wire'[p].frame, NEW k, k = wire'[p].place,
                      f # None, k # 4, k # 4 + Size(f)
               PROVE  p + 1 <= L + S /\ wire'[p + 1] = CellOf(sent[f], f, k + 1)
    BY <1>2, <1>4, SMTT(30) DEF NextInv, Cell, Size
  <2>1. CASE p \in 1..L
    <3>1. p + 1 <= L /\ wire[p + 1] = CellOf(sent[f], f, k + 1)
      BY <1>4, <2>1 DEF WireInv, NextInv, Cell
    <3>2. p + 1 \in 1..L
      BY <1>1, <2>1, <3>1
    <3> QED BY <1>1, <1>4, <3>1, <3>2
  <2>2. CASE p \in L+1..L+S
    <3>1. f = g /\ k = 4 + (p - L) /\ p - L \in 1..S
      BY <1>6, <2>2
    <3>2. p + 1 \in L+1..L+S /\ 4 + ((p + 1) - L) = k + 1
      BY <1>1, <2>2, <3>1, SMTT(30)
    <3> QED BY <1>5, <3>1, <3>2
  <2> QED BY <1>1, <2>1, <2>2
<1>12. PrevInv'
  <2> SUFFICES ASSUME NEW p \in 2..L+S, NEW f, f = wire'[p].frame, NEW k, k = wire'[p].place,
                      f # None, f \notin torn, k > 1
               PROVE  wire'[p - 1].frame = f /\ wire'[p - 1].place = k - 1
    BY <1>2, <1>4 DEF PrevInv
  <2>1. CASE p \in 1..L
    <3>1. f = wire[p].frame /\ k = wire[p].place /\ p \in 2..L /\ p - 1 \in 1..L
      BY <1>1, <1>4, <2>1
    <3>2. wire[p - 1].frame = f /\ wire[p - 1].place = k - 1
      BY <3>1 DEF WireInv, PrevInv
    <3> QED BY <1>4, <3>1, <3>2
  <2>2. CASE p \in L+2..L+S
    <3>1. f = g /\ k = 4 + (p - L) /\ p \in L+1..L+S
      BY <1>1, <1>6, <2>2
    <3>2. p - 1 \in L+1..L+S /\ 4 + ((p - 1) - L) = k - 1
      BY <1>1, <2>2, <3>1
    <3> QED BY <1>6, <3>1, <3>2
  <2>3. CASE p = L + 1
    <3>1. f = g /\ k = 5 /\ L \in 1..L /\ p - 1 = L
      BY <1>1, <1>6, <2>3
    <3>2. wire # <<>>
      BY <3>1
    <3>3. wire[L].frame = g /\ wire[L].place = 4
      BY <1>1, <3>1, <3>2 DEF WireInv, BusyInv
    <3> QED BY <1>4, <3>1, <3>3
  <2> QED BY <1>1, <2>1, <2>2, <2>3
<1>13. StartInv'
  <2> SUFFICES ASSUME NEW q \in 1..L+S, wire'[q].place = 1
               PROVE  /\ \A p \in 1..(q - 1) : wire'[p].frame < wire'[q].frame
                      /\ at < wire'[q].frame
                      /\ \A s \in spoiled : s < wire'[q].frame
    BY <1>2, <1>4 DEF StartInv
  <2>1. q \in 1..L
    BY <1>1, <1>6
  <2>2. wire'[q] = wire[q] /\ \A p \in 1..(q - 1) : p \in 1..L /\ wire'[p] = wire[p]
    BY <1>1, <1>4, <2>1
  <2> QED BY <2>1, <2>2 DEF WireInv, StartInv
<1>14. OrderInv'
  <2>1. ASSUME NEW p \in 1..L+S, NEW q \in 1..L+S, p < q, NEW f, f = wire'[p].frame,
               NEW h, h = wire'[q].frame, f # None, f \notin torn, h # None
        PROVE  f < h \/ (f = h /\ wire'[p].place < wire'[q].place)
    <3>1. CASE q \in 1..L
      <4>1. p \in 1..L /\ wire'[p] = wire[p] /\ wire'[q] = wire[q]
        BY <1>1, <1>4, <2>1, <3>1
      <4> QED BY <2>1, <3>1, <4>1 DEF WireInv, OrderInv
    <3>2. CASE q \in L+1..L+S /\ p \in 1..L
      <4>1. h = g /\ wire'[q].place = 4 + (q - L) /\ q - L \in 1..S
        BY <1>6, <2>1, <3>2
      <4>2. wire'[p] = wire[p] /\ wire[p].place \in Nat
        BY <1>4, <1>7, <3>2
      <4>3. f < g \/ (f = g /\ wire[p].place <= 4)
        BY <1>1, <2>1, <3>2, <4>2 DEF WireInv, OrderInv
      <4> QED BY <1>1, <4>1, <4>2, <4>3, SMTT(30)
    <3>3. CASE q \in L+1..L+S /\ p \in L+1..L+S
      <4>1. h = g /\ wire'[q].place = 4 + (q - L) /\ f = g /\ wire'[p].place = 4 + (p - L)
        BY <1>6, <2>1, <3>3
      <4> QED BY <1>1, <2>1, <4>1
    <3> QED BY <1>1, <2>1, <3>1, <3>2, <3>3
  <2>2. ASSUME NEW p \in 1..L+S, NEW f, f = wire'[p].frame, f # None, f \notin torn,
               NEW v \in Writers, writing'[v] # None
        PROVE  f < writing'[v] \/ (f = writing'[v] /\ wire'[p].place <= 4)
    <3>1. v # w /\ writing'[v] = writing[v] /\ g \in torn
      BY <1>3, <1>8, <2>2
    <3>2. p \in 1..L
      BY <1>1, <1>6, <2>2, <3>1
    <3> QED BY <1>4, <2>2, <3>1, <3>2 DEF WireInv, OrderInv
  <2> QED BY <1>2, <1>4, <2>1, <2>2 DEF OrderInv
<1>15. BusyInv'
  BY <1>2, <1>3, <1>8 DEF BusyInv
<1>16. RestInv'
  <2> SUFFICES ASSUME NEW p \in 1..L+S, NEW f, f = wire'[p].frame, f # None, wire'[p].place = 4
               PROVE  Rest(f, 0, p)'
    BY <1>4 DEF RestInv
  <2>1. p \in 1..L
    BY <1>1, <1>6
  <2>2. f = wire[p].frame /\ wire[p].place = 4
    BY <1>4, <2>1
  <2>3. f \in Frames
    BY <2>1, <2>2, WireCells DEF WireInv
  <2>4. Rest(f, 0, p)
    BY <2>1, <2>2 DEF WireInv, RestInv
  <2>5. 0 \in 0..Size(f) /\ p \in 0..Len(wire)
    BY <1>1, <2>1, <2>3, SentFrames
  <2> QED BY <2>3, <2>4, <2>5, BodyRest DEF WireInv
<1> QED BY <1>9, <1>10, <1>11, <1>12, <1>13, <1>14, <1>15, <1>16 DEF WireInv

-----------------------------------------------------------------------------
(* The wire, when debug text is written                                     *)

LEMMA NoiseRest ==
    ASSUME TypeInv, WriteNoise, NEW f \in Frames, NEW n \in 0..Size(f), NEW o \in 0..Len(wire),
           Rest(f, n, o)
    PROVE  Rest(f, n, o)'
<1> SUFFICES ASSUME NEW L, L = Len(wire) PROVE Rest(f, n, o)'
  OBVIOUS
<1>1. Len(wire') = L + 1 /\ L \in Nat /\ \A p \in 1..L : wire'[p] = wire[p]
  BY NoiseStep
<1>2. UNCHANGED <<writing, sent, torn>>
  BY DEF WriteNoise, writerVars
<1>3. Size(f) \in Nat /\ Size(f)' = Size(f)
  BY <1>2, SentFrames DEF Size
<1>4. ~Busy(f)
  BY NoiseStep, SentFrames DEF Busy, None
<1>5. CASE f \in torn
  <2>1. o + (Size(f) - n) <= L
    BY <1>1, <1>3, <1>4, <1>5 DEF Rest
  <2>2. \A p \in 1..L+1 : o < p /\ p <= o + (Size(f) - n) => p \in 1..L /\ wire'[p].frame \in torn
    BY <1>1, <1>3, <1>5, <2>1 DEF Rest
  <2>3. ~(Len(wire') < o + (Size(f) - n))
    BY <1>1, <1>3, <2>1
  <2> QED BY <1>1, <1>2, <1>3, <1>5, <2>2, <2>3 DEF Rest
<1>6. CASE f \notin torn
  <2>1. \A j \in 1..(Size(f) - n) : o + j \in 1..L /\ wire'[o + j] = CellOf(sent[f], f, 4 + n + j)
    BY <1>1, <1>3, <1>4, <1>6, SMTT(30) DEF Rest, Cell
  <2>2. o + (Size(f) - n) <= Len(wire')
    BY <1>1, <1>3, <1>4, <1>6 DEF Rest
  <2> QED BY <1>2, <1>3, <1>6, <2>1, <2>2 DEF Rest, Cell
<1> QED BY <1>5, <1>6

LEMMA NoiseWire == ASSUME TypeInv, WireInv, WriteNoise PROVE WireInv'
<1> SUFFICES ASSUME NEW L, L = Len(wire) PROVE WireInv'
  OBVIOUS
<1>1. Len(wire') = L + 1 /\ L \in Nat /\ \A p \in 1..L : wire'[p] = wire[p]
  BY NoiseStep
<1>2. wire'[L + 1].frame = None /\ wire'[L + 1].place = 0 /\ wire'[L + 1].byte # START1
  BY NoiseStep
<1>3. \A w \in Writers : writing[w] = None
  BY NoiseStep
<1>4. UNCHANGED <<writing, sent, torn, at, spoiled>>
  BY DEF WriteNoise, writerVars
<1>5. 1..L+1 = 1..L \union {L+1}
  BY <1>1
<1>6. TogetherInv'
  BY <1>3, <1>4 DEF TogetherInv
<1>7. CellInv'
  <2> SUFFICES ASSUME NEW p \in 1..L+1
               PROVE  LET c == wire'[p] IN
                        \/ c.frame = None /\ c.place = 0 /\ c.byte # START1
                        \/ c.frame \in Frames /\ c.place \in 1..(4 + Size(c.frame))
                              /\ c = CellOf(sent[c.frame], c.frame, c.place)
    BY <1>1, <1>4 DEF CellInv, Cell, Size, Frames
  <2>1. CASE p \in 1..L
    BY <1>1, <2>1 DEF WireInv, CellInv, Cell
  <2> QED BY <1>2, <1>5, <2>1
<1>8. NextInv'
  <2> SUFFICES ASSUME NEW p \in 1..L+1, NEW f, f = wire'[p].frame, NEW k, k = wire'[p].place,
                      f # None, k # 4, k # 4 + Size(f)
               PROVE  p + 1 <= L + 1 /\ wire'[p + 1] = CellOf(sent[f], f, k + 1)
    BY <1>1, <1>4 DEF NextInv, Cell, Size
  <2>1. p \in 1..L
    BY <1>2, <1>5
  <2>2. p + 1 <= L /\ wire[p + 1] = CellOf(sent[f], f, k + 1)
    BY <1>1, <2>1 DEF WireInv, NextInv, Cell
  <2>3. p + 1 \in 1..L
    BY <1>1, <2>1, <2>2
  <2> QED BY <1>1, <2>2, <2>3
<1>9. PrevInv'
  <2> SUFFICES ASSUME NEW p \in 2..L+1, NEW f, f = wire'[p].frame, NEW k, k = wire'[p].place,
                      f # None, f \notin torn, k > 1
               PROVE  wire'[p - 1].frame = f /\ wire'[p - 1].place = k - 1
    BY <1>1, <1>4 DEF PrevInv
  <2>1. p \in 2..L /\ p \in 1..L /\ p - 1 \in 1..L
    BY <1>1, <1>2
  <2>2. wire[p - 1].frame = f /\ wire[p - 1].place = k - 1
    BY <1>1, <2>1 DEF WireInv, PrevInv
  <2> QED BY <1>1, <2>1, <2>2
<1>10. StartInv'
  <2> SUFFICES ASSUME NEW q \in 1..L+1, wire'[q].place = 1
               PROVE  /\ \A p \in 1..(q - 1) : wire'[p].frame < wire'[q].frame
                      /\ at < wire'[q].frame
                      /\ \A s \in spoiled : s < wire'[q].frame
    BY <1>1, <1>4 DEF StartInv
  <2>1. q \in 1..L
    BY <1>2, <1>5
  <2>2. wire'[q] = wire[q] /\ \A p \in 1..(q - 1) : p \in 1..L /\ wire'[p] = wire[p]
    BY <1>1, <2>1
  <2> QED BY <2>1, <2>2 DEF WireInv, StartInv
<1>11. OrderInv'
  <2>1. ASSUME NEW p \in 1..L+1, NEW q \in 1..L+1, p < q, NEW f, f = wire'[p].frame,
               NEW h, h = wire'[q].frame, f # None, f \notin torn, h # None
        PROVE  f < h \/ (f = h /\ wire'[p].place < wire'[q].place)
    <3>1. p \in 1..L /\ q \in 1..L
      BY <1>2, <1>5, <2>1
    <3>2. wire'[p] = wire[p] /\ wire'[q] = wire[q]
      BY <1>1, <3>1
    <3> QED BY <2>1, <3>1, <3>2 DEF WireInv, OrderInv
  <2> QED BY <1>1, <1>3, <1>4, <2>1 DEF OrderInv
<1>12. BusyInv'
  BY <1>3, <1>4 DEF BusyInv
<1>13. RestInv'
  <2> SUFFICES ASSUME NEW p \in 1..L+1, NEW f, f = wire'[p].frame, f # None, wire'[p].place = 4
               PROVE  Rest(f, 0, p)'
    BY <1>1 DEF RestInv
  <2>1. p \in 1..L
    BY <1>2, <1>5
  <2>2. f = wire[p].frame /\ wire[p].place = 4
    BY <1>1, <2>1
  <2>3. f \in Frames
    BY <2>1, <2>2, WireCells DEF WireInv
  <2>4. Rest(f, 0, p)
    BY <2>1, <2>2 DEF WireInv, RestInv
  <2>5. 0 \in 0..Size(f) /\ p \in 0..Len(wire)
    BY <1>1, <2>1, <2>3, SentFrames
  <2> QED BY <2>3, <2>4, <2>5, NoiseRest
<1> QED BY <1>6, <1>7, <1>8, <1>9, <1>10, <1>11, <1>12, <1>13 DEF WireInv

-----------------------------------------------------------------------------
(* The wire, when a byte is read                                            *)

LEMMA ByteRest ==
    ASSUME TypeInv, ReadByte, NEW f \in Frames, NEW n \in 0..Size(f), NEW o \in 1..Len(wire),
           Rest(f, n, o)
    PROVE  Rest(f, n, o - 1)'
<1> SUFFICES ASSUME NEW L, L = Len(wire) PROVE Rest(f, n, o - 1)'
  OBVIOUS
<1>1. /\ L \in Nat /\ Len(wire') = L - 1 /\ L > 0
      /\ \A p \in 1..L-1 : p + 1 \in 1..L /\ wire'[p] = wire[p + 1]
  BY ByteStep
<1>2. UNCHANGED <<writing, sent, torn>>
  BY ByteStep
<1>3. Size(f) \in Nat /\ Size(f)' = Size(f) /\ Busy(f)' = Busy(f)
  BY <1>2, SentFrames DEF Size, Busy
<1>4. CASE f \in torn
  <2>1. ASSUME NEW p \in 1..L-1, o - 1 < p, p <= (o - 1) + (Size(f) - n)
        PROVE  wire'[p].frame \in torn
    <3>1. p + 1 \in 1..L /\ o < p + 1 /\ p + 1 <= o + (Size(f) - n)
      BY <1>1, <1>3, <2>1
    <3> QED BY <1>1, <1>4, <3>1 DEF Rest
  <2>2. Len(wire') < (o - 1) + (Size(f) - n) => Len(wire) < o + (Size(f) - n)
    BY <1>1, <1>3
  <2> QED BY <1>1, <1>2, <1>3, <1>4, <2>1, <2>2 DEF Rest
<1>5. CASE f \notin torn /\ Busy(f) /\ n = 0 /\ L = o
  BY <1>1, <1>2, <1>3, <1>5 DEF Rest
<1>6. CASE /\ f \notin torn /\ o + (Size(f) - n) <= L
           /\ \A j \in 1..(Size(f) - n) : wire[o + j] = Cell(f, 4 + n + j)
  <2>1. ASSUME NEW j \in 1..(Size(f) - n)
        PROVE  wire'[(o - 1) + j] = CellOf(sent[f], f, 4 + n + j)
    <3>1. (o - 1) + j \in 1..L-1 /\ ((o - 1) + j) + 1 = o + j
      BY <1>1, <1>3, <1>6, <2>1
    <3> QED BY <1>1, <1>6, <2>1, <3>1 DEF Cell
  <2>2. (o - 1) + (Size(f) - n) <= Len(wire')
    BY <1>1, <1>3, <1>6
  <2> QED BY <1>2, <1>3, <1>6, <2>1, <2>2 DEF Rest, Cell
<1> QED BY <1>4, <1>5, <1>6 DEF Rest

\* A byte of a packet is one of its frame, or of a torn one.
LEMMA ByteTaken ==
    ASSUME TypeInv, ReadByte, NEW f \in Frames, NEW n \in Nat, n < Size(f), Rest(f, n, 0)
    PROVE  /\ Rest(f, n + 1, 0)'
           /\ f \in torn => wire[1].frame \in torn
           /\ f \notin torn => wire[1] = Cell(f, 4 + (n + 1))
<1> SUFFICES ASSUME NEW L, L = Len(wire)
             PROVE  /\ Rest(f, n + 1, 0)'
                    /\ f \in torn => wire[1].frame \in torn
                    /\ f \notin torn => wire[1] = Cell(f, 4 + (n + 1))
  OBVIOUS
<1>1. /\ L \in Nat /\ Len(wire') = L - 1 /\ L > 0
      /\ \A p \in 1..L-1 : p + 1 \in 1..L /\ wire'[p] = wire[p + 1]
  BY ByteStep
<1>2. UNCHANGED <<writing, sent, torn>>
  BY ByteStep
<1>3. Size(f) \in Nat /\ Size(f)' = Size(f) /\ Busy(f)' = Busy(f)
  BY <1>2, SentFrames DEF Size, Busy
<1>4. CASE f \in torn
  <2>1. wire[1].frame \in torn
    BY <1>1, <1>3, <1>4 DEF Rest
  <2>2. ASSUME NEW p \in 1..L-1, 0 < p, p <= 0 + (Size(f) - (n + 1))
        PROVE  wire'[p].frame \in torn
    <3>1. p + 1 \in 1..L /\ 0 < p + 1 /\ p + 1 <= 0 + (Size(f) - n)
      BY <1>1, <1>3, <2>2
    <3> QED BY <1>1, <1>4, <3>1 DEF Rest
  <2>3. Len(wire') < 0 + (Size(f) - (n + 1)) => Len(wire) < 0 + (Size(f) - n)
    BY <1>1, <1>3
  <2>4. Rest(f, n + 1, 0)'
    BY <1>1, <1>2, <1>3, <1>4, <2>2, <2>3 DEF Rest
  <2> QED BY <1>4, <2>1, <2>4
<1>5. CASE f \notin torn
  <2>1. 0 + (Size(f) - n) <= L /\ \A j \in 1..(Size(f) - n) : wire[0 + j] = CellOf(sent[f], f, 4 + n + j)
    BY <1>1, <1>5 DEF Rest, Cell
  <2>2. wire[1] = CellOf(sent[f], f, 4 + (n + 1))
    <3>1. 1 \in 1..(Size(f) - n) /\ 0 + 1 = 1 /\ 4 + n + 1 = 4 + (n + 1)
      BY <1>3
    <3> QED BY <2>1, <3>1
  <2>3. ASSUME NEW j \in 1..(Size(f) - (n + 1))
        PROVE  wire'[0 + j] = CellOf(sent[f], f, 4 + (n + 1) + j)
    <3>1. /\ 0 + j \in 1..L-1 /\ j + 1 \in 1..(Size(f) - n)
          /\ (0 + j) + 1 = 0 + (j + 1) /\ 4 + (n + 1) + j = 4 + n + (j + 1)
      BY <1>1, <1>3, <2>1, <2>3
    <3> QED BY <1>1, <2>1, <3>1
  <2>4. 0 + (Size(f) - (n + 1)) <= Len(wire')
    BY <1>1, <1>3, <2>1
  <2>5. Rest(f, n + 1, 0)'
    BY <1>2, <1>3, <1>5, <2>3, <2>4 DEF Rest, Cell
  <2> QED BY <1>5, <2>2, <2>5 DEF Cell
<1> QED BY <1>4, <1>5

LEMMA ByteWire == ASSUME TypeInv, WireInv, ReadByte PROVE WireInv'
<1> SUFFICES ASSUME NEW L, L = Len(wire) PROVE WireInv'
  OBVIOUS
<1>1. /\ L \in Nat /\ Len(wire') = L - 1 /\ L > 0
      /\ \A p \in 1..L-1 : p + 1 \in 1..L /\ wire'[p] = wire[p + 1]
  BY ByteStep
<1>2. UNCHANGED <<writing, sent, torn, spoiled>> /\ at' = wire[1].frame
  BY ByteStep
<1>3. TogetherInv'
  BY <1>2 DEF TogetherInv, WireInv
<1>4. CellInv'
  BY <1>1, <1>2, SMTT(30) DEF CellInv, Cell, Size, Frames, WireInv
<1>5. NextInv'
  <2> SUFFICES ASSUME NEW p \in 1..L-1, NEW f, f = wire'[p].frame, NEW k, k = wire'[p].place,
                      f # None, k # 4, k # 4 + Size(f)
               PROVE  p + 1 <= L - 1 /\ wire'[p + 1] = CellOf(sent[f], f, k + 1)
    BY <1>1, <1>2, SMTT(30) DEF NextInv, Cell, Size
  <2>1. (p + 1) + 1 <= L /\ wire[(p + 1) + 1] = CellOf(sent[f], f, k + 1)
    BY <1>1 DEF WireInv, NextInv, Cell
  <2>2. p + 1 \in 1..L-1
    BY <1>1, <2>1
  <2> QED BY <1>1, <2>1, <2>2
<1>6. PrevInv'
  <2> SUFFICES ASSUME NEW p \in 2..L-1, NEW f, f = wire'[p].frame, NEW k, k = wire'[p].place,
                      f # None, f \notin torn, k > 1
               PROVE  wire'[p - 1].frame = f /\ wire'[p - 1].place = k - 1
    BY <1>1, <1>2 DEF PrevInv
  <2>1. p + 1 \in 2..L /\ p \in 1..L-1 /\ p - 1 \in 1..L-1 /\ (p + 1) - 1 = p /\ (p - 1) + 1 = p
    BY <1>1
  <2>2. wire[p].frame = f /\ wire[p].place = k - 1
    BY <1>1, <2>1 DEF WireInv, PrevInv
  <2> QED BY <1>1, <2>1, <2>2
<1>7. StartInv'
  <2> SUFFICES ASSUME NEW q \in 1..L-1, wire'[q].place = 1
               PROVE  /\ \A p \in 1..(q - 1) : wire'[p].frame < wire'[q].frame
                      /\ wire[1].frame < wire'[q].frame
                      /\ \A s \in spoiled : s < wire'[q].frame
    BY <1>1, <1>2 DEF StartInv
  <2>1. wire'[q] = wire[q + 1] /\ q + 1 \in 1..L /\ wire[q + 1].place = 1
    BY <1>1
  <2>2. /\ \A p \in 1..q : wire[p].frame < wire[q + 1].frame
        /\ \A s \in spoiled : s < wire[q + 1].frame
    <3>1. (q + 1) - 1 = q
      BY <1>1
    <3> QED BY <2>1, <3>1 DEF WireInv, StartInv
  <2>3. \A p \in 1..(q - 1) : p + 1 \in 1..q /\ wire'[p] = wire[p + 1]
    BY <1>1
  <2>4. 1 \in 1..q
    BY <1>1
  <2> QED BY <2>1, <2>2, <2>3, <2>4
<1>8. OrderInv'
  <2>1. ASSUME NEW p \in 1..L-1, NEW q \in 1..L-1, p < q, NEW f, f = wire'[p].frame,
               NEW h, h = wire'[q].frame, f # None, f \notin torn, h # None
        PROVE  f < h \/ (f = h /\ wire'[p].place < wire'[q].place)
    <3>1. /\ p + 1 \in 1..L /\ q + 1 \in 1..L /\ p + 1 < q + 1
          /\ wire'[p] = wire[p + 1] /\ wire'[q] = wire[q + 1]
      BY <1>1, <2>1
    <3> QED BY <2>1, <3>1 DEF WireInv, OrderInv
  <2>2. ASSUME NEW p \in 1..L-1, NEW f, f = wire'[p].frame, f # None, f \notin torn,
               NEW v \in Writers, writing[v] # None
        PROVE  f < writing[v] \/ (f = writing[v] /\ wire'[p].place <= 4)
    BY <1>1, <2>2 DEF WireInv, OrderInv
  <2> QED BY <1>1, <1>2, <2>1, <2>2 DEF OrderInv
<1>9. BusyInv'
  <2> SUFFICES ASSUME NEW w \in Writers, writing[w] # None, writing[w] \notin torn, wire' # <<>>
               PROVE  wire'[L - 1].frame = writing[w] /\ wire'[L - 1].place = 4
    BY <1>1, <1>2 DEF BusyInv
  <2>1. L - 1 \in 1..L-1 /\ (L - 1) + 1 = L
    BY <1>1, ByteStep
  <2>2. wire[L].frame = writing[w] /\ wire[L].place = 4
    BY ByteStep DEF WireInv, BusyInv
  <2> QED BY <1>1, <2>1, <2>2
<1>10. RestInv'
  <2> SUFFICES ASSUME NEW p \in 1..L-1, NEW f, f = wire'[p].frame, f # None, wire'[p].place = 4
               PROVE  Rest(f, 0, p)'
    BY <1>1 DEF RestInv
  <2>1. f = wire[p + 1].frame /\ wire[p + 1].place = 4 /\ p + 1 \in 1..L
    BY <1>1
  <2>2. f \in Frames
    BY <2>1, WireCells DEF WireInv
  <2>3. Rest(f, 0, p + 1)
    BY <2>1 DEF WireInv, RestInv
  <2>4. 0 \in 0..Size(f) /\ p + 1 \in 1..Len(wire) /\ (p + 1) - 1 = p
    BY <1>1, <2>1, <2>2, SentFrames
  <2>5. Rest(f, 0, (p + 1) - 1)'
    BY <2>2, <2>3, <2>4, ByteRest
  <2> QED BY <2>4, <2>5
<1> QED BY <1>3, <1>4, <1>5, <1>6, <1>7, <1>8, <1>9, <1>10 DEF WireInv

\* An error strikes only what was begun.
LEMMA OthersWire == ASSUME TypeInv, WireInv, Close \/ ReadFails \/ ReadEof PROVE WireInv'
<1>1. UNCHANGED <<writing, sent, torn, wire, at>>
  BY DEF Close, ReadFails, ReadEof, writerVars
<1>2. spoiled' \subseteq spoiled \union {at}
  BY DEF Close, ReadFails, ReadEof
<1>3. StartInv'
  BY <1>1, <1>2 DEF StartInv, WireInv
<1>4. RestInv'
  BY <1>1 DEF RestInv, Rest, Busy, Size, Cell, WireInv
<1>5. TogetherInv' /\ PrevInv' /\ OrderInv' /\ BusyInv'
  BY <1>1 DEF TogetherInv, PrevInv, OrderInv, BusyInv, WireInv
<1>6. CellInv' /\ NextInv'
  BY <1>1 DEF CellInv, NextInv, Cell, Size, Frames, WireInv
<1> QED BY <1>3, <1>4, <1>5, <1>6 DEF WireInv

-----------------------------------------------------------------------------
(* What only grows                                                          *)

LEMMA Grow ==
    ASSUME TypeInv, Next
    PROVE  /\ spoiled \subseteq spoiled' /\ torn \subseteq torn'
           /\ \A f \in Frames : f \in Frames' /\ sent'[f] = sent[f] /\ Size(f)' = Size(f)
<1>1. ASSUME NEW w \in Writers, WriteHeader(w)
      PROVE  /\ spoiled \subseteq spoiled' /\ torn \subseteq torn'
             /\ \A f \in Frames : f \in Frames' /\ sent'[f] = sent[f] /\ Size(f)' = Size(f)
  <2>1. \A f \in Frames : f \in Frames' /\ sent'[f] = sent[f] /\ Size(f)' = Size(f)
    BY <1>1, HeaderStep
  <2>2. spoiled' = spoiled /\ torn \subseteq torn'
    BY <1>1 DEF WriteHeader
  <2> QED BY <2>1, <2>2
<1>2. CASE UNCHANGED <<sent, torn>> /\ spoiled \subseteq spoiled'
  BY <1>2 DEF Frames, Size
<1>3. ASSUME NEW w \in Writers, WriteBody(w) PROVE UNCHANGED <<sent, torn>> /\ spoiled \subseteq spoiled'
  BY <1>3 DEF WriteBody
<1>4. CASE WriteNoise \/ Close \/ ReadByte \/ ReadFails \/ ReadEof
  BY <1>2, <1>4 DEF WriteNoise, Close, ReadByte, ReadFails, ReadEof, writerVars
<1> QED BY <1>1, <1>2, <1>3, <1>4 DEF Next, Writing

LEMMA SearchedFrames == ASSUME TypeInv, NEW f \in Searched PROVE f \in Frames
  BY DEF TypeInv, Searched, Frames, None

\* What is searched for a header is so for ever, so the parser was undisturbed
\* before, if it is now.
LEMMA SearchedGrow == ASSUME TypeInv, Next PROVE Searched \subseteq Searched'
<1>1. ASSUME NEW f \in Frames, TooBig(Len(sent[f])) PROVE f \in Searched'
  <2>1. f \in Frames' /\ sent'[f] = sent[f]
    BY Grow
  <2>2. TooBig(Len(sent'[f]))
    BY <1>1, <2>1 DEF TooBig
  <2> QED BY <2>1, <2>2 DEF Searched, TooBig, Frames
<1>2. ASSUME NEW f \in (spoiled \ {None}) \union torn PROVE f \in Searched'
  BY <1>2, Grow DEF Searched
<1> QED BY <1>1, <1>2 DEF Searched, Frames

LEMMA UndisturbedBefore == ASSUME TypeInv, Next, Undisturbed' PROVE Undisturbed
<1> SUFFICES ASSUME NEW f \in Searched PROVE ~Misleading(f)
  BY DEF Undisturbed
<1>1. f \in Searched' /\ sent'[f] = sent[f]
  BY SearchedFrames, SearchedGrow, Grow
<1>2. ~(Misleading(f)')
  BY <1>1 DEF Undisturbed
<1> QED BY <1>1, <1>2 DEF Misleading

-----------------------------------------------------------------------------
(* The parser, when something is written                                    *)

LEMMA TakingSize ==
    ASSUME TypeInv, state = Body, NEW h \in Frames, length = Size(h)
    PROVE  Len(body) \in Nat /\ Len(body) < Size(h) /\ Size(h) \in Nat /\ Len(body) \in 0..Size(h)
           /\ length \in Sizes
<1>1. Size(h) \in Nat
  BY SentFrames
<1>2. Len(body) \in Nat /\ Len(body) < Size(h) /\ length \in Sizes
  BY DEF TypeInv
<1> QED BY <1>1, <1>2

\* Writing takes nothing from the parser: what is ahead of it stays there.
LEMMA WriteParser ==
    ASSUME TypeInv, Next, ParserInv, UNCHANGED <<parserVars, at, spoiled>>,
           NEW L, L = Len(wire), L \in Nat, Len(wire') \in Nat, L <= Len(wire'),
           \A p \in 1..L : wire'[p] = wire[p],
           \A h \in Frames : Rest(h, Len(body), 0) /\ state = Body /\ length = Size(h)
                                => Rest(h, Len(body), 0)'
    PROVE  HeaderInv' /\ BodyInv'
<1>1. UNCHANGED <<state, length, body>>
  BY DEF parserVars
<1>2. HeaderInv'
  <2> SUFFICES ASSUME state \in 1..3
               PROVE  /\ at \in Frames' /\ at \notin spoiled
                      /\ wire' # <<>> /\ wire'[1] = CellOf(sent'[at], at, state + 1)
                      /\ state = 3 => length = (Len(sent'[at]) \div Base) * Base
    BY <1>1 DEF HeaderInv, Cell, Size
  <2>1. /\ at \in Frames /\ at \notin spoiled
        /\ wire # <<>> /\ wire[1] = CellOf(sent[at], at, state + 1)
        /\ state = 3 => length = (Len(sent[at]) \div Base) * Base
    BY DEF ParserInv, HeaderInv, Cell, Size
  <2>2. at \in Frames' /\ sent'[at] = sent[at]
    BY <2>1, Grow
  <2>3. L > 0
    BY <2>1 DEF TypeInv
  <2>4. wire'[1] = wire[1] /\ wire' # <<>>
    BY <2>3
  <2> QED BY <2>1, <2>2, <2>4
<1>3. BodyInv'
  <2> SUFFICES ASSUME state = Body PROVE \E h \in Frames' : Taking(h)'
    BY <1>1 DEF BodyInv
  <2>1. PICK h \in Frames : Taking(h)
    BY DEF ParserInv, BodyInv
  <2>2. /\ length = Size(h) /\ Rest(h, Len(body), 0)
        /\ h \in torn => at \in torn /\ \A p \in 1..Len(body) : body[p].frame \in torn
        /\ h \notin torn => /\ at = h /\ h \notin spoiled
                            /\ \A p \in 1..Len(body) : body[p] = CellOf(sent[h], h, 4 + p)
    BY <2>1 DEF Taking, Cell
  <2>3. h \in Frames' /\ sent'[h] = sent[h] /\ Size(h)' = Size(h) /\ torn \subseteq torn'
    BY Grow
  <2>4. Rest(h, Len(body), 0)'
    BY <2>2
  <2>5. h \in torn' => at \in torn' /\ \A p \in 1..Len(body) : body[p].frame \in torn'
    <3>1. CASE h \in torn
      BY <2>2, <2>3, <3>1
    <3>2. CASE h \notin torn
      BY <2>2, <3>2, CellFields
    <3> QED BY <3>1, <3>2
  <2>6. h \notin torn' => /\ at = h /\ h \notin spoiled
                          /\ \A p \in 1..Len(body) : body[p] = CellOf(sent'[h], h, 4 + p)
    BY <2>2, <2>3
  <2>7. Taking(h)'
    BY <1>1, <2>2, <2>3, <2>4, <2>5, <2>6 DEF Taking, Cell
  <2> QED BY <2>3, <2>7
<1> QED BY <1>2, <1>3

LEMMA HeaderParser ==
    ASSUME TypeInv, WireInv, ParserInv, NEW w \in Writers, WriteHeader(w)
    PROVE  ParserInv'
<1> SUFFICES ASSUME NEW L, L = Len(wire), NEW g, g = Len(sent) + 1 PROVE ParserInv'
  OBVIOUS
<1>1. L \in Nat /\ Len(wire') = L + 4 /\ \A p \in 1..L : wire'[p] = wire[p]
  BY HeaderStep
<1>2. UNCHANGED <<parserVars, at, spoiled>> /\ Next
  BY DEF WriteHeader, Next, Writing
<1>3. ASSUME NEW h \in Frames, Rest(h, Len(body), 0), state = Body, length = Size(h)
      PROVE  Rest(h, Len(body), 0)'
  <2>1. Len(body) \in 0..Size(h) /\ 0 \in 0..Len(wire) /\ Len(body)' = Len(body)
    BY <1>1, <1>2, <1>3, TakingSize DEF parserVars
  <2> SUFFICES ASSUME NEW n, n = Len(body) PROVE Rest(h, n, 0)'
    BY <2>1
  <2> QED BY <1>3, <2>1, HeaderRest DEF WireInv
<1>4. HeaderInv' /\ BodyInv'
  BY <1>1, <1>2, <1>3, WriteParser
<1>5. HeadInv'
  <2>1. wire' # <<>>
    BY <1>1
  <2> SUFFICES ASSUME NEW f, f = wire'[1].frame, NEW k, k = wire'[1].place, f # None, k > 1,
                      f \notin Searched'
               PROVE  Reached(f, k)'
    BY <2>1 DEF HeadInv
  <2>2. L > 0
    <3> SUFFICES ASSUME L = 0 PROVE FALSE
      BY <1>1
    <3>1. \A p \in L+1..L+4 : wire'[p].frame = g /\ wire'[p].place = p - L /\ p - L \in 1..4
      BY HeaderPlaces DEF WireInv
    <3>2. 1 \in L+1..L+4 /\ 1 - L = 1
      OBVIOUS
    <3> QED BY <3>1, <3>2
  <2>3. wire'[1] = wire[1] /\ wire # <<>>
    BY <1>1, <2>2
  <2>4. f \notin Searched
    BY <1>2, SearchedGrow
  <2>5. Reached(f, k)
    BY <2>3, <2>4 DEF ParserInv, HeadInv
  <2> QED BY <1>2, <2>5 DEF Reached, parserVars
<1> QED BY <1>4, <1>5 DEF ParserInv

LEMMA BodyParser ==
    ASSUME TypeInv, WireInv, ParserInv, NEW w \in Writers, WriteBody(w)
    PROVE  ParserInv'
<1> SUFFICES ASSUME NEW L, L = Len(wire), NEW g, g = writing[w], NEW S, S = Size(g)
             PROVE  ParserInv'
  OBVIOUS
<1>1. L \in Nat /\ S \in Nat /\ Len(wire') = L + S /\ \A p \in 1..L : wire'[p] = wire[p]
  BY BodyStep
<1>2. UNCHANGED <<parserVars, at, spoiled, sent, torn>> /\ Next
  BY DEF WriteBody, Next, Writing
<1>3. ASSUME NEW h \in Frames, Rest(h, Len(body), 0), state = Body, length = Size(h)
      PROVE  Rest(h, Len(body), 0)'
  <2>1. Len(body) \in 0..Size(h) /\ 0 \in 0..Len(wire) /\ Len(body)' = Len(body)
    BY <1>1, <1>2, <1>3, TakingSize DEF parserVars
  <2> SUFFICES ASSUME NEW n, n = Len(body) PROVE Rest(h, n, 0)'
    BY <2>1
  <2> QED BY <1>3, <2>1, BodyRest DEF WireInv
<1>4. HeaderInv' /\ BodyInv'
  BY <1>1, <1>2, <1>3, WriteParser
<1>5. \A f, k : Reached(f, k) => Reached(f, k)'
  BY <1>2 DEF Reached, parserVars
<1>6. \A f : f \notin Searched' => f \notin Searched
  BY <1>2, SearchedGrow
<1>7. ASSUME wire' # <<>>, NEW f, f = wire'[1].frame, NEW k, k = wire'[1].place, f # None, k > 1,
             f \notin Searched'
      PROVE  Reached(f, k)
  <2>1. CASE L > 0
    <3>1. wire'[1] = wire[1] /\ wire # <<>>
      BY <1>1, <2>1
    <3> QED BY <1>6, <1>7, <3>1 DEF ParserInv, HeadInv
  <2>2. CASE L = 0
    <3>1. wire = <<>> /\ S > 0
      <4>1. wire' \in Seq(Cells) /\ wire \in Seq(Cells)
        BY BodyKeeps DEF TypeInv
      <4>2. Len(wire') # 0
        BY <1>7, <4>1, EmptySequence
      <4>3. S > 0
        BY <1>1, <2>2, <4>2
      <4>4. Len(wire) = 0
        BY <2>2
      <4> QED BY <4>1, <4>3, <4>4, EmptySequence
    <3>2. \A p \in L+1..L+S : wire'[p].frame = g /\ wire'[p].place = 4 + (p - L) /\ p - L \in 1..S
      BY BodyPlaces DEF WireInv
    <3>3. f = g /\ k = 5
      BY <1>1, <1>7, <2>2, <3>1, <3>2
    <3> QED BY <1>6, <1>7, <3>1, <3>3 DEF ParserInv, HeadInv
  <2> QED BY <1>1, <2>1, <2>2
<1>8. ASSUME NEW v \in Writers, NEW f, f = writing'[v], f # None, f \notin Searched', wire' = <<>>,
             Size(f)' > 0
      PROVE  Reached(f, 5)
  <2>1. writing'[v] = writing[v]
    <3>1. \A u \in Writers : writing'[u] # None => u # w /\ writing'[u] = writing[u]
      BY BodyFacts DEF WireInv
    <3> QED BY <1>8, <3>1
  <2>2. wire = <<>>
    <3>1. Len(<<>>) = 0
      OBVIOUS
    <3>2. L + S = 0
      BY <1>1, <1>8, <3>1
    <3>3. Len(wire) = 0 /\ wire \in Seq(Cells)
      BY <1>1, <3>2 DEF TypeInv
    <3> QED BY <3>3
  <2>3. Size(f) > 0
    BY <1>2, <1>8 DEF Size
  <2> QED BY <1>6, <1>8, <2>1, <2>2, <2>3 DEF ParserInv, HeadInv
<1>9. HeadInv'
  <2>1. wire' # <<>> /\ wire'[1].frame # None /\ wire'[1].place > 1 /\ wire'[1].frame \notin Searched'
           => Reached(wire'[1].frame, wire'[1].place)
    BY <1>7
  <2>2. \A v \in Writers : writing'[v] # None /\ writing'[v] \notin Searched'
           /\ wire' = <<>> /\ Len(sent'[writing'[v]]) > 0 => Reached(writing'[v], 5)
    BY <1>8 DEF Size
  <2>3. UNCHANGED <<state, body, at>>
    BY <1>2 DEF parserVars
  <2> QED BY <2>1, <2>2, <2>3 DEF HeadInv, Reached, Size
<1> QED BY <1>4, <1>9 DEF ParserInv

LEMMA NoiseParser == ASSUME TypeInv, WireInv, ParserInv, WriteNoise PROVE ParserInv'
<1> SUFFICES ASSUME NEW L, L = Len(wire) PROVE ParserInv'
  OBVIOUS
<1>1. L \in Nat /\ Len(wire') = L + 1 /\ \A p \in 1..L : wire'[p] = wire[p]
  BY NoiseStep
<1>2. UNCHANGED <<parserVars, at, spoiled>> /\ Next
  BY DEF WriteNoise, Next, Writing
<1>3. ASSUME NEW h \in Frames, Rest(h, Len(body), 0), state = Body, length = Size(h)
      PROVE  Rest(h, Len(body), 0)'
  <2>1. Len(body) \in 0..Size(h) /\ 0 \in 0..Len(wire) /\ Len(body)' = Len(body)
    BY <1>1, <1>2, <1>3, TakingSize DEF parserVars
  <2> SUFFICES ASSUME NEW n, n = Len(body) PROVE Rest(h, n, 0)'
    BY <2>1
  <2> QED BY <1>3, <2>1, NoiseRest
<1>4. HeaderInv' /\ BodyInv'
  BY <1>1, <1>2, <1>3, WriteParser
<1>5. HeadInv'
  <2>1. wire' # <<>>
    BY <1>1
  <2> SUFFICES ASSUME NEW f, f = wire'[1].frame, NEW k, k = wire'[1].place, f # None, k > 1,
                      f \notin Searched'
               PROVE  Reached(f, k)'
    BY <2>1 DEF HeadInv
  <2>2. L > 0
    BY <1>1, NoiseStep
  <2>3. wire'[1] = wire[1] /\ wire # <<>>
    BY <1>1, <2>2
  <2>4. f \notin Searched
    BY <1>2, SearchedGrow
  <2>5. Reached(f, k)
    BY <2>3, <2>4 DEF ParserInv, HeadInv
  <2> QED BY <1>2, <2>5 DEF Reached, parserVars
<1> QED BY <1>4, <1>5 DEF ParserInv

-----------------------------------------------------------------------------
(* The parser, when a byte is read                                          *)

\* The bytes of a header.
LEMMA HeaderBytes ==
    ASSUME NEW m, NEW f
    PROVE  /\ CellOf(m, f, 1).byte = START1 /\ CellOf(m, f, 2).byte = START2
           /\ CellOf(m, f, 3).byte = Len(m) \div Base /\ CellOf(m, f, 4).byte = Len(m) % Base
  BY DEF CellOf, Header

\* What reading a byte does in each state.
LEMMA ByteCases ==
    ASSUME TypeInv, ReadByte, NEW c, c = wire[1]
    PROVE  /\ c \in Cells
           /\ state = 0 => /\ state' = (IF c.byte = START1 THEN 1 ELSE 0)
                           /\ UNCHANGED received
           /\ state = 1 => /\ state' = (IF c.byte = START2 THEN 2 ELSE 0)
                           /\ UNCHANGED received
           /\ state = 2 => /\ state' = 3 /\ length' = c.byte * Base
                           /\ UNCHANGED received
           /\ state = 3 => /\ state' = (IF TooBig(length + c.byte) \/ length + c.byte = 0 THEN 0 ELSE Body)
                           /\ state' = Body => length' = length + c.byte
                           /\ body' = <<>> /\ UNCHANGED received
           /\ state = Body => \/ /\ Len(body) + 1 < length /\ body' = Append(body, c)
                                 /\ UNCHANGED <<state, length, received>>
                              \/ /\ Len(body) + 1 = length /\ state' = 0
                                 /\ received' = Append(received, Append(body, c))
<1>1. c = Head(wire) /\ c \in Cells
  BY ByteStep DEF TypeInv
<1>2. \/ (Start(c.byte) \/ Second(c.byte) \/ High(c.byte) \/ Low(c.byte) \/ Part(c))
            /\ UNCHANGED received
      \/ Whole(c)
  BY <1>1 DEF ReadByte
<1> QED BY <1>1, <1>2 DEF Start, Second, High, Low, Part, Whole, Search, Body

\* The two bytes of a size give it back.
LEMMA SizeFound ==
    ASSUME NEW x \in Nat
    PROVE  (x \div Base) * Base + (x % Base) = x
<1> DEFINE q == x \div Base
           r == x % Base
<1>1. Base \in Nat /\ Base > 0
  BY FramingAssumption DEF Bytes
<1>2. q \in Int /\ r \in 0..(Base - 1) /\ x = Base * q + r
  BY <1>1
<1>3. q * Base + r = x
  <2> HIDE DEF q, r
  <2>1. q \in Int /\ r \in Int /\ Base \in Int
    BY <1>1, <1>2
  <2>2. Base * q = q * Base
    BY <2>1
  <2> QED BY <1>2, <2>1, <2>2
<1> QED BY <1>3

\* While it searches, the parser takes no byte for START1 but that of a header.
LEMMA StartsFrame ==
    ASSUME TypeInv, WireInv, ParserInv, Undisturbed, wire # <<>>, state = 0,
           wire[1].byte = START1
    PROVE  wire[1].frame \in Frames /\ wire[1].place = 1
<1> SUFFICES ASSUME NEW f, f = wire[1].frame, NEW k, k = wire[1].place
             PROVE  f \in Frames /\ k = 1
  OBVIOUS
<1>1. 1 \in 1..Len(wire)
  BY EmptySequence DEF TypeInv
<1>2. f # None
  <2>1. f = None => wire[1].byte # START1
    <3>1. None \notin Frames
      BY DEF None, Frames
    <3> QED BY <1>1, <3>1 DEF WireInv, CellInv
  <2> QED BY <2>1
<1>3. f \in Frames /\ k \in 1..(4 + Size(f)) /\ wire[1] = CellOf(sent[f], f, k) /\ Size(f) \in Nat
  BY <1>1, <1>2, WireCells DEF WireInv, Cell
<1>4. CellOf(sent[f], f, k).byte = START1
  BY <1>3
<1>5. ~(f \notin Searched /\ k > 1)
  <2> SUFFICES ASSUME f \notin Searched, k > 1 PROVE FALSE
    OBVIOUS
  <2>1. Reached(f, k)
    BY <1>2 DEF ParserInv, HeadInv
  <2> QED BY <1>3, <2>1 DEF Reached, Body
<1>6. Misleading(f) => f \notin Searched
  BY DEF Undisturbed
<1>7. k # 2
  BY <1>4, HeaderBytes, FramingAssumption
<1>8. k \in {3, 4} => Misleading(f)
  BY <1>4, HeaderBytes DEF Misleading
<1>9. k > 4 => Misleading(f)
  <2> SUFFICES ASSUME k > 4 PROVE Misleading(f)
    OBVIOUS
  <2>1. ~(k <= 4) /\ k - 4 \in 1..Len(sent[f])
    BY <1>3 DEF Size
  <2>2. sent[f][k - 4] = START1
    BY <1>4, <2>1 DEF CellOf
  <2> QED BY <2>1, <2>2 DEF Misleading
<1> QED BY <1>3, <1>5, <1>6, <1>7, <1>8, <1>9

\* The last byte of a header.
LEMMA LowStep ==
    ASSUME TypeInv, HeaderInv, ReadByte, state = 3, NEW f, f = at
    PROVE  /\ f \in Frames /\ f \notin spoiled /\ Size(f) \in Nat
           /\ wire[1].frame = f /\ wire[1].place = 4
           /\ state' = (IF TooBig(Size(f)) \/ Size(f) = 0 THEN 0 ELSE Body)
           /\ state' = Body => length' = Size(f)
           /\ body' = <<>> /\ UNCHANGED received
<1> SUFFICES ASSUME NEW c, c = wire[1]
             PROVE  /\ f \in Frames /\ f \notin spoiled /\ Size(f) \in Nat
                    /\ c.frame = f /\ c.place = 4
                    /\ state' = (IF TooBig(Size(f)) \/ Size(f) = 0 THEN 0 ELSE Body)
                    /\ state' = Body => length' = Size(f)
                    /\ body' = <<>> /\ UNCHANGED received
  OBVIOUS
<1>1. /\ f \in Frames /\ f \notin spoiled /\ c = CellOf(sent[f], f, 4)
      /\ length = (Size(f) \div Base) * Base
  BY DEF HeaderInv, Cell
<1>2. Size(f) \in Nat
  BY <1>1, SentFrames
<1>3. c.frame = f /\ c.place = 4 /\ c.byte = Size(f) % Base
  BY <1>1, CellFields, HeaderBytes DEF Size
<1>4. length + c.byte = Size(f)
  <2> DEFINE q == Size(f) \div Base
             r == Size(f) % Base
  <2>1. q * Base + r = Size(f)
    BY <1>2, SizeFound, Zenon
  <2>2. length = q * Base /\ c.byte = r
    BY <1>1, <1>3
  <2> HIDE DEF q, r
  <2> QED BY <2>1, <2>2
<1>5. /\ state' = (IF TooBig(length + c.byte) \/ length + c.byte = 0 THEN 0 ELSE Body)
      /\ state' = Body => length' = length + c.byte
      /\ body' = <<>> /\ UNCHANGED received
  BY ByteCases
<1> QED BY <1>1, <1>2, <1>3, <1>4, <1>5

\* The byte behind one that does not end its part of a frame.
LEMMA NextByte ==
    ASSUME TypeInv, WireInv, ReadByte, NEW f \in Frames, NEW k \in 1..3,
           wire[1].frame = f, wire[1].place = k
    PROVE  wire' # <<>> /\ wire'[1] = CellOf(sent[f], f, k + 1)
<1>1. 1 \in 1..Len(wire) /\ Len(wire) \in Nat /\ Len(wire') = Len(wire) - 1
  BY ByteStep
<1>2. f # None /\ k # 4 /\ k # 4 + Size(f)
  BY SentFrames DEF None
<1>3. 1 + 1 <= Len(wire) /\ wire[1 + 1] = CellOf(sent[f], f, k + 1)
  BY <1>1, <1>2 DEF WireInv, NextInv, Cell
<1>4. 1 \in 1..Len(wire')
  BY <1>1, <1>3
<1>5. wire'[1] = wire[1 + 1]
  BY <1>4, ByteStep
<1>6. wire' # <<>>
  BY <1>4
<1> QED BY <1>3, <1>5, <1>6

LEMMA ByteHeader ==
    ASSUME TypeInv, WireInv, ParserInv, Undisturbed, ReadByte
    PROVE  HeaderInv'
<1> SUFFICES ASSUME state' \in 1..3, NEW f, f = wire[1].frame
             PROVE  /\ f \in Frames /\ f \notin spoiled
                    /\ wire' # <<>> /\ wire'[1] = CellOf(sent[f], f, state' + 1)
                    /\ state' = 3 => length' = (Size(f) \div Base) * Base
  <2>1. UNCHANGED <<sent, spoiled>> /\ at' = wire[1].frame
    BY ByteStep
  <2> QED BY <2>1 DEF HeaderInv, Cell, Size, Frames
<1>1. wire # <<>> /\ 1 \in 1..Len(wire)
  BY ByteStep
<1>2. CASE state = 0
  <2>1. wire[1].byte = START1 /\ state' = 1
    BY <1>2, ByteCases
  <2>2. f \in Frames /\ wire[1].place = 1
    BY <1>1, <1>2, <2>1, StartsFrame
  <2>3. f \notin spoiled
    <3>1. \A s \in spoiled : s < f
      BY <1>1, <2>2 DEF WireInv, StartInv
    <3>2. f \in Nat
      BY <2>2, SentFrames
    <3> QED BY <3>1, <3>2
  <2>4. wire' # <<>> /\ wire'[1] = CellOf(sent[f], f, 1 + 1)
    BY <2>2, NextByte
  <2> QED BY <2>1, <2>2, <2>3, <2>4
<1>3. CASE state \in 1..3
  <2>1. /\ at \in Frames /\ at \notin spoiled /\ wire[1] = CellOf(sent[at], at, state + 1)
    BY <1>3 DEF ParserInv, HeaderInv, Cell
  <2>2. f = at /\ wire[1].place = state + 1
    BY <2>1, CellFields
  <2>3. state # 3
    <3>1. state = 3 => state' \in {0, 4}
      BY ByteCases DEF Body
    <3> QED BY <3>1
  <2>4. state + 1 \in 1..3
    BY <1>3, <2>3
  <2>5. wire' # <<>> /\ wire'[1] = CellOf(sent[f], f, (state + 1) + 1)
    BY <2>1, <2>2, <2>4, NextByte
  <2>6. state' = state + 1
    BY <1>3, <2>3, ByteCases
  <2>7. state' = 3 => length' = (Size(f) \div Base) * Base
    <3> SUFFICES ASSUME state' = 3 PROVE length' = (Size(f) \div Base) * Base
      OBVIOUS
    <3>1. state = 2
      BY <1>3, <2>6
    <3>2. length' = wire[1].byte * Base
      BY <3>1, ByteCases
    <3>3. wire[1] = CellOf(sent[f], f, 3)
      BY <2>1, <2>2, <3>1
    <3>4. wire[1].byte = Size(f) \div Base
      BY <3>3, HeaderBytes DEF Size
    <3> QED BY <3>2, <3>4
  <2> QED BY <2>1, <2>2, <2>5, <2>6, <2>7
<1>4. CASE state = Body
  BY <1>4, ByteCases DEF Body
<1> QED BY <1>2, <1>3, <1>4 DEF TypeInv, Body

LEMMA ByteBody ==
    ASSUME TypeInv, WireInv, ParserInv, ReadByte
    PROVE  BodyInv'
<1> SUFFICES ASSUME state' = Body PROVE \E h \in Frames : Taking(h)'
  BY ByteStep DEF BodyInv, Frames
<1>1. UNCHANGED <<sent, torn, spoiled>> /\ at' = wire[1].frame
  BY ByteStep
<1>2. CASE state = 3
  <2> SUFFICES ASSUME NEW h, h = at PROVE h \in Frames /\ Taking(h)'
    OBVIOUS
  <2>1. /\ h \in Frames /\ h \notin spoiled /\ wire[1].frame = h /\ wire[1].place = 4
        /\ Size(h) \in Nat /\ length' = Size(h) /\ body' = <<>>
    BY <1>2, LowStep DEF ParserInv
  <2>2. 1 \in 1..Len(wire) /\ h # None /\ 0 \in 0..Size(h)
    BY <2>1, ByteStep, SentFrames DEF None
  <2>3. Rest(h, 0, 1)
    BY <2>1, <2>2 DEF WireInv, RestInv
  <2>4. Rest(h, 0, 1 - 1)'
    BY <2>1, <2>2, <2>3, ByteRest
  <2>5. Len(body') = 0
    BY <2>1
  <2>6. Rest(h, Len(body), 0)'
    <3>1. 1 - 1 = 0
      OBVIOUS
    <3> SUFFICES ASSUME NEW n, n = Len(body') PROVE Rest(h, n, 0)'
      OBVIOUS
    <3>2. n = 0
      BY <2>5
    <3> QED BY <2>4, <3>1, <3>2
  <2>7. Size(h)' = Size(h) /\ h \in Frames'
    BY <1>1, <2>1 DEF Size, Frames
  <2> QED BY <1>1, <2>1, <2>5, <2>6, <2>7 DEF Taking
<1>3. CASE state = Body
  <2>1. PICK h \in Frames : Taking(h)
    BY <1>3 DEF ParserInv, BodyInv
  <2> SUFFICES ASSUME NEW n, n = Len(body), NEW c, c = wire[1] PROVE Taking(h)'
    OBVIOUS
  <2>2. length = Size(h) /\ Rest(h, n, 0) /\ n \in Nat /\ n < Size(h) /\ body \in Seq(Cells)
    BY <1>3, <2>1, TakingSize DEF Taking, TypeInv
  <2>3. n + 1 < length /\ body' = Append(body, c) /\ length' = length /\ c \in Cells
    BY <1>3, ByteCases DEF Body
  <2>4. /\ Len(body') = n + 1 /\ \A p \in 1..n : body'[p] = body[p]
        /\ body'[n + 1] = c
    BY <2>2, <2>3
  <2>5. /\ Rest(h, n + 1, 0)'
        /\ h \in torn => c.frame \in torn
        /\ h \notin torn => c = Cell(h, 4 + (n + 1))
    BY <2>2, ByteTaken
  <2>6. Rest(h, Len(body), 0)'
    <3> SUFFICES ASSUME NEW m, m = Len(body') PROVE Rest(h, m, 0)'
      OBVIOUS
    <3> QED BY <2>4, <2>5
  <2>7. 1..Len(body') = 1..n \union {n + 1}
    BY <2>2, <2>4
  <2>8. h \in torn => c.frame \in torn /\ \A p \in 1..Len(body') : body'[p].frame \in torn
    BY <2>1, <2>4, <2>5, <2>7 DEF Taking
  <2>9. h \notin torn =>
           /\ c.frame = h /\ h \notin spoiled
           /\ \A p \in 1..Len(body') : body'[p] = CellOf(sent[h], h, 4 + p)
    <3> SUFFICES ASSUME h \notin torn
                 PROVE  /\ c.frame = h /\ h \notin spoiled
                        /\ \A p \in 1..Len(body') : body'[p] = CellOf(sent[h], h, 4 + p)
      OBVIOUS
    <3>1. \A p \in 1..n : body[p] = CellOf(sent[h], h, 4 + p)
      BY <2>1 DEF Taking, Cell
    <3>2. c = CellOf(sent[h], h, 4 + (n + 1))
      BY <2>5 DEF Cell
    <3>3. c.frame = h /\ h \notin spoiled
      BY <2>1, <3>2, CellFields DEF Taking
    <3> QED BY <2>4, <2>7, <3>1, <3>2, <3>3
  <2>10. Size(h)' = Size(h) /\ h \in Frames'
    BY <1>1, <2>1 DEF Size, Frames
  <2> QED BY <1>1, <2>2, <2>3, <2>6, <2>8, <2>9, <2>10 DEF Taking, Cell
<1>4. CASE state \in 0..2
  BY <1>4, ByteCases DEF Body
<1> QED BY <1>2, <1>3, <1>4 DEF TypeInv, Body

\* Only a parser that searches finds the first byte of a frame that is not torn.
LEMMA FirstByte ==
    ASSUME TypeInv, WireInv, ParserInv, ReadByte,
           wire[1].frame \notin torn, wire[1].place = 1
    PROVE  state = 0
<1>1. state \notin 1..3
  <2> SUFFICES ASSUME state \in 1..3 PROVE FALSE
    OBVIOUS
  <2>1. wire[1] = CellOf(sent[at], at, state + 1)
    BY DEF ParserInv, HeaderInv, Cell
  <2>2. wire[1].place = state + 1
    BY <2>1, CellFields
  <2> QED BY <2>2
<1>2. state # Body
  <2> SUFFICES ASSUME state = Body PROVE FALSE
    OBVIOUS
  <2>1. PICK h \in Frames : Taking(h)
    BY DEF ParserInv, BodyInv
  <2> SUFFICES ASSUME NEW n, n = Len(body) PROVE FALSE
    OBVIOUS
  <2>2. Rest(h, n, 0) /\ n \in Nat /\ n < Size(h)
    BY <2>1, TakingSize DEF Taking
  <2>3. h \notin torn /\ wire[1] = CellOf(sent[h], h, 4 + (n + 1))
    BY <2>2, ByteTaken DEF Cell
  <2>4. wire[1].place = 4 + (n + 1)
    BY <2>3, CellFields
  <2> QED BY <2>2, <2>4
<1> QED BY <1>1, <1>2 DEF TypeInv, Body

\* A parser that is where a frame is reads on in it.
LEMMA ReachedNext ==
    ASSUME TypeInv, WireInv, ParserInv, ReadByte, NEW f \in Frames, f \notin Searched,
           NEW k \in 1..(4 + Size(f)), Size(f) \in Nat,
           wire[1].frame = f, wire[1].place = k, k < 4 + Size(f)
    PROVE  Reached(f, k + 1)'
<1>1. at' = f /\ 1 \in 1..Len(wire) /\ wire # <<>>
  BY ByteStep
<1>2. f # None /\ f \notin torn
  BY SentFrames DEF None, Searched
<1>3. wire[1] = CellOf(sent[f], f, k)
  BY <1>1, <1>2, WireCells DEF WireInv, Cell
<1>4. k > 1 => at = f /\ IF k <= 4 THEN state = k - 1 ELSE state = Body /\ Len(body) = k - 5
  BY <1>1, <1>2 DEF ParserInv, HeadInv, Reached
<1>5. CASE k = 1
  <2>1. state = 0
    BY <1>2, <1>5, FirstByte
  <2>2. wire[1].byte = START1
    BY <1>3, <1>5, HeaderBytes
  <2>3. state' = 1
    BY <2>1, <2>2, ByteCases
  <2> QED BY <1>1, <1>5, <2>3 DEF Reached
<1>6. CASE k = 2
  <2>1. state = 1
    BY <1>4, <1>6
  <2>2. wire[1].byte = START2
    BY <1>3, <1>6, HeaderBytes
  <2>3. state' = 2
    BY <2>1, <2>2, ByteCases
  <2> QED BY <1>1, <1>6, <2>3 DEF Reached
<1>7. CASE k = 3
  <2>1. state = 2
    BY <1>4, <1>7
  <2>2. state' = 3
    BY <2>1, ByteCases
  <2> QED BY <1>1, <1>7, <2>2 DEF Reached
<1>8. CASE k = 4
  <2>1. state = 3 /\ at = f
    BY <1>4, <1>8
  <2>2. ~TooBig(Size(f)) /\ Size(f) # 0
    BY <1>8 DEF Searched, Size, Frames
  <2>3. state' = Body /\ body' = <<>>
    BY <2>1, <2>2, LowStep DEF ParserInv
  <2> QED BY <1>1, <1>8, <2>3 DEF Reached
<1>9. CASE k > 4
  <2>1. at = f /\ state = Body /\ Len(body) = k - 5
    BY <1>4, <1>9
  <2>2. PICK h \in Frames : Taking(h)
    BY <2>1 DEF ParserInv, BodyInv
  <2>3. h = f /\ length = Size(f)
    BY <1>2, <2>1, <2>2 DEF Taking
  <2>4. Len(body) + 1 # length
    BY <1>9, <2>1, <2>3
  <2>5. state' = Body /\ body' = Append(body, wire[1])
    BY <2>1, <2>4, ByteCases DEF Body
  <2>6. Len(body') = (k + 1) - 5
    BY <2>1, <2>5, SMTT(30) DEF TypeInv
  <2> QED BY <1>1, <1>9, <2>5, <2>6 DEF Reached
<1> QED BY <1>5, <1>6, <1>7, <1>8, <1>9

LEMMA ByteHead ==
    ASSUME TypeInv, WireInv, ParserInv, ReadByte
    PROVE  HeadInv'
<1>1. UNCHANGED <<writing, sent, torn, spoiled>> /\ 1 \in 1..Len(wire) /\ Len(wire) \in Nat
  BY ByteStep
<1>2. Searched' = Searched
  BY <1>1 DEF Searched
<1>3. Len(wire') = Len(wire) - 1 /\ \A p \in 1..Len(wire') : p + 1 \in 1..Len(wire) /\ wire'[p] = wire[p + 1]
  BY ByteStep
<1>4. ASSUME wire' # <<>>, NEW f, f = wire'[1].frame, NEW k, k = wire'[1].place, f # None, k > 1,
             f \notin Searched
      PROVE  Reached(f, k)'
  <2>1. 1 \in 1..Len(wire') /\ 2 \in 2..Len(wire) /\ 2 \in 1..Len(wire)
    BY <1>3, <1>4, ByteStep
  <2>2. wire[2].frame = f /\ wire[2].place = k
    <3>1. wire'[1] = wire[1 + 1]
      BY <1>3, <2>1
    <3> QED BY <1>4, <3>1
  <2>3. f \in Frames /\ k \in 1..(4 + Size(f)) /\ Size(f) \in Nat
    BY <1>4, <2>1, <2>2, WireCells DEF WireInv
  <2>4. f \notin torn
    BY <1>4 DEF Searched
  <2>5. wire[1].frame = f /\ wire[1].place = k - 1
    <3>1. wire[2 - 1].frame = f /\ wire[2 - 1].place = k - 1
      BY <1>4, <2>1, <2>2, <2>4 DEF WireInv, PrevInv
    <3> QED BY <3>1
  <2>6. k - 1 \in 1..(4 + Size(f)) /\ k - 1 < 4 + Size(f) /\ (k - 1) + 1 = k
    BY <1>4, <2>3
  <2> SUFFICES ASSUME NEW j, j = k - 1 PROVE Reached(f, k)'
    OBVIOUS
  <2>7. Reached(f, j + 1)'
    BY <1>4, <2>3, <2>5, <2>6, ReachedNext
  <2> QED BY <2>6, <2>7
<1>5. ASSUME NEW w \in Writers, NEW g, g = writing[w], g # None, g \notin Searched, wire' = <<>>,
             Size(g) > 0
      PROVE  Reached(g, 5)'
  <2>1. Len(wire') = 0
    BY <1>5
  <2>2. Len(wire) = 1 /\ wire # <<>>
    BY <1>1, <1>3, <2>1
  <2>3. g \notin torn
    BY <1>5 DEF Searched
  <2>4. wire[1].frame = g /\ wire[1].place = 4
    BY <1>5, <2>2, <2>3 DEF WireInv, BusyInv
  <2>5. g \in Frames /\ Size(g) \in Nat /\ 4 \in 1..(4 + Size(g))
    BY <1>1, <1>5, <2>4, WireCells DEF WireInv
  <2>6. 4 < 4 + Size(g)
    BY <1>5, <2>5
  <2>7. Reached(g, 4 + 1)'
    BY <1>5, <2>4, <2>5, <2>6, ReachedNext
  <2> QED BY <2>7
<1> QED BY <1>1, <1>2, <1>4, <1>5 DEF HeadInv, Size

LEMMA ByteParser ==
    ASSUME TypeInv, WireInv, ParserInv, Undisturbed, ReadByte
    PROVE  ParserInv'
  BY ByteHeader, ByteBody, ByteHead DEF ParserInv

\* An error makes the parser search, and what it was in is searched.
LEMMA OthersParser ==
    ASSUME TypeInv, WireInv, ParserInv, Close \/ ReadFails \/ ReadEof
    PROVE  ParserInv'
<1>1. UNCHANGED <<writing, sent, torn, wire, at, received>>
  BY DEF Close, ReadFails, ReadEof, writerVars
<1>2. CASE Close \/ ReadEof
  <2>1. UNCHANGED <<state, length, body, spoiled>>
    BY <1>2 DEF Close, ReadEof, parserVars
  <2>2. HeaderInv'
    BY <1>1, <2>1 DEF HeaderInv, ParserInv, Frames, Cell, Size
  <2>3. BodyInv'
    BY <1>1, <2>1 DEF BodyInv, ParserInv, Frames, Taking, Rest, Busy, Cell, Size
  <2>4. HeadInv'
    BY <1>1, <2>1 DEF HeadInv, ParserInv, Searched, Reached, Size
  <2> QED BY <2>2, <2>3, <2>4 DEF ParserInv
<1>3. CASE ReadFails
  <2>1. state' = 0 /\ spoiled' = spoiled \union (IF state = 0 THEN {} ELSE {at})
    BY <1>3 DEF ReadFails, Restart, Search
  <2>2. HeaderInv' /\ BodyInv'
    BY <2>1 DEF HeaderInv, BodyInv, Body
  <2>3. \A f : f \notin Searched' => f \notin Searched
    BY <1>1, <2>1 DEF Searched
  <2>4. ASSUME NEW f, NEW k, f # None, k > 1, Reached(f, k), f \notin Searched', k \in Nat PROVE FALSE
    <3>1. at = f /\ state # 0
      BY <2>4 DEF Reached, Body
    <3>2. f \in spoiled'
      BY <2>1, <3>1
    <3> QED BY <2>4, <3>2 DEF Searched
  <2>5. wire # <<>> => wire[1].place \in Nat
    <3>1. wire # <<>> => 1 \in 1..Len(wire)
      BY EmptySequence DEF TypeInv
    <3> QED BY <3>1, WireCells DEF WireInv
  <2>6. ~(wire # <<>> /\ wire[1].frame # None /\ wire[1].place > 1 /\ wire[1].frame \notin Searched')
    BY <2>3, <2>4, <2>5 DEF ParserInv, HeadInv
  <2>7. \A w \in Writers : ~(writing[w] # None /\ writing[w] \notin Searched' /\ wire = <<>> /\ Size(writing[w]) > 0)
    BY <2>3, <2>4 DEF ParserInv, HeadInv
  <2>8. HeadInv'
    BY <1>1, <2>6, <2>7 DEF HeadInv, Size
  <2> QED BY <2>2, <2>8 DEF ParserInv
<1> QED BY <1>2, <1>3

-----------------------------------------------------------------------------
(* The packets                                                              *)

\* The three parts of PacketsInOrder.
GoodInv == \A i \in Good : Origin(i) \in Intact /\ received[i] = Contents(Origin(i))

AscendingInv == \A i, j \in Good : i < j => Origin(i) < Origin(j)

CompleteInv == \A f \in Intact : \E i \in Good : received[i] = Contents(f)

PacketsInv == GoodInv /\ AscendingInv /\ CompleteInv

LEMMA PacketsMeans == PacketsInOrder <=> (Undisturbed => PacketsInv)
  BY DEF PacketsInOrder, PacketsInv, GoodInv, AscendingInv, CompleteInv

LEMMA IntactMeans ==
    ASSUME NEW f
    PROVE  f \in Intact <=> /\ f \in Frames /\ \A p \in 1..Len(wire) : wire[p].frame # f
                            /\ ~Busy(f) /\ f \notin spoiled /\ f \notin torn
                            /\ Size(f) \in Sizes
  BY DEF Intact, Passed, Left, Frames, Busy, Deliverable, Size

LEMMA IntactMeansNext ==
    ASSUME NEW f
    PROVE  f \in Intact' <=> /\ f \in Frames' /\ \A p \in 1..Len(wire') : wire'[p].frame # f
                             /\ ~(\E w \in Writers : writing'[w] = f)
                             /\ f \notin spoiled' /\ f \notin torn'
                             /\ Len(sent'[f]) \in Sizes
  BY DEF Intact, Passed, Left, Frames, Busy, Deliverable, Size

\* A packet without a byte of a torn frame, and where it comes from.
LEMMA GoodMeans ==
    ASSUME TypeInv
    PROVE  /\ \A i \in Good : /\ i \in 1..Len(received) /\ Origin(i) \notin torn
                              /\ Len(received[i]) > 0 /\ Len(received[i]) \in Nat
           /\ \A i \in 1..Len(received) :
                 (\A p \in 1..Len(received[i]) : received[i][p].frame \notin torn) <=> i \in Good
<1>1. \A i \in 1..Len(received) :
         (\A p \in 1..Len(received[i]) : received[i][p].frame \notin torn) <=> i \in Good
  BY DEF Good, Sound
<1>2. ASSUME NEW i \in Good
      PROVE  /\ i \in 1..Len(received) /\ Origin(i) \notin torn
             /\ Len(received[i]) > 0 /\ Len(received[i]) \in Nat
  <2>1. i \in 1..Len(received)
    BY DEF Good
  <2>2. Len(received[i]) > 0 /\ Len(received[i]) \in Nat
    BY <2>1 DEF TypeInv, Sizes
  <2>3. 1 \in 1..Len(received[i])
    BY <2>2
  <2>4. received[i][1].frame \notin torn
    BY <1>1, <2>1, <2>3
  <2> QED BY <2>1, <2>2, <2>4 DEF Origin
<1> QED BY <1>1, <1>2

\* All cells of a packet that was written carry its number.
LEMMA ContentsFrames ==
    ASSUME NEW m, NEW f, NEW p \in 1..Len(Tagged(m, f, 4)), Len(m) \in Nat
    PROVE  Tagged(m, f, 4)[p].frame = f
<1>1. Len(Tagged(m, f, 4)) = Len(m)
  BY DEF Tagged
<1> QED BY <1>1 DEF Tagged

\* As long as no packet is received, nothing that was is lost.
LEMMA PacketsStay ==
    ASSUME TypeInv, TypeInv', Next, PacketsInv, UNCHANGED received,
           \A f : f \in Intact' => f \in Intact,
           \A f : f \in Intact /\ f \notin torn' => f \in Intact'
    PROVE  PacketsInv' /\ \A i \in Good' : i \in Good /\ Origin(i)' = Origin(i)
<1>1. torn \subseteq torn' /\ \A f \in Frames : sent'[f] = sent[f]
  BY Grow
<1>2. ASSUME NEW i \in Good'
      PROVE  i \in Good /\ Origin(i)' = Origin(i) /\ Origin(i) \notin torn'
  <2>1. /\ i \in 1..Len(received) /\ \A p \in 1..Len(received[i]) : received[i][p].frame \notin torn'
    BY DEF Good, Sound
  <2>2. i \in Good
    BY <1>1, <2>1, GoodMeans
  <2>3. 1 \in 1..Len(received[i])
    BY <2>2, GoodMeans
  <2> QED BY <2>1, <2>2, <2>3 DEF Origin
<1>3. GoodInv'
  <2> SUFFICES ASSUME NEW i \in Good', NEW f, f = Origin(i)
               PROVE  f \in Intact' /\ received[i] = Tagged(sent'[f], f, 4)
    BY <1>2 DEF GoodInv, Contents
  <2>1. f \in Intact /\ received[i] = Tagged(sent[f], f, 4)
    BY <1>2 DEF PacketsInv, GoodInv, Contents
  <2>2. f \in Intact'
    BY <1>2, <2>1
  <2>3. sent'[f] = sent[f]
    BY <1>1, <2>1, IntactMeans
  <2> QED BY <2>1, <2>2, <2>3
<1>4. AscendingInv'
  BY <1>2 DEF PacketsInv, AscendingInv
<1>5. CompleteInv'
  <2> SUFFICES ASSUME NEW f \in Intact' PROVE \E i \in Good' : received[i] = Tagged(sent'[f], f, 4)
    BY DEF CompleteInv, Contents
  <2>1. f \in Intact /\ f \notin torn'
    BY IntactMeansNext
  <2>2. f \in Frames /\ sent'[f] = sent[f]
    BY <1>1, <2>1, IntactMeans
  <2>3. PICK i \in Good : received[i] = Tagged(sent[f], f, 4)
    BY <2>1 DEF PacketsInv, CompleteInv, Contents
  <2>4. Len(sent[f]) \in Nat
    BY <2>2, SentFrames DEF Size
  <2>5. \A p \in 1..Len(received[i]) : received[i][p].frame = f
    BY <2>3, <2>4, ContentsFrames
  <2>6. i \in Good'
    <3>1. i \in 1..Len(received)
      BY GoodMeans
    <3> QED BY <2>1, <2>5, <3>1 DEF Good, Sound
  <2> QED BY <2>2, <2>3, <2>6
<1> QED BY <1>2, <1>3, <1>4, <1>5 DEF PacketsInv

\* Packets that were received are before what is written.
LEMMA HeaderPackets ==
    ASSUME TypeInv, TypeInv', WireInv, PacketsInv, PastInv, NEW w \in Writers, WriteHeader(w)
    PROVE  PacketsInv' /\ PastInv'
<1> SUFFICES ASSUME NEW L, L = Len(wire), NEW g, g = Len(sent) + 1
             PROVE  PacketsInv' /\ PastInv'
  OBVIOUS
<1>1. /\ g \in Nat /\ g \notin Frames /\ L \in Nat /\ Len(wire') = L + 4
      /\ \A f \in Frames : f \in Frames' /\ sent'[f] = sent[f]
      /\ \A p \in 1..L : wire'[p] = wire[p]
      /\ \A p \in L+1..L+4 : wire'[p].frame = g
      /\ \A f : f \in torn => f \in torn'
      /\ writing[w] = None /\ writing' = [writing EXCEPT ![w] = g]
  <2>1. CellInv
    BY DEF WireInv
  <2> QED BY <2>1, HeaderFacts, SMTT(30)
<1>2. writing[w] = None /\ \A v \in Writers : writing'[v] = IF v = w THEN g ELSE writing[v]
  BY <1>1 DEF TypeInv
<1>3. UNCHANGED <<received, spoiled>> /\ Next
  BY DEF WriteHeader, Next, Writing
<1>4. 1..Len(wire') = 1..L \union L+1..L+4
  BY <1>1
<1>5. Frames' = Frames \union {g}
  BY <1>1, HeaderStep DEF Frames
<1>6. ASSUME NEW f \in Frames, f \notin torn' PROVE f \in Intact <=> f \in Intact'
  <2>1. f # g /\ f # None
    BY <1>1, SentFrames DEF None
  <2>2. (\A p \in 1..Len(wire) : wire[p].frame # f) <=> (\A p \in 1..Len(wire') : wire'[p].frame # f)
    BY <1>1, <1>4, <2>1
  <2>3. Busy(f) <=> \E v \in Writers : writing'[v] = f
    BY <1>2, <2>1 DEF Busy
  <2>4. f \in Frames' /\ Size(f) = Len(sent'[f]) /\ spoiled' = spoiled /\ f \notin torn
    BY <1>1, <1>3, <1>6 DEF Size
  <2> QED BY <1>6, <2>2, <2>3, <2>4, IntactMeans, IntactMeansNext
<1>7. g \notin Intact'
  BY <1>2, IntactMeansNext
<1>8. \A f : f \in Intact' => f \in Intact
  BY <1>5, <1>6, <1>7, IntactMeansNext
<1>9. \A f : f \in Intact /\ f \notin torn' => f \in Intact'
  BY <1>6, IntactMeans
<1>10. PacketsInv' /\ \A i \in Good' : i \in Good /\ Origin(i)' = Origin(i)
  BY <1>3, <1>8, <1>9, PacketsStay
<1>11. ASSUME NEW i \in Good, NEW f, f = Origin(i)
       PROVE  /\ \A p \in 1..Len(wire') : wire'[p].frame # None => f < wire'[p].frame
              /\ \A v \in Writers : writing'[v] # None => f < writing'[v]
  <2>1. f < g
    <3>1. f \in Frames
      BY <1>11, IntactMeans DEF PacketsInv, GoodInv
    <3> QED BY <3>1, HeaderStep DEF Frames
  <2>2. /\ \A p \in 1..Len(wire) : wire[p].frame # None => f < wire[p].frame
        /\ \A v \in Writers : writing[v] # None => f < writing[v]
    BY <1>11 DEF PastInv
  <2> QED BY <1>1, <1>2, <1>4, <2>1, <2>2
<1>12. PastInv'
  BY <1>10, <1>11 DEF PastInv
<1> QED BY <1>10, <1>12

LEMMA BodyPackets ==
    ASSUME TypeInv, TypeInv', WireInv, PacketsInv, PastInv, NEW w \in Writers, WriteBody(w)
    PROVE  PacketsInv' /\ PastInv'
<1> SUFFICES ASSUME NEW L, L = Len(wire), NEW g, g = writing[w], NEW S, S = Size(g)
             PROVE  PacketsInv' /\ PastInv'
  OBVIOUS
<1>1. /\ g \in Frames /\ g # None /\ S \in Nat /\ L \in Nat /\ Len(wire') = L + S
      /\ \A v \in Writers : writing'[v] # None => v # w /\ writing'[v] = writing[v]
      /\ \A p \in 1..L : wire'[p] = wire[p]
      /\ \A p \in L+1..L+S : wire'[p].frame = g
      /\ UNCHANGED <<sent, torn>>
  BY BodyFacts DEF WireInv
<1>2. UNCHANGED <<received, spoiled>> /\ Next
  BY DEF WriteBody, Next, Writing
<1>3. 1..Len(wire') = 1..L \union L+1..L+S
  BY <1>1
<1>4. \A v \in Writers : v # w => writing'[v] = writing[v]
  BY BodyStep DEF TypeInv
<1>5. ASSUME NEW f \in Frames, f # g PROVE f \in Intact <=> f \in Intact'
  <2>1. (\A p \in 1..Len(wire) : wire[p].frame # f) <=> (\A p \in 1..Len(wire') : wire'[p].frame # f)
    BY <1>1, <1>3, <1>5
  <2>2. Busy(f) <=> \E v \in Writers : writing'[v] = f
    <3>1. f # None
      BY SentFrames DEF None
    <3>2. ASSUME NEW v \in Writers PROVE writing[v] = f <=> writing'[v] = f
      <4>1. CASE v = w
        BY <1>1, <1>5, <3>1, <4>1
      <4>2. CASE v # w
        BY <1>4, <4>2
      <4> QED BY <4>1, <4>2
    <3> QED BY <3>2 DEF Busy
  <2>3. f \in Frames' /\ Size(f) = Len(sent'[f]) /\ spoiled' = spoiled /\ torn' = torn
    BY <1>1, <1>2 DEF Size, Frames
  <2> QED BY <2>1, <2>2, <2>3, IntactMeans, IntactMeansNext
<1>6. g \notin Intact
  BY IntactMeans DEF Busy
<1>7. g \notin Intact'
  <2> SUFFICES ASSUME g \in Intact' PROVE FALSE
    OBVIOUS
  <2>1. S > 0
    <3>1. Len(sent'[g]) \in Sizes
      BY IntactMeansNext
    <3>2. Len(sent'[g]) = S
      BY <1>1 DEF Size
    <3> QED BY <3>1, <3>2 DEF Sizes
  <2>2. L + 1 \in L+1..L+S /\ L + 1 \in 1..Len(wire')
    BY <1>1, <2>1
  <2>3. wire'[L + 1].frame = g
    BY <1>1, <2>2
  <2> QED BY <2>2, <2>3, IntactMeansNext
<1>8. \A f : f \in Intact' <=> f \in Intact
  <2>1. Frames' = Frames
    BY <1>1 DEF Frames
  <2> QED BY <1>5, <1>6, <1>7, <2>1, IntactMeans, IntactMeansNext
<1>9. PacketsInv' /\ \A i \in Good' : i \in Good /\ Origin(i)' = Origin(i)
  BY <1>2, <1>8, PacketsStay
<1>10. ASSUME NEW i \in Good, NEW f, f = Origin(i)
       PROVE  /\ \A p \in 1..Len(wire') : wire'[p].frame # None => f < wire'[p].frame
              /\ \A v \in Writers : writing'[v] # None => f < writing'[v]
  <2>1. /\ \A p \in 1..Len(wire) : wire[p].frame # None => f < wire[p].frame
        /\ \A v \in Writers : writing[v] # None => f < writing[v]
    BY <1>10 DEF PastInv
  <2>2. f < g
    BY <1>1, <2>1
  <2> QED BY <1>1, <1>3, <2>1, <2>2
<1>11. PastInv'
  BY <1>9, <1>10 DEF PastInv
<1> QED BY <1>9, <1>11

LEMMA NoisePackets ==
    ASSUME TypeInv, TypeInv', WireInv, PacketsInv, PastInv, WriteNoise
    PROVE  PacketsInv' /\ PastInv'
<1> SUFFICES ASSUME NEW L, L = Len(wire) PROVE PacketsInv' /\ PastInv'
  OBVIOUS
<1>1. /\ L \in Nat /\ Len(wire') = L + 1 /\ \A p \in 1..L : wire'[p] = wire[p]
      /\ wire'[L + 1].frame = None
  BY NoiseStep
<1>2. UNCHANGED <<writing, sent, torn, received, spoiled>> /\ Next
  BY DEF WriteNoise, Next, Writing, writerVars
<1>3. 1..Len(wire') = 1..L \union {L+1}
  BY <1>1
<1>4. ASSUME NEW f \in Frames PROVE f \in Intact <=> f \in Intact'
  <2>1. (\A p \in 1..Len(wire) : wire[p].frame # f) <=> (\A p \in 1..Len(wire') : wire'[p].frame # f)
    BY <1>1, <1>3, SentFrames DEF None
  <2>2. /\ Busy(f) <=> \E v \in Writers : writing'[v] = f
        /\ f \in Frames' /\ Size(f) = Len(sent'[f])
    BY <1>2 DEF Busy, Size, Frames
  <2> QED BY <1>2, <2>1, <2>2, IntactMeans, IntactMeansNext
<1>5. \A f : f \in Intact' <=> f \in Intact
  <2>1. Frames' = Frames
    BY <1>2 DEF Frames
  <2> QED BY <1>4, <2>1, IntactMeans, IntactMeansNext
<1>6. PacketsInv' /\ \A i \in Good' : i \in Good /\ Origin(i)' = Origin(i)
  BY <1>2, <1>5, PacketsStay
<1>7. ASSUME NEW i \in Good, NEW f, f = Origin(i)
      PROVE  /\ \A p \in 1..Len(wire') : wire'[p].frame # None => f < wire'[p].frame
             /\ \A v \in Writers : writing'[v] # None => f < writing'[v]
  <2>1. /\ \A p \in 1..Len(wire) : wire[p].frame # None => f < wire[p].frame
        /\ \A v \in Writers : writing[v] # None => f < writing[v]
    BY <1>7 DEF PastInv
  <2> QED BY <1>1, <1>2, <1>3, <2>1
<1>8. PastInv'
  BY <1>6, <1>7 DEF PastInv
<1> QED BY <1>6, <1>8

\* A frame that an error strikes is not one that has passed.
LEMMA OthersPackets ==
    ASSUME TypeInv, TypeInv', WireInv, ParserInv, PacketsInv, PastInv,
           Close \/ ReadFails \/ ReadEof
    PROVE  PacketsInv' /\ PastInv'
<1>1. UNCHANGED <<writing, sent, torn, wire, received>> /\ Next
  BY DEF Close, ReadFails, ReadEof, writerVars, Next, Writing
<1>2. spoiled' = spoiled \/ (state # 0 /\ spoiled' = spoiled \union {at})
  BY DEF Close, ReadFails, ReadEof
<1>3. state # 0 => at \notin Intact
  <2>1. CASE state \in 1..3
    <3>1. wire # <<>> /\ wire[1] = CellOf(sent[at], at, state + 1)
      BY <2>1 DEF ParserInv, HeaderInv, Cell
    <3>2. wire[1].frame = at /\ 1 \in 1..Len(wire)
      BY <3>1, CellFields, EmptySequence, SMTT(30) DEF TypeInv
    <3> QED BY <3>2, IntactMeans
  <2>2. CASE state = Body
    <3>1. PICK h \in Frames : Taking(h)
      BY <2>2 DEF ParserInv, BodyInv
    <3> SUFFICES ASSUME NEW n, n = Len(body), at \in Intact PROVE FALSE
      OBVIOUS
    <3>2. at \notin torn /\ ~Busy(at) /\ \A p \in 1..Len(wire) : wire[p].frame # at
      BY IntactMeans
    <3>3. Rest(h, n, 0) /\ n \in Nat /\ n < Size(h) /\ Size(h) \in Nat
      BY <2>2, <3>1, TakingSize DEF Taking
    <3>4. h = at
      BY <3>1, <3>2 DEF Taking
    <3>5. 0 + (Size(h) - n) <= Len(wire) /\ \A j \in 1..(Size(h) - n) : wire[0 + j] = CellOf(sent[h], h, 4 + n + j)
      BY <3>2, <3>3, <3>4 DEF Rest, Cell
    <3>6. 1 \in 1..(Size(h) - n) /\ 1 \in 1..Len(wire) /\ 0 + 1 = 1
      <4>1. Len(wire) \in Nat
        BY DEF TypeInv
      <4> QED BY <3>3, <3>5, <4>1
    <3>7. wire[1] = CellOf(sent[h], h, 4 + n + 1)
      BY <3>5, <3>6
    <3> QED BY <3>2, <3>4, <3>6, <3>7, CellFields
  <2> QED BY <2>1, <2>2 DEF TypeInv, Body
<1>4. \A f : f \in Intact' <=> f \in Intact
  <2>1. Frames' = Frames /\ \A f : Size(f) = Len(sent'[f])
    BY <1>1 DEF Frames, Size
  <2>2. \A f : f \in Intact => (f \in spoiled' <=> f \in spoiled)
    BY <1>2, <1>3
  <2>3. \A f : Busy(f) <=> \E v \in Writers : writing'[v] = f
    BY <1>1 DEF Busy
  <2>4. spoiled \subseteq spoiled'
    BY <1>2
  <2> QED BY <1>1, <2>1, <2>2, <2>3, <2>4, IntactMeans, IntactMeansNext
<1>5. PacketsInv' /\ \A i \in Good' : i \in Good /\ Origin(i)' = Origin(i)
  BY <1>1, <1>4, PacketsStay
<1>6. PastInv'
  BY <1>1, <1>5 DEF PastInv
<1> QED BY <1>5, <1>6

\* Reading a byte changes nothing for the frames it does not belong to.
LEMMA OtherFrames ==
    ASSUME TypeInv, ReadByte, NEW f, f # wire[1].frame
    PROVE  f \in Intact <=> f \in Intact'
<1>1. UNCHANGED <<writing, sent, torn, spoiled>>
  BY ByteStep
<1>2. /\ Len(wire) \in Nat /\ Len(wire') = Len(wire) - 1
      /\ \A p \in 1..Len(wire') : p + 1 \in 1..Len(wire) /\ wire'[p] = wire[p + 1]
  BY ByteStep
<1>3. (\A p \in 1..Len(wire) : wire[p].frame # f) <=> (\A p \in 1..Len(wire') : wire'[p].frame # f)
  <2>1. ASSUME NEW p \in 1..Len(wire), wire[p].frame = f
        PROVE  \E q \in 1..Len(wire') : wire'[q].frame = f
    <3>1. p # 1
      BY <2>1
    <3>2. p - 1 \in 1..Len(wire') /\ (p - 1) + 1 = p
      BY <1>2, <3>1
    <3>3. wire'[p - 1].frame = f
      BY <1>2, <2>1, <3>2
    <3> QED BY <3>2, <3>3
  <2>2. ASSUME NEW q \in 1..Len(wire'), wire'[q].frame = f
        PROVE  \E p \in 1..Len(wire) : wire[p].frame = f
    BY <1>2, <2>2
  <2> QED BY <2>1, <2>2
<1>4. /\ Busy(f) <=> \E v \in Writers : writing'[v] = f
      /\ Frames' = Frames /\ Size(f) = Len(sent'[f])
  BY <1>1 DEF Busy, Size, Frames
<1> QED BY <1>1, <1>3, <1>4, IntactMeans, IntactMeansNext

\* The last byte of an intact frame is the last of a packet.
LEMMA NotLast ==
    ASSUME TypeInv, WireInv, ParserInv, ReadByte, UNCHANGED received, NEW f, f = wire[1].frame
    PROVE  f \notin Intact'
<1> SUFFICES ASSUME f \in Intact' PROVE FALSE
  OBVIOUS
<1>1. UNCHANGED <<writing, sent, torn, spoiled>> /\ 1 \in 1..Len(wire) /\ Len(wire) \in Nat /\ wire # <<>>
  BY ByteStep
<1>2. /\ f \in Frames /\ \A p \in 1..Len(wire') : wire'[p].frame # f
      /\ ~Busy(f) /\ f \notin spoiled /\ f \notin torn /\ Size(f) \in Sizes
  BY <1>1, IntactMeansNext DEF Busy, Size, Frames
<1>3. f # None /\ Size(f) \in Nat /\ Size(f) > 0
  BY <1>2, SentFrames DEF None, Sizes
<1>4. f \notin Searched
  <2>1. MAX_SIZE \in Nat
    BY FramingAssumption
  <2>2. ~TooBig(Size(f))
    BY <1>2, <1>3, <2>1 DEF TooBig, Sizes
  <2> QED BY <1>2, <2>2 DEF Searched, TooBig, Size
<1> SUFFICES ASSUME NEW k, k = wire[1].place PROVE FALSE
  OBVIOUS
<1>5. k \in 1..(4 + Size(f))
  BY <1>1, <1>3, WireCells DEF WireInv
<1>6. ~(Len(wire) >= 2 /\ wire[2].frame = f)
  <2> SUFFICES ASSUME Len(wire) >= 2, wire[2].frame = f PROVE FALSE
    OBVIOUS
  <2>1. 1 \in 1..Len(wire') /\ wire'[1] = wire[1 + 1]
    BY <1>1, ByteStep
  <2>2. wire'[1].frame = f
    BY <2>1
  <2> QED BY <1>2, <2>1, <2>2
<1>7. CASE k # 4 /\ k # 4 + Size(f)
  <2>1. 1 + 1 <= Len(wire) /\ wire[1 + 1] = CellOf(sent[f], f, k + 1)
    BY <1>1, <1>3, <1>7 DEF WireInv, NextInv, Cell
  <2>2. Len(wire) >= 2 /\ wire[2] = CellOf(sent[f], f, k + 1)
    BY <1>1, <2>1
  <2> QED BY <1>6, <2>2, CellFields
<1>8. CASE k = 4
  <2>1. Rest(f, 0, 1)
    BY <1>1, <1>3, <1>8 DEF WireInv, RestInv
  <2>2. 1 + (Size(f) - 0) <= Len(wire) /\ \A j \in 1..(Size(f) - 0) : wire[1 + j] = CellOf(sent[f], f, 4 + 0 + j)
    BY <1>2, <2>1 DEF Rest, Cell
  <2>3. 1 \in 1..(Size(f) - 0) /\ Len(wire) >= 2 /\ 1 + 1 = 2
    BY <1>1, <1>3, <2>2
  <2>4. wire[2] = CellOf(sent[f], f, 4 + 0 + 1)
    BY <2>2, <2>3
  <2> QED BY <1>6, <2>3, <2>4, CellFields
<1>9. CASE k = 4 + Size(f)
  <2>1. k > 4
    BY <1>3, <1>9
  <2>2. Reached(f, k)
    BY <1>1, <1>3, <1>4, <2>1, <1>5 DEF ParserInv, HeadInv
  <2>3. at = f /\ state = Body /\ Len(body) = k - 5
    BY <1>5, <2>1, <2>2 DEF Reached
  <2>4. PICK h \in Frames : Taking(h)
    BY <2>3 DEF ParserInv, BodyInv
  <2>5. length = Size(f)
    BY <1>2, <2>3, <2>4 DEF Taking
  <2>6. Len(body) + 1 = length
    BY <1>3, <1>9, <2>3, <2>5
  <2>7. received' = Append(received, Append(body, wire[1]))
    BY <2>3, <2>6, ByteCases
  <2>8. Len(received') = Len(received) + 1 /\ Len(received) \in Nat
    BY <2>7 DEF TypeInv
  <2> QED BY <2>8
<1> QED BY <1>7, <1>8, <1>9

\* What a packet adds to those that were received.
LEMMA OneMore ==
    ASSUME TypeInv, UNCHANGED torn, NEW m \in Seq(Cells), received' = Append(received, m),
           NEW N, N = Len(received)
    PROVE  /\ N \in Nat /\ \A i \in Good : i <= N /\ i # N + 1
           /\ \A i \in Good' : i \in Good \/ i = N + 1
           /\ \A i \in Good : i \in Good' /\ received'[i] = received[i]
           /\ received'[N + 1] = m
           /\ N + 1 \in Good' <=> \A p \in 1..Len(m) : m[p].frame \notin torn
<1>1. /\ N \in Nat /\ Len(received') = N + 1 /\ received'[N + 1] = m
      /\ \A i \in 1..N : received'[i] = received[i]
  BY DEF TypeInv
<1>2. 1..N+1 = 1..N \union {N + 1} /\ N + 1 \notin 1..N
  BY <1>1
<1>3. ASSUME NEW i \in 1..N PROVE i \in Good <=> i \in Good'
  BY <1>1, <1>2, <1>3 DEF Good, Sound
<1>4. N + 1 \in Good' <=> \A p \in 1..Len(m) : m[p].frame \notin torn
  BY <1>1, <1>2 DEF Good, Sound
<1>5. \A i \in Good : i \in 1..N
  BY DEF Good
<1>6. \A i \in Good' : i \in 1..N+1
  BY <1>1 DEF Good
<1>7. \A i \in 1..N : i <= N /\ i # N + 1
  BY <1>1
<1> QED BY <1>1, <1>2, <1>3, <1>4, <1>5, <1>6, <1>7

LEMMA BytePackets ==
    ASSUME TypeInv, TypeInv', WireInv, ParserInv, PacketsInv, PastInv, ReadByte
    PROVE  PacketsInv' /\ PastInv'
<1> SUFFICES ASSUME NEW L, L = Len(wire), NEW c, c = wire[1], NEW N, N = Len(received)
             PROVE  PacketsInv' /\ PastInv'
  OBVIOUS
<1>1. /\ UNCHANGED <<writing, sent, torn, spoiled>> /\ L \in Nat /\ 1 \in 1..L
      /\ \A p \in 1..Len(wire') : p + 1 \in 1..L /\ 1 < p + 1 /\ wire'[p] = wire[p + 1]
  BY ByteStep
<1>2. Next /\ Frames' = Frames
  BY <1>1 DEF Next, Frames
<1>3. \A f : f # c.frame => (f \in Intact <=> f \in Intact')
  BY OtherFrames
<1>4. c.frame \notin Intact
  BY <1>1, IntactMeans
<1>5. ASSUME NEW i \in Good, NEW f, f = Origin(i)
      PROVE  /\ \A p \in 1..Len(wire') : wire'[p].frame # None => f < wire'[p].frame
             /\ \A v \in Writers : writing'[v] # None => f < writing'[v]
  BY <1>1, <1>5 DEF PastInv
<1>6. CASE UNCHANGED received
  <2>1. c.frame \notin Intact'
    BY <1>6, NotLast
  <2>2. \A f : f \in Intact' <=> f \in Intact
    BY <1>3, <1>4, <2>1
  <2>3. PacketsInv' /\ \A i \in Good' : i \in Good /\ Origin(i)' = Origin(i)
    BY <1>2, <1>6, <2>2, PacketsStay
  <2>4. PastInv'
    BY <1>5, <2>3 DEF PastInv
  <2> QED BY <2>3, <2>4
<1>7. CASE received' # received
  <2> SUFFICES ASSUME NEW n, n = Len(body), NEW m, m = Append(body, c)
               PROVE  PacketsInv' /\ PastInv'
    OBVIOUS
  <2>1. state = Body /\ n + 1 = length /\ received' = Append(received, m)
    <3>1. state \in {0, 1, 2, 3} => UNCHANGED received
      BY ByteCases
    <3>2. state = Body
      BY <1>7, <3>1 DEF TypeInv, Body
    <3> QED BY <1>7, <3>2, ByteCases
  <2>2. PICK h \in Frames : Taking(h)
    BY <2>1 DEF ParserInv, BodyInv
  <2>3. /\ length = Size(h) /\ Rest(h, n, 0) /\ n \in Nat /\ n < Size(h) /\ Size(h) \in Sizes
        /\ Size(h) \in Nat /\ body \in Seq(Cells)
    BY <2>1, <2>2, TakingSize DEF Taking, TypeInv
  <2>4. m \in Seq(Cells) /\ Len(m) = Size(h) /\ m[n + 1] = c /\ \A p \in 1..n : m[p] = body[p]
    <3>1. c \in Cells
      BY ByteCases
    <3> QED BY <2>1, <2>3, <3>1
  <2>5. 1..Len(m) = 1..n \union {n + 1}
    BY <2>1, <2>3, <2>4
  <2>6. /\ N \in Nat /\ \A i \in Good : i <= N /\ i # N + 1
        /\ \A i \in Good' : i \in Good \/ i = N + 1
        /\ \A i \in Good : i \in Good' /\ received'[i] = received[i]
        /\ received'[N + 1] = m
        /\ N + 1 \in Good' <=> \A p \in 1..Len(m) : m[p].frame \notin torn
    BY <1>1, <2>1, <2>4, OneMore
  <2>7. /\ h \in torn => c.frame \in torn
        /\ h \notin torn => c = CellOf(sent[h], h, 4 + (n + 1))
    BY <2>3, ByteTaken DEF Cell
  <2>8. \A i \in Good : Origin(i)' = Origin(i)
    BY <2>6 DEF Origin
  <2>9. CASE h \in torn
    <3>1. c.frame \in torn /\ c.frame \notin Intact'
      BY <1>1, <2>7, <2>9, IntactMeansNext
    <3>2. \A f : f \in Intact' <=> f \in Intact
      BY <1>3, <1>4, <3>1
    <3>3. N + 1 \notin Good'
      BY <2>4, <2>5, <2>6, <3>1
    <3>4. \A i : i \in Good' <=> i \in Good
      BY <2>6, <3>3
    <3>5. \A i \in Good : received'[i] = received[i] /\ Origin(i)' = Origin(i)
      BY <2>6, <2>8
    <3>6. GoodInv'
      BY <1>1, <3>2, <3>4, <3>5 DEF PacketsInv, GoodInv, Contents
    <3>7. AscendingInv'
      BY <3>4, <3>5 DEF PacketsInv, AscendingInv
    <3>8. CompleteInv'
      BY <1>1, <3>2, <3>4, <3>5 DEF PacketsInv, CompleteInv, Contents
    <3>9. PastInv'
      BY <1>5, <3>4, <3>5 DEF PastInv
    <3> QED BY <3>6, <3>7, <3>8, <3>9 DEF PacketsInv
  <2>10. CASE h \notin torn
    <3>1. \A p \in 1..Len(m) : m[p] = CellOf(sent[h], h, 4 + p)
      <4>1. \A p \in 1..n : body[p] = CellOf(sent[h], h, 4 + p)
        BY <2>2, <2>10 DEF Taking, Cell
      <4> QED BY <2>4, <2>5, <2>7, <2>10, <4>1
    <3>2. c.frame = h /\ c.place = 4 + Size(h) /\ h # None /\ h \in Nat
      BY <2>1, <2>2, <2>3, <2>7, <2>10, CellFields, SentFrames DEF None
    <3>3. \A p \in 1..Len(m) : m[p].frame = h
      BY <3>1, CellFields
    <3>4. m = Tagged(sent[h], h, 4)
      <4>1. Len(m) = Len(sent[h])
        BY <2>4 DEF Size
      <4>2. \A p \in 1..Len(m) : m[p] = [byte |-> sent[h][p], frame |-> h, place |-> 4 + p]
        <5> SUFFICES ASSUME NEW p \in 1..Len(m)
                     PROVE  CellOf(sent[h], h, 4 + p) = [byte |-> sent[h][p], frame |-> h, place |-> 4 + p]
          BY <3>1
        <5>1. ~(4 + p <= 4) /\ (4 + p) - 4 = p
          BY <2>3, <2>4
        <5> QED BY <5>1 DEF CellOf
      <4>3. m = [p \in 1..Len(m) |-> m[p]]
        BY <2>4
      <4> QED BY <4>1, <4>2, <4>3 DEF Tagged
    <3>5. \A p \in 1..Len(wire') : wire'[p].frame # None => h < wire'[p].frame
      <4> SUFFICES ASSUME NEW q \in 1..L, 1 < q, NEW g, g = wire[q].frame, g # None PROVE h < g
        BY <1>1
      <4>1. h < g \/ (h = g /\ 4 + Size(h) < wire[q].place)
        BY <1>1, <2>10, <3>2 DEF WireInv, OrderInv
      <4>2. wire[q].place \in 1..(4 + Size(g))
        BY WireCells DEF WireInv
      <4> QED BY <2>3, <4>1, <4>2
    <3>6. \A v \in Writers : writing'[v] # None => h < writing'[v]
      <4> SUFFICES ASSUME NEW v \in Writers, writing[v] # None PROVE h < writing[v]
        BY <1>1
      <4>1. h < writing[v] \/ (h = writing[v] /\ 4 + Size(h) <= 4)
        BY <1>1, <2>10, <3>2 DEF WireInv, OrderInv
      <4> QED BY <2>3, <4>1
    <3>7. h \in Intact'
      <4>1. h \notin spoiled
        BY <2>2, <2>10 DEF Taking
      <4>2. \A p \in 1..Len(wire') : wire'[p].frame # h
        BY <3>2, <3>5
      <4>3. ~(\E v \in Writers : writing'[v] = h)
        BY <3>2, <3>6
      <4>4. Len(sent'[h]) \in Sizes
        BY <1>1, <2>3 DEF Size
      <4> QED BY <1>1, <1>2, <2>10, <4>1, <4>2, <4>3, <4>4, IntactMeansNext
    <3>8. \A f : f \in Intact' <=> f \in Intact \/ f = h
      BY <1>3, <1>4, <3>2, <3>7
    <3>9. N + 1 \in Good'
      BY <2>6, <2>10, <3>3
    <3>10. Origin(N + 1)' = h
      <4>1. 1 \in 1..Len(m)
        BY <2>3, <2>4
      <4> QED BY <2>6, <3>3, <4>1 DEF Origin
    <3>11. \A i \in Good : Origin(i) < h
      <4>1. \A i \in Good : c.frame # None => Origin(i) < c.frame
        BY <1>1 DEF PastInv
      <4> QED BY <3>2, <4>1
    <3>12. GoodInv'
      <4> SUFFICES ASSUME NEW i \in Good', NEW f, f = Origin(i)'
                   PROVE  f \in Intact' /\ received'[i] = Tagged(sent[f], f, 4)
        BY <1>1 DEF GoodInv, Contents
      <4>1. CASE i = N + 1
        BY <2>6, <3>4, <3>7, <3>10, <4>1
      <4>2. CASE i \in Good
        BY <2>6, <2>8, <3>8, <4>2 DEF PacketsInv, GoodInv, Contents
      <4> QED BY <2>6, <4>1, <4>2
    <3>13. AscendingInv'
      <4> SUFFICES ASSUME NEW i \in Good', NEW j \in Good', i < j,
                          NEW f, f = Origin(i)', NEW g, g = Origin(j)'
                   PROVE  f < g
        BY DEF AscendingInv
      <4>1. CASE i \in Good /\ j \in Good
        BY <2>8, <4>1 DEF PacketsInv, AscendingInv
      <4>2. CASE i \in Good /\ j = N + 1
        BY <2>8, <3>10, <3>11, <4>2
      <4>3. CASE i = N + 1
        <5>1. j \in Good \/ j = N + 1
          BY <2>6
        <5>2. \A k \in Good : k \in Nat
          BY GoodMeans
        <5> QED BY <2>6, <4>3, <5>1, <5>2
      <4> QED BY <2>6, <4>1, <4>2, <4>3
    <3>14. CompleteInv'
      <4> SUFFICES ASSUME NEW f \in Intact'
                   PROVE  \E i \in Good' : received'[i] = Tagged(sent[f], f, 4)
        BY <1>1 DEF CompleteInv, Contents
      <4>1. CASE f = h
        BY <2>6, <3>4, <3>9, <4>1
      <4>2. CASE f \in Intact
        BY <2>6, <4>2 DEF PacketsInv, CompleteInv, Contents
      <4> QED BY <3>8, <4>1, <4>2
    <3>15. PastInv'
      <4> SUFFICES ASSUME NEW i \in Good', NEW f, f = Origin(i)'
                   PROVE  /\ \A p \in 1..Len(wire') : wire'[p].frame # None => f < wire'[p].frame
                          /\ \A v \in Writers : writing'[v] # None => f < writing'[v]
        BY DEF PastInv
      <4>1. CASE i = N + 1
        BY <3>5, <3>6, <3>10, <4>1
      <4>2. CASE i \in Good
        BY <1>5, <2>8, <4>2
      <4> QED BY <2>6, <4>1, <4>2
    <3> QED BY <3>12, <3>13, <3>14, <3>15 DEF PacketsInv
  <2> QED BY <2>9, <2>10
<1> QED BY <1>6, <1>7

-----------------------------------------------------------------------------
LEMMA InvInit == Init => IInv
<1> SUFFICES ASSUME Init PROVE IInv
  OBVIOUS
<1>1. Len(wire) = 0 /\ Len(sent) = 0 /\ Len(received) = 0
  BY DEF Init
<1>2. TypeInv
  BY TypeInit
<1>3. \A p \in 1..Len(wire) : FALSE
  BY <1>1
<1>4. \A w \in Writers : writing[w] = None
  BY DEF Init
<1>5. WireInv
  BY <1>3, <1>4 DEF Init, WireInv, TogetherInv, CellInv, NextInv, PrevInv, StartInv, OrderInv, BusyInv, RestInv
<1>6. ParserInv
  BY <1>4 DEF Init, ParserInv, HeaderInv, BodyInv, HeadInv, Body
<1>7. Good = {} /\ Intact = {}
  BY <1>1 DEF Good, Intact, Passed
<1>8. PastInv /\ PacketsInv
  BY <1>7 DEF PastInv, PacketsInv, GoodInv, AscendingInv, CompleteInv
<1> QED BY <1>2, <1>5, <1>6, <1>8, PacketsMeans DEF IInv

LEMMA InvNext == IInv /\ [Next]_vars => IInv'
<1> SUFFICES ASSUME IInv, [Next]_vars PROVE IInv'
  OBVIOUS
<1>1. TypeInv /\ WireInv /\ TypeInv'
  BY TypeNext DEF IInv
<1>2. CASE UNCHANGED vars
  <2> USE <1>2 DEF vars, writerVars, parserVars
  <2>1. WireInv'
    <3>1. TogetherInv' /\ StartInv' /\ PrevInv' /\ OrderInv' /\ BusyInv'
      BY <1>1 DEF WireInv, TogetherInv, StartInv, PrevInv, OrderInv, BusyInv
    <3>2. CellInv' /\ NextInv' /\ RestInv'
      BY <1>1 DEF WireInv, CellInv, NextInv, RestInv, Rest, Busy, Frames, Cell, Size
    <3> QED BY <3>1, <3>2 DEF WireInv
  <2>2. ParserInv' = ParserInv
    BY DEF ParserInv, HeaderInv, BodyInv, HeadInv, Frames, Taking, Rest, Busy, Reached,
           Searched, Cell, Size
  <2>3. Undisturbed' = Undisturbed
    BY DEF Undisturbed, Searched, Misleading
  <2>4. Good' = Good /\ \A i : Origin(i)' = Origin(i)
    BY DEF Good, Sound, Origin
  <2>5. PastInv' = PastInv
    BY <2>4 DEF PastInv
  <2>6. Intact' = Intact /\ \A f : Contents(f)' = Contents(f)
    BY DEF Intact, Passed, Left, Contents, Deliverable
  <2>7. PacketsInOrder' = PacketsInOrder
    BY <2>3, <2>4, <2>6 DEF PacketsInOrder
  <2> QED BY <1>1, <2>1, <2>2, <2>3, <2>5, <2>7 DEF IInv
<1>3. CASE Next
  <2>1. WireInv'
    BY <1>1, <1>3, HeaderWire, BodyWire, NoiseWire, ByteWire, OthersWire DEF Next, Writing
  <2>2. ASSUME Undisturbed' PROVE ParserInv' /\ PastInv' /\ PacketsInv'
    <3>1. Undisturbed
      BY <1>1, <1>3, <2>2, UndisturbedBefore
    <3>2. ParserInv /\ PastInv /\ PacketsInv
      BY <3>1, PacketsMeans DEF IInv
    <3>3. ASSUME NEW w \in Writers, WriteHeader(w) PROVE ParserInv' /\ PastInv' /\ PacketsInv'
      BY <1>1, <3>2, <3>3, HeaderParser, HeaderPackets
    <3>4. ASSUME NEW w \in Writers, WriteBody(w) PROVE ParserInv' /\ PastInv' /\ PacketsInv'
      BY <1>1, <3>2, <3>4, BodyParser, BodyPackets
    <3>5. CASE WriteNoise
      BY <1>1, <3>2, <3>5, NoiseParser, NoisePackets
    <3>6. CASE ReadByte
      BY <1>1, <3>1, <3>2, <3>6, ByteParser, BytePackets
    <3>7. CASE Close \/ ReadFails \/ ReadEof
      BY <1>1, <3>2, <3>7, OthersParser, OthersPackets
    <3> QED BY <1>3, <3>3, <3>4, <3>5, <3>6, <3>7 DEF Next, Writing
  <2>3. PacketsInOrder' <=> (Undisturbed' => PacketsInv')
    BY DEF PacketsInOrder, PacketsInv, GoodInv, AscendingInv, CompleteInv
  <2> QED BY <1>1, <2>1, <2>2, <2>3 DEF IInv
<1> QED BY <1>2, <1>3

\* What readMessage returns are the packets that were written, unchanged and in
\* their order, and of those that an error or another writer did not strike
\* none is missing, whatever debug text is between them, as long as no frame
\* that is searched for a header holds a START1 (writeMessage, readMessage).
THEOREM InOrder == Spec => []PacketsInOrder
<1>1. IInv => PacketsInOrder
  BY DEF IInv
<1> QED BY <1>1, InvInit, InvNext, PTL DEF Spec
=============================================================================
