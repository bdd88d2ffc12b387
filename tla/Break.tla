-------------------------------- MODULE Break --------------------------------
(***************************************************************************)
(* Cutting a long text into messages (meshwrapper/helpers/language.go):     *)
(* BreakMessage, which numbers the parts, and the loop of BreakMessageAt,   *)
(* which walks through the text and prefers to cut at a new line, then at a *)
(* space, then between two characters.                                      *)
(*                                                                          *)
(* A text is a sequence of bytes, and only what the loop tells apart is     *)
(* kept of them: spaces, new lines, bytes that continue a UTF-8 character,  *)
(* and all others.  Offsets count from zero, as in the code.  BreakMessage  *)
(* treats the pieces between <BREAK-MESSAGE> marks alike: this is one piece.*)
(***************************************************************************)
EXTENDS Integers, Sequences

CONSTANTS Texts,        \* the pieces that may have to be cut, trimmed
          Limit,        \* MAX_MESSAGE_LENGTH
          MaxLength,    \* MAX_LENGTH_WITH_PAGINATION, the parameter maxlength
          MaxMessages,  \* the number of messages that is "too many at once"
          Widest        \* how many bytes a UTF-8 character has at most

Bytes == {"letter", "space", "line", "cont"}
Separators == {"space", "line"}

\* Trimmed, valid UTF-8.
WellFormed(t) ==
    /\ t \in Seq(Bytes)
    /\ t # <<>> => t[1] = "letter" /\ t[Len(t)] \notin Separators
    /\ \A p \in 2..Len(t) : t[p] = "cont" => t[p - 1] \notin Separators
    /\ \A p \in 1..(Len(t) - Widest + 1) : \E q \in p..(p + Widest - 1) : t[q] # "cont"

ASSUME BreakAssumption ==
    /\ {Limit, MaxLength, MaxMessages, Widest} \subseteq Nat
    /\ 0 < Widest /\ Widest <= MaxLength /\ MaxLength <= Limit
    /\ MaxMessages <= 1000
    /\ \A t \in Texts : WellFormed(t)

VARIABLES
    input,  \* the piece
    start,  \* startPtr
    parts,  \* the messages so far: input[from:to] and the length of its number
    pc

vars == <<input, start, parts, pc>>

Init ==
    /\ input \in Texts
    /\ start = 0
    /\ parts = <<>>
    /\ pc = "begin"

Byte(p) == input[p + 1]
Size == Len(input)

\* Does a character begin, or the text end, at offset p?
Boundary(p) == p = Size \/ Byte(p) # "cont"

-----------------------------------------------------------------------------
Part(to) == [from |-> start, to |-> to, number |-> 0]

\* A piece within the limit is one message, without a number.
Whole ==
    /\ pc = "begin"
    /\ Size <= Limit
    /\ parts' = <<Part(Size)>>
    /\ start' = Size
    /\ pc' = "done"
    /\ UNCHANGED input

TooLong ==
    /\ pc = "begin"
    /\ Size > Limit
    /\ pc' = "breaking"
    /\ UNCHANGED <<input, start, parts>>

\* utf8.ValidString(input[startPtr:e])
Valid(e) == e = start \/ (Boundary(start) /\ Boundary(e))

\* Mutant: the end of the part is not moved off the middle of a character.
CharEnd_AnyByte(e) == e = start + MaxLength

\* e is charEnd once no character is cut in two.
CharEnd(e) ==
    /\ e \in start..(start + MaxLength)
    /\ Valid(e)
    /\ \A d \in (e + 1)..(start + MaxLength) : ~Valid(d)

\* strings.LastIndex(input[startPtr:charEnd+1], kind)
LastIndex(p, kind, e) ==
    /\ p \in start..e
    /\ Byte(p) = kind
    /\ \A q \in (p + 1)..e : Byte(q) # kind

\* Mutant: the next new line is not looked for.
NextLineEnd_Unsought(n, e) == n = Size

\* nextLineEnd, counted from charEnd; the length of the text if there is none.
NextLineEnd(n, e) ==
    IF \E p \in e..(Size - 1) : Byte(p) = "line"
    THEN /\ n \in 0..(Size - 1 - e)
         /\ Byte(e + n) = "line"
         /\ \A q \in e..(e + n - 1) : Byte(q) # "line"
    ELSE n = Size

\* lineEnd != -1 && nextLineLength <= maxlength
LineCut(l, e) ==
    /\ LastIndex(l, "line", e)
    /\ \E n \in 0..Size : NextLineEnd(n, e) /\ (n + e) - (l + 1) <= MaxLength

SpaceCut(w, e) ==
    /\ \A l \in start..e : ~LineCut(l, e)
    /\ LastIndex(w, "space", e)

\* Mutant: the byte after the part is skipped whatever it is.
Cut_SkipsAlways(to, resume) ==
    /\ parts' = Append(parts, Part(to))
    /\ start' = to + 1
    /\ UNCHANGED <<input, pc>>

Cut(to, resume) ==
    /\ parts' = Append(parts, Part(to))
    /\ start' = resume
    /\ UNCHANGED <<input, pc>>

\* One round of the loop that does not reach the end of the text.
MustCut == pc = "breaking" /\ start + MaxLength < Size
Reach == start..(start + MaxLength)

CutAtLine ==
    /\ MustCut
    /\ \E e, l \in Reach : CharEnd(e) /\ LineCut(l, e) /\ Cut(l, l + 1)

\* Mutant: the space that is cut at opens the next part.
CutAtSpace_Keeps ==
    /\ MustCut
    /\ \E e, w \in Reach : CharEnd(e) /\ SpaceCut(w, e) /\ Cut(w, w)

CutAtSpace ==
    /\ MustCut
    /\ \E e, w \in Reach : CharEnd(e) /\ SpaceCut(w, e) /\ Cut(w, w + 1)

CutAtChar ==
    /\ MustCut
    /\ \E e \in Reach :
        /\ CharEnd(e)
        /\ \A p \in start..e : ~LineCut(p, e) /\ ~SpaceCut(p, e)
        /\ Cut(e, e)

\* Mutant: the end is not limited to the text.
Rest_Unlimited ==
    /\ pc = "breaking"
    /\ start < Size
    /\ start + MaxLength >= Size
    /\ Cut(start + MaxLength, start + MaxLength)

\* The rest fits, and the loop ends.
Rest ==
    /\ pc = "breaking"
    /\ start < Size
    /\ start + MaxLength >= Size
    /\ Cut(Size, Size)

Digits(i) == IF i < 10 THEN 1 ELSE IF i < 100 THEN 2 ELSE 3

\* Mutant: the total is given however many parts there are.
Number_AlwaysTotal(i, n) == 4 + Digits(i) + Digits(n)

\* The length of " [i/n]", or of " [i]" when there are more than nine parts.
Number(i, n) == IF n > 9 THEN 3 + Digits(i) ELSE 4 + Digits(i) + Digits(n)

\* All parts are numbered; too many of them are a panic.
Paginate ==
    /\ pc = "breaking"
    /\ start >= Size
    /\ LET n == Len(parts)
       IN  /\ parts' = [i \in 1..n |-> [parts[i] EXCEPT !.number = Number(i, n)]]
           /\ pc' = IF n < MaxMessages THEN "done" ELSE "panic"
    /\ UNCHANGED <<input, start>>

Returned == pc \in {"done", "panic"} /\ UNCHANGED vars

Next ==
    \/ Whole \/ TooLong
    \/ CutAtLine \/ CutAtSpace \/ CutAtChar \/ Rest
    \/ Paginate \/ Returned

Spec == Init /\ [][Next]_vars

-----------------------------------------------------------------------------
(* Properties                                                              *)

\* The shape of the state; every slice lies within the text.
TypeOK ==
    /\ WellFormed(input)
    /\ start \in 0..Size
    /\ parts \in Seq([from : 0..Size, to : 0..Size, number : Nat])
    /\ pc \in {"begin", "breaking", "done", "panic"}

\* Where the text continues after the k-th part.
After(k) == IF k < Len(parts) THEN parts[k + 1].from ELSE start

\* The parts are consecutive slices of the text: between two of them at most
\* one byte is left out, and that is a space or a new line.
NothingLost ==
    /\ IF parts = <<>> THEN start = 0 ELSE parts[1].from = 0
    /\ \A k \in 1..Len(parts) :
        \/ After(k) = parts[k].to
        \/ After(k) = parts[k].to + 1 /\ Byte(parts[k].to) \in Separators
    /\ pc \in {"done", "panic"} => start = Size

\* No UTF-8 character is cut in two.
WholeChars ==
    \A k \in 1..Len(parts) : Boundary(parts[k].from) /\ Boundary(parts[k].to)

\* Every message fits into a packet, with its number.
MessagesFit ==
    pc = "done" =>
        \A k \in 1..Len(parts) :
            /\ 0 <= parts[k].to - parts[k].from
            /\ parts[k].to - parts[k].from + parts[k].number <= Limit

\* Every line, up to its new line or the end of the text, fits into a message.
ShortLines ==
    \A p \in 0..(Size - MaxLength - 1) :
        \E q \in p..(p + MaxLength) : Byte(q) = "line"

\* "First cut at a new line" (language.go:155): when every line fits into a
\* message, no line is cut in two as long as another new line follows beyond
\* the reach of the part, although the loop weighs the line behind a new line
\* only by the next new line it finds.
LinesStayWhole ==
    Size > Limit /\ ShortLines =>
        \A k \in 1..Len(parts) :
            (\E p \in (parts[k].from + MaxLength + 1)..(Size - 1) : Byte(p) = "line")
                => Byte(parts[k].to) = "line"

\* An empty message is sent only where two separators follow each other.
EmptyOnlyBetweenSeparators ==
    \A k \in 1..Len(parts) : parts[k].from = parts[k].to /\ Size > 0 =>
        /\ parts[k].from > 0
        /\ Byte(parts[k].from - 1) \in Separators
        /\ Byte(parts[k].from) \in Separators

\* Every round of the loop gets further, so that it ends.
EveryRoundAdvances ==
    [][pc = "breaking" /\ pc' = "breaking" => start' > start]_vars
=============================================================================
