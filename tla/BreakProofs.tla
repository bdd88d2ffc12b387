----------------------------- MODULE BreakProofs -----------------------------
(***************************************************************************)
(* Proofs about Break, for texts of any length and any limits: parts are   *)
(* consecutive slices of whole characters, they fit into a packet, and the *)
(* loop always gets further.                                               *)
(***************************************************************************)
EXTENDS Break, SequenceTheorems, FiniteSetTheorems, TLAPS

-----------------------------------------------------------------------------
(* The inductive invariant                                                 *)

\* Where the loop stands: between two characters, and on a separator only
\* right after another one.
StartInv ==
    /\ Boundary(start)
    /\ start < Size /\ Byte(start) \in Separators =>
           start > 0 /\ Byte(start - 1) \in Separators
    /\ pc = "begin" => start = 0 /\ parts = <<>>
    /\ pc \in {"done", "panic"} => start = Size
    /\ IF parts = <<>> THEN start = 0 ELSE parts[1].from = 0

\* What holds of the k-th part: its length, where the text goes on after it,
\* its two ends, and when it may be empty.
Slice(k) ==
    /\ parts[k].from <= parts[k].to
    /\ pc = "breaking" => parts[k].to - parts[k].from <= MaxLength /\ parts[k].number = 0

Joined(k) ==
    \/ After(k) = parts[k].to
    \/ After(k) = parts[k].to + 1 /\ Byte(parts[k].to) \in Separators

Chars(k) == Boundary(parts[k].from) /\ Boundary(parts[k].to)

EmptyWhere(k) ==
    parts[k].from = parts[k].to /\ Size > 0 =>
        /\ parts[k].from > 0
        /\ Byte(parts[k].from - 1) \in Separators
        /\ Byte(parts[k].from) \in Separators

PartInv(k) == Slice(k) /\ Joined(k) /\ Chars(k) /\ EmptyWhere(k)

IInv == TypeOK /\ StartInv /\ \A k \in 1..Len(parts) : PartInv(k)

-----------------------------------------------------------------------------
(* Lemmas about texts                                                      *)

\* A text is made of bytes of the four kinds.
LEMMA ByteKinds ==
    ASSUME TypeOK, NEW p \in 0..(Size - 1)
    PROVE  Byte(p) \in Bytes /\ Size \in Nat
BY DEF TypeOK, WellFormed, Byte, Size, Bytes

\* After a separator a character begins.
LEMMA AfterSeparator ==
    ASSUME TypeOK, NEW p \in 0..(Size - 1), Byte(p) \in Separators
    PROVE  Boundary(p) /\ Boundary(p + 1) /\ Size \in Nat
<1>1. Size \in Nat /\ input \in Seq(Bytes)
  BY DEF TypeOK, WellFormed, Size
<1>2. Boundary(p)
  BY DEF Boundary, Separators
<1>3. ASSUME p + 1 # Size PROVE Byte(p + 1) # "cont"
  <2>1. p + 2 \in 2..Size
    BY <1>1, <1>3
  <2>2. input[p + 2] = "cont" => input[p + 2 - 1] \notin Separators
    BY <2>1 DEF TypeOK, WellFormed, Size
  <2>3. p + 2 - 1 = p + 1 /\ p + 1 + 1 = p + 2
    BY <1>1
  <2> QED BY <2>2, <2>3 DEF Byte
<1> QED BY <1>1, <1>2, <1>3 DEF Boundary

\* utf8.ValidString finds a character within maxlength bytes, whatever the
\* text: the end of the part is beyond its start.
LEMMA EndAdvances ==
    ASSUME TypeOK, MustCut, Boundary(start), NEW e \in Nat, CharEnd(e)
    PROVE  start < e /\ e < Size /\ Boundary(e) /\ e <= start + MaxLength
<1>1. Size \in Nat /\ start \in Nat /\ MaxLength \in Nat /\ Widest \in Nat
  BY BreakAssumption DEF TypeOK, WellFormed, Size
<1>2. 0 < Widest /\ Widest <= MaxLength /\ start + MaxLength < Size
  BY BreakAssumption DEF MustCut
<1>3. e \in start..(start + MaxLength)
  BY DEF CharEnd
<1>4. PICK q \in (start + 2)..(start + 2 + Widest - 1) : input[q] # "cont"
  <2>1. start + 2 \in 1..(Size - Widest + 1)
    BY <1>1, <1>2
  <2> QED BY <2>1 DEF TypeOK, WellFormed, Size
<1>5. Boundary(q - 1) /\ q - 1 \in (start + 1)..(start + MaxLength)
  BY <1>1, <1>2, <1>4 DEF Boundary, Byte
<1>6. Valid(q - 1)
  BY <1>5 DEF Valid
<1>7. ~(q - 1 \in (e + 1)..(start + MaxLength))
  BY <1>6 DEF CharEnd
<1>8. start < e
  BY <1>1, <1>3, <1>5, <1>7
<1>9. Boundary(e)
  BY <1>1, <1>8 DEF CharEnd, Valid
<1> QED BY <1>1, <1>2, <1>3, <1>8, <1>9

\* Where there is neither a new line nor a space to cut at, the byte after the
\* part is no separator.
LEMMA NoSeparator ==
    ASSUME TypeOK, NEW e \in 0..(Size - 1), start <= e,
           \A p \in start..e : ~LineCut(p, e) /\ ~SpaceCut(p, e)
    PROVE  Byte(e) \notin Separators
<1>1. Size \in Nat /\ start \in Nat /\ e \in start..e /\ MaxLength \in Nat
  BY BreakAssumption DEF TypeOK, WellFormed, Size
<1>2. \A kind \in Separators : Byte(e) = kind => LastIndex(e, kind, e)
  BY <1>1 DEF LastIndex
<1>3. Byte(e) # "line"
  <2> SUFFICES ASSUME Byte(e) = "line" PROVE FALSE
    OBVIOUS
  <2>1. e \in e..(Size - 1) /\ 0 \in 0..(Size - 1 - e) /\ e + 0 = e /\ 0 \in 0..Size
    BY <1>1
  <2>2. \A q \in e..(e + 0 - 1) : FALSE
    BY <1>1
  <2>3. NextLineEnd(0, e)
    BY <2>1, <2>2 DEF NextLineEnd
  <2>4. (0 + e) - (e + 1) <= MaxLength
    BY <1>1
  <2>5. LineCut(e, e)
    BY <1>2, <2>1, <2>3, <2>4 DEF LineCut, Separators
  <2> QED BY <1>1, <2>5
<1>4. Byte(e) # "space"
  BY <1>1, <1>2 DEF SpaceCut, Separators
<1> QED BY <1>3, <1>4 DEF Separators

-----------------------------------------------------------------------------
(* The first and the last new line                                         *)

\* A set of numbers has a least one: its initial segments are finite sets, and
\* those are well-founded by inclusion.
LEMMA Least ==
    ASSUME NEW T \in SUBSET Nat, T # {}
    PROVE  \E m \in T : \A k \in T : m <= k
<1> DEFINE Below(n) == 0..(n - 1)
           Belows == {Below(n) : n \in T}
<1>1. Belows \subseteq FiniteSubsetsOf(Nat) /\ Belows # {}
  <2>1. \A n \in T : IsFiniteSet(Below(n)) /\ Below(n) \subseteq Nat
    BY FS_Interval
  <2> QED BY <2>1 DEF FiniteSubsetsOf
<1>2. PICK b \in Belows : \A c \in Belows : ~(<<c, b>> \in StrictSubsetOrdering(Nat))
  <2> HIDE DEF Belows
  <2>1. IsWellFoundedOn(StrictSubsetOrdering(Nat), FiniteSubsetsOf(Nat))
    BY FS_StrictSubsetOrderingWellFounded
  <2> QED BY <1>1, <2>1, WFMin
<1>3. PICK m \in T : b = Below(m)
  OBVIOUS
<1>4. ASSUME NEW k \in T, k < m PROVE FALSE
  <2>1. Below(k) \subseteq Below(m) /\ Below(k) # Below(m)
    <3>1. k \in Below(m) /\ k \notin Below(k)
      BY <1>4
    <3> QED BY <3>1, <1>4
  <2>2. Below(k) \in SUBSET Nat /\ Below(m) \in SUBSET Nat /\ Below(k) \in Belows
    OBVIOUS
  <2>3. <<Below(k), Below(m)>> \in StrictSubsetOrdering(Nat)
    BY <2>1, <2>2 DEF StrictSubsetOrdering
  <2> QED BY <1>2, <1>3, <2>2, <2>3
<1> QED BY <1>4

LEMMA Greatest ==
    ASSUME NEW T \in SUBSET Nat, T # {}, NEW n \in Nat, \A k \in T : k <= n
    PROVE  \E m \in T : \A k \in T : k <= m
<1> DEFINE Gaps == {n - k : k \in T}
<1>0. \A k \in T : k \in Nat /\ n - k \in Nat /\ n - k \in Gaps
  OBVIOUS
<1>1. Gaps \in SUBSET Nat /\ Gaps # {}
  <2>1. \A g \in Gaps : g \in Nat
    BY <1>0
  <2> QED BY <1>0, <2>1
<1>2. PICK g \in Gaps : \A h \in Gaps : g <= h
  <2> HIDE DEF Gaps
  <2> QED BY <1>1, Least
<1>3. PICK m \in T : g = n - m
  OBVIOUS
<1>4. \A k \in T : n - m <= n - k
  <2> HIDE DEF Gaps
  <2> QED BY <1>0, <1>2, <1>3
<1>5. \A k \in T : k <= m
  <2> HIDE DEF Gaps
  <2> QED BY <1>0, <1>4
<1> QED BY <1>5

\* If every line fits, a part that does not reach the last new line is cut at
\* one: there is a new line within its reach, and behind the last of those
\* the next is not too far.
LEMMA LineWithinReach ==
    ASSUME TypeOK, MustCut, Boundary(start), ShortLines,
           NEW far \in (start + MaxLength + 1)..(Size - 1), Byte(far) = "line",
           NEW e \in Nat, CharEnd(e)
    PROVE  \E l \in start..e : LineCut(l, e)
<1>1. Size \in Nat /\ start \in Nat /\ MaxLength \in Nat
  BY BreakAssumption DEF TypeOK, WellFormed, Size
<1>2. start < e /\ e < Size /\ e <= start + MaxLength
  BY EndAdvances
<1> DEFINE Lines == {p \in 0..(Size - 1) : Byte(p) = "line"}
           Behind == {p \in Lines : e <= p}
           Within == {p \in Lines : start <= p /\ p <= e}
<1>3. ASSUME NEW p \in 0..(Size - MaxLength - 1)
      PROVE  \E q \in Lines : p <= q /\ q <= p + MaxLength
  <2>1. PICK q \in p..(p + MaxLength) : Byte(q) = "line"
    BY <1>3 DEF ShortLines
  <2>2. q \in 0..(Size - 1)
    BY <1>1, <2>1
  <2> QED BY <2>1, <2>2
<1>4. Within # {}
  <2>1. PICK q \in Lines : start <= q /\ q <= start + MaxLength
    BY <1>1, <1>3
  <2>2. Valid(q)
    BY <2>1 DEF Valid, Boundary
  <2>3. ~(q \in (e + 1)..(start + MaxLength))
    BY <2>2 DEF CharEnd
  <2>4. q <= e
    BY <1>1, <2>1, <2>3
  <2> QED BY <2>1, <2>4
<1>5. PICK l \in Within : \A p \in Within : p <= l
  <2>1. Within \in SUBSET Nat /\ \A p \in Within : p <= e
    BY <1>1
  <2> HIDE DEF Within
  <2> QED BY <1>4, <2>1, Greatest
<1>6. PICK m \in Behind : \A p \in Behind : m <= p
  <2>1. Behind \in SUBSET Nat /\ far \in Behind
    BY <1>1, <1>2
  <2> HIDE DEF Behind
  <2> QED BY <2>1, Least
<1>7. LastIndex(l, "line", e)
  <2>1. l \in start..e /\ Byte(l) = "line"
    BY <1>1
  <2>2. ASSUME NEW q \in (l + 1)..e, Byte(q) = "line" PROVE FALSE
    <3>1. q \in Within
      BY <1>1, <1>2, <2>1, <2>2
    <3> QED BY <1>5, <2>1, <2>2, <3>1
  <2> QED BY <2>1, <2>2 DEF LastIndex
<1>8. m - e \in 0..Size /\ NextLineEnd(m - e, e)
  <2>1. m \in e..(Size - 1) /\ Byte(m) = "line"
    BY <1>1, <1>2
  <2>2. m - e \in 0..(Size - 1 - e) /\ e + (m - e) = m /\ m - e \in 0..Size
    BY <1>1, <1>2, <2>1
  <2>3. ASSUME NEW q \in e..(m - 1), Byte(q) = "line" PROVE FALSE
    <3>1. q \in Behind
      BY <1>1, <1>2, <2>1, <2>3
    <3> QED BY <1>6, <2>1, <2>3, <3>1
  <2>4. \A q \in e..(e + (m - e) - 1) : Byte(q) # "line"
    BY <2>2, <2>3
  <2> QED BY <2>1, <2>2, <2>4 DEF NextLineEnd
<1>9. m - (l + 1) <= MaxLength
  <2> SUFFICES ASSUME m - (l + 1) > MaxLength PROVE FALSE
    BY <1>1
  <2>1. l + 1 \in 0..(Size - MaxLength - 1)
    BY <1>1
  <2>2. PICK q \in Lines : l + 1 <= q /\ q <= l + 1 + MaxLength
    BY <1>3, <2>1
  <2>3. q > e
    <3>1. q <= e => q \in Within
      BY <1>1, <2>2
    <3> QED BY <1>1, <1>2, <1>5, <2>2, <3>1
  <2>4. q \in Behind
    BY <1>1, <1>2, <2>3
  <2> QED BY <1>1, <1>6, <2>2, <2>4
<1>10. LineCut(l, e)
  <2>1. (m - e) + e = m
    BY <1>1, <1>2
  <2> QED BY <1>7, <1>8, <1>9, <2>1 DEF LineCut
<1> QED BY <1>10

-----------------------------------------------------------------------------
(* A round of the loop                                                     *)

\* What every cut has in common, whichever byte it is made at.
GoodCut(to, resume) ==
    /\ to \in start..Size /\ resume \in 0..Size
    /\ to - start <= MaxLength
    /\ Boundary(to) /\ Boundary(resume)
    /\ resume = to \/ (resume = to + 1 /\ Byte(to) \in Separators)
    /\ to = start => Byte(start) \in Separators /\ start < Size
    /\ resume < Size /\ Byte(resume) \in Separators =>
           resume > 0 /\ Byte(resume - 1) \in Separators

LEMMA CutKeepsInvariant ==
    ASSUME IInv, pc = "breaking", NEW to \in Nat, NEW resume \in Nat,
           GoodCut(to, resume), Cut(to, resume)
    PROVE  IInv'
<1>0. PICK n \in Nat : n = Len(parts)
  BY DEF IInv, TypeOK
<1>1. /\ Size \in Nat /\ start \in Nat /\ n = Len(parts)
      /\ parts \in Seq([from : 0..Size, to : 0..Size, number : Nat])
  BY <1>0 DEF IInv, TypeOK, WellFormed, Size
<1>2. /\ input' = input /\ pc' = "breaking" /\ start' = resume
      /\ parts' = Append(parts, Part(to))
  BY DEF Cut
<1>3. Size' = Size /\ \A p : (Byte(p)' = Byte(p)) /\ (Boundary(p)' = Boundary(p))
  BY <1>2 DEF Size, Byte, Boundary
<1>4. Part(to) \in [from : 0..Size, to : 0..Size, number : Nat]
  BY <1>1 DEF Part, GoodCut
<1>5. /\ Len(parts') = n + 1
      /\ parts'[n + 1] = Part(to)
      /\ \A k \in 1..n : parts'[k] = parts[k]
      /\ parts' \in Seq([from : 0..Size, to : 0..Size, number : Nat])
  BY <1>1, <1>2, <1>4
<1>6. TypeOK'
  BY <1>2, <1>3, <1>5 DEF IInv, TypeOK, GoodCut, WellFormed
<1>7. StartInv'
  <2>1. parts' # <<>> /\ parts'[1].from = 0
    <3>1. CASE n = 0
      <4>1. parts = <<>>
        BY <1>1, <3>1, EmptySeq
      <4>2. start = 0 /\ n + 1 = 1
        BY <3>1, <4>1 DEF IInv, StartInv
      <4>3. parts'[1] = Part(to) /\ Len(parts') = 1
        BY <1>5, <4>2
      <4>4. parts' # <<>>
        BY <1>5, <4>3
      <4> QED BY <4>2, <4>3, <4>4 DEF Part
    <3>2. CASE n # 0
      <4>1. parts # <<>> /\ 1 \in 1..n
        BY <1>1, <3>2
      <4> QED BY <4>1, <1>1, <1>5, SMTT(30) DEF IInv, StartInv
    <3> QED BY <3>1, <3>2
  <2>2. Boundary(resume) /\ (resume < Size /\ Byte(resume) \in Separators =>
                                 resume > 0 /\ Byte(resume - 1) \in Separators)
    BY DEF GoodCut
  <2> QED BY <1>2, <1>3, <2>1, <2>2 DEF StartInv
<1>8. ASSUME NEW k \in 1..n PROVE PartInv(k)'
  <2>1. parts'[k] = parts[k] /\ PartInv(k)
    BY <1>1, <1>5 DEF IInv
  <2>2. After(k)' = After(k)
    <3>1. CASE k < n
      <4>1. k + 1 \in 1..n /\ k < n + 1
        BY <1>1, <3>1
      <4>2. After(k) = parts[k + 1].from
        BY <1>1, <3>1 DEF After
      <4>3. After(k)' = parts'[k + 1].from
        BY <1>5, <4>1 DEF After
      <4> QED BY <1>5, <4>1, <4>2, <4>3
    <3>2. CASE k = n
      BY <1>1, <1>5, <3>2 DEF After, Part
    <3> QED BY <1>1, <3>1, <3>2
  <2>3. Slice(k)' /\ Joined(k)' /\ Chars(k)' /\ EmptyWhere(k)'
    BY <2>1, <2>2, <1>2, <1>3 DEF PartInv, Slice, Joined, Chars, EmptyWhere
  <2> QED BY <2>3 DEF PartInv
<1>9. PartInv(n + 1)'
  <2>1. parts'[n + 1].from = start /\ parts'[n + 1].to = to /\ parts'[n + 1].number = 0
    BY <1>5 DEF Part
  <2>2. After(n + 1)' = resume
    BY <1>1, <1>2, <1>5 DEF After
  <2>3. Slice(n + 1)'
    BY <2>1, <1>1, <1>2 DEF Slice, GoodCut
  <2>4. Joined(n + 1)'
    BY <2>1, <2>2, <1>3 DEF Joined, GoodCut
  <2>5. Chars(n + 1)'
    BY <2>1, <1>3 DEF Chars, GoodCut, IInv, StartInv
  <2>6. EmptyWhere(n + 1)'
    BY <2>1, <1>3 DEF EmptyWhere, GoodCut, IInv, StartInv
  <2> QED BY <2>3, <2>4, <2>5, <2>6 DEF PartInv
<1>10. \A k \in 1..Len(parts') : PartInv(k)'
  <2> SUFFICES ASSUME NEW k \in 1..Len(parts') PROVE PartInv(k)'
    OBVIOUS
  <2>1. k \in 1..n \/ k = n + 1
    BY <1>1, <1>5
  <2> QED BY <2>1, <1>8, <1>9
<1> QED BY <1>6, <1>7, <1>10 DEF IInv

\* The three cuts in the middle of the text get beyond its start.
LEMMA LineGoodCut ==
    ASSUME IInv, CutAtLine
    PROVE  \E to, resume \in Nat : GoodCut(to, resume) /\ Cut(to, resume) /\ start < resume
<1>1. PICK e \in Reach, l \in Reach : CharEnd(e) /\ LineCut(l, e) /\ Cut(l, l + 1)
  BY DEF CutAtLine
<1>2. Size \in Nat /\ start \in Nat /\ MaxLength \in Nat /\ e \in Nat /\ l \in Nat
  BY BreakAssumption DEF IInv, TypeOK, WellFormed, Size, Reach
<1>3. e < Size /\ e <= start + MaxLength
  BY <1>1, <1>2, EndAdvances DEF IInv, StartInv, CutAtLine
<1>4. l \in start..e /\ Byte(l) \in Separators
  BY <1>1 DEF LineCut, LastIndex, Separators
<1>5. l \in 0..(Size - 1)
  BY <1>2, <1>3, <1>4
<1>6. Boundary(l) /\ Boundary(l + 1)
  BY <1>4, <1>5, AfterSeparator DEF IInv
<1>7. /\ l \in start..Size /\ l + 1 \in 0..Size /\ l - start <= MaxLength
      /\ l + 1 > 0 /\ l + 1 - 1 = l /\ start < l + 1
      /\ l = start => start < Size
  BY <1>2, <1>3, <1>4, <1>5
<1>8. GoodCut(l, l + 1)
  BY <1>4, <1>6, <1>7 DEF GoodCut
<1> QED BY <1>1, <1>2, <1>7, <1>8

LEMMA SpaceGoodCut ==
    ASSUME IInv, CutAtSpace
    PROVE  \E to, resume \in Nat : GoodCut(to, resume) /\ Cut(to, resume) /\ start < resume
<1>1. PICK e \in Reach, w \in Reach : CharEnd(e) /\ SpaceCut(w, e) /\ Cut(w, w + 1)
  BY DEF CutAtSpace
<1>2. Size \in Nat /\ start \in Nat /\ MaxLength \in Nat /\ e \in Nat /\ w \in Nat
  BY BreakAssumption DEF IInv, TypeOK, WellFormed, Size, Reach
<1>3. e < Size /\ e <= start + MaxLength
  BY <1>1, <1>2, EndAdvances DEF IInv, StartInv, CutAtSpace
<1>4. w \in start..e /\ Byte(w) \in Separators
  BY <1>1 DEF SpaceCut, LastIndex, Separators
<1>5. w \in 0..(Size - 1)
  BY <1>2, <1>3, <1>4
<1>6. Boundary(w) /\ Boundary(w + 1)
  BY <1>4, <1>5, AfterSeparator DEF IInv
<1>7. /\ w \in start..Size /\ w + 1 \in 0..Size /\ w - start <= MaxLength
      /\ w + 1 > 0 /\ w + 1 - 1 = w /\ start < w + 1
      /\ w = start => start < Size
  BY <1>2, <1>3, <1>4, <1>5
<1>8. GoodCut(w, w + 1)
  BY <1>4, <1>6, <1>7 DEF GoodCut
<1> QED BY <1>1, <1>2, <1>7, <1>8

LEMMA CharGoodCut ==
    ASSUME IInv, CutAtChar
    PROVE  \E to, resume \in Nat : GoodCut(to, resume) /\ Cut(to, resume) /\ start < resume
<1>1. PICK e \in Reach :
        /\ CharEnd(e)
        /\ \A p \in start..e : ~LineCut(p, e) /\ ~SpaceCut(p, e)
        /\ Cut(e, e)
  BY DEF CutAtChar
<1>2. Size \in Nat /\ start \in Nat /\ MaxLength \in Nat /\ e \in Nat
  BY BreakAssumption DEF IInv, TypeOK, WellFormed, Size, Reach
<1>3. start < e /\ e < Size /\ Boundary(e) /\ e <= start + MaxLength
  BY <1>1, <1>2, EndAdvances DEF IInv, StartInv, CutAtChar
<1>4. Byte(e) \notin Separators
  BY <1>1, <1>2, <1>3, NoSeparator DEF IInv
<1>5. e \in start..Size /\ e \in 0..Size /\ e - start <= MaxLength /\ e # start
  BY <1>2, <1>3
<1>6. GoodCut(e, e)
  BY <1>3, <1>4, <1>5 DEF GoodCut
<1> QED BY <1>1, <1>2, <1>3, <1>6

LEMMA RestGoodCut ==
    ASSUME IInv, Rest
    PROVE  \E to, resume \in Nat : GoodCut(to, resume) /\ Cut(to, resume) /\ start < resume
<1>1. Size \in Nat /\ start \in Nat /\ MaxLength \in Nat
  BY BreakAssumption DEF IInv, TypeOK, WellFormed, Size
<1>2. Size \in start..Size /\ Size \in 0..Size /\ Size - start <= MaxLength /\ Size # start
      /\ start < Size /\ ~(Size < Size)
  BY <1>1 DEF Rest
<1>3. Boundary(Size)
  BY DEF Boundary
<1>4. GoodCut(Size, Size)
  BY <1>2, <1>3 DEF GoodCut
<1> QED BY <1>1, <1>2, <1>4 DEF Rest

-----------------------------------------------------------------------------
(* The invariant holds                                                     *)

LEMMA InitInvariant == Init => IInv
<1> SUFFICES ASSUME Init PROVE IInv
  OBVIOUS
<1>1. WellFormed(input) /\ start = 0 /\ parts = <<>> /\ pc = "begin"
  BY BreakAssumption DEF Init
<1>2. Size \in Nat /\ Len(parts) = 0
  BY <1>1 DEF WellFormed, Size
<1>3. Boundary(0) /\ (0 < Size => Byte(0) \notin Separators)
  <2>1. Size > 0 => input # <<>>
    BY <1>1 DEF WellFormed, Size
  <2>2. Size > 0 => Byte(0) = "letter"
    BY <2>1, <1>1 DEF WellFormed, Byte
  <2> QED BY <1>2, <2>2 DEF Boundary, Separators
<1>4. TypeOK
  BY <1>1, <1>2 DEF TypeOK
<1>5. StartInv
  BY <1>1, <1>3 DEF StartInv
<1> QED BY <1>2, <1>4, <1>5 DEF IInv

LEMMA WholeKeepsInvariant ==
    ASSUME IInv, Whole
    PROVE  IInv'
<1>1. /\ Size \in Nat /\ start = 0 /\ parts = <<>> /\ input' = input
      /\ parts' = <<Part(Size)>> /\ start' = Size /\ pc' = "done"
  BY DEF IInv, TypeOK, StartInv, Whole, WellFormed, Size
<1>2. Size' = Size /\ \A p : (Byte(p)' = Byte(p)) /\ (Boundary(p)' = Boundary(p))
  BY <1>1 DEF Size, Byte, Boundary
<1>3. Part(Size) = [from |-> 0, to |-> Size, number |-> 0]
  BY <1>1 DEF Part
<1>4. Len(parts') = 1 /\ parts'[1] = Part(Size)
      /\ parts' \in Seq([from : 0..Size, to : 0..Size, number : Nat])
  BY <1>1, <1>3
<1>5. TypeOK'
  BY <1>1, <1>2, <1>4 DEF IInv, TypeOK, WellFormed
<1>6. Boundary(Size) /\ Boundary(0)
  BY <1>1 DEF Boundary, IInv, StartInv
<1>7. StartInv'
  BY <1>1, <1>2, <1>3, <1>4, <1>6 DEF StartInv
<1>8. PartInv(1)'
  <2>1. After(1)' = Size
    BY <1>1, <1>4 DEF After
  <2> QED BY <1>1, <1>2, <1>3, <1>4, <1>6, <2>1
       DEF PartInv, Slice, Joined, Chars, EmptyWhere
<1> QED BY <1>4, <1>5, <1>7, <1>8 DEF IInv

LEMMA TooLongKeepsInvariant ==
    ASSUME IInv, TooLong
    PROVE  IInv'
<1>1. /\ start = 0 /\ parts = <<>> /\ input' = input /\ parts' = parts
      /\ start' = start /\ pc' = "breaking" /\ Len(parts) = 0
  BY DEF IInv, StartInv, TooLong
<1>2. TypeOK'
  BY <1>1 DEF IInv, TypeOK, Size, WellFormed
<1>3. StartInv'
  BY <1>1 DEF IInv, StartInv, Boundary, Byte, Size
<1> QED BY <1>1, <1>2, <1>3 DEF IInv

\* Numbering changes neither the slices nor where they come from.
LEMMA PaginateKeepsInvariant ==
    ASSUME IInv, Paginate
    PROVE  IInv'
<1>1. PICK n \in Nat : n = Len(parts)
  BY DEF IInv, TypeOK
<1>2. /\ Size \in Nat /\ start = Size /\ input' = input /\ start' = start
      /\ parts' = [i \in 1..n |-> [parts[i] EXCEPT !.number = Number(i, n)]]
      /\ pc' \in {"done", "panic"}
  BY <1>1 DEF IInv, TypeOK, WellFormed, Size, Paginate
<1>3. Size' = Size /\ \A p : (Byte(p)' = Byte(p)) /\ (Boundary(p)' = Boundary(p))
  BY <1>2 DEF Size, Byte, Boundary
<1>4. \A k \in 1..n : parts[k] \in [from : 0..Size, to : 0..Size, number : Nat]
  BY <1>1, ElementOfSeq DEF IInv, TypeOK
<1>5. \A k \in 1..n : Number(k, n) \in Nat
  BY DEF Number, Digits
<1>6. \A k \in 1..n :
        /\ parts'[k].from = parts[k].from
        /\ parts'[k].to = parts[k].to
        /\ parts'[k] \in [from : 0..Size, to : 0..Size, number : Nat]
  <2> SUFFICES ASSUME NEW k \in 1..n
               PROVE  /\ parts'[k].from = parts[k].from
                      /\ parts'[k].to = parts[k].to
                      /\ parts'[k] \in [from : 0..Size, to : 0..Size, number : Nat]
    OBVIOUS
  <2>1. parts'[k] = [parts[k] EXCEPT !.number = Number(k, n)]
    BY <1>2
  <2> QED BY <1>4, <1>5, <2>1
<1>7. parts' \in Seq([from : 0..Size, to : 0..Size, number : Nat]) /\ Len(parts') = n
  <2> DEFINE S == [from : 0..Size, to : 0..Size, number : Nat]
  <2>1. parts' = [i \in 1..n |-> parts'[i]] /\ \A i \in 1..n : parts'[i] \in S
    BY <1>2, <1>6
  <2> HIDE DEF S
  <2>2. parts' \in Seq(S) /\ Len(parts') = n
    BY <1>1, <2>1
  <2> QED BY <2>2 DEF S
<1>8. TypeOK'
  BY <1>2, <1>3, <1>7 DEF IInv, TypeOK, WellFormed
<1>9. StartInv'
  <2>1. CASE n = 0
    BY <1>1, <1>2, <1>3, <1>7, <2>1, EmptySeq DEF IInv, TypeOK, StartInv
  <2>2. CASE n # 0
    <3>1. 1 \in 1..n /\ parts # <<>> /\ parts' # <<>>
      BY <1>1, <1>7, <2>2
    <3> QED BY <1>2, <1>3, <1>6, <3>1 DEF IInv, StartInv
  <2> QED BY <2>1, <2>2
<1>10. ASSUME NEW k \in 1..n PROVE PartInv(k)'
  <2>1. PartInv(k) /\ parts'[k].from = parts[k].from /\ parts'[k].to = parts[k].to
    BY <1>1, <1>6 DEF IInv
  <2>2. After(k)' = After(k)
    <3>1. CASE k < n
      <4>1. k + 1 \in 1..n
        BY <3>1
      <4>2. parts'[k + 1].from = parts[k + 1].from
        BY <1>6, <4>1
      <4> QED BY <1>1, <1>7, <3>1, <4>2 DEF After
    <3>2. CASE k = n
      BY <1>1, <1>2, <1>7, <3>2 DEF After
    <3> QED BY <3>1, <3>2
  <2>3. Slice(k)' /\ Joined(k)' /\ Chars(k)' /\ EmptyWhere(k)'
    BY <1>2, <1>3, <2>1, <2>2 DEF PartInv, Slice, Joined, Chars, EmptyWhere
  <2> QED BY <2>3 DEF PartInv
<1> QED BY <1>7, <1>8, <1>9, <1>10 DEF IInv

\* A round of the loop, whatever it cuts at.
LEMMA RoundKeepsInvariant ==
    ASSUME IInv, CutAtLine \/ CutAtSpace \/ CutAtChar \/ Rest
    PROVE  IInv' /\ start' > start
<1>1. PICK to \in Nat, resume \in Nat : GoodCut(to, resume) /\ Cut(to, resume) /\ start < resume
  BY LineGoodCut, SpaceGoodCut, CharGoodCut, RestGoodCut
<1>2. pc = "breaking"
  BY DEF CutAtLine, CutAtSpace, CutAtChar, Rest, MustCut
<1>3. IInv'
  BY <1>1, <1>2, CutKeepsInvariant
<1>4. start' > start
  BY <1>1 DEF Cut, IInv, TypeOK
<1> QED BY <1>3, <1>4

\* Nothing changes once the parts are returned.
LEMMA StutterKeepsInvariant ==
    ASSUME IInv, UNCHANGED vars
    PROVE  IInv'
<1>1. input' = input /\ start' = start /\ parts' = parts /\ pc' = pc
  BY DEF vars
<1>2. TypeOK'
  BY <1>1 DEF IInv, TypeOK, Size, WellFormed
<1>3. StartInv'
  BY <1>1 DEF IInv, StartInv, Boundary, Byte, Size
<1>4. ASSUME NEW k \in 1..Len(parts) PROVE PartInv(k)'
  <2>1. PartInv(k)
    BY DEF IInv
  <2> QED BY <1>1, <2>1 DEF PartInv, Slice, Joined, Chars, EmptyWhere, After, Boundary, Byte, Size
<1> QED BY <1>1, <1>2, <1>3, <1>4 DEF IInv

LEMMA StepKeepsInvariant == IInv /\ [Next]_vars => IInv'
<1> SUFFICES ASSUME IInv, [Next]_vars PROVE IInv'
  OBVIOUS
<1>1. CASE Whole
  BY <1>1, WholeKeepsInvariant
<1>2. CASE TooLong
  BY <1>2, TooLongKeepsInvariant
<1>3. CASE CutAtLine \/ CutAtSpace \/ CutAtChar \/ Rest
  BY <1>3, RoundKeepsInvariant
<1>4. CASE Paginate
  BY <1>4, PaginateKeepsInvariant
<1>5. CASE Returned \/ UNCHANGED vars
  BY <1>5, StutterKeepsInvariant DEF Returned
<1> QED BY <1>1, <1>2, <1>3, <1>4, <1>5 DEF Next

\* Between two rounds BreakMessageAt (language.go) stands between two whole
\* characters, and all parts so far are good ones.
THEOREM Invariance == Spec => []IInv
<1>1. Init => IInv
  BY InitInvariant
<1>2. IInv /\ [Next]_vars => IInv'
  BY StepKeepsInvariant
<1> QED BY <1>1, <1>2, PTL DEF Spec

\* No slice that BreakMessageAt takes reaches beyond the text: none panics.
THEOREM TypeCorrect == Spec => []TypeOK
<1>1. IInv => TypeOK
  BY DEF IInv
<1> QED BY <1>1, Invariance, PTL

-----------------------------------------------------------------------------
(* What BreakMessage promises                                              *)

\* BreakMessage leaves nothing out but single spaces and new lines that it
\* cuts at, and ends only at the end of the text.
THEOREM LosesNothing == Spec => []NothingLost
<1>1. IInv => NothingLost
  BY DEF IInv, StartInv, PartInv, Joined, NothingLost
<1> QED BY <1>1, Invariance, PTL

\* BreakMessageAt never cuts a UTF-8 character in two.
THEOREM CutsNoChar == Spec => []WholeChars
<1>1. IInv => WholeChars
  BY DEF IInv, PartInv, Chars, WholeChars
<1> QED BY <1>1, Invariance, PTL

\* BreakMessageAt makes an empty part only of two adjacent separators.
THEOREM EmptyIsExplained == Spec => []EmptyOnlyBetweenSeparators
<1>1. IInv => EmptyOnlyBetweenSeparators
  BY DEF IInv, PartInv, EmptyWhere, EmptyOnlyBetweenSeparators
<1> QED BY <1>1, Invariance, PTL

\* No line that BreakMessageAt could keep whole is cut, but for those at the end
\* of the text behind which no new line is out of reach.
THEOREM CutsNoLine == Spec => []LinesStayWhole
<1>1. Init => LinesStayWhole
  BY DEF Init, LinesStayWhole
<1>2. IInv /\ LinesStayWhole /\ [Next]_vars => LinesStayWhole'
  <2> SUFFICES ASSUME IInv, LinesStayWhole, [Next]_vars PROVE LinesStayWhole'
    OBVIOUS
  <2>a. input' = input
    <3>1. \A to, resume : Cut(to, resume) => input' = input
      BY DEF Cut
    <3>2. CutAtLine \/ CutAtSpace \/ CutAtChar \/ Rest => input' = input
      BY <3>1 DEF CutAtLine, CutAtSpace, CutAtChar, Rest
    <3>3. Whole \/ TooLong \/ Paginate \/ Returned \/ UNCHANGED vars => input' = input
      BY DEF Whole, TooLong, Paginate, Returned, vars
    <3> QED BY <3>2, <3>3 DEF Next
  <2>0. Size' = Size /\ \A p : Byte(p)' = Byte(p)
    BY <2>a DEF Size, Byte
  <2> SUFFICES ASSUME Size > Limit, ShortLines PROVE LinesStayWhole'
    BY <2>0 DEF LinesStayWhole, ShortLines
  <2>1. CASE Whole
    BY <2>1, BreakAssumption DEF Whole, IInv, TypeOK, WellFormed, Size
  <2>2. CASE TooLong \/ Returned \/ UNCHANGED vars
    BY <2>0, <2>2 DEF TooLong, Returned, vars, LinesStayWhole
  <2>3. CASE Paginate
    <3>1. PICK n \in Nat : n = Len(parts)
      BY DEF IInv, TypeOK
    <3>2. parts' = [i \in 1..n |-> [parts[i] EXCEPT !.number = Number(i, n)]]
      BY <2>3, <3>1 DEF Paginate
    <3>3. Len(parts') = n
      BY <3>2
    <3>4. ASSUME NEW k \in 1..n
          PROVE  parts'[k].from = parts[k].from /\ parts'[k].to = parts[k].to
      <4>1. parts[k] \in [from : 0..Size, to : 0..Size, number : Nat]
        BY <3>1, ElementOfSeq DEF IInv, TypeOK
      <4> QED BY <3>2, <4>1
    <3> QED BY <2>0, <3>1, <3>3, <3>4 DEF LinesStayWhole
  <2>4. CASE CutAtLine \/ CutAtSpace \/ CutAtChar \/ Rest
    <3>1. PICK to \in Nat, resume \in Nat :
            /\ Cut(to, resume)
            /\ \A far \in (start + MaxLength + 1)..(Size - 1) :
                   Byte(far) = "line" => Byte(to) = "line"
      <4>1. Boundary(start) /\ TypeOK
        BY DEF IInv, StartInv
      <4>2. Size \in Nat /\ start \in Nat /\ MaxLength \in Nat
        BY BreakAssumption DEF IInv, TypeOK, WellFormed, Size
      <4>3. CASE CutAtLine
        <5>1. PICK e \in Reach, l \in Reach : LineCut(l, e) /\ Cut(l, l + 1)
          BY <4>3 DEF CutAtLine
        <5>2. Byte(l) = "line" /\ l \in Nat /\ l + 1 \in Nat
          BY <4>2, <5>1 DEF LineCut, LastIndex, Reach
        <5> QED BY <5>1, <5>2
      <4>4. CASE CutAtSpace
        <5>1. PICK e \in Reach, w \in Reach : CharEnd(e) /\ SpaceCut(w, e) /\ Cut(w, w + 1)
          BY <4>4 DEF CutAtSpace
        <5>2. e \in Nat /\ w \in Nat /\ w + 1 \in Nat
          BY <4>2 DEF Reach
        <5>3. \A l \in start..e : ~LineCut(l, e)
          BY <5>1 DEF SpaceCut
        <5>4. \A far \in (start + MaxLength + 1)..(Size - 1) : Byte(far) # "line"
          BY <4>1, <4>4, <5>1, <5>2, <5>3, LineWithinReach DEF CutAtSpace
        <5> QED BY <5>1, <5>2, <5>4
      <4>5. CASE CutAtChar
        <5>1. PICK e \in Reach :
                /\ CharEnd(e)
                /\ \A p \in start..e : ~LineCut(p, e) /\ ~SpaceCut(p, e)
                /\ Cut(e, e)
          BY <4>5 DEF CutAtChar
        <5>2. e \in Nat
          BY <4>2 DEF Reach
        <5>3. \A far \in (start + MaxLength + 1)..(Size - 1) : Byte(far) # "line"
          BY <4>1, <4>5, <5>1, <5>2, LineWithinReach DEF CutAtChar
        <5> QED BY <5>1, <5>2, <5>3
      <4>6. CASE Rest
        <5>1. Cut(Size, Size)
          BY <4>6 DEF Rest
        <5>2. \A far \in (start + MaxLength + 1)..(Size - 1) : FALSE
          BY <4>2, <4>6 DEF Rest
        <5> QED BY <4>2, <5>1, <5>2
      <4> QED BY <2>4, <4>3, <4>4, <4>5, <4>6
    <3>2. PICK n \in Nat : n = Len(parts)
      BY DEF IInv, TypeOK
    <3>3. /\ Len(parts') = n + 1 /\ parts'[n + 1] = Part(to)
          /\ \A k \in 1..n : parts'[k] = parts[k]
      BY <3>1, <3>2 DEF Cut, IInv, TypeOK
    <3>4. ASSUME NEW k \in 1..(n + 1),
                 NEW p \in (parts'[k].from + MaxLength + 1)..(Size - 1), Byte(p) = "line"
          PROVE  Byte(parts'[k].to) = "line"
      <4>1. CASE k \in 1..n
        BY <3>2, <3>3, <3>4, <4>1 DEF LinesStayWhole
      <4>2. CASE k = n + 1
        BY <3>1, <3>3, <3>4, <4>2 DEF Part
      <4> QED BY <4>1, <4>2
    <3> QED BY <2>0, <3>3, <3>4 DEF LinesStayWhole
  <2> QED BY <2>1, <2>2, <2>3, <2>4 DEF Next
<1> QED BY <1>1, <1>2, Invariance, PTL DEF Spec

\* Every round of the loop of BreakMessageAt gets further in the text.
THEOREM LoopAdvances == Spec => EveryRoundAdvances
<1>1. IInv /\ [Next]_vars => [pc = "breaking" /\ pc' = "breaking" => start' > start]_vars
  <2> SUFFICES ASSUME IInv, [Next]_vars, pc = "breaking", pc' = "breaking", vars' # vars
               PROVE  start' > start
    BY DEF vars
  <2>1. CutAtLine \/ CutAtSpace \/ CutAtChar \/ Rest
    BY DEF Next, Whole, TooLong, Paginate, Returned
  <2> QED BY <2>1, RoundKeepsInvariant
<1> QED BY <1>1, Invariance, PTL DEF Spec, EveryRoundAdvances

\* A number takes no more than the six bytes of " [1/2]": the total is left
\* out from ten parts on, and a thousand parts are a panic.
LEMMA NumberFits ==
    ASSUME NEW n \in Nat, n < MaxMessages, NEW i \in 1..n
    PROVE  Number(i, n) \in Nat /\ Number(i, n) <= 6
BY BreakAssumption DEF Number, Digits

\* With room for six more bytes, every message of BreakMessage fits.
THEOREM AllFit ==
    ASSUME MaxLength + 6 <= Limit
    PROVE  Spec => []MessagesFit
<1> USE BreakAssumption
<1>1. Init => MessagesFit
  BY DEF Init, MessagesFit
<1>2. IInv /\ MessagesFit /\ [Next]_vars => MessagesFit'
  <2> SUFFICES ASSUME IInv, MessagesFit, [Next]_vars, pc' = "done"
               PROVE  MessagesFit'
    BY DEF MessagesFit
  <2>1. CASE Whole
    <3>1. parts' = <<[from |-> 0, to |-> Size, number |-> 0]>> /\ Size <= Limit /\ Size \in Nat
      BY <2>1 DEF Whole, Part, IInv, StartInv, TypeOK, WellFormed, Size
    <3>2. Len(parts') = 1 /\ parts'[1] = [from |-> 0, to |-> Size, number |-> 0]
      BY <3>1
    <3>3. \A k \in 1..1 : k = 1
      OBVIOUS
    <3> QED BY <3>1, <3>2, <3>3 DEF MessagesFit
  <2>2. CASE Paginate
    <3>1. PICK n \in Nat : n = Len(parts)
      BY DEF IInv, TypeOK
    <3>2. /\ parts' = [i \in 1..n |-> [parts[i] EXCEPT !.number = Number(i, n)]]
          /\ n < MaxMessages /\ pc = "breaking"
      BY <2>2, <3>1 DEF Paginate
    <3>3. Len(parts') = n
      BY <3>2
    <3>4. ASSUME NEW k \in 1..n
          PROVE  /\ 0 <= parts'[k].to - parts'[k].from
                 /\ parts'[k].to - parts'[k].from + parts'[k].number <= Limit
      <4>0. Size \in Nat
        BY DEF IInv, TypeOK, WellFormed, Size
      <4>1. parts[k] \in [from : 0..Size, to : 0..Size, number : Nat]
        BY <3>1, ElementOfSeq DEF IInv, TypeOK
      <4>2. Slice(k)
        BY <3>1 DEF IInv, PartInv
      <4>3. parts'[k].from = parts[k].from /\ parts'[k].to = parts[k].to
            /\ parts'[k].number = Number(k, n)
        BY <3>2, <4>1
      <4>4. Number(k, n) \in Nat /\ Number(k, n) <= 6
        BY <3>2, NumberFits
      <4> QED BY <3>2, <4>0, <4>1, <4>2, <4>3, <4>4, SMTT(30) DEF Slice
    <3> QED BY <3>3, <3>4 DEF MessagesFit
  <2>3. CASE TooLong \/ CutAtLine \/ CutAtSpace \/ CutAtChar \/ Rest
    BY <2>3 DEF TooLong, CutAtLine, CutAtSpace, CutAtChar, Rest, MustCut, Cut
  <2>4. CASE Returned \/ UNCHANGED vars
    BY <2>4 DEF Returned, vars, MessagesFit
  <2> QED BY <2>1, <2>2, <2>3, <2>4 DEF Next
<1> QED BY <1>1, <1>2, Invariance, PTL DEF Spec
=============================================================================
