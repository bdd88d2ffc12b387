-------------------------- MODULE ConnectionProofs --------------------------
(***************************************************************************)
(* Proofs about Connection, for any number of streams.                     *)
(***************************************************************************)
EXTENDS Connection, FiniteSetTheorems, TLAPS

USE ConnectionAssumption

-----------------------------------------------------------------------------
(* Type correctness                                                        *)

LEMMA NumbersAre ==
    /\ Streams \subseteq Copies /\ Main \in Copies
    /\ None \notin Streams
    /\ \A s \in Streams : s \in Nat /\ s >= 1 /\ s - 1 \in Copies
    /\ \A h \in Copies : h \in Nat
  BY DEF Streams, Copies, Main, None

LEMMA TypeInit == Init => TypeOK
<1> SUFFICES ASSUME Init PROVE TypeOK
  OBVIOUS
<1>1. cpc \in [Copies -> Connecting \union {"none", "done", "fatal"}]
  BY DEF Init, Connecting
<1>2. \A h \in Copies : ~At(h, "wake") /\ ~At(h, "config")
  BY DEF Init, At
<1>3. up \in [Copies -> BOOLEAN] /\ calm \in BOOLEAN /\ running \in BOOLEAN /\ aired \in BOOLEAN
  BY DEF Init
<1> QED BY <1>1, <1>2, <1>3, NumbersAre DEF Init, TypeOK

LEMMA TypeConnect ==
    ASSUME TypeOK, NEW h \in Copies, ConnectStep(h)
    PROVE  TypeOK'
<1> USE NumbersAre DEF TypeOK, At, Goto, Failed, Connecting, announceVars
<1>1. CASE Test(h)
  BY <1>1 DEF Test
<1>2. CASE Acquire(h)
  BY <1>2 DEF Acquire
<1>3. CASE AcquireFails(h)
  BY <1>3 DEF AcquireFails
<1>4. CASE Wake(h)
  BY <1>4 DEF Wake
<1>5. CASE Configure(h)
  BY <1>5 DEF Configure
<1>6. CASE WriteFails(h)
  BY <1>6 DEF WriteFails
<1>7. CASE Backoff(h)
  BY <1>7 DEF Backoff
<1> QED BY <1>1, <1>2, <1>3, <1>4, <1>5, <1>6, <1>7 DEF ConnectStep

LEMMA TypeReader ==
    ASSUME TypeOK, NEW s \in Streams, ReaderStep(s)
    PROVE  TypeOK'
<1> USE NumbersAre DEF TypeOK, At, Goto, Connecting, announceVars
<1>1. CASE ConfigComplete(s)
  BY <1>1 DEF ConfigComplete
<1>2. CASE ReadEof(s)
  BY <1>2 DEF ReadEof
<1>3. CASE Publish(s)
  BY <1>3 DEF Publish
<1>4. CASE CloseStream(s)
  BY <1>4 DEF CloseStream
<1> QED BY <1>1, <1>2, <1>3, <1>4 DEF ReaderStep

LEMMA TypeOthers ==
    ASSUME TypeOK, NEW s \in Streams,
           AnnounceStep(s) \/ Ends(s, "eof") \/ Ends(s, "broken")
    PROVE  TypeOK'
<1> USE NumbersAre DEF TypeOK, At, linkVars, announceVars
<1>1. CASE CheckRunning(s)
  BY <1>1 DEF CheckRunning
<1>2. CASE StartAnnouncers(s)
  BY <1>2 DEF StartAnnouncers
<1>3. CASE Announce(s)
  BY <1>3 DEF Announce
<1>4. CASE Ends(s, "eof") \/ Ends(s, "broken")
  BY <1>4 DEF Ends
<1> QED BY <1>1, <1>2, <1>3, <1>4 DEF AnnounceStep

LEMMA TypeNext == TypeOK /\ [Next]_vars => TypeOK'
<1> SUFFICES ASSUME TypeOK, [Next]_vars PROVE TypeOK'
  OBVIOUS
<1>1. CASE UNCHANGED vars
  BY <1>1 DEF vars, linkVars, announceVars, TypeOK, At
<1>2. CASE Next
  BY <1>2, TypeConnect, TypeReader, TypeOthers DEF Next, Running
<1> QED BY <1>1, <1>2

\* Every variable keeps its type; a node that is written to has a stream
\* (Connect).
THEOREM TypeCorrect == Spec => []TypeOK
  BY TypeInit, TypeNext, PTL DEF Spec

-----------------------------------------------------------------------------
(* While all is calm, streams and copies form a chain                      *)

\* A stream before the latest: its reader is through with it.
Over(s) ==
    /\ reader[s] \in {"close", "gone"}
    /\ status[s] \in {"eof", "closed"}
    /\ cpc[s - 1] = "done"

\* The latest stream: Connect works on it, or its reader reads it, or it has
\* ended and the copy that was published connects.
Settling(n) ==
    cpc[n - 1] \in {"wake", "config"} /\ reader[n] = "reading" /\ status[n] = "open" /\ cpc[n] = "none"

Settled(n) ==
    /\ cpc[n - 1] = "done" /\ cpc[n] = "none"
    /\ \/ reader[n] = "reading" /\ status[n] \in {"open", "eof"}
       \/ reader[n] = "publish" /\ status[n] = "eof" /\ ~up[n - 1]

Replacing(n) == Over(n) /\ cpc[n] \in {"test", "acquire", "backoff"} /\ ~up[n]

\* n streams were opened, each by the copy that the one before it left behind.
Chain(n) ==
    /\ \A s \in Streams : s > n => status[s] = "unused" /\ reader[s] = "none"
    /\ \A s \in Streams : s <= n => status[s] # "unused" /\ copy[s] = s - 1 /\ stream[s - 1] = s
    /\ \A s \in Streams : s < n => Over(s)
    /\ \A h \in Copies : h > n => cpc[h] = "none"
    /\ n = 0 => cpc[Main] \in {"acquire", "fatal"}
    /\ n > 0 => Settling(n) \/ Settled(n) \/ Replacing(n)
    /\ n > 0 => \A h \in Copies : h < n - 1 => cpc[h] = "done"

CalmInv == calm => \E n \in Copies : Chain(n)

IInv == TypeOK /\ CalmInv

LEMMA CopiesAre == \A n : n \in Copies <=> n \in Nat /\ n <= MaxStreams
  BY DEF Copies

LEMMA StreamsAre == \A n : n \in Streams <=> n \in Nat /\ 1 <= n /\ n <= MaxStreams
  BY DEF Streams

LEMMA ChainInit == Init => CalmInv
<1> SUFFICES ASSUME Init PROVE Chain(0)
  BY CopiesAre DEF CalmInv
<1> QED BY StreamsAre, CopiesAre DEF Init, Chain, Main

LEMMA ChainOpened ==
    ASSUME NEW n \in Copies, Chain(n)
    PROVE  Opened = n
<1>1. {s \in Streams : status[s] # "unused"} = 1..n
  BY StreamsAre, CopiesAre DEF Chain
<1>2. Cardinality(1..n) = n
  BY CopiesAre, FS_Interval
<1> QED BY <1>1, <1>2 DEF Opened

\* Only the latest copies are active.
LEMMA WhoConnects ==
    ASSUME TypeOK, NEW n \in Copies, Chain(n), NEW h \in Copies,
           cpc[h] \notin {"none", "done", "fatal"}
    PROVE  \/ n = 0 /\ h = 0 /\ cpc[h] = "acquire"
           \/ n > 0 /\ h = n - 1 /\ Settling(n)
           \/ n > 0 /\ h = n /\ Replacing(n)
  BY CopiesAre, StreamsAre DEF Chain, Settling, Settled, Replacing, Over, Main

LEMMA WhoReads ==
    ASSUME TypeOK, NEW n \in Copies, Chain(n), NEW s \in Streams,
           reader[s] \in {"reading", "publish"} \/ status[s] = "open"
    PROVE  s = n /\ n > 0 /\ (Settling(n) \/ Settled(n)) /\ copy[s] = n - 1 /\ stream[n - 1] = n
  BY CopiesAre, StreamsAre DEF Chain, Settling, Settled, Replacing, Over, Main

LEMMA ChainConnect ==
    ASSUME TypeOK, NEW n \in Copies, Chain(n), NEW h \in Copies, ConnectStep(h), ~Exited, calm'
    PROVE  \E m \in Copies : Chain(m)'
<1> USE DEF At, Goto, Failed, announceVars, Main
<1>0. cpc[h] \notin {"none", "done", "fatal"}
  BY DEF ConnectStep, Test, Acquire, AcquireFails, Wake, Configure, WriteFails, Backoff
<1>1. \/ n = 0 /\ h = 0 /\ cpc[h] = "acquire"
      \/ n > 0 /\ h = n - 1 /\ Settling(n)
      \/ n > 0 /\ h = n /\ Replacing(n)
  BY <1>0, WhoConnects
<1>2. cpc \in [Copies -> Connecting \union {"none", "done", "fatal"}]
  BY DEF TypeOK
<1>3. CASE Test(h)
  <2>1. n > 0 /\ h = n /\ Replacing(n) /\ ~up[n]
    BY <1>1, <1>3 DEF Test, Settling, Replacing
  <2>2. cpc' = [cpc EXCEPT ![h] = "acquire"] /\ UNCHANGED <<status, stream, up, reader, copy>>
    BY <1>3, <2>1 DEF Test
  <2> QED BY <1>2, <2>1, <2>2, CopiesAre, StreamsAre DEF Chain, Replacing, Over, Settling, Settled
<1>4. CASE Backoff(h)
  <2>1. n > 0 /\ h = n /\ Replacing(n)
    BY <1>1, <1>4 DEF Backoff, Settling
  <2>2. cpc' = [cpc EXCEPT ![h] = "test"] /\ UNCHANGED <<status, stream, up, reader, copy>>
    BY <1>4 DEF Backoff
  <2> QED BY <1>2, <2>1, <2>2, CopiesAre, StreamsAre DEF Chain, Replacing, Over, Settling, Settled
<1>5. CASE AcquireFails(h)
  <2>1. \/ n = 0 /\ h = 0 /\ cpc' = [cpc EXCEPT ![h] = "fatal"]
        \/ n > 0 /\ h = n /\ Replacing(n) /\ cpc' = [cpc EXCEPT ![h] = "backoff"]
    BY <1>1, <1>5, CopiesAre DEF AcquireFails, Settling
  <2>2. UNCHANGED <<status, stream, up, reader, copy>>
    BY <1>5 DEF AcquireFails
  <2> QED BY <1>2, <2>1, <2>2, CopiesAre, StreamsAre DEF Chain, Replacing, Over, Settling, Settled
<1>6. CASE Wake(h) \/ Configure(h)
  <2>1. n > 0 /\ h = n - 1 /\ Settling(n)
    BY <1>1, <1>6 DEF Wake, Configure, Replacing
  <2>2. /\ cpc' = [cpc EXCEPT ![h] = "config"] \/ cpc' = [cpc EXCEPT ![h] = "done"]
        /\ UNCHANGED <<status, stream, up, reader, copy>>
    BY <1>6 DEF Wake, Configure
  <2> QED BY <1>2, <2>1, <2>2, CopiesAre, StreamsAre DEF Chain, Replacing, Over, Settling, Settled
<1>7. CASE Acquire(h)
  <2>1. PICK s \in Streams :
          /\ s = Opened + 1
          /\ status' = [status EXCEPT ![s] = "open"]
          /\ stream' = [stream EXCEPT ![h] = s]
          /\ reader' = [reader EXCEPT ![s] = "reading"]
          /\ copy' = [copy EXCEPT ![s] = h]
    BY <1>7 DEF Acquire
  <2>2. s = n + 1 /\ h = n /\ cpc' = [cpc EXCEPT ![h] = "wake"]
    BY <1>1, <1>7, <2>1, ChainOpened DEF Acquire, Settling
  <2>3. Chain(n + 1)'
    <3>1. \A r \in Streams : r > n + 1 => status'[r] = "unused" /\ reader'[r] = "none"
      BY <2>1, <2>2, CopiesAre, StreamsAre DEF Chain, TypeOK
    <3>2. \A r \in Streams : r <= n + 1 => status'[r] # "unused" /\ copy'[r] = r - 1 /\ stream'[r - 1] = r
      BY <2>1, <2>2, CopiesAre, StreamsAre DEF Chain, TypeOK
    <3>3. \A r \in Streams : r < n + 1 => Over(r)'
      <4> SUFFICES ASSUME NEW r \in Streams, r < n + 1 PROVE Over(r)'
        OBVIOUS
      <4>1. Over(r)
        BY <1>1, <2>2, CopiesAre, StreamsAre DEF Chain, Replacing, Settling
      <4>2. r - 1 # h /\ r # s /\ r - 1 \in Copies
        BY <2>2, CopiesAre, StreamsAre
      <4> QED BY <1>2, <2>1, <2>2, <4>1, <4>2 DEF Over, TypeOK
    <3>4. \A g \in Copies : g > n + 1 => cpc'[g] = "none"
      BY <1>2, <2>2, CopiesAre DEF Chain
    <3>5. Settling(n + 1)'
      <4>1. cpc[n + 1] = "none" /\ n + 1 \in Copies /\ n + 1 \in Streams
        BY <2>2, CopiesAre, StreamsAre DEF Chain
      <4>2. (n + 1) - 1 = n /\ n # n + 1
        BY CopiesAre
      <4>3. cpc'[n] = "wake" /\ cpc'[n + 1] = "none"
        BY <1>2, <2>2, <4>1, <4>2
      <4>4. reader'[n + 1] = "reading" /\ status'[n + 1] = "open"
        BY <2>1, <2>2, <4>1 DEF TypeOK
      <4> QED BY <4>2, <4>3, <4>4 DEF Settling
    <3>6. \A g \in Copies : g < (n + 1) - 1 => cpc'[g] = "done"
      <4> SUFFICES ASSUME NEW g \in Copies, g < n PROVE cpc'[g] = "done"
        BY CopiesAre
      <4>1. cpc[g] = "done"
        BY <1>1, <2>2, CopiesAre DEF Chain, Replacing, Over, Settling
      <4> QED BY <1>2, <2>2, <4>1, CopiesAre
    <3> QED BY <3>1, <3>2, <3>3, <3>4, <3>5, <3>6, CopiesAre DEF Chain
  <2> QED BY <2>2, <2>3, CopiesAre, StreamsAre
<1>8. ~WriteFails(h)
  BY DEF WriteFails
<1> QED BY <1>3, <1>4, <1>5, <1>6, <1>7, <1>8 DEF ConnectStep

LEMMA ChainReader ==
    ASSUME TypeOK, NEW n \in Copies, Chain(n), NEW s \in Streams, ReaderStep(s)
    PROVE  Chain(n)'
<1> USE DEF announceVars
<1>1. CASE ConfigComplete(s)
  <2>1. s = n /\ n > 0 /\ copy[s] = n - 1 /\ reader[n] = "reading"
    BY <1>1, WhoReads DEF ConfigComplete
  <2>2. UNCHANGED <<status, stream, cpc, reader, copy>> /\ up' = [up EXCEPT ![n - 1] = TRUE]
    BY <1>1, <2>1 DEF ConfigComplete
  <2>3. ~Replacing(n)
    BY <2>1 DEF Replacing, Over
  <2> QED BY <2>1, <2>2, <2>3, CopiesAre, StreamsAre DEF Chain, Over, Settling, Settled
<1>2. CASE ReadEof(s)
  <2>1. s = n /\ n > 0 /\ copy[s] = n - 1 /\ Settled(n) /\ reader[n] = "reading" /\ status[n] = "eof"
    BY <1>2, WhoReads DEF ReadEof, Settling
  <2>2. /\ UNCHANGED <<status, stream, cpc, copy>> /\ up' = [up EXCEPT ![n - 1] = FALSE]
        /\ reader' = [reader EXCEPT ![n] = "publish"]
    BY <1>2, <2>1 DEF ReadEof
  <2>3. Settled(n)'
    BY <2>1, <2>2, NumbersAre DEF Settled, TypeOK
  <2>4. \A r \in Streams : r < n => Over(r)'
    BY <2>2, CopiesAre, StreamsAre DEF Chain, Over, TypeOK
  <2>5. \A r \in Streams : r > n => reader'[r] = "none"
    BY <2>2, CopiesAre, StreamsAre DEF Chain, TypeOK
  <2> QED BY <2>1, <2>2, <2>3, <2>4, <2>5 DEF Chain
<1>3. CASE Publish(s)
  <2>1. s = n /\ n > 0 /\ copy[s] = n - 1 /\ stream[n - 1] = n /\ Settled(n) /\ reader[n] = "publish"
    BY <1>3, WhoReads DEF Publish, Settling
  <2>2. /\ UNCHANGED <<status, copy>>
        /\ reader' = [reader EXCEPT ![n] = "close"]
        /\ stream' = [stream EXCEPT ![n] = n]
        /\ up' = [up EXCEPT ![n] = up[n - 1]]
        /\ cpc' = [cpc EXCEPT ![n] = "test"]
    BY <1>3, <2>1 DEF Publish, Goto
  <2>3. ~up[n - 1] /\ status[n] = "eof" /\ cpc[n - 1] = "done"
    BY <2>1 DEF Settled
  <2>4. Replacing(n)'
    BY <2>1, <2>2, <2>3, CopiesAre, StreamsAre DEF Replacing, Over, TypeOK
  <2>5. \A r \in Streams : r < n => Over(r)'
    BY <2>2, CopiesAre, StreamsAre DEF Chain, Over, TypeOK
  <2>6. \A r \in Streams : r > n => reader'[r] = "none"
    BY <2>2, CopiesAre, StreamsAre DEF Chain, TypeOK
  <2>7. \A r \in Streams : r <= n => stream'[r - 1] = r
    BY <2>2, CopiesAre, StreamsAre DEF Chain, TypeOK
  <2>8. \A h \in Copies : (h > n => cpc'[h] = "none") /\ (h < n - 1 => cpc'[h] = "done")
    BY <2>1, <2>2, CopiesAre DEF Chain, TypeOK
  <2> QED BY <2>1, <2>2, <2>4, <2>5, <2>6, <2>7, <2>8 DEF Chain
<1>4. CASE CloseStream(s)
  <2>1. s <= n /\ reader[s] = "close" /\ stream[copy[s]] = s /\ status[s] \in {"eof", "closed"}
    BY <1>4, CopiesAre, StreamsAre DEF CloseStream, Chain, Settling, Settled, Replacing, Over
  <2>2. /\ UNCHANGED <<stream, up, cpc, copy>>
        /\ reader' = [reader EXCEPT ![s] = "gone"]
        /\ status' = [status EXCEPT ![s] = "closed"]
    BY <1>4, <2>1 DEF CloseStream
  <2>3. \A r \in Streams : Over(r) => Over(r)'
    BY <2>2 DEF Over, TypeOK
  <2>4. \A r \in Streams : r > n => status'[r] = "unused" /\ reader'[r] = "none"
    BY <2>1, <2>2, CopiesAre, StreamsAre DEF Chain, TypeOK
  <2>5. \A r \in Streams : r <= n => status'[r] # "unused"
    BY <2>2 DEF Chain, TypeOK
  <2>6. n \in Streams => (Settling(n) => Settling(n)') /\ (Settled(n) => Settled(n)') /\ (Replacing(n) => Replacing(n)')
    BY <2>1, <2>2, <2>3 DEF Settling, Settled, Replacing, TypeOK
  <2>7. n > 0 => n \in Streams
    BY CopiesAre, StreamsAre
  <2> QED BY <2>2, <2>3, <2>4, <2>5, <2>6, <2>7 DEF Chain
<1> QED BY <1>1, <1>2, <1>3, <1>4 DEF ReaderStep

LEMMA ChainEnds ==
    ASSUME TypeOK, NEW n \in Copies, Chain(n), NEW s \in Streams, NEW how \in {"eof", "broken"},
           Ends(s, how), calm'
    PROVE  Chain(n)'
<1>1. how = "eof" /\ cpc[copy[s]] = "done" /\ status[s] = "open"
  BY DEF Ends
<1>2. UNCHANGED <<stream, up, cpc, reader, copy>> /\ status' = [status EXCEPT ![s] = "eof"]
  BY <1>1 DEF Ends
<1>3. s = n /\ n > 0 /\ copy[s] = n - 1
  BY <1>1, WhoReads
<1>4. Settled(n) /\ reader[n] = "reading"
  BY <1>1, <1>3, WhoReads DEF Settling, Settled
<1>5. Settled(n)'
  BY <1>2, <1>3, <1>4 DEF Settled, TypeOK
<1>6. \A r \in Streams : r < n => Over(r)'
  BY <1>2, <1>3, CopiesAre, StreamsAre DEF Chain, Over, TypeOK
<1>7. \A r \in Streams : (r > n => status'[r] = "unused") /\ (r <= n => status'[r] # "unused")
  BY <1>2, <1>3, CopiesAre, StreamsAre DEF Chain, TypeOK
<1> QED BY <1>2, <1>3, <1>5, <1>6, <1>7 DEF Chain

LEMMA ChainKeeps ==
    ASSUME NEW n \in Copies, Chain(n), UNCHANGED <<status, stream, up, cpc, reader, copy>>
    PROVE  Chain(n)'
  BY DEF Chain, Settling, Settled, Replacing, Over

LEMMA ChainNext == IInv /\ [Next]_vars => IInv'
<1> SUFFICES ASSUME IInv, [Next]_vars PROVE IInv'
  OBVIOUS
<1>1. TypeOK'
  BY TypeNext DEF IInv
<1>2. CalmInv'
  <2> SUFFICES ASSUME calm' PROVE \E m \in Copies : Chain(m)'
    BY DEF CalmInv
  <2>1. calm
    <3>1. CASE UNCHANGED vars
      BY <3>1 DEF vars, linkVars
    <3>2. CASE Next
      BY <3>2 DEF Next, Running, ConnectStep, Test, Acquire, AcquireFails, Wake, Configure, WriteFails,
                  Backoff, ReaderStep, ConfigComplete, ReadEof, Publish, CloseStream,
                  AnnounceStep, CheckRunning, StartAnnouncers, Announce, Ends, linkVars
    <3> QED BY <3>1, <3>2
  <2>2. PICK n \in Copies : Chain(n)
    BY <2>1 DEF IInv, CalmInv
  <2>3. CASE UNCHANGED vars \/ \E s \in Streams : AnnounceStep(s)
    <3>1. UNCHANGED <<status, stream, up, cpc, reader, copy>>
      BY <2>3 DEF vars, linkVars, AnnounceStep, CheckRunning, StartAnnouncers, Announce
    <3> QED BY <2>2, <3>1, ChainKeeps
  <2>4. CASE \E h \in Copies : Running(ConnectStep(h))
    BY <2>2, <2>4, ChainConnect DEF Running, IInv
  <2>5. CASE \E s \in Streams : ReaderStep(s)
    BY <2>2, <2>5, ChainReader DEF IInv
  <2>6. CASE \E s \in Streams, how \in {"eof", "broken"} : Ends(s, how)
    BY <2>2, <2>6, ChainEnds DEF IInv
  <2> QED BY <2>3, <2>4, <2>5, <2>6 DEF Next, Running
<1> QED BY <1>1, <1>2 DEF IInv

\* The inductive invariant: while all is calm the streams, the copies that
\* opened them and their readers form a chain, of which only the end is active.
THEOREM Invariance == Spec => []IInv
<1>1. Init => IInv
  BY TypeInit, ChainInit DEF IInv
<1> QED BY <1>1, ChainNext, PTL DEF Spec

\* While all is calm the bot reads one stream at most: as long as no Connect has
\* failed with its stream open, no stream has broken, and none has ended under
\* Connect.  Connect may have failed to open one any number of times.  Without
\* the condition this is false, because Connect keeps its stream when it fails
\* later on (Connect, Close).
THEOREM OneLinkWhileCalm == Spec => []OneLink
<1>1. IInv => OneLink
  <2> SUFFICES ASSUME IInv, calm PROVE Cardinality({s \in Streams : Live(s)}) <= 1
    BY DEF OneLink
  <2>1. PICK n \in Copies : Chain(n)
    BY DEF IInv, CalmInv
  <2> DEFINE live == {s \in Streams : Live(s)}
  <2>2. live = {} \/ live = {n}
    BY <2>1, WhoReads DEF IInv, Live
  <2>3. Cardinality({}) = 0 /\ Cardinality({n}) = 1
    BY FS_EmptySet, FS_Singleton
  <2> QED BY <2>2, <2>3
<1> QED BY <1>1, Invariance, PTL

Connects == {k \in Copies : cpc[k] \in Connecting}
Reads == {r \in Streams : reader[r] \in {"reading", "publish"} /\ cpc[copy[r]] = "done"}

LEMMA CountInCharge ==
    ASSUME NEW x, (Connects = {x} /\ Reads = {}) \/ (Connects = {} /\ Reads = {x})
    PROVE  Cardinality(InCharge) = 1
<1>1. InCharge = {<<"connects", h>> : h \in Connects} \union {<<"reads", s>> : s \in Reads}
  BY DEF InCharge, Connects, Reads
<1>2. InCharge = {<<"connects", x>>} \/ InCharge = {<<"reads", x>>}
  BY <1>1
<1> QED BY <1>2, FS_Singleton

\* While all is calm, in the same sense, and main has not ended the process,
\* exactly one goroutine is responsible for the connection: the one that
\* connects or the reader.  Without the condition there may be two, or none
\* (disconnected, readMessages).
THEOREM OneInChargeWhileCalm == Spec => []OneInCharge
<1>1. IInv => OneInCharge
  <2> SUFFICES ASSUME IInv, calm, ~Exited PROVE Cardinality(InCharge) = 1
    BY DEF OneInCharge
  <2>1. PICK n \in Copies : Chain(n)
    BY DEF IInv, CalmInv
  <2>3. CASE n = 0
    <3>1. cpc[0] = "acquire"
      BY <2>1, <2>3 DEF Chain, Exited, At, Main
    <3>2. Connects = {0} /\ Reads = {}
      BY <2>1, <2>3, <3>1, WhoConnects, WhoReads, CopiesAre DEF IInv, Connecting, Main, Connects, Reads
    <3> QED BY <3>2, CountInCharge
  <2>4. CASE n > 0 /\ Settling(n)
    <3>1. ~Settled(n) /\ ~Replacing(n) /\ n - 1 \in Copies
      BY <2>4, CopiesAre DEF Settling, Settled, Replacing, Over
    <3>2. Connects = {n - 1}
      BY <2>1, <2>4, <3>1, WhoConnects, CopiesAre DEF IInv, Connecting, Settling, Connects
    <3>3. Reads = {}
      BY <2>1, <2>4, WhoReads DEF IInv, Settling, Reads
    <3> QED BY <3>2, <3>3, CountInCharge
  <2>5. CASE n > 0 /\ Settled(n)
    <3>1. ~Settling(n) /\ ~Replacing(n) /\ n \in Streams
      BY <2>5, CopiesAre, StreamsAre DEF Settling, Settled, Replacing, Over
    <3>2. Connects = {}
      BY <2>1, <2>5, <3>1, WhoConnects, CopiesAre DEF IInv, Connecting, Connects
    <3>3. copy[n] = n - 1
      BY <2>1, <3>1, CopiesAre DEF Chain
    <3>4. Reads = {n}
      BY <2>1, <2>5, <3>1, <3>3, WhoReads DEF IInv, Settled, Reads
    <3> QED BY <3>2, <3>4, CountInCharge
  <2>6. CASE n > 0 /\ Replacing(n)
    <3>1. ~Settling(n) /\ ~Settled(n)
      BY <2>6 DEF Settling, Settled, Replacing, Over
    <3>2. Connects = {n}
      BY <2>1, <2>6, <3>1, WhoConnects, CopiesAre DEF IInv, Connecting, Replacing, Connects
    <3>3. Reads = {}
      BY <2>1, <3>1, WhoReads DEF IInv, Reads
    <3> QED BY <3>2, <3>3, CountInCharge
  <2> QED BY <2>1, <2>3, <2>4, <2>5, <2>6, CopiesAre DEF Chain
<1> QED BY <1>1, Invariance, PTL

-----------------------------------------------------------------------------
(* Refinement: Connection implements Link                                   *)

\* What the bot does about the connection, read off its goroutines.
Phase ==
    IF Exited THEN "over"
    ELSE IF \E h \in Copies : cpc[h] \in {"test", "acquire", "backoff"} THEN "seeking"
    ELSE IF \E h \in Copies : cpc[h] \in {"wake", "config"} THEN "settling"
    ELSE IF \E s \in Streams : Live(s) THEN "held"
    ELSE "lost"

Contract == INSTANCE Link WITH phase <- Phase, opened <- Opened

\* A connection is a Link for as long as Connect is not disturbed and streams
\* end by EOF.
ImplementsLink == Contract!Init /\ [][calm' => Contract!Next]_(Contract!vars)

\* The phase, where the chain has n streams.
PhaseOf(n) ==
    IF n = 0 THEN IF cpc[Main] = "fatal" THEN "over" ELSE "seeking"
    ELSE IF cpc[n - 1] # "done" THEN "settling"
    ELSE IF cpc[n] # "none" THEN "seeking"
    ELSE IF status[n] = "open" THEN "held"
    ELSE "lost"

PhaseInv == \A n \in Copies : Chain(n) => Phase = PhaseOf(n) /\ Opened = n

LEMMA PhaseIs == TypeOK => PhaseInv
<1> SUFFICES ASSUME TypeOK, NEW n \in Copies, Chain(n)
             PROVE  Phase = PhaseOf(n) /\ Opened = n
  BY DEF PhaseInv
<1>1. Opened = n
  BY ChainOpened
<1>2. CASE n = 0
  <2>1. \A h \in Copies : h # 0 => cpc[h] = "none"
    BY <1>2, CopiesAre DEF Chain
  <2>2. cpc[Main] \in {"acquire", "fatal"} /\ Main \in Copies /\ Main = 0
    BY <1>2, NumbersAre DEF Chain, Main
  <2> QED BY <1>1, <1>2, <2>1, <2>2 DEF Phase, PhaseOf, Exited, At
<1>3. CASE n > 0 /\ Settling(n)
  <2>1. /\ \A h \in Copies : cpc[h] \in {"none", "done", "wake", "config"}
        /\ n - 1 \in Copies /\ cpc[n - 1] \in {"wake", "config"}
    BY <1>3, CopiesAre DEF Chain, Settling
  <2> QED BY <1>1, <1>3, <2>1, NumbersAre DEF Phase, PhaseOf, Exited, At
<1>4. CASE n > 0 /\ Settled(n)
  <2>1. /\ \A h \in Copies : cpc[h] \in {"none", "done"}
        /\ n \in Streams /\ cpc[n - 1] = "done" /\ cpc[n] = "none"
    BY <1>4, CopiesAre, StreamsAre DEF Chain, Settled
  <2>2. (\E s \in Streams : Live(s)) <=> status[n] = "open"
    <3>1. \A s \in Streams : Live(s) => s = n
      BY WhoReads DEF Live
    <3>2. status[n] = "open" => reader[n] = "reading"
      BY <1>4 DEF Settled
    <3> QED BY <2>1, <3>1, <3>2 DEF Live
  <2> QED BY <1>1, <1>4, <2>1, <2>2, NumbersAre DEF Phase, PhaseOf, Exited, At
<1>5. CASE n > 0 /\ Replacing(n)
  <2>1. /\ cpc[n - 1] = "done" /\ cpc[n] \in {"test", "acquire", "backoff"}
        /\ n # Main
    BY <1>5 DEF Replacing, Over, Main
  <2>2. cpc[Main] # "fatal"
    BY <1>5, <2>1, CopiesAre DEF Chain, Main
  <2> QED BY <1>1, <1>5, <2>1, <2>2 DEF Phase, PhaseOf, Exited, At
<1> QED BY <1>2, <1>3, <1>4, <1>5, CopiesAre DEF Chain

\* Once something went wrong it went wrong.
LEMMA CalmBefore == [Next]_vars /\ calm' => calm
<1>1. CASE UNCHANGED vars
  BY <1>1 DEF vars, linkVars
<1>2. CASE Next
  BY <1>2 DEF Next, Running, ConnectStep, Test, Acquire, AcquireFails, Wake, Configure, WriteFails,
              Backoff, ReaderStep, ConfigComplete, ReadEof, Publish, CloseStream,
              AnnounceStep, CheckRunning, StartAnnouncers, Announce, Ends, linkVars
<1> QED BY <1>1, <1>2

\* A step that opens no stream leaves the length of the chain as it is.
LEMMA SameLength ==
    ASSUME TypeOK, NEW n \in Copies, Chain(n), NEW m \in Copies, Chain(m)', Opened' = m,
           \A s \in Streams : (status'[s] = "unused") <=> (status[s] = "unused")
    PROVE  m = n
<1>1. Opened' = Opened
  BY DEF Opened
<1> QED BY <1>1, ChainOpened

LEMMA LinkConnect ==
    ASSUME TypeOK, NEW n \in Copies, Chain(n), PhaseInv,
           NEW m \in Copies, Chain(m)', PhaseInv',
           NEW h \in Copies, ConnectStep(h), ~Exited, calm'
    PROVE  Contract!Next \/ UNCHANGED Contract!vars
<1> USE DEF At, Goto, Failed, announceVars, Main
<1>1. Phase = PhaseOf(n) /\ Opened = n /\ Phase' = PhaseOf(m)' /\ Opened' = m
  BY DEF PhaseInv
<1>2. cpc \in [Copies -> Connecting \union {"none", "done", "fatal"}]
  BY DEF TypeOK
<1>3. cpc[h] \notin {"none", "done", "fatal"}
  BY DEF ConnectStep, Test, Acquire, AcquireFails, Wake, Configure, WriteFails, Backoff
<1>4. \/ n = 0 /\ h = 0 /\ cpc[h] = "acquire"
      \/ n > 0 /\ h = n - 1 /\ Settling(n)
      \/ n > 0 /\ h = n /\ Replacing(n)
  BY <1>3, WhoConnects
<1>5. ASSUME UNCHANGED status PROVE m = n
  BY <1>1, <1>5, SameLength
<1>6. CASE Test(h) \/ Backoff(h)
  <2>1. n > 0 /\ h = n /\ Replacing(n) /\ ~up[n] /\ UNCHANGED status
    BY <1>4, <1>6 DEF Test, Backoff, Settling, Replacing
  <2>2. \E l \in {"acquire", "test"} : cpc' = [cpc EXCEPT ![h] = l]
    BY <1>6, <2>1 DEF Test, Backoff
  <2>3. m = n /\ cpc[n - 1] = "done" /\ cpc'[n - 1] = "done"
    BY <1>2, <1>5, <2>1, <2>2, CopiesAre DEF Replacing, Over
  <2>4. cpc[n] # "none" /\ cpc'[n] # "none"
    BY <1>2, <2>1, <2>2 DEF Replacing
  <2>5. PhaseOf(n) = "seeking" /\ PhaseOf(n)' = "seeking"
    BY <2>1, <2>3, <2>4 DEF PhaseOf
  <2> QED BY <1>1, <2>3, <2>5 DEF Contract!vars
<1>7. CASE AcquireFails(h)
  <2>1. UNCHANGED status /\ m = n
    BY <1>5, <1>7 DEF AcquireFails
  <2>2. CASE n = 0
    <3>1. h = 0 /\ cpc' = [cpc EXCEPT ![h] = "fatal"] /\ cpc[h] = "acquire"
      BY <1>4, <1>7, <2>2 DEF AcquireFails
    <3>2. PhaseOf(n) = "seeking" /\ PhaseOf(n)' = "over"
      BY <1>2, <2>2, <3>1 DEF PhaseOf
    <3> QED BY <1>1, <2>1, <2>2, <3>2 DEF Contract!Next, Contract!GiveUp
  <2>3. CASE n > 0
    <3>1. h = n /\ Replacing(n) /\ cpc' = [cpc EXCEPT ![h] = "backoff"]
      <4>1. h = n /\ Replacing(n) /\ h # 0
        BY <1>4, <1>7, <2>3 DEF AcquireFails, Settling
      <4> QED BY <1>7, <4>1 DEF AcquireFails
    <3>2. cpc[n - 1] = "done" /\ cpc'[n - 1] = "done" /\ cpc[n] # "none" /\ cpc'[n] # "none"
      BY <1>2, <3>1, CopiesAre, <2>3 DEF Replacing, Over
    <3>3. PhaseOf(n) = "seeking" /\ PhaseOf(n)' = "seeking"
      BY <2>3, <3>2 DEF PhaseOf
    <3> QED BY <1>1, <2>1, <3>3 DEF Contract!vars
  <2> QED BY <2>2, <2>3, CopiesAre
<1>8. CASE Wake(h) \/ Configure(h)
  <2>1. n > 0 /\ h = n - 1 /\ Settling(n) /\ UNCHANGED status
    BY <1>4, <1>8 DEF Wake, Configure, Replacing
  <2>2. m = n /\ n - 1 \in Copies /\ n - 1 # n
    BY <1>5, <2>1, CopiesAre
  <2>3. PhaseOf(n) = "settling"
    BY <2>1 DEF PhaseOf, Settling
  <2>4. CASE Wake(h)
    <3>1. cpc'[n - 1] = "config"
      BY <1>2, <2>1, <2>4 DEF Wake
    <3>2. PhaseOf(n)' = "settling"
      BY <2>1, <3>1 DEF PhaseOf
    <3> QED BY <1>1, <2>2, <2>3, <3>2 DEF Contract!vars
  <2>5. CASE Configure(h)
    <3>1. cpc'[n - 1] = "done" /\ cpc'[n] = "none" /\ status'[n] = "open"
      BY <1>2, <2>1, <2>2, <2>5 DEF Configure, Settling
    <3>2. PhaseOf(n)' = "held"
      BY <2>1, <3>1 DEF PhaseOf
    <3> QED BY <1>1, <2>2, <2>3, <3>2 DEF Contract!Next, Contract!Settle
  <2> QED BY <1>8, <2>4, <2>5
<1>9. CASE Acquire(h)
  <2>1. PICK s \in Streams :
          /\ s = Opened + 1
          /\ status' = [status EXCEPT ![s] = "open"]
    BY <1>9 DEF Acquire
  <2>2. s = n + 1 /\ h = n /\ cpc' = [cpc EXCEPT ![h] = "wake"]
    BY <1>1, <1>4, <1>9, <2>1 DEF Acquire, Settling
  <2>3. PhaseOf(n) = "seeking"
    BY <1>4, <2>2, CopiesAre DEF PhaseOf, Replacing, Over, Settling
  <2>4. m = n + 1
    <3>1. status'[s] # "unused" /\ \A r \in Streams : r > s => status'[r] = "unused"
      BY <2>1, <2>2, CopiesAre, StreamsAre DEF Chain, TypeOK
    <3>2. m >= n + 1
      BY <2>2, <3>1, CopiesAre, StreamsAre DEF Chain
    <3>3. m <= n + 1
      BY <2>2, <3>1, CopiesAre, StreamsAre DEF Chain
    <3> QED BY <3>2, <3>3, CopiesAre
  <2>5. cpc'[m - 1] = "wake" /\ m # 0
    BY <1>2, <2>2, <2>4, CopiesAre
  <2>6. PhaseOf(m)' = "settling"
    BY <2>5 DEF PhaseOf
  <2> QED BY <1>1, <2>3, <2>4, <2>6 DEF Contract!Next, Contract!Open
<1>10. ~WriteFails(h)
  BY DEF WriteFails
<1> QED BY <1>6, <1>7, <1>8, <1>9, <1>10 DEF ConnectStep

LEMMA LinkReader ==
    ASSUME TypeOK, NEW n \in Copies, Chain(n), PhaseInv,
           NEW m \in Copies, Chain(m)', PhaseInv',
           NEW s \in Streams, ReaderStep(s) \/ Ends(s, "eof") \/ Ends(s, "broken"), calm'
    PROVE  Contract!Next \/ UNCHANGED Contract!vars
<1> USE DEF announceVars
<1>1. Phase = PhaseOf(n) /\ Opened = n /\ Phase' = PhaseOf(m)' /\ Opened' = m
  BY DEF PhaseInv
<1>2. status \in [Streams -> {"unused", "open", "eof", "broken", "closed"}]
      /\ cpc \in [Copies -> Connecting \union {"none", "done", "fatal"}]
  BY DEF TypeOK
<1>3. CASE ConfigComplete(s) \/ ReadEof(s)
  <2>1. UNCHANGED <<status, cpc>>
    BY <1>3 DEF ConfigComplete, ReadEof
  <2>2. m = n
    BY <1>1, <2>1, SameLength
  <2> QED BY <1>1, <2>1, <2>2 DEF Contract!vars, PhaseOf
<1>4. CASE Publish(s)
  <2>1. s = n /\ n > 0 /\ Settled(n) /\ reader[n] = "publish"
    BY <1>4, WhoReads DEF Publish, Settling
  <2>2. UNCHANGED status /\ cpc' = [cpc EXCEPT ![n] = "test"]
    BY <1>4, <2>1 DEF Publish, Goto
  <2>3. m = n
    BY <1>1, <2>2, SameLength
  <2>4. PhaseOf(n) = "lost"
    BY <2>1 DEF PhaseOf, Settled
  <2>5. PhaseOf(n)' = "seeking"
    BY <1>2, <2>1, <2>2, CopiesAre DEF PhaseOf, Settled
  <2> QED BY <1>1, <2>3, <2>4, <2>5 DEF Contract!Next, Contract!Seek
<1>5. CASE CloseStream(s)
  <2>1. s <= n /\ stream[copy[s]] = s /\ status[s] \in {"eof", "closed"}
    BY <1>5, CopiesAre, StreamsAre DEF CloseStream, Chain, Settling, Settled, Replacing, Over
  <2>2. UNCHANGED cpc /\ status' = [status EXCEPT ![s] = "closed"]
    BY <1>5, <2>1 DEF CloseStream
  <2>3. m = n
    BY <1>1, <1>2, <2>1, <2>2, SameLength
  <2>4. n # 0 => (status'[n] = "open" <=> status[n] = "open")
    BY <1>2, <2>1, <2>2, CopiesAre, StreamsAre
  <2> QED BY <1>1, <2>2, <2>3, <2>4 DEF Contract!vars, PhaseOf
<1>6. CASE Ends(s, "eof") \/ Ends(s, "broken")
  <2>1. /\ status[s] = "open" /\ cpc[copy[s]] = "done"
        /\ UNCHANGED cpc /\ status' = [status EXCEPT ![s] = "eof"]
    BY <1>6 DEF Ends
  <2>2. s = n /\ n > 0 /\ copy[s] = n - 1 /\ Settled(n)
    BY <2>1, WhoReads DEF Settling
  <2>3. m = n
    BY <1>1, <1>2, <2>1, SameLength
  <2>4. PhaseOf(n) = "held" /\ PhaseOf(n)' = "lost"
    BY <1>2, <2>1, <2>2 DEF PhaseOf, Settled
  <2> QED BY <1>1, <2>3, <2>4 DEF Contract!Next, Contract!Lose
<1> QED BY <1>3, <1>4, <1>5, <1>6 DEF ReaderStep

LEMMA LinkStep ==
    IInv /\ IInv' /\ PhaseInv /\ PhaseInv' /\ [Next]_vars
        => [calm' => Contract!Next]_(Contract!vars)
<1> SUFFICES ASSUME IInv, IInv', PhaseInv, PhaseInv', [Next]_vars, calm'
             PROVE  Contract!Next \/ UNCHANGED Contract!vars
  OBVIOUS
<1>1. calm /\ TypeOK
  BY CalmBefore DEF IInv
<1>2. PICK n \in Copies : Chain(n)
  BY <1>1 DEF IInv, CalmInv
<1>3. PICK m \in Copies : Chain(m)'
  BY DEF IInv, CalmInv
<1>4. CASE UNCHANGED vars \/ \E s \in Streams : AnnounceStep(s)
  <2>1. UNCHANGED <<status, cpc, reader>>
    BY <1>4 DEF vars, linkVars, AnnounceStep, CheckRunning, StartAnnouncers, Announce
  <2> QED BY <2>1 DEF Contract!vars, Phase, Opened, Exited, At, Live
<1>5. ASSUME NEW h \in Copies, Running(ConnectStep(h))
      PROVE  Contract!Next \/ UNCHANGED Contract!vars
  BY <1>1, <1>2, <1>3, <1>5, LinkConnect DEF Running
<1>6. ASSUME NEW s \in Streams, ReaderStep(s) \/ Ends(s, "eof") \/ Ends(s, "broken")
      PROVE  Contract!Next \/ UNCHANGED Contract!vars
  BY <1>1, <1>2, <1>3, <1>6, LinkReader
<1> QED BY <1>4, <1>5, <1>6 DEF Next, Running

\* One connection after another: a stream is opened only when the one before it
\* was lost and noticed to be, Connect is through before it is lost, and the bot
\* gives up only if it never had one (Connect, readMessages, disconnected).
THEOREM Refinement == Spec => ImplementsLink
<1>1. Init => Contract!Init
  <2> SUFFICES ASSUME Init PROVE Contract!Init
    OBVIOUS
  <2>1. \E h \in Copies : cpc[h] = "acquire"
    BY NumbersAre DEF Init
  <2>2. Phase = "seeking"
    BY <2>1, NumbersAre DEF Init, Phase, Exited, At
  <2>3. {s \in Streams : status[s] # "unused"} = {}
    BY DEF Init
  <2> QED BY <2>2, <2>3, FS_EmptySet DEF Contract!Init, Opened
<1>2. IInv => PhaseInv
  BY PhaseIs DEF IInv
<1> QED BY <1>1, <1>2, LinkStep, Invariance, PTL DEF Spec, ImplementsLink
=============================================================================
