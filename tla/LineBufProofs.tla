---------------------------- MODULE LineBufProofs ----------------------------
(***************************************************************************)
(* The line buffer never leaves its array, for every buffer size, every     *)
(* alphabet and every way in which the reads cut the stream up.             *)
(***************************************************************************)
EXTENDS LineBuf, FiniteSetTheorems, SequenceTheorems, TLAPS

USE SizeAssumption, BytesAssumption, MaxStreamAssumption

\* A zero-initialised LineBuf is in bounds.
LEMMA InitInBounds == Init => InBounds
  BY DEF Init, InBounds, Indices

\* line_buf_read fills free space only, also after it dropped a full buffer.
LEMMA ReadInBounds ==
  ASSUME InBounds, NEW count \in 1 .. Size, Read(count)
  PROVE  InBounds'
  <1>1. PICK bytes \in [1 .. count -> Bytes] :
          buf' = [k \in Indices |-> IF k \in ReadStart .. ReadStart + count - 1
                                    THEN bytes[k - ReadStart + 1] ELSE buf[k]]
    BY DEF Read
  <1>2. ReadStart \in 0 .. Size /\ ReadStart + count <= Size
    BY DEF Read, ReadStart, Full, InBounds
  <1>3. buf' \in [Indices -> Bytes \cup {Nul}]
    <2> SUFFICES ASSUME NEW k \in Indices
                 PROVE  (IF k \in ReadStart .. ReadStart + count - 1
                         THEN bytes[k - ReadStart + 1] ELSE buf[k]) \in Bytes \cup {Nul}
      BY <1>1
    <2>1. CASE k \in ReadStart .. ReadStart + count - 1
      <3>1. k - ReadStart + 1 \in 1 .. count
        BY <1>2, <2>1 DEF Indices
      <3> QED
        BY <2>1, <3>1
    <2>2. CASE k \notin ReadStart .. ReadStart + count - 1
      BY <2>2 DEF InBounds
    <2> QED
      BY <2>1, <2>2
  <1>4. start' = ReadStart /\ n' = count /\ i' = ReadStart /\ pc' = "scan"
    BY DEF Read
  <1>5. afsep' = 0 /\ truncated' \in BOOLEAN
    BY DEF Read, InBounds
  <1> QED
    BY <1>2, <1>3, <1>4, <1>5 DEF InBounds

\* The three ways in which a call of line_handler can end.
LEMMA HandlerInBounds ==
  ASSUME InBounds, NEW j \in Indices,
         HandlerAccepts(j) \/ HandlerTrampolines(j) \/ HandlerStops(j)
  PROVE  InBounds'
  <1>1. /\ pc = "scan" /\ j \in i .. start + n - 1
        /\ start + n <= Size /\ start <= i /\ afsep <= i
        /\ start \in 0 .. Size /\ afsep \in 0 .. Size /\ n \in 0 .. Size /\ i \in 0 .. Size
    BY DEF HandlerAccepts, HandlerTrampolines, HandlerStops, FindsSep, InBounds
  <1>2. CASE HandlerAccepts(j)
    <2>1. buf' \in [Indices -> Bytes \cup {Nul}]
      BY <1>2 DEF HandlerAccepts, InBounds
    <2>2. j + 1 \in 0 .. Size /\ j + 1 <= start + n
      BY <1>1 DEF Indices
    <2>3. /\ start' = start /\ n' = n /\ pc' = pc
          /\ afsep' = j + 1 /\ i' = j + 1
      BY <1>2 DEF HandlerAccepts
    <2>4. truncated' \in BOOLEAN
      BY <1>2, Zenon DEF HandlerAccepts
    <2>5. start \in 0 .. Size /\ n \in 0 .. Size /\ start <= j + 1 /\ start + n <= Size
      BY <1>1 DEF Indices
    <2> QED
      BY <1>1, <2>1, <2>2, <2>3, <2>4, <2>5 DEF InBounds
  <1>3. CASE HandlerTrampolines(j)
    <2>1. n' \in 0 .. Size /\ start' = afsep /\ start' + n' = start + n
      BY <1>1, <1>3 DEF HandlerTrampolines
    <2> QED
      BY <1>1, <1>3, <2>1 DEF HandlerTrampolines, InBounds
  <1>4. CASE HandlerStops(j)
    <2>1. n' \in 0 .. Size /\ start' = afsep
      BY <1>1, <1>4 DEF HandlerStops
    <2> QED
      BY <1>1, <1>4, <2>1 DEF HandlerStops, InBounds
  <1> QED
    BY <1>2, <1>3, <1>4

\* The memmove at the end of line_buf_replay.
LEMMA ScanEndsInBounds ==
  ASSUME InBounds, ScanEnds
  PROVE  InBounds'
  <1>1. /\ pc = "scan" /\ start + n <= Size /\ afsep <= start + n
        /\ start \in 0 .. Size /\ afsep \in 0 .. Size /\ n \in 0 .. Size
    BY DEF ScanEnds, InBounds
  <1>2. buf' \in [Indices -> Bytes \cup {Nul}]
    <2>0. buf' = [k \in Indices |-> IF k < start + n - afsep THEN buf[k + afsep] ELSE buf[k]]
      BY DEF ScanEnds
    <2> SUFFICES ASSUME NEW k \in Indices
                 PROVE  (IF k < start + n - afsep THEN buf[k + afsep] ELSE buf[k])
                          \in Bytes \cup {Nul}
      BY <2>0
    <2>1. k < start + n - afsep => k + afsep \in Indices
      BY <1>1 DEF Indices
    <2>2. CASE k < start + n - afsep
      BY <2>1, <2>2 DEF InBounds
    <2>3. CASE ~(k < start + n - afsep)
      BY <2>3 DEF InBounds
    <2> QED
      BY <2>2, <2>3
  <1>3. start' \in 0 .. Size /\ i' \in 0 .. Size
    BY <1>1 DEF ScanEnds
  <1> QED
    BY <1>1, <1>2, <1>3 DEF ScanEnds, InBounds

\* Every index that line_buf_read and line_buf_replay use stays inside the buffer, for
\* every buffer size: a replay after TRAMPOLINE, a full buffer and the move of the
\* incomplete line all keep start, n, afsep and the scan position consistent.
THEOREM BufferInBounds == Spec => []InBounds
  <1>1. Init => InBounds
    BY InitInBounds
  <1>2. InBounds /\ [Next]_vars => InBounds'
    <2> SUFFICES ASSUME InBounds, [Next]_vars
                 PROVE  InBounds'
      OBVIOUS
    <2>1. ASSUME NEW count \in 1 .. Size, Read(count)
          PROVE  InBounds'
      BY <2>1, ReadInBounds
    <2>2. ASSUME NEW j \in Indices,
                 HandlerAccepts(j) \/ HandlerTrampolines(j) \/ HandlerStops(j)
          PROVE  InBounds'
      BY <2>2, HandlerInBounds
    <2>3. CASE ReadEnds
      BY <2>3 DEF ReadEnds, InBounds
    <2>4. CASE ScanEnds
      BY <2>4, ScanEndsInBounds
    <2>5. CASE Stopped \/ UNCHANGED vars
      BY <2>5 DEF Stopped, vars, InBounds
    <2> QED
      BY <2>1, <2>2, <2>3, <2>4, <2>5 DEF Next
  <1> QED
    BY <1>1, <1>2, PTL DEF Spec

-----------------------------------------------------------------------------
(***************************************************************************)
(* The invariant behind the refinement: where the stream is in the buffer   *)
(***************************************************************************)

\* How many indices of the buffer are filled, how many bytes of the stream came before
\* index 0, and how many have been looked at.
Fill == IF pc = "scan" THEN start + n ELSE start
Offset == Len(stream) - Fill
Seen == Offset + (IF pc = "scan" THEN i ELSE start)

\* The separators among the first e bytes of the stream.
SepsUpTo(e) == {d \in Source!Ends : d <= e}

\* The last line that was accepted ends with byte number e, and there is no separator
\* behind it that was looked at.
AcceptedUpTo(e) ==
    /\ e \in 0 .. Len(stream) /\ (e = 0 \/ e \in Source!Ends)
    /\ Cardinality(SepsUpTo(e)) = Len(lines)
    /\ \A d \in e + 1 .. Seen : stream[d] # Sep

\* The buffer holds the last bytes of the stream, from the byte behind the last line on or,
\* if bytes were dropped, from one at least Size bytes behind it.
Holds(e) ==
    /\ Fill <= Len(stream)
    /\ \A k \in afsep .. Fill - 1 : buf[k] = stream[Offset + k + 1]
    /\ IF truncated THEN Offset + afsep - e >= Size ELSE Offset + afsep = e

Accepted == [cut : BOOLEAN, text : Seq(Bytes \cup {Nul})]

InStream ==
    /\ stream \in Seq(Bytes) /\ lines \in Seq(Accepted)
    /\ pc # "stopped" => \E e \in 0 .. Len(stream) : AcceptedUpTo(e) /\ Holds(e)

\* Counting the separators of the stream.
LEMMA SepsCounted ==
    ASSUME stream \in Seq(Bytes)
    PROVE  /\ IsFiniteSet(Source!Ends) /\ Source!Ends \subseteq 1 .. Len(stream)
           /\ \A e : IsFiniteSet(SepsUpTo(e)) /\ Cardinality(SepsUpTo(e)) \in Nat
<1>1. Len(stream) \in Nat
  OBVIOUS
<1>2. IsFiniteSet(1 .. Len(stream))
  BY <1>1, FS_Interval
<1>3. Source!Ends \subseteq 1 .. Len(stream)
  BY DEF Source!Ends
<1>4. IsFiniteSet(Source!Ends)
  BY <1>2, <1>3, FS_Subset
<1>5. \A e : SepsUpTo(e) \in SUBSET Source!Ends
  BY DEF SepsUpTo
<1>6. \A e : IsFiniteSet(SepsUpTo(e))
  BY <1>4, <1>5, FS_Subset
<1> QED BY <1>3, <1>4, <1>6, FS_CardinalityType

\* A line more, or as many, up to a later byte.
LEMMA SepsGrow ==
    ASSUME stream \in Seq(Bytes), NEW e \in Nat, NEW f \in Source!Ends, e < f
    PROVE  /\ Cardinality(SepsUpTo(e)) < Cardinality(SepsUpTo(f))
           /\ (\A d \in e + 1 .. f - 1 : d \notin Source!Ends) =>
                  Cardinality(SepsUpTo(f)) = Cardinality(SepsUpTo(e)) + 1
<1>1. /\ IsFiniteSet(SepsUpTo(e)) /\ Cardinality(SepsUpTo(e)) \in Nat
      /\ IsFiniteSet(SepsUpTo(f)) /\ Cardinality(SepsUpTo(f)) \in Nat
      /\ Source!Ends \subseteq 1 .. Len(stream) /\ Len(stream) \in Nat
  BY SepsCounted
<1>2. f \in Nat /\ \A d \in Source!Ends : d \in Nat
  BY <1>1
<1>3. SepsUpTo(e) \cup {f} \in SUBSET SepsUpTo(f) /\ f \notin SepsUpTo(e)
  <2>1. ASSUME NEW d \in SepsUpTo(e) PROVE d \in SepsUpTo(f)
    <3>1. d \in Source!Ends /\ d <= e
      BY <2>1 DEF SepsUpTo
    <3>2. d <= f
      BY <1>2, <3>1
    <3> QED BY <3>1, <3>2 DEF SepsUpTo
  <2>2. f \in SepsUpTo(f)
    BY <1>2 DEF SepsUpTo
  <2>3. f \notin SepsUpTo(e)
    BY <1>2 DEF SepsUpTo
  <2> QED BY <2>1, <2>2, <2>3
<1>4. Cardinality(SepsUpTo(e) \cup {f}) = Cardinality(SepsUpTo(e)) + 1
  BY <1>1, <1>3, FS_AddElement
<1>5. Cardinality(SepsUpTo(e) \cup {f}) <= Cardinality(SepsUpTo(f))
  BY <1>1, <1>3, FS_Subset
<1>6. ASSUME \A d \in e + 1 .. f - 1 : d \notin Source!Ends
      PROVE  SepsUpTo(f) = SepsUpTo(e) \cup {f}
  <2>1. ASSUME NEW d \in SepsUpTo(f) PROVE d \in SepsUpTo(e) \cup {f}
    <3>1. d \in Source!Ends /\ d \in Nat /\ d <= f
      BY <1>2, <2>1 DEF SepsUpTo
    <3>2. d <= e \/ d = f
      BY <1>2, <1>6, <3>1
    <3> QED BY <3>1, <3>2 DEF SepsUpTo
  <2> QED BY <1>3, <2>1
<1>7. Cardinality(SepsUpTo(e)) < Cardinality(SepsUpTo(f))
  BY <1>1, <1>4, <1>5
<1> QED BY <1>4, <1>6, <1>7

\* LineSource counts with its own copy of Cardinality.
LEMMA SameCardinality == \A S : Source!Cardinality(S) = Cardinality(S)
BY Zenon DEF Source!Cardinality, Cardinality

\* LineEnd is where the line with that number ends.
LEMMA LineEndIs ==
    ASSUME stream \in Seq(Bytes), NEW e \in Source!Ends
    PROVE  Source!LineEnd(Cardinality(SepsUpTo(e))) = e
<1>1. \A d \in Source!Ends : d \in Nat
  BY SepsCounted
<1>2. \A d \in Source!Ends : Cardinality(SepsUpTo(d)) \in Nat
  BY SepsCounted
<1>3. \A d \in Source!Ends : Cardinality(SepsUpTo(d)) = Cardinality(SepsUpTo(e)) => d = e
  <2> SUFFICES ASSUME NEW d \in Source!Ends, d # e
               PROVE  Cardinality(SepsUpTo(d)) # Cardinality(SepsUpTo(e))
    OBVIOUS
  <2>1. CASE d < e
    BY <1>1, <1>2, <2>1, SepsGrow
  <2>2. CASE e < d
    BY <1>1, <1>2, <2>2, SepsGrow
  <2> QED BY <1>1, <2>1, <2>2
<1>4. \A d \in Source!Ends : Source!LineNumber(d) = Cardinality(SepsUpTo(d))
  BY SameCardinality, Zenon DEF Source!LineNumber, SepsUpTo
<1>5. Source!LineEnd(Cardinality(SepsUpTo(e))) =
          CHOOSE d \in Source!Ends : Source!LineNumber(d) = Cardinality(SepsUpTo(e))
  BY DEF Source!LineEnd
<1> QED BY <1>3, <1>4, <1>5

\* Every step keeps the buffer in step with the stream.
LEMMA InitInStream == Init => InStream
<1> SUFFICES ASSUME Init PROVE InStream
  OBVIOUS
<1>1. stream = <<>> /\ lines = <<>> /\ stream \in Seq(Bytes) /\ lines \in Seq(Accepted) /\ Len(stream) = 0
  BY DEF Init
<1>2. SepsUpTo(0) = {}
  BY <1>1, SepsCounted DEF SepsUpTo
<1>3. Fill = 0 /\ Offset = 0 /\ Seen = 0
  BY <1>1 DEF Init, Fill, Offset, Seen
<1>4. AcceptedUpTo(0)
  BY <1>1, <1>2, <1>3, FS_EmptySet DEF AcceptedUpTo
<1>5. Holds(0)
  BY <1>1, <1>3 DEF Holds, Init
<1> QED BY <1>1, <1>4, <1>5 DEF InStream

\* line_buf_read: the new bytes come behind what is held, or behind what was dropped.
LEMMA ReadInStream ==
    ASSUME InBounds, InBounds', InStream, NEW count \in 1 .. Size, Read(count)
    PROVE  InStream'
<1>1. PICK bytes \in [1 .. count -> Bytes] :
          /\ buf' = [k \in Indices |-> IF k \in ReadStart .. ReadStart + count - 1
                                       THEN bytes[k - ReadStart + 1] ELSE buf[k]]
          /\ stream' = stream \o bytes
  BY DEF Read
<1>2. /\ pc = "read" /\ afsep = 0 /\ start \in 0 .. Size /\ truncated \in BOOLEAN
      /\ ReadStart \in 0 .. Size /\ count <= Size - ReadStart /\ count \in Nat
      /\ start' = ReadStart /\ n' = count /\ i' = ReadStart /\ pc' = "scan" /\ lines' = lines
  BY DEF Read, InBounds, ReadStart, Full
<1>3. afsep' = 0
  BY <1>2 DEF Read
<1>4. truncated' = (truncated \/ Full)
  BY DEF Read
<1>5. /\ bytes \in Seq(Bytes) /\ Len(bytes) = count
      /\ stream \in Seq(Bytes) /\ Len(stream) \in Nat
  BY <1>2 DEF InStream
<1>6. /\ stream' \in Seq(Bytes) /\ Len(stream') = Len(stream) + count
      /\ \A d \in 1 .. Len(stream) : stream'[d] = stream[d]
      /\ \A d \in 1 .. count : stream'[Len(stream) + d] = bytes[d]
  <2>1. /\ stream' \in Seq(Bytes) /\ Len(stream') = Len(stream) + count
        /\ \A d \in 1 .. Len(stream) + count :
               stream'[d] = IF d <= Len(stream) THEN stream[d] ELSE bytes[d - Len(stream)]
    BY <1>1, <1>5, ConcatProperties
  <2>2. ASSUME NEW d \in 1 .. count PROVE stream'[Len(stream) + d] = bytes[d]
    <3>1. /\ Len(stream) + d \in 1 .. Len(stream) + count /\ ~(Len(stream) + d <= Len(stream))
          /\ (Len(stream) + d) - Len(stream) = d
      BY <1>2, <1>5
    <3> QED BY <2>1, <3>1
  <2>3. ASSUME NEW d \in 1 .. Len(stream) PROVE stream'[d] = stream[d]
    BY <1>2, <1>5, <2>1
  <2> QED BY <2>1, <2>2, <2>3
<1>7. PICK e \in 0 .. Len(stream) : AcceptedUpTo(e) /\ Holds(e)
  BY <1>2 DEF InStream
<1>8. /\ Fill = start /\ Offset = Len(stream) - start /\ Seen = Len(stream)
      /\ Fill' = ReadStart + count /\ Offset' = Len(stream) - ReadStart /\ Seen' = Len(stream)
  BY <1>2, <1>5, <1>6 DEF Fill, Offset, Seen
<1>9. AcceptedUpTo(e)'
  <2>1. \A d \in 1 .. Len(stream) : d \in (Source!Ends)' <=> d \in Source!Ends
    BY <1>5, <1>6 DEF Source!Ends
  <2>2. (Source!Ends)' \subseteq 1 .. Len(stream') /\ Source!Ends \subseteq 1 .. Len(stream)
    BY DEF Source!Ends
  <2>3. SepsUpTo(e)' = SepsUpTo(e)
    <3>1. SepsUpTo(e)' = {d \in (Source!Ends)' : d <= e}
      BY DEF SepsUpTo
    <3>2. \A d \in (Source!Ends)' : d <= e => d \in 1 .. Len(stream)
      BY <1>5, <1>6, <2>2
    <3>3. \A d \in Source!Ends : d \in 1 .. Len(stream)
      BY <2>2
    <3> QED BY <2>1, <3>1, <3>2, <3>3 DEF SepsUpTo
  <2>4. e \in 0 .. Len(stream') /\ (e = 0 \/ e \in (Source!Ends)')
    BY <1>5, <1>6, <1>7, <2>1 DEF AcceptedUpTo
  <2>5. \A d \in e + 1 .. Seen' : stream'[d] # Sep
    BY <1>6, <1>7, <1>8 DEF AcceptedUpTo
  <2> QED BY <1>2, <1>7, <2>3, <2>4, <2>5 DEF AcceptedUpTo
<1>10. Holds(e)'
  <2>1. Fill' <= Len(stream')
    BY <1>2, <1>5, <1>6, <1>7, <1>8 DEF Holds, ReadStart, Full
  <2>2. ASSUME NEW k \in 0 .. Fill' - 1 PROVE buf'[k] = stream'[Offset' + k + 1]
    <3>1. k \in Indices /\ k \in Nat
      BY <1>2, <1>8, <2>2 DEF Indices
    <3>2. CASE k \in ReadStart .. ReadStart + count - 1
      <4>1. buf'[k] = bytes[k - ReadStart + 1] /\ k - ReadStart + 1 \in 1 .. count
        BY <1>1, <1>2, <3>1, <3>2
      <4>2. Offset' + k + 1 = Len(stream) + (k - ReadStart + 1)
        BY <1>2, <1>5, <1>8, <3>1
      <4> QED BY <1>6, <4>1, <4>2
    <3>3. CASE k \notin ReadStart .. ReadStart + count - 1
      <4>1. k < ReadStart
        BY <1>2, <1>8, <2>2, <3>1, <3>3
      <4>2. ReadStart = start
        BY <1>2, <3>1, <4>1 DEF ReadStart
      <4>3. buf'[k] = buf[k] /\ k \in afsep .. Fill - 1
        BY <1>1, <1>2, <1>8, <3>1, <3>3, <4>1, <4>2
      <4>4. buf[k] = stream[Offset + k + 1] /\ Fill <= Len(stream)
        BY <1>7, <4>3 DEF Holds
      <4>5. Offset + k + 1 \in 1 .. Len(stream) /\ Offset' = Offset
        BY <1>2, <1>5, <1>8, <3>1, <4>1, <4>2, <4>4
      <4> QED BY <1>6, <4>3, <4>4, <4>5
    <3> QED BY <3>2, <3>3
  <2>3. IF truncated' THEN Offset' + afsep' - e >= Size ELSE Offset' + afsep' = e
    <3>1. IF truncated THEN Offset + afsep - e >= Size ELSE Offset + afsep = e
      BY <1>7 DEF Holds
    <3>2. CASE Full
      <4>1. start = Size /\ ReadStart = 0 /\ truncated'
        BY <1>4, <3>2 DEF Full, ReadStart
      <4>2. Offset' + afsep' - e >= Size
        BY <1>2, <1>3, <1>5, <1>8, <3>1, <4>1
      <4> QED BY <4>1, <4>2
    <3>3. CASE ~Full
      <4>1. ReadStart = start /\ (truncated' <=> truncated)
        BY <1>4, <3>3 DEF ReadStart
      <4> QED BY <1>2, <1>3, <1>8, <3>1, <4>1
    <3> QED BY <3>2, <3>3
  <2> QED BY <1>3, <2>1, <2>2, <2>3 DEF Holds
<1>11. e \in 0 .. Len(stream')
  BY <1>5, <1>6
<1> QED BY <1>2, <1>6, <1>9, <1>10, <1>11 DEF InStream

\* The memmove: the incomplete line is moved and nothing of it is lost.
LEMMA ScanEndsInStream ==
    ASSUME InBounds, InStream, ScanEnds
    PROVE  InStream'
<1>1. /\ pc = "scan" /\ start \in Nat /\ n \in Nat /\ i \in Nat /\ afsep \in Nat
      /\ start + n <= Size /\ start <= i /\ afsep <= i /\ i <= start + n
  BY DEF ScanEnds, InBounds
<1>2. /\ start' = start + n - afsep /\ afsep' = 0 /\ pc' = "read"
      /\ UNCHANGED <<truncated, n, stream, lines>>
      /\ buf' = [k \in Indices |-> IF k < start + n - afsep THEN buf[k + afsep] ELSE buf[k]]
      /\ \A j \in i .. start + n - 1 : buf[j] # Sep
  BY DEF ScanEnds
<1>3. PICK e \in 0 .. Len(stream) : AcceptedUpTo(e) /\ Holds(e)
  BY <1>1 DEF InStream
<1>4. stream \in Seq(Bytes) /\ Len(stream) \in Nat
  BY DEF InStream
<1>5. /\ Fill = start + n /\ Offset = Len(stream) - Fill /\ Seen = Offset + i
      /\ Fill' = start + n - afsep /\ Offset' = Offset + afsep /\ Seen' = Len(stream)
  BY <1>1, <1>2, <1>4 DEF Fill, Offset, Seen
<1>6. Fill <= Len(stream) /\ \A k \in afsep .. Fill - 1 : buf[k] = stream[Offset + k + 1]
  BY <1>3 DEF Holds
<1>7. AcceptedUpTo(e)'
  <2>1. (Source!Ends)' = Source!Ends
    BY <1>2 DEF Source!Ends
  <2>2. ASSUME NEW d \in e + 1 .. Len(stream) PROVE stream[d] # Sep
    <3>1. CASE d <= Seen
      <4>1. d \in e + 1 .. Seen
        BY <1>1, <1>4, <1>5, <3>1
      <4> QED BY <1>3, <4>1 DEF AcceptedUpTo
    <3>2. CASE ~(d <= Seen)
      <4>1. d - Offset - 1 \in i .. start + n - 1 /\ d - Offset - 1 \in afsep .. Fill - 1
        BY <1>1, <1>4, <1>5, <3>2
      <4>2. Offset + (d - Offset - 1) + 1 = d
        BY <1>1, <1>4, <1>5
      <4>3. buf[d - Offset - 1] = stream[Offset + (d - Offset - 1) + 1]
        BY <1>6, <4>1
      <4> QED BY <1>2, <4>1, <4>2, <4>3
    <3> QED BY <3>1, <3>2
  <2>3. SepsUpTo(e)' = SepsUpTo(e)
    BY <2>1 DEF SepsUpTo
  <2> QED BY <1>2, <1>3, <1>5, <2>1, <2>2, <2>3 DEF AcceptedUpTo
<1>8. Holds(e)'
  <2>1. Fill' <= Len(stream')
    BY <1>1, <1>2, <1>4, <1>5, <1>6
  <2>2. ASSUME NEW k \in 0 .. Fill' - 1 PROVE buf'[k] = stream[Offset' + k + 1]
    <3>1. k \in Indices /\ k < start + n - afsep /\ k + afsep \in afsep .. Fill - 1
      BY <1>1, <1>5, <2>2 DEF Indices
    <3>2. buf'[k] = buf[k + afsep] /\ buf[k + afsep] = stream[Offset + (k + afsep) + 1]
      BY <1>2, <1>6, <3>1
    <3>3. Offset + (k + afsep) + 1 = Offset' + k + 1
      BY <1>1, <1>4, <1>5, <3>1 DEF Indices
    <3> QED BY <3>2, <3>3
  <2>3. IF truncated THEN Offset' + 0 - e >= Size ELSE Offset' + 0 = e
    BY <1>1, <1>3, <1>4, <1>5 DEF Holds
  <2> QED BY <1>2, <2>1, <2>2, <2>3 DEF Holds
<1> QED BY <1>2, <1>4, <1>7, <1>8 DEF InStream

\* line_handler gets a line: what LineSource would hand out next.
LEMMA NextLine ==
    ASSUME InBounds, InStream, NEW j \in Indices, FindsSep(j),
           NEW e \in 0 .. Len(stream), AcceptedUpTo(e), Holds(e)
    PROVE  LET f == Offset + j + 1
           IN  /\ f \in Source!Ends /\ e < f
               /\ Cardinality(SepsUpTo(f)) = Len(lines) + 1
               /\ Source!LineText(Len(lines) + 1) = SubSeq(stream, e + 1, f - 1)
<1> DEFINE f == Offset + j + 1
<1>1. /\ pc = "scan" /\ start \in Nat /\ n \in Nat /\ i \in Nat /\ afsep \in Nat /\ j \in Nat
      /\ start + n <= Size /\ start <= i /\ afsep <= i /\ i <= start + n
      /\ j \in i .. start + n - 1 /\ buf[j] = Sep /\ \A k \in i .. j - 1 : buf[k] # Sep
  BY DEF FindsSep, InBounds, Indices
<1>2. stream \in Seq(Bytes) /\ Len(stream) \in Nat /\ lines \in Seq(Accepted) /\ Len(lines) \in Nat
  BY DEF InStream
<1>3. Fill = start + n /\ Offset = Len(stream) - Fill /\ Seen = Offset + i
  BY <1>1, <1>2 DEF Fill, Offset, Seen
<1>4. Fill <= Len(stream) /\ \A k \in afsep .. Fill - 1 : buf[k] = stream[Offset + k + 1]
  BY DEF Holds
<1>5. f \in 1 .. Len(stream) /\ stream[f] = Sep
  <2>1. j \in afsep .. Fill - 1 /\ f \in 1 .. Len(stream)
    BY <1>1, <1>2, <1>3, <1>4
  <2> QED BY <1>1, <1>4, <2>1
<1>6. f \in Source!Ends
  BY <1>5 DEF Source!Ends
<1>7. e < f
  <2>1. Offset + afsep >= e
    BY <1>1, <1>2, <1>3 DEF Holds, InBounds
  <2> QED BY <1>1, <1>2, <1>3, <2>1
<1>8. \A d \in e + 1 .. f - 1 : d \notin Source!Ends
  <2> SUFFICES ASSUME NEW d \in e + 1 .. f - 1 PROVE stream[d] # Sep
    BY DEF Source!Ends
  <2>1. CASE d <= Seen
    BY <1>1, <1>2, <1>3, <2>1 DEF AcceptedUpTo
  <2>2. CASE ~(d <= Seen)
    <3>1. d - Offset - 1 \in i .. j - 1 /\ d - Offset - 1 \in afsep .. Fill - 1
      BY <1>1, <1>2, <1>3, <2>2
    <3>2. Offset + (d - Offset - 1) + 1 = d
      BY <1>1, <1>2, <1>3
    <3>3. buf[d - Offset - 1] = stream[Offset + (d - Offset - 1) + 1]
      BY <1>4, <3>1
    <3> QED BY <1>1, <3>1, <3>2, <3>3
  <2> QED BY <2>1, <2>2
<1> HIDE DEF f
<1>9. Cardinality(SepsUpTo(f)) = Len(lines) + 1
  BY <1>2, <1>6, <1>7, <1>8, SepsGrow DEF AcceptedUpTo
<1>10. Source!LineEnd(Len(lines) + 1) = f
  BY <1>2, <1>6, <1>9, LineEndIs
<1>11. (IF Len(lines) + 1 = 1 THEN 1 ELSE Source!LineEnd(Len(lines)) + 1) = e + 1
  <2>1. CASE e = 0
    <3>1. SepsUpTo(e) = {}
      BY <1>2, <2>1, SepsCounted DEF SepsUpTo
    <3>2. Len(lines) = 0
      BY <3>1, FS_EmptySet DEF AcceptedUpTo
    <3> QED BY <2>1, <3>2
  <2>2. CASE e # 0
    <3>1. e \in Source!Ends
      BY <2>2 DEF AcceptedUpTo
    <3>2. Source!LineEnd(Len(lines)) = e
      BY <1>2, <3>1, LineEndIs DEF AcceptedUpTo
    <3>3. 0 < e /\ Cardinality(SepsUpTo(0)) \in Nat
      BY <1>2, <2>2, SepsCounted
    <3>4. Len(lines) # 0
      BY <1>2, <3>1, <3>3, SepsGrow DEF AcceptedUpTo
    <3> QED BY <1>2, <3>2, <3>4
  <2> QED BY <2>1, <2>2
<1>12. (Len(lines) + 1) - 1 = Len(lines)
  BY <1>2
<1>13. Source!LineText(Len(lines) + 1) = SubSeq(stream, e + 1, f - 1)
  BY <1>10, <1>11, <1>12 DEF Source!LineText
<1> QED BY <1>6, <1>7, <1>9, <1>13 DEF f

\* The text of the line, as a sequence of bytes of the stream.
LEMMA TextOfLine ==
    ASSUME InBounds, InStream, NEW j \in Indices, FindsSep(j),
           NEW e \in 0 .. Len(stream), AcceptedUpTo(e), Holds(e)
    PROVE  LET f == Offset + j + 1
               text == SubSeq(stream, e + 1, f - 1)
           IN  /\ Text(afsep, j) \in Seq(Bytes \cup {Nul})
               /\ IF truncated THEN ~(Len(text) < Size)
                  ELSE Len(text) < Size /\ text = Text(afsep, j)
<1> DEFINE f == Offset + j + 1
           text == SubSeq(stream, e + 1, f - 1)
<1>1. /\ pc = "scan" /\ start \in Nat /\ n \in Nat /\ i \in Nat /\ afsep \in Nat /\ j \in Nat
      /\ start + n <= Size /\ afsep <= j /\ j < start + n /\ Size \in Nat
      /\ buf \in [Indices -> Bytes \cup {Nul}] /\ truncated \in BOOLEAN
  BY DEF FindsSep, InBounds, Indices
<1>2. stream \in Seq(Bytes) /\ Len(stream) \in Nat
  BY DEF InStream
<1>3. Fill = start + n /\ Offset = Len(stream) - Fill /\ Offset \in Int
  BY <1>1, <1>2 DEF Fill, Offset
<1>4. Fill <= Len(stream) /\ \A k \in afsep .. Fill - 1 : buf[k] = stream[Offset + k + 1]
  BY DEF Holds
<1>5. IF truncated THEN Offset + afsep - e >= Size ELSE Offset + afsep = e
  BY DEF Holds
<1>6. f \in 1 .. Len(stream) /\ e < f
  BY <1>1, <1>2, <1>3, <1>4, <1>5
<1>7. /\ Len(text) = f - 1 - e /\ \A k \in 1 .. f - 1 - e : text[k] = stream[e + k]
      /\ text = [k \in 1 .. f - 1 - e |-> stream[e + k]]
  <2>1. e + 1 \in 1 .. Len(stream) + 1 /\ f - 1 \in e .. Len(stream)
    BY <1>2, <1>6
  <2>2. text = [k \in 1 .. (f - 1) - (e + 1) + 1 |-> stream[(e + 1) + k - 1]]
    BY <1>2, <2>1
  <2>3. (f - 1) - (e + 1) + 1 = f - 1 - e /\ \A k \in 1 .. f - 1 - e : (e + 1) + k - 1 = e + k
    BY <1>6
  <2>4. text = [k \in 1 .. f - 1 - e |-> stream[e + k]]
    BY <2>2, <2>3
  <2>5. f - 1 - e \in Nat
    BY <1>2, <1>6
  <2> HIDE DEF text, f
  <2> QED BY <2>4, <2>5
<1>8. Text(afsep, j) \in Seq(Bytes \cup {Nul})
  <2>1. \A k \in 1 .. j - afsep : afsep + k - 1 \in Indices
    BY <1>1 DEF Indices
  <2>2. \A k \in 1 .. j - afsep : buf[afsep + k - 1] \in Bytes \cup {Nul}
    BY <1>1, <2>1
  <2>3. Text(afsep, j) \in [1 .. j - afsep -> Bytes \cup {Nul}]
    BY <2>2 DEF Text
  <2>4. j - afsep \in Nat
    BY <1>1
  <2> HIDE DEF Text
  <2> QED BY <2>3, <2>4
<1>9. CASE truncated
  <2>1. ~(Len(text) < Size)
    BY <1>1, <1>2, <1>3, <1>5, <1>7, <1>9
  <2> QED BY <1>8, <1>9, <2>1
<1>10. CASE ~truncated
  <2>1. f - 1 - e = j - afsep /\ j - afsep < Size
    BY <1>1, <1>3, <1>5, <1>10
  <2>2. ASSUME NEW k \in 1 .. j - afsep PROVE stream[e + k] = buf[afsep + k - 1]
    <3>1. afsep + k - 1 \in afsep .. Fill - 1 /\ Offset + (afsep + k - 1) + 1 = e + k
      BY <1>1, <1>3, <1>5, <1>10, <2>2
    <3> QED BY <1>4, <3>1
  <2>3. text = [k \in 1 .. j - afsep |-> stream[e + k]]
    BY <1>7, <2>1
  <2> HIDE DEF text
  <2>4. text = Text(afsep, j)
    BY <2>2, <2>3 DEF Text
  <2> QED BY <1>7, <1>8, <1>10, <2>1, <2>4 DEF text
<1> QED BY <1>1, <1>9, <1>10

LEMMA AcceptInStream ==
    ASSUME InBounds, InStream, NEW j \in Indices, HandlerAccepts(j)
    PROVE  InStream'
<1>1. /\ pc = "scan" /\ start \in Nat /\ n \in Nat /\ i \in Nat /\ afsep \in Nat /\ j \in Nat
      /\ afsep <= j /\ truncated \in BOOLEAN
      /\ buf \in [Indices -> Bytes \cup {Nul}]
  BY DEF HandlerAccepts, FindsSep, InBounds, Indices
<1>2. /\ FindsSep(j) /\ UNCHANGED <<start, n, pc, stream>>
      /\ lines' = Append(lines, [text |-> Text(afsep, j), cut |-> truncated])
      /\ buf' = [buf EXCEPT ![j] = Nul] /\ afsep' = j + 1 /\ i' = j + 1
  BY DEF HandlerAccepts
<1>3. truncated' = FALSE
  BY DEF HandlerAccepts
<1>4. PICK e \in 0 .. Len(stream) : AcceptedUpTo(e) /\ Holds(e)
  BY <1>1 DEF InStream
<1>5. /\ stream \in Seq(Bytes) /\ Len(stream) \in Nat /\ lines \in Seq(Accepted) /\ Len(lines) \in Nat
  BY DEF InStream
<1>6. PICK f \in Source!Ends : f = Offset + j + 1 /\ Cardinality(SepsUpTo(f)) = Len(lines) + 1
  BY <1>2, <1>4, NextLine
<1>7. /\ Fill = start + n /\ Offset = Len(stream) - Fill
      /\ Fill' = Fill /\ Offset' = Offset /\ Seen' = f
  BY <1>1, <1>2, <1>5, <1>6 DEF Fill, Offset, Seen
<1>8. [text |-> Text(afsep, j), cut |-> truncated] \in Accepted
  <2>1. Text(afsep, j) \in Seq(Bytes \cup {Nul})
    BY <1>2, <1>4, TextOfLine
  <2> QED BY <1>1, <2>1, Zenon DEF Accepted
<1>9. lines' \in Seq(Accepted) /\ Len(lines') = Len(lines) + 1
  <2> DEFINE line == [text |-> Text(afsep, j), cut |-> truncated]
  <2>1. lines' = Append(lines, line) /\ line \in Accepted
    BY <1>2, <1>8
  <2> HIDE DEF line
  <2> QED BY <1>5, <2>1
<1>10. f \in 0 .. Len(stream)
  BY <1>5, <1>6, SepsCounted
<1>11. AcceptedUpTo(f)'
  <2>1. (Source!Ends)' = Source!Ends
    BY <1>2 DEF Source!Ends
  <2>2. ASSUME NEW c PROVE SepsUpTo(c)' = SepsUpTo(c)
    BY <2>1 DEF SepsUpTo
  <2>3. \A d \in f + 1 .. f : FALSE
    BY <1>10
  <2> QED BY <1>2, <1>6, <1>7, <1>9, <1>10, <2>1, <2>2, <2>3 DEF AcceptedUpTo
<1>12. Holds(f)'
  <2>1. ASSUME NEW k \in j + 1 .. Fill - 1 PROVE buf'[k] = stream[Offset + k + 1]
    <3>1. k \in afsep .. Fill - 1 /\ k # j
      BY <1>1, <1>7
    <3>2. k \in Indices
      BY <1>1, <1>2, <1>7 DEF Indices, FindsSep, InBounds
    <3> QED BY <1>1, <1>2, <1>4, <3>1, <3>2 DEF Holds
  <2>2. Fill <= Len(stream)
    BY <1>4 DEF Holds
  <2>3. Offset + (j + 1) = f
    BY <1>1, <1>5, <1>6, <1>7
  <2> QED BY <1>2, <1>3, <1>7, <2>1, <2>2, <2>3 DEF Holds
<1> QED BY <1>1, <1>2, <1>5, <1>9, <1>10, <1>11, <1>12 DEF InStream

\* The line will be handed out again: the scan starts over and nothing else changes.
LEMMA TrampolineInStream ==
    ASSUME InBounds, InStream, NEW j \in Indices, HandlerTrampolines(j)
    PROVE  InStream'
<1>1. /\ pc = "scan" /\ start \in Nat /\ n \in Nat /\ i \in Nat /\ afsep \in Nat /\ afsep <= i
  BY DEF HandlerTrampolines, FindsSep, InBounds
<1>2. /\ n' = n - (afsep - start) /\ start' = afsep /\ i' = afsep
      /\ UNCHANGED <<buf, afsep, truncated, pc, stream, lines>>
  BY DEF HandlerTrampolines
<1>3. PICK e \in 0 .. Len(stream) : AcceptedUpTo(e) /\ Holds(e)
  BY <1>1 DEF InStream
<1>4. stream \in Seq(Bytes) /\ Len(stream) \in Nat
  BY DEF InStream
<1>5. Fill' = Fill /\ Offset' = Offset /\ Offset \in Int /\ Seen = Offset + i /\ Seen' = Offset + afsep
  BY <1>1, <1>2, <1>4 DEF Fill, Offset, Seen
<1>6. AcceptedUpTo(e)'
  <2>1. (Source!Ends)' = Source!Ends
    BY <1>2 DEF Source!Ends
  <2>2. SepsUpTo(e)' = SepsUpTo(e)
    BY <2>1 DEF SepsUpTo
  <2>3. \A d \in e + 1 .. Seen' : d \in e + 1 .. Seen
    BY <1>1, <1>4, <1>5
  <2> QED BY <1>2, <1>3, <2>1, <2>2, <2>3 DEF AcceptedUpTo
<1>7. Holds(e)'
  BY <1>2, <1>3, <1>5 DEF Holds
<1> QED BY <1>2, <1>4, <1>6, <1>7 DEF InStream

LEMMA NextInStream == InBounds /\ InStream /\ InBounds' /\ [Next]_vars => InStream'
<1> SUFFICES ASSUME InBounds, InStream, InBounds', [Next]_vars PROVE InStream'
  OBVIOUS
<1>1. ASSUME NEW count \in 1 .. Size, Read(count) PROVE InStream'
  BY <1>1, ReadInStream
<1>2. ASSUME NEW j \in Indices, HandlerAccepts(j) PROVE InStream'
  BY <1>2, AcceptInStream
<1>3. ASSUME NEW j \in Indices, HandlerTrampolines(j) PROVE InStream'
  BY <1>3, TrampolineInStream
<1>4. ASSUME NEW j \in Indices, HandlerStops(j) PROVE InStream'
  BY <1>4 DEF HandlerStops, InStream
<1>5. CASE ScanEnds
  BY <1>5, ScanEndsInStream
<1>6. CASE ReadEnds
  BY <1>6 DEF ReadEnds, InStream
<1>7. CASE Stopped \/ UNCHANGED vars
  <2>1. UNCHANGED vars
    BY <1>7 DEF Stopped
  <2>2. Fill' = Fill /\ Offset' = Offset /\ Seen' = Seen /\ (Source!Ends)' = Source!Ends
    BY <2>1 DEF vars, Fill, Offset, Seen, Source!Ends
  <2>3. ASSUME NEW e PROVE SepsUpTo(e)' = SepsUpTo(e)
    BY <2>2 DEF SepsUpTo
  <2>4. ASSUME NEW e, AcceptedUpTo(e), Holds(e) PROVE AcceptedUpTo(e)' /\ Holds(e)'
    BY <2>1, <2>2, <2>3, <2>4 DEF vars, AcceptedUpTo, Holds
  <2> QED BY <2>1, <2>4 DEF vars, InStream
<1> QED BY <1>1, <1>2, <1>3, <1>4, <1>5, <1>6, <1>7 DEF Next

-----------------------------------------------------------------------------
(***************************************************************************)
(* The refinement                                                           *)
(***************************************************************************)

\* What the handler knows of a line.
KnownOf(line) == IF line.cut THEN [cut |-> TRUE, text |-> <<>>] ELSE line

LEMMA KnownIsSeq ==
    ASSUME lines \in Seq(Accepted)
    PROVE  Len(Known) = Len(lines) /\ DOMAIN Known = 1 .. Len(lines)
<1>1. Known = [k \in 1 .. Len(lines) |-> KnownOf(lines[k])] /\ Len(lines) \in Nat
  BY DEF Known, KnownOf
<1> QED BY <1>1

\* A read is an arrival: no whole line waits.
LEMMA ReadArrives ==
    ASSUME InBounds, InStream, NEW count \in 1 .. Size, Read(count)
    PROVE  Source!Arrive
<1>1. pc = "read" /\ lines' = lines /\ start \in Nat
  BY DEF Read, InBounds
<1>2. /\ stream \in Seq(Bytes) /\ lines \in Seq(Accepted) /\ Len(stream) \in Nat
  BY DEF InStream
<1>3. PICK e \in 0 .. Len(stream) : AcceptedUpTo(e) /\ Holds(e)
  BY <1>1 DEF InStream
<1>4. Seen = Len(stream)
  BY <1>1, <1>2 DEF Seen, Offset, Fill
<1>5. SepsUpTo(e) = Source!Ends
  <2>1. ASSUME NEW d \in Source!Ends PROVE d <= e
    <3>1. d \in 1 .. Len(stream) /\ stream[d] = Sep
      BY <2>1 DEF Source!Ends
    <3> QED BY <1>2, <1>3, <1>4, <3>1 DEF AcceptedUpTo
  <2> QED BY <2>1 DEF SepsUpTo
<1>6. Source!Cardinality(Source!Ends) = Len(Known)
  BY <1>2, <1>3, <1>5, KnownIsSeq, SameCardinality DEF AcceptedUpTo
<1>7. ~Source!Waiting
  <2>1. Len(Known) \in Nat
    BY <1>2, KnownIsSeq
  <2> QED BY <1>6, <2>1 DEF Source!Waiting
<1>8. Known' = Known
  BY <1>1 DEF Known
<1>9. \E c \in 1 .. Size : \E bytes \in [1 .. c -> Bytes] : stream' = stream \o bytes
  BY DEF Read
<1> QED BY <1>7, <1>8, <1>9 DEF Source!Arrive

\* An accepted line is the one to hand out next.
LEMMA AcceptHandsOut ==
    ASSUME InBounds, InStream, NEW j \in Indices, HandlerAccepts(j)
    PROVE  Source!HandOut
<1>1. /\ FindsSep(j) /\ pc = "scan" /\ stream' = stream /\ truncated \in BOOLEAN
      /\ lines' = Append(lines, [text |-> Text(afsep, j), cut |-> truncated])
  BY DEF HandlerAccepts, FindsSep, InBounds
<1>2. /\ stream \in Seq(Bytes) /\ Len(stream) \in Nat /\ lines \in Seq(Accepted) /\ Len(lines) \in Nat
  BY DEF InStream
<1>3. PICK e \in 0 .. Len(stream) : AcceptedUpTo(e) /\ Holds(e)
  BY <1>1 DEF InStream
<1> DEFINE f == Offset + j + 1
           text == SubSeq(stream, e + 1, f - 1)
           line == [text |-> Text(afsep, j), cut |-> truncated]
<1>4. /\ f \in Source!Ends /\ Cardinality(SepsUpTo(f)) = Len(lines) + 1
      /\ Source!LineText(Len(lines) + 1) = text
  BY <1>1, <1>3, NextLine
<1>5. /\ Text(afsep, j) \in Seq(Bytes \cup {Nul})
      /\ IF truncated THEN ~(Len(text) < Size) ELSE Len(text) < Size /\ text = Text(afsep, j)
  BY <1>1, <1>3, TextOfLine
<1>6. line \in Accepted /\ line.cut = truncated /\ line.text = Text(afsep, j)
  BY <1>1, <1>5, Zenon DEF Accepted
<1> HIDE DEF f
<1>7. Len(Known) = Len(lines)
  BY <1>2, KnownIsSeq
<1>8. Source!Waiting
  <2>1. SepsUpTo(f) \in SUBSET Source!Ends
    BY DEF SepsUpTo
  <2>2. IsFiniteSet(Source!Ends) /\ Cardinality(Source!Ends) \in Nat
    BY <1>2, SepsCounted, FS_CardinalityType
  <2>3. Cardinality(SepsUpTo(f)) <= Cardinality(Source!Ends)
    BY <2>1, <2>2, FS_Subset
  <2>4. Cardinality(Source!Ends) > Len(Known)
    BY <1>2, <1>4, <1>7, <2>2, <2>3
  <2> QED BY <2>4, SameCardinality DEF Source!Waiting
<1>9. KnownOf(line) = Source!Handed(text)
  <2>1. CASE truncated
    <3>1. ~(Len(text) < Size)
      BY <1>5, <2>1
    <3>2. line.cut
      BY <1>6, <2>1
    <3> HIDE DEF text, line
    <3> QED BY <3>1, <3>2 DEF KnownOf, Source!Handed
  <2>2. CASE ~truncated
    <3>1. Len(text) < Size /\ text = Text(afsep, j) /\ truncated = FALSE
      BY <1>1, <1>5, <2>2
    <3>2. line = [cut |-> FALSE, text |-> text]
      BY <3>1
    <3>3. ~line.cut
      BY <1>6, <2>2
    <3> HIDE DEF text, line
    <3> QED BY <3>1, <3>2, <3>3 DEF KnownOf, Source!Handed
  <2> QED BY <1>1, <2>1, <2>2
<1> HIDE DEF text, line
<1>10. Known' = Append(Known, KnownOf(line))
  <2>1. lines' = Append(lines, line)
    BY <1>1 DEF line
  <2>2. /\ Len(lines') = Len(lines) + 1 /\ lines'[Len(lines) + 1] = line
        /\ \A k \in 1 .. Len(lines) : lines'[k] = lines[k]
        /\ lines' \in Seq(Accepted)
    BY <1>2, <1>6, <2>1
  <2>3. /\ Known = [k \in 1 .. Len(lines) |-> KnownOf(lines[k])]
        /\ Known' = [k \in 1 .. Len(lines) + 1 |-> KnownOf(lines'[k])]
    BY <1>2, <2>2 DEF Known, KnownOf
  <2>4. Append(Known, KnownOf(line)) =
            [k \in 1 .. Len(lines) + 1 |-> IF k <= Len(lines) THEN Known[k] ELSE KnownOf(line)]
    <3> DEFINE K == {KnownOf(lines[k]) : k \in 1 .. Len(lines)} \cup {KnownOf(line)}
    <3>1. Known \in [1 .. Len(lines) -> K] /\ KnownOf(line) \in K
      BY <2>3
    <3> HIDE DEF K
    <3>2. Known \in Seq(K)
      BY <1>2, <3>1
    <3> DEFINE a == Append(Known, KnownOf(line))
    <3>3. /\ a \in Seq(K) /\ Len(a) = Len(Known) + 1 /\ a[Len(Known) + 1] = KnownOf(line)
          /\ \A k \in 1 .. Len(Known) : a[k] = Known[k]
      BY <3>1, <3>2, AppendProperties
    <3> HIDE DEF a
    <3>4. a = [k \in 1 .. Len(lines) + 1 |-> a[k]]
      BY <1>7, <3>3
    <3>5. \A k \in 1 .. Len(lines) + 1 : a[k] = IF k <= Len(lines) THEN Known[k] ELSE KnownOf(line)
      BY <1>2, <1>7, <3>3
    <3> QED BY <3>4, <3>5 DEF a
  <2>5. ASSUME NEW k \in 1 .. Len(lines) + 1
        PROVE  KnownOf(lines'[k]) = IF k <= Len(lines) THEN Known[k] ELSE KnownOf(line)
    <3>1. CASE k <= Len(lines)
      <4>1. k \in 1 .. Len(lines)
        BY <1>2, <2>5, <3>1
      <4> QED BY <2>2, <2>3, <3>1, <4>1
    <3>2. CASE ~(k <= Len(lines))
      <4>1. k = Len(lines) + 1
        BY <1>2, <2>5, <3>2
      <4> QED BY <2>2, <3>2, <4>1
    <3> QED BY <3>1, <3>2
  <2> QED BY <2>3, <2>4, <2>5
<1> QED BY <1>1, <1>4, <1>7, <1>8, <1>9, <1>10 DEF Source!HandOut

\* The line buffer is a line source, for every buffer size and every stream, however the
\* reads of line_buf_read cut it up and however often line_buf_replay goes over it: every
\* line once, in order, byte for byte, and flagged exactly when it does not fit.
THEOREM HandsOutLines == Spec => ImplementsLineSource
<1>1. Init => Source!Init
  <2> SUFFICES ASSUME Init PROVE Source!Init
    OBVIOUS
  <2>1. stream = <<>> /\ lines = <<>>
    BY DEF Init
  <2>2. Known = <<>>
    BY <2>1 DEF Known
  <2> QED BY <2>1, <2>2 DEF Source!Init
<1>2. InBounds /\ InStream /\ [Next]_vars => [Source!Next]_(Source!vars)
  <2> SUFFICES ASSUME InBounds, InStream, [Next]_vars PROVE [Source!Next]_(Source!vars)
    OBVIOUS
  <2>1. ASSUME NEW count \in 1 .. Size, Read(count) PROVE Source!Next
    BY <2>1, ReadArrives DEF Source!Next
  <2>2. ASSUME NEW j \in Indices, HandlerAccepts(j) PROVE Source!Next
    BY <2>2, AcceptHandsOut DEF Source!Next
  <2>3. CASE \/ \E j \in Indices : HandlerTrampolines(j) \/ HandlerStops(j)
             \/ ReadEnds \/ ScanEnds \/ Stopped \/ UNCHANGED vars
    <3>1. stream' = stream /\ lines' = lines
      BY <2>3 DEF HandlerTrampolines, HandlerStops, ReadEnds, ScanEnds, Stopped, vars
    <3> QED BY <3>1 DEF Source!vars, Known
  <2> QED BY <2>1, <2>2, <2>3 DEF Next
<1>3. Spec => []InStream
  BY BufferInBounds, InitInStream, NextInStream, PTL DEF Spec
<1> QED BY <1>1, <1>2, <1>3, BufferInBounds, PTL DEF Spec, ImplementsLineSource, Source!Spec
=============================================================================
