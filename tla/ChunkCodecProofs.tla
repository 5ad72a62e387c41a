-------------------------- MODULE ChunkCodecProofs --------------------------
(***************************************************************************)
(* Proofs about ChunkCodec, for any number of cells and any byte width.    *)
(*                                                                         *)
(* The pairs written so far tile the cells before the current run: each    *)
(* says what its span of cells holds, and the spans of an array follow one *)
(* another from the first cell.  The decoder walks over the same spans.    *)
(***************************************************************************)
EXTENDS ChunkCodec, SequenceTheorems, TLAPS

\* Pair n holds for the cells of its span.
SpansMatch ==
  /\ Len(span) = Len(data)
  /\ \A n \in 1..Len(data) :
       /\ span[n].to - span[n].from + 1 = data[n].count
       /\ \A m \in Cell : span[n].from <= m /\ m <= span[n].to
            => chunk[span[n].array][m] = data[n].value

\* The last cell of its array that is before the span of pair n.
Before(n) == IF n > 1 /\ span[n - 1].array = span[n].array THEN span[n - 1].to ELSE 0

SpansTile ==
  \A n \in 1..Len(data) :
    /\ span[n].from = Before(n) + 1
    /\ n <= span[n].to + (IF span[n].array = 1 THEN 0 ELSE Size)

FirstDone == phase # "encode" \/ a = 2

Sections ==
  /\ ~FirstDone => \A n \in 1..Len(data) : span[n].array = 1
  /\ FirstDone => /\ header[1] \in 1..Len(data) /\ span[header[1]].to = Size
                  /\ \A n \in 1..Len(data) : span[n].array = IF n <= header[1] THEN 1 ELSE 2
  /\ phase # "encode" => /\ Len(data) = header[1] + header[2] /\ header[2] >= 1
                         /\ span[Len(data)].to = Size

\* The cells of the current array that the pairs cover.
Reached == IF Len(data) > 0 /\ span[Len(data)].array = a THEN span[Len(data)].to ELSE 0

CurrentRun ==
  phase = "encode" =>
    /\ first => i = 0 /\ count = 1 /\ Reached = 0 /\ lastVal # chunk[a][1]
    /\ ~first =>
         /\ count <= i /\ Reached = i - count
         /\ \A m \in Cell : i - count < m /\ m <= i => chunk[a][m] = lastVal
         /\ Reached > 0 => data[Len(data)].value # lastVal \/ data[Len(data)].count = MaxCount

Start(b) == IF b = 1 THEN 0 ELSE header[1]

Decoding ==
  /\ phase = "encode" => k = 1 /\ j = 0 /\ result[1] = <<>> /\ result[2] = <<>>
  /\ phase = "decode" =>
       /\ Start(a) < k /\ k <= EndOf(a) + 1
       /\ a = 1 => result[2] = <<>>
       /\ a = 2 => Len(result[1]) = Size
       /\ k <= EndOf(a) => j <= data[k].count /\ Len(result[a]) = span[k].from - 1 + j
       /\ k > EndOf(a)  => j = 0 /\ Len(result[a]) = Size

CodecInv ==
  /\ TypeOK /\ SpansMatch /\ SpansTile /\ Sections /\ CurrentRun /\ Decoding
  /\ RoundTrip /\ RunsMaximal

-----------------------------------------------------------------------------
(* Arithmetic of bytes.                                                    *)
LEMMA SmallModulo ==
  ASSUME NEW n \in Nat, NEW d \in Nat, n < d PROVE n % d = n
  BY SMT

LEMMA FullModulo ==
  ASSUME NEW d \in Nat, d > 0 PROVE d % d = 0
  BY SMT

LEMMA UnlikeFacts ==
  ASSUME NEW v \in Byte PROVE Unlike(v) \in Byte /\ Unlike(v) # v
<1>1. CASE v + 1 < ByteLimit
  <2>1. v + 1 \in Nat /\ (v + 1) % ByteLimit = v + 1
    BY <1>1, SmallModulo, ConstantsAssumption DEF Byte
  <2>2. QED BY <1>1, <2>1, ConstantsAssumption DEF Unlike, Byte
<1>2. CASE v + 1 = ByteLimit
  <2>1. (v + 1) % ByteLimit = 0
    BY <1>2, FullModulo, ConstantsAssumption
  <2>2. QED BY <1>2, <2>1, ConstantsAssumption DEF Unlike, Byte
<1>3. QED BY <1>1, <1>2, ConstantsAssumption DEF Byte

-----------------------------------------------------------------------------
(* What a written run adds to data and span.                               *)
LEMMA AppendFacts ==
  ASSUME NEW S, NEW l \in Seq(S), NEW e \in S
  PROVE  /\ Append(l, e) \in Seq(S)
         /\ Len(Append(l, e)) = Len(l) + 1
         /\ \A n \in 1..Len(l) : Append(l, e)[n] = l[n]
         /\ Append(l, e)[Len(l) + 1] = e
  OBVIOUS

LEMMA WriteRunFacts ==
  ASSUME TypeOK, Len(span) = Len(data), count <= i, WriteRun
  PROVE  /\ data' \in Seq(PairSet) /\ span' \in Seq(SpanSet)
         /\ Len(data') = Len(data) + 1 /\ Len(span') = Len(data) + 1
         /\ \A n \in 1..Len(data) : data'[n] = data[n] /\ span'[n] = span[n]
         /\ data'[Len(data) + 1] = Pair(lastVal, count)
         /\ span'[Len(data) + 1] = Span(a, i - count + 1, i)
<1>1. Pair(lastVal, count) \in PairSet
  BY DEF TypeOK, Pair, PairSet
<1>2. i - count + 1 \in Cell /\ i \in Cell
  BY ConstantsAssumption DEF TypeOK, Cell, MaxCount
<1>3. Span(a, i - count + 1, i) \in SpanSet
  BY <1>2 DEF TypeOK, Span, SpanSet
<1>4. data \in Seq(PairSet) /\ span \in Seq(SpanSet)
  BY DEF TypeOK
<1>5. /\ data' = Append(data, Pair(lastVal, count))
      /\ span' = Append(span, Span(a, i - count + 1, i))
  BY DEF WriteRun
<1> HIDE DEF WriteRun, TypeOK
<1>6. QED BY <1>1, <1>3, <1>4, <1>5, AppendFacts

\* A written run continues the tiling.
LEMMA WriteRunKeeps ==
  ASSUME TypeOK, SpansMatch, SpansTile, Sections, CurrentRun, RunsMaximal,
         phase = "encode", ~first, WriteRun, chunk' = chunk
  PROVE  SpansMatch' /\ SpansTile' /\ RunsMaximal'
<1> DEFINE N == Len(data)
<1>1. /\ count <= i /\ Reached = i - count
      /\ \A m \in Cell : i - count < m /\ m <= i => chunk[a][m] = lastVal
      /\ Reached > 0 => data[N].value # lastVal \/ data[N].count = MaxCount
  BY DEF CurrentRun
<1>2. Len(span) = N /\ N \in Nat
  BY DEF SpansMatch, TypeOK
<1>3. /\ data' \in Seq(PairSet) /\ span' \in Seq(SpanSet)
      /\ Len(data') = N + 1 /\ Len(span') = N + 1
      /\ \A n \in 1..N : data'[n] = data[n] /\ span'[n] = span[n]
      /\ data'[N + 1] = Pair(lastVal, count)
      /\ span'[N + 1] = Span(a, i - count + 1, i)
  BY <1>1, <1>2, WriteRunFacts
<1>4. /\ i \in Nat /\ count \in Nat /\ a \in {1, 2} /\ i <= Size
      /\ \A n \in 1..N : /\ span[n].array \in {1, 2} /\ span[n].from \in Nat /\ span[n].to \in Nat
                         /\ span[n].to >= 1 /\ span[n].to <= Size
  <2>1. i \in Nat /\ count \in Nat /\ a \in {1, 2} /\ i <= Size
    BY ConstantsAssumption DEF TypeOK, Array, MaxCount
  <2>2. \A n \in 1..N : span[n] \in SpanSet
    BY <1>2 DEF TypeOK
  <2>3. \A s \in SpanSet : /\ s.array \in {1, 2} /\ s.from \in Nat /\ s.to \in Nat
                          /\ s.to >= 1 /\ s.to <= Size
    BY ConstantsAssumption DEF SpanSet, Array, Cell
  <2>4. QED BY <2>1, <2>2, <2>3
<1>5. /\ span'[N + 1].array = a /\ span'[N + 1].from = i - count + 1 /\ span'[N + 1].to = i
      /\ data'[N + 1].value = lastVal /\ data'[N + 1].count = count
  BY <1>3 DEF Span, Pair
<1> HIDE DEF N
<1>6. SpansMatch'
  <2>1. ASSUME NEW n \in 1..(N + 1)
        PROVE  /\ span'[n].to - span'[n].from + 1 = data'[n].count
               /\ \A m \in Cell : span'[n].from <= m /\ m <= span'[n].to
                    => chunk[span'[n].array][m] = data'[n].value
    <3>1. CASE n \in 1..N
      BY <1>3, <3>1 DEF SpansMatch, N
    <3>2. CASE n = N + 1
      <4>1. \A m \in Cell : m \in Nat
        BY DEF Cell
      <4>2. QED BY <1>1, <1>4, <1>5, <3>2, <4>1
    <3>3. QED BY <1>2, <3>1, <3>2
  <2>2. QED BY <1>3, <2>1 DEF SpansMatch
<1>7. SpansTile'
  <2>1. ASSUME NEW n \in 1..(N + 1)
        PROVE  /\ span'[n].from = Before(n)' + 1
               /\ n <= span'[n].to + (IF span'[n].array = 1 THEN 0 ELSE Size)
    <3>1. CASE n \in 1..N
      <4>1. n > 1 => n - 1 \in 1..N
        BY <1>2, <3>1
      <4>2. Before(n)' = Before(n)
        BY <1>3, <3>1, <4>1 DEF Before
      <4>3. QED BY <1>3, <3>1, <4>2 DEF SpansTile, N
    <3>2. CASE n = N + 1
      <4>1. CASE N = 0
        <5>1. Before(n)' = 0
          BY <3>2, <4>1 DEF Before
        <5>2. Reached = 0
          BY <4>1 DEF Reached, N
        <5>3. QED BY <1>1, <1>4, <1>5, <3>2, <4>1, <5>1, <5>2, ConstantsAssumption
                  DEF TypeOK, MaxCount
      <4>2. CASE N > 0
        <5>1. N \in 1..N /\ n > 1 /\ n - 1 = N
          BY <1>2, <3>2, <4>2
        <5>2. Before(n)' = IF span[N].array = a THEN span[N].to ELSE 0
          BY <1>3, <1>5, <3>2, <5>1 DEF Before
        <5>3. Before(n)' = i - count
          BY <1>1, <4>2, <5>2 DEF Reached, N
        <5>4. N <= span[N].to + (IF span[N].array = 1 THEN 0 ELSE Size)
          BY <5>1 DEF SpansTile, N
        <5>5. i >= 1 /\ i >= count /\ count >= 1
          BY <1>1, <1>4, ConstantsAssumption DEF TypeOK, MaxCount
        <5>6. CASE span[N].array = a
          <6>1. span[N].to = i - count
            BY <5>2, <5>3, <5>6
          <6>2. QED BY <1>2, <1>4, <1>5, <3>2, <5>3, <5>4, <5>5, <5>6, <6>1, ConstantsAssumption
        <5>7. CASE span[N].array # a
          <6>1. a = 2 /\ span[N].array = 1
            BY <1>4, <5>1, <5>7 DEF Sections, FirstDone, N
          <6>2. N <= Size
            BY <1>2, <1>4, <5>1, <5>4, <6>1, ConstantsAssumption
          <6>3. QED BY <1>2, <1>4, <1>5, <3>2, <5>3, <5>5, <6>1, <6>2, ConstantsAssumption
        <5>8. QED BY <5>6, <5>7
      <4>3. QED BY <1>2, <4>1, <4>2
    <3>3. QED BY <1>2, <3>1, <3>2
  <2>2. QED BY <1>3, <2>1 DEF SpansTile
<1>8. RunsMaximal'
  <2>1. ASSUME NEW n \in 1..(N + 1), n > 1, span'[n - 1].array = span'[n].array
        PROVE  data'[n].value # data'[n - 1].value \/ data'[n - 1].count = MaxCount
    <3>1. n - 1 \in 1..N
      BY <1>2, <2>1
    <3>2. CASE n \in 1..N
      <4>1. DOMAIN data = 1..N
        BY DEF TypeOK, N
      <4>2. span[n - 1].array = span[n].array
        BY <1>3, <2>1, <3>1, <3>2
      <4>3. QED BY <1>3, <2>1, <3>1, <3>2, <4>1, <4>2 DEF RunsMaximal
    <3>3. CASE n = N + 1
      <4>1. n - 1 = N /\ N > 0 /\ N \in 1..N
        BY <1>2, <2>1, <3>3
      <4>2. span[N].array = a
        BY <1>3, <1>5, <2>1, <3>3, <4>1
      <4>3. Reached > 0
        BY <1>4, <4>1, <4>2 DEF Reached, N
      <4>4. QED BY <1>1, <1>3, <1>5, <3>3, <4>1, <4>3
    <3>4. QED BY <1>2, <3>2, <3>3
  <2>2. DOMAIN data' = 1..(N + 1)
    BY <1>3
  <2>3. QED BY <2>1, <2>2 DEF RunsMaximal
<1>9. QED BY <1>6, <1>7, <1>8

-----------------------------------------------------------------------------
\* The types of what the pairs and spans hold.
LEMMA ElementTypes ==
  ASSUME TypeOK, SpansMatch
  PROVE  /\ Len(data) \in Nat /\ Len(span) = Len(data)
         /\ \A n \in 1..Len(data) :
              /\ data[n].value \in Byte /\ data[n].count \in 1..MaxCount
              /\ span[n].array \in Array /\ span[n].from \in Cell /\ span[n].to \in Cell
<1>1. Len(data) \in Nat /\ Len(span) = Len(data)
  BY DEF TypeOK, SpansMatch
<1>2. \A n \in 1..Len(data) : data[n] \in PairSet /\ span[n] \in SpanSet
  BY <1>1 DEF TypeOK
<1>3. /\ \A e \in PairSet : e.value \in Byte /\ e.count \in 1..MaxCount
      /\ \A e \in SpanSet : e.array \in Array /\ e.from \in Cell /\ e.to \in Cell
  BY DEF PairSet, SpanSet
<1>4. QED BY <1>1, <1>2, <1>3

LEMMA InitInv == Init => CodecInv
<1> SUFFICES ASSUME Init PROVE CodecInv
  OBVIOUS
<1> USE DEF Init
<1>1. chunk[1][1] \in Byte
  BY ConstantsAssumption DEF Array, Cell
<1>2. lastVal \in Byte /\ lastVal # chunk[1][1]
  BY <1>1, UnlikeFacts
<1>3. TypeOK
  <2>1. data \in Seq(PairSet) /\ span \in Seq(SpanSet) /\ result \in [Array -> Seq(Byte)]
    OBVIOUS
  <2>2. i \in 0..Size /\ count \in 1..MaxCount /\ j \in 0..MaxCount /\ k \in Nat \ {0}
    BY ConstantsAssumption DEF MaxCount
  <2>3. header \in [Array -> Nat] /\ a \in Array
    BY DEF Array
  <2>4. QED BY <1>2, <2>1, <2>2, <2>3 DEF TypeOK
<1>4. SpansMatch /\ SpansTile /\ RunsMaximal
  BY DEF SpansMatch, SpansTile, RunsMaximal
<1>5. Sections
  BY DEF Sections, FirstDone
<1>6. CurrentRun
  BY <1>2 DEF CurrentRun, Reached
<1>7. Decoding /\ RoundTrip
  BY DEF Decoding, RoundTrip, Array
<1>8. QED BY <1>3, <1>4, <1>5, <1>6, <1>7 DEF CodecInv

-----------------------------------------------------------------------------
(* One lemma per action.                                                   *)

LEMMA ExtendRunInv == CodecInv /\ ExtendRun => CodecInv'
<1> SUFFICES ASSUME CodecInv, ExtendRun PROVE CodecInv'
  OBVIOUS
<1>1. /\ TypeOK /\ SpansMatch /\ SpansTile /\ Sections /\ CurrentRun /\ Decoding
      /\ RoundTrip /\ RunsMaximal
  BY DEF CodecInv
<1>2. /\ phase = "encode" /\ i < Size /\ i' = i + 1
      /\ chunk[a][i + 1] = lastVal /\ count < MaxCount /\ count' = (count + 1) % ByteLimit
  BY DEF ExtendRun, Extends
<1>3. /\ UNCHANGED <<chunk, phase, a, lastVal, first, data, header, span>>
      /\ k' = k /\ j' = j /\ result' = result
  BY DEF ExtendRun, decoder
<1>4. i \in Nat /\ count \in Nat /\ count >= 1
  BY <1>1, ConstantsAssumption DEF TypeOK, MaxCount
<1>5. count' = count + 1
  BY <1>2, <1>4, SmallModulo, ConstantsAssumption DEF MaxCount
<1>6. ~first
  BY <1>1, <1>2 DEF CurrentRun
<1>7. TypeOK'
  BY <1>1, <1>2, <1>3, <1>4, <1>5, ConstantsAssumption DEF TypeOK, MaxCount
<1>8. SpansMatch' /\ SpansTile' /\ RunsMaximal' /\ Sections'
  <2>1. Before(1)' = Before(1) /\ \A n \in 1..Len(data) : Before(n)' = Before(n)
    BY <1>3 DEF Before
  <2>2. SpansMatch' /\ RunsMaximal'
    BY <1>1, <1>3 DEF SpansMatch, RunsMaximal
  <2>3. SpansTile'
    BY <1>1, <1>3, <2>1 DEF SpansTile
  <2>4. Sections'
    BY <1>1, <1>3 DEF Sections, FirstDone
  <2>5. QED BY <2>2, <2>3, <2>4
<1>9. CurrentRun'
  <2>1. Reached' = Reached
    BY <1>3 DEF Reached
  <2>2. count <= i /\ Reached = i - count
    BY <1>1, <1>2, <1>6 DEF CurrentRun
  <2>3. \A m \in Cell : i + 1 - (count + 1) < m /\ m <= i + 1 => chunk[a][m] = lastVal
    <3>1. \A m \in Cell : i - count < m /\ m <= i => chunk[a][m] = lastVal
      BY <1>1, <1>2, <1>6 DEF CurrentRun
    <3>2. QED BY <1>2, <1>4, <3>1 DEF Cell
  <2>4. Reached > 0 => data[Len(data)].value # lastVal \/ data[Len(data)].count = MaxCount
    BY <1>1, <1>2, <1>6 DEF CurrentRun
  <2>5. QED BY <1>2, <1>3, <1>4, <1>5, <1>6, <2>1, <2>2, <2>3, <2>4 DEF CurrentRun
<1>10. Decoding' /\ RoundTrip'
  <2>1. Decoding'
    BY <1>1, <1>2, <1>3 DEF Decoding
  <2>2. RoundTrip'
    BY <1>1, <1>3 DEF RoundTrip
  <2>3. QED BY <2>1, <2>2
<1>11. QED BY <1>7, <1>8, <1>9, <1>10 DEF CodecInv

LEMMA NewRunInv == CodecInv /\ NewRun => CodecInv'
<1> SUFFICES ASSUME CodecInv, NewRun PROVE CodecInv'
  OBVIOUS
<1>1. /\ TypeOK /\ SpansMatch /\ SpansTile /\ Sections /\ CurrentRun /\ Decoding
      /\ RoundTrip /\ RunsMaximal
  BY DEF CodecInv
<1>2. /\ phase = "encode" /\ i < Size /\ i' = i + 1
      /\ ~(chunk[a][i + 1] = lastVal /\ count < MaxCount)
      /\ first' = FALSE /\ lastVal' = chunk[a][i + 1] /\ count' = 1
      /\ IF first THEN UNCHANGED <<data, span>> ELSE WriteRun
  BY DEF NewRun, Extends
<1>3. /\ UNCHANGED <<chunk, phase, a, header>>
      /\ k' = k /\ j' = j /\ result' = result
  BY DEF NewRun, decoder
<1>4. i \in Nat /\ count \in 1..MaxCount /\ Len(data) \in Nat /\ a \in Array
  BY <1>1 DEF TypeOK
<1>5. i + 1 \in Cell /\ chunk[a][i + 1] \in Byte
  BY <1>1, <1>2, <1>4, ConstantsAssumption DEF TypeOK, Cell
<1>6. Decoding' /\ RoundTrip'
  <2>1. Decoding'
    BY <1>1, <1>2, <1>3 DEF Decoding
  <2>2. RoundTrip'
    BY <1>1, <1>3 DEF RoundTrip
  <2>3. QED BY <2>1, <2>2
<1>7. /\ chunk' \in [Array -> [Cell -> Byte]] /\ phase' \in {"encode", "decode", "done"}
      /\ a' \in Array /\ i' \in 0..Size /\ lastVal' \in Byte /\ count' \in 1..MaxCount
      /\ first' \in BOOLEAN /\ header' \in [Array -> Nat] /\ k' \in Nat \ {0}
      /\ j' \in 0..MaxCount /\ result' \in [Array -> Seq(Byte)]
  <2>1. i' \in 0..Size
    BY <1>2, <1>4, ConstantsAssumption
  <2>2. lastVal' \in Byte
    BY <1>2, <1>5
  <2>3. count' \in 1..MaxCount
    BY <1>2, ConstantsAssumption DEF MaxCount
  <2>4. first' \in BOOLEAN
    BY <1>2
  <2>5. QED BY <1>1, <1>3, <2>1, <2>2, <2>3, <2>4 DEF TypeOK
<1>8. \A m \in Cell : i + 1 - 1 < m /\ m <= i + 1 => m = i + 1
  BY <1>4 DEF Cell
<1>9. CASE first
  <2>1. UNCHANGED <<data, span>> /\ i = 0 /\ Reached = 0
    BY <1>1, <1>2, <1>9 DEF CurrentRun
  <2>2. TypeOK'
    BY <1>1, <1>7, <2>1 DEF TypeOK
  <2>3. \A n \in 1..Len(data) : Before(n)' = Before(n)
    BY <2>1 DEF Before
  <2>4. SpansMatch' /\ RunsMaximal'
    BY <1>1, <1>3, <2>1 DEF SpansMatch, RunsMaximal
  <2>5. SpansTile'
    BY <1>1, <2>1, <2>3 DEF SpansTile
  <2>6. Sections'
    BY <1>1, <1>3, <2>1 DEF Sections, FirstDone
  <2>7. Reached' = 0
    BY <1>3, <2>1 DEF Reached
  <2>8. CurrentRun'
    BY <1>2, <1>3, <1>8, <2>1, <2>7 DEF CurrentRun
  <2>9. QED BY <1>6, <2>2, <2>4, <2>5, <2>6, <2>8 DEF CodecInv
<1>10. CASE ~first
  <2>1. WriteRun /\ count <= i /\ Reached = i - count
    BY <1>1, <1>2, <1>10 DEF CurrentRun
  <2>2. /\ data' \in Seq(PairSet) /\ span' \in Seq(SpanSet)
        /\ Len(data') = Len(data) + 1 /\ Len(span') = Len(data) + 1
        /\ \A n \in 1..Len(data) : data'[n] = data[n] /\ span'[n] = span[n]
        /\ data'[Len(data) + 1] = Pair(lastVal, count)
        /\ span'[Len(data) + 1] = Span(a, i - count + 1, i)
    BY <1>1, <2>1, WriteRunFacts DEF SpansMatch
  <2>3. SpansMatch' /\ SpansTile' /\ RunsMaximal'
    BY <1>1, <1>2, <1>3, <1>10, <2>1, WriteRunKeeps
  <2>4. TypeOK'
    BY <1>7, <2>2 DEF TypeOK
  <2>5. Sections'
    <3>1. span'[Len(data) + 1].array = a
      BY <2>2 DEF Span
    <3>2. CASE a = 1
      <4>1. ~FirstDone /\ ~FirstDone'
        BY <1>2, <1>3, <3>2 DEF FirstDone
      <4>2. \A n \in 1..(Len(data) + 1) : span'[n].array = 1
        <5>1. ASSUME NEW n \in 1..(Len(data) + 1) PROVE span'[n].array = 1
          <6>1. CASE n \in 1..Len(data)
            BY <1>1, <2>2, <4>1, <6>1 DEF Sections
          <6>2. CASE n = Len(data) + 1
            BY <3>1, <3>2, <6>2
          <6>3. QED BY <1>4, <6>1, <6>2
        <5>2. QED BY <5>1
      <4>3. QED BY <1>2, <1>3, <2>2, <4>1, <4>2 DEF Sections
    <3>3. CASE a = 2
      <4>1. FirstDone /\ FirstDone'
        BY <1>3, <3>3 DEF FirstDone
      <4>2. header[1] \in 1..Len(data) /\ span[header[1]].to = Size
        BY <1>1, <4>1 DEF Sections
      <4>3. \A n \in 1..(Len(data) + 1) : span'[n].array = IF n <= header[1] THEN 1 ELSE 2
        <5>1. ASSUME NEW n \in 1..(Len(data) + 1)
              PROVE span'[n].array = IF n <= header[1] THEN 1 ELSE 2
          <6>1. CASE n \in 1..Len(data)
            BY <1>1, <2>2, <4>1, <6>1 DEF Sections
          <6>2. CASE n = Len(data) + 1
            BY <1>4, <3>1, <3>3, <4>2, <6>2
          <6>3. QED BY <1>4, <6>1, <6>2
        <5>2. QED BY <5>1
      <4>4. header'[1] \in 1..Len(data') /\ span'[header'[1]].to = Size
        BY <1>3, <1>4, <2>2, <4>2
      <4>5. QED BY <1>2, <1>3, <2>2, <4>1, <4>3, <4>4 DEF Sections
    <3>4. QED BY <1>4, <3>2, <3>3 DEF Array
  <2>6. CurrentRun'
    <3>1. span'[Len(data) + 1].array = a /\ span'[Len(data) + 1].to = i
      BY <2>2 DEF Span
    <3>2. Reached' = i
      BY <1>3, <1>4, <2>2, <3>1 DEF Reached
    <3>3. data'[Len(data')].value # lastVal' \/ data'[Len(data')].count = MaxCount
      <4>1. data'[Len(data')].value = lastVal /\ data'[Len(data')].count = count
        BY <2>2 DEF Pair
      <4>2. QED BY <1>2, <1>4, <4>1, ConstantsAssumption DEF MaxCount
    <3>4. QED BY <1>2, <1>3, <1>4, <1>8, <3>2, <3>3 DEF CurrentRun
  <2>7. QED BY <1>6, <2>3, <2>4, <2>5, <2>6 DEF CodecInv
<1>11. QED BY <1>9, <1>10

LEMMA FinishRunInv == CodecInv /\ FinishRun => CodecInv'
<1> SUFFICES ASSUME CodecInv, FinishRun PROVE CodecInv'
  OBVIOUS
<1> DEFINE N == Len(data)
<1>1. /\ TypeOK /\ SpansMatch /\ SpansTile /\ Sections /\ CurrentRun /\ Decoding
      /\ RoundTrip /\ RunsMaximal
  BY DEF CodecInv
<1>2. /\ phase = "encode" /\ i = Size /\ WriteRun
      /\ header' = [header EXCEPT ![a] = N + 1 - (IF a = 1 THEN 0 ELSE header[1])]
      /\ chunk' = chunk /\ k' = k /\ j' = j /\ result' = result
  BY DEF FinishRun, decoder
<1>3. ~first /\ count <= i
  BY <1>1, <1>2, ConstantsAssumption DEF CurrentRun
<1>4. N \in Nat /\ a \in {1, 2} /\ header \in [Array -> Nat] /\ header[1] \in Nat
  BY <1>1 DEF TypeOK, Array
<1>5. /\ data' \in Seq(PairSet) /\ span' \in Seq(SpanSet)
      /\ Len(data') = N + 1 /\ Len(span') = N + 1
      /\ \A n \in 1..N : data'[n] = data[n] /\ span'[n] = span[n]
      /\ span'[N + 1] = Span(a, i - count + 1, i)
  BY <1>1, <1>2, <1>3, WriteRunFacts DEF SpansMatch
<1>6. SpansMatch' /\ SpansTile' /\ RunsMaximal'
  BY <1>1, <1>2, <1>3, WriteRunKeeps
<1>7. span'[N + 1].array = a /\ span'[N + 1].to = Size
  BY <1>2, <1>5 DEF Span
<1>8. RoundTrip'
  <2>1. phase' # "done"
    BY <1>2 DEF FinishRun
  <2>2. QED BY <1>1, <1>2, <2>1 DEF RoundTrip
<1>9. k = 1 /\ j = 0 /\ result[1] = <<>> /\ result[2] = <<>>
  BY <1>1, <1>2 DEF Decoding
<1> HIDE DEF N
<1>10. CASE a = 1
  <2>1. /\ a' = 2 /\ i' = 0 /\ lastVal' = Unlike(chunk[2][1]) /\ count' = 1 /\ first' = TRUE
        /\ phase' = "encode"
    BY <1>2, <1>10 DEF FinishRun
  <2>2. header' \in [Array -> Nat] /\ header'[1] = N + 1
    BY <1>2, <1>4, <1>10 DEF Array
  <2>3. chunk[2][1] \in Byte
    BY <1>1, ConstantsAssumption DEF TypeOK, Array, Cell
  <2>4. lastVal' \in Byte /\ lastVal' # chunk[2][1]
    BY <2>1, <2>3, UnlikeFacts
  <2>5. TypeOK'
    <3>1. i' \in 0..Size /\ count' \in 1..MaxCount /\ a' \in Array
      BY <2>1, ConstantsAssumption DEF MaxCount, Array
    <3>2. QED BY <1>1, <1>2, <1>5, <2>1, <2>2, <2>4, <3>1 DEF TypeOK
  <2>6. Sections'
    <3>1. ~FirstDone
      BY <1>2, <1>10 DEF FirstDone
    <3>2. \A n \in 1..(N + 1) : span'[n].array = 1
      <4>1. ASSUME NEW n \in 1..(N + 1) PROVE span'[n].array = 1
        <5>1. CASE n \in 1..N
          BY <1>1, <1>5, <3>1, <5>1 DEF Sections, N
        <5>2. CASE n = N + 1
          BY <1>7, <1>10, <5>2
        <5>3. QED BY <1>4, <5>1, <5>2
      <4>2. QED BY <4>1
    <3>3. \A n \in 1..(N + 1) : n <= header'[1]
      BY <1>4, <2>2
    <3>4. header'[1] \in 1..Len(data') /\ span'[header'[1]].to = Size
      BY <1>4, <1>5, <1>7, <2>2
    <3>5. FirstDone'
      BY <2>1 DEF FirstDone
    <3>6. QED BY <1>5, <2>1, <3>2, <3>3, <3>4, <3>5 DEF Sections
  <2>7. CurrentRun'
    <3>1. Reached' = 0
      BY <1>5, <1>7, <1>10, <2>1 DEF Reached
    <3>2. QED BY <1>2, <2>1, <2>4, <3>1 DEF CurrentRun
  <2>8. Decoding'
    BY <1>2, <1>9, <2>1 DEF Decoding
  <2>9. QED BY <1>6, <1>8, <2>5, <2>6, <2>7, <2>8 DEF CodecInv
<1>11. CASE a = 2
  <2>1. a' = 1 /\ phase' = "decode" /\ i' = i /\ lastVal' = lastVal /\ count' = count /\ first' = first
    BY <1>2, <1>11 DEF FinishRun, encoder
  <2>2. /\ header[1] \in 1..N /\ span[header[1]].to = Size
        /\ \A n \in 1..N : span[n].array = IF n <= header[1] THEN 1 ELSE 2
    BY <1>1, <1>11 DEF Sections, FirstDone, N
  <2>3. N + 1 - header[1] \in Nat /\ N + 1 - header[1] >= 1
    BY <1>4, <2>2
  <2>4. header' \in [Array -> Nat] /\ header'[1] = header[1] /\ header'[2] = N + 1 - header[1]
    BY <1>2, <1>4, <1>11, <2>3 DEF Array
  <2>5. TypeOK'
    <3>1. a' \in Array
      BY <2>1 DEF Array
    <3>2. QED BY <1>1, <1>2, <1>5, <2>1, <2>4, <3>1 DEF TypeOK
  <2>6. Sections'
    <3>1. \A n \in 1..(N + 1) : span'[n].array = IF n <= header'[1] THEN 1 ELSE 2
      <4>1. ASSUME NEW n \in 1..(N + 1)
            PROVE span'[n].array = IF n <= header[1] THEN 1 ELSE 2
        <5>1. CASE n \in 1..N
          BY <1>5, <2>2, <5>1
        <5>2. CASE n = N + 1
          BY <1>4, <1>7, <1>11, <2>2, <5>2
        <5>3. QED BY <1>4, <5>1, <5>2
      <4>2. QED BY <2>4, <4>1
    <3>2. header'[1] \in 1..Len(data') /\ span'[header'[1]].to = Size
      BY <1>4, <1>5, <2>2, <2>4
    <3>3. Len(data') = header'[1] + header'[2] /\ header'[2] >= 1 /\ span'[Len(data')].to = Size
      BY <1>4, <1>5, <1>7, <2>3, <2>4
    <3>4. FirstDone'
      BY <2>1 DEF FirstDone
    <3>5. QED BY <1>5, <3>1, <3>2, <3>3, <3>4 DEF Sections
  <2>7. CurrentRun'
    BY <2>1 DEF CurrentRun
  <2>8. Decoding'
    <3>1. span'[1].from = 1
      <4>1. 1 \in 1..Len(data')
        BY <1>4, <1>5
      <4>2. Before(1)' = 0
        BY DEF Before
      <4>3. QED BY <1>6, <4>1, <4>2 DEF SpansTile
    <3>2. data'[1].count \in Nat
      <4>1. 1 \in 1..Len(data')
        BY <1>4, <1>5
      <4>2. data'[1] \in PairSet
        BY <1>5, <4>1
      <4>3. QED BY <4>2, ConstantsAssumption DEF PairSet, MaxCount
    <3>3. EndOf(1)' = header[1] /\ header[1] >= 1
      BY <2>2, <2>4 DEF EndOf
    <3>4. Start(1)' = 0
      BY DEF Start
    <3>5. EndOf(a)' = header[1] /\ Start(a)' = 0
      BY <2>1, <3>3, <3>4 DEF EndOf, Start
    <3>6. Len(result[1]) = 0
      BY <1>9
    <3>7. QED BY <1>2, <1>4, <1>9, <2>1, <3>1, <3>2, <3>3, <3>5, <3>6 DEF Decoding
  <2>9. QED BY <1>6, <1>8, <2>5, <2>6, <2>7, <2>8 DEF CodecInv
<1>12. QED BY <1>4, <1>10, <1>11

\* While an array is decoded, the pair belongs to it.
LEMMA PairAtHand ==
  ASSUME TypeOK, SpansMatch, Sections, Decoding, phase = "decode"
  PROVE  /\ header[1] \in Nat /\ header[2] \in Nat /\ header[1] >= 1 /\ header[2] >= 1
         /\ Len(data) = header[1] + header[2]
         /\ k \in Nat /\ j \in Nat /\ a \in {1, 2}
         /\ \A n \in Nat : Start(a) < n /\ n <= EndOf(a) => n \in 1..Len(data) /\ span[n].array = a
         /\ span[EndOf(a)].to = Size /\ EndOf(a) \in Nat /\ Start(a) \in Nat
<1>1. FirstDone
  BY DEF FirstDone
<1>2. /\ header[1] \in 1..Len(data) /\ span[header[1]].to = Size
      /\ \A n \in 1..Len(data) : span[n].array = IF n <= header[1] THEN 1 ELSE 2
      /\ Len(data) = header[1] + header[2] /\ header[2] >= 1
      /\ span[Len(data)].to = Size
  BY <1>1 DEF Sections
<1>3. /\ header[1] \in Nat /\ header[2] \in Nat /\ k \in Nat /\ j \in Nat /\ a \in {1, 2}
  BY ConstantsAssumption DEF TypeOK, Array, MaxCount
<1>4. /\ EndOf(1) = header[1] /\ EndOf(2) = header[1] + header[2]
      /\ Start(1) = 0 /\ Start(2) = header[1]
  BY DEF EndOf, Start
<1>5. CASE a = 1
  BY <1>2, <1>3, <1>4, <1>5
<1>6. CASE a = 2
  BY <1>2, <1>3, <1>4, <1>6
<1>7. QED BY <1>3, <1>5, <1>6

\* Within the n cells of a span.
LEMMA SpanArithmetic ==
  \A f, t, q \in Nat :
    \A n \in Nat : f >= 1 /\ t - f + 1 = n /\ q < n => f + q \in Nat /\ f <= f + q /\ f + q <= t
  OBVIOUS

\* The steps of the decoder leave the pairs alone.
LEMMA PairsUnchanged ==
  ASSUME CodecInv, phase = "decode", phase' # "encode",
         UNCHANGED <<chunk, encoder, data, header, span>>
  PROVE  SpansMatch' /\ SpansTile' /\ Sections' /\ CurrentRun' /\ RunsMaximal'
<1>1. SpansMatch /\ SpansTile /\ Sections /\ RunsMaximal
  BY DEF CodecInv
<1>2. SpansMatch' /\ RunsMaximal'
  BY <1>1 DEF SpansMatch, RunsMaximal
<1>3. \A n \in 1..Len(data) : Before(n)' = Before(n)
  BY DEF Before
<1>4. SpansTile'
  BY <1>1, <1>3 DEF SpansTile
<1>5. Sections'
  BY <1>1 DEF Sections, FirstDone
<1>6. CurrentRun'
  BY DEF CurrentRun
<1>7. QED BY <1>2, <1>4, <1>5, <1>6

LEMMA DecodeByteInv == CodecInv /\ DecodeByte => CodecInv'
<1> SUFFICES ASSUME CodecInv, DecodeByte PROVE CodecInv'
  OBVIOUS
<1>1. TypeOK /\ SpansMatch /\ Sections /\ Decoding /\ RoundTrip
  BY DEF CodecInv
<1>2. /\ phase = "decode" /\ k <= EndOf(a) /\ j < data[k].count /\ j' = j + 1
      /\ result' = [result EXCEPT ![a] = Append(result[a], data[k].value)]
      /\ UNCHANGED <<chunk, phase, a, encoder, data, header, k, span>>
  BY DEF DecodeByte
<1>3. SpansMatch' /\ SpansTile' /\ Sections' /\ CurrentRun' /\ RunsMaximal'
  BY <1>2, PairsUnchanged
<1>4. Start(a) < k /\ j <= data[k].count /\ Len(result[a]) = span[k].from - 1 + j
  BY <1>1, <1>2 DEF Decoding
<1>5. k \in Nat /\ j \in Nat /\ a \in {1, 2} /\ k \in 1..Len(data) /\ span[k].array = a
  BY <1>1, <1>2, <1>4, PairAtHand
<1>6. /\ data[k].value \in Byte /\ data[k].count \in 1..MaxCount
      /\ span[k].from \in Cell /\ span[k].to \in Cell
      /\ span[k].to - span[k].from + 1 = data[k].count
  BY <1>1, <1>5, ElementTypes DEF SpansMatch
<1>7. /\ span[k].from \in Nat /\ span[k].from >= 1 /\ span[k].to \in Nat /\ span[k].to <= Size
      /\ data[k].count \in Nat /\ data[k].count <= MaxCount
  BY <1>6, ConstantsAssumption DEF Cell, MaxCount
<1>8. result \in [Array -> Seq(Byte)] /\ result[a] \in Seq(Byte) /\ a \in Array
  BY <1>1, <1>5 DEF TypeOK, Array
<1> DEFINE m == Len(result[a]) + 1
<1>9. /\ Append(result[a], data[k].value) \in Seq(Byte)
      /\ Len(Append(result[a], data[k].value)) = m
      /\ \A n \in 1..Len(result[a]) : Append(result[a], data[k].value)[n] = result[a][n]
      /\ Append(result[a], data[k].value)[m] = data[k].value
  BY <1>6, <1>8, AppendFacts
<1>10. m = span[k].from + j /\ m \in Cell /\ span[k].from <= m /\ m <= span[k].to
  <2>1. m = span[k].from + j
    <3>1. span[k].from - 1 + j + 1 = span[k].from + j
      BY <1>5, <1>7
    <3>2. QED BY <1>4, <3>1, Zenon
  <2>2. span[k].from + j \in Nat /\ span[k].from <= span[k].from + j /\ span[k].from + j <= span[k].to
    BY <1>2, <1>5, <1>6, <1>7, SpanArithmetic
  <2>3. span[k].from + j \in Cell
    BY <1>7, <2>2, ConstantsAssumption DEF Cell
  <2>4. QED BY <2>1, <2>2, <2>3, Zenon
<1>11. chunk[a][m] = data[k].value
  BY <1>1, <1>5, <1>10 DEF SpansMatch
<1>12. /\ result' \in [Array -> Seq(Byte)]
       /\ result'[a] = Append(result[a], data[k].value)
       /\ \A b \in Array : b # a => result'[b] = result[b]
  BY <1>2, <1>8, <1>9
<1>13. TypeOK'
  <2>1. j' \in 0..MaxCount
    BY <1>2, <1>5, <1>7, ConstantsAssumption DEF MaxCount
  <2>2. QED BY <1>1, <1>2, <1>12, <2>1 DEF TypeOK, encoder
<1>14. Decoding'
  <2>1. EndOf(a)' = EndOf(a) /\ Start(a)' = Start(a)
    BY <1>2 DEF EndOf, Start
  <2>2. Len(result'[a]) = span[k].from - 1 + (j + 1)
    <3>1. span[k].from - 1 + (j + 1) = span[k].from + j
      <4>1. \A f, n \in Nat : f - 1 + (n + 1) = f + n
        OBVIOUS
      <4>2. QED BY <1>5, <1>7, <4>1, Zenon
    <3>2. Len(result'[a]) = m
      BY <1>9, <1>12, Zenon
    <3>3. QED BY <1>10, <3>1, <3>2, Zenon
  <2>3. j + 1 <= data[k].count
    BY <1>2, <1>5, <1>7
  <2>4. a = 1 => result'[2] = <<>>
    BY <1>1, <1>2, <1>12 DEF Decoding, Array
  <2>5. a = 2 => Len(result'[1]) = Size
    BY <1>1, <1>2, <1>12 DEF Decoding, Array
  <2>6. k <= EndOf(a) + 1
    BY <1>1, <1>2 DEF Decoding
  <2>7. EndOf(a) \in Nat
    BY <1>1, <1>2, PairAtHand
  <2>8. QED BY <1>2, <1>4, <1>5, <2>1, <2>2, <2>3, <2>4, <2>5, <2>6, <2>7 DEF Decoding
<1>15. RoundTrip'
  <2>1. ASSUME NEW b \in Array, NEW n \in DOMAIN result'[b]
        PROVE n <= Size /\ result'[b][n] = chunk[b][n]
    <3>1. CASE b # a
      BY <1>1, <1>12, <2>1, <3>1 DEF RoundTrip
    <3>2. CASE b = a /\ n # m
      <4>1. n \in 1..m
        BY <1>9, <1>12, <2>1, <3>2
      <4>2. n \in 1..Len(result[a])
        BY <1>8, <3>2, <4>1
      <4>3. n \in DOMAIN result[a]
        BY <1>8, <4>2
      <4>4. n <= Size /\ result[a][n] = chunk[a][n]
        BY <1>1, <1>8, <4>3 DEF RoundTrip
      <4>5. QED BY <1>9, <1>12, <3>2, <4>2, <4>4
    <3>3. CASE b = a /\ n = m
      BY <1>9, <1>10, <1>11, <1>12, <3>3 DEF Cell
    <3>4. QED BY <3>1, <3>2, <3>3
  <2>2. QED BY <1>2, <2>1 DEF RoundTrip
<1>16. QED BY <1>3, <1>13, <1>14, <1>15 DEF CodecInv

LEMMA NextPairInv == CodecInv /\ NextPair => CodecInv'
<1> SUFFICES ASSUME CodecInv, NextPair PROVE CodecInv'
  OBVIOUS
<1>1. TypeOK /\ SpansMatch /\ SpansTile /\ Sections /\ Decoding /\ RoundTrip
  BY DEF CodecInv
<1>2. /\ phase = "decode" /\ k <= EndOf(a) /\ j = data[k].count /\ k' = k + 1 /\ j' = 0
      /\ UNCHANGED <<chunk, phase, a, encoder, data, header, result, span>>
  BY DEF NextPair
<1>3. SpansMatch' /\ SpansTile' /\ Sections' /\ CurrentRun' /\ RunsMaximal'
  BY <1>2, PairsUnchanged
<1>4. /\ Start(a) < k /\ Len(result[a]) = span[k].from - 1 + j
      /\ (a = 1 => result[2] = <<>>) /\ (a = 2 => Len(result[1]) = Size)
  BY <1>1, <1>2 DEF Decoding
<1>5. /\ k \in Nat /\ j \in Nat /\ EndOf(a) \in Nat /\ Start(a) \in Nat /\ span[EndOf(a)].to = Size
      /\ \A n \in Nat : Start(a) < n /\ n <= EndOf(a) => n \in 1..Len(data) /\ span[n].array = a
  BY <1>1, <1>2, PairAtHand
<1>6. k \in 1..Len(data) /\ span[k].array = a
  BY <1>2, <1>4, <1>5
<1>7. /\ span[k].from \in Nat /\ span[k].to \in Nat
      /\ span[k].to - span[k].from + 1 = data[k].count
  BY <1>1, <1>6, ElementTypes DEF SpansMatch, Cell
<1>8. Len(result[a]) = span[k].to
  <2>1. span[k].from - 1 + (span[k].to - span[k].from + 1) = span[k].to
    BY <1>7
  <2>2. QED BY <1>2, <1>4, <1>7, <2>1, Zenon
<1>9. TypeOK'
  <2>1. k' \in Nat \ {0} /\ j' \in 0..MaxCount
    BY <1>2, <1>5, ConstantsAssumption DEF MaxCount
  <2>2. QED BY <1>1, <1>2, <2>1 DEF TypeOK, encoder
<1>10. RoundTrip'
  BY <1>1, <1>2 DEF RoundTrip
<1>11. Decoding'
  <2>1. EndOf(a)' = EndOf(a) /\ Start(a)' = Start(a)
    BY <1>2 DEF EndOf, Start
  <2>2. Start(a) < k + 1 /\ k + 1 <= EndOf(a) + 1
    BY <1>2, <1>4, <1>5
  <2>3. k + 1 > EndOf(a) => Len(result[a]) = Size
    BY <1>2, <1>5, <1>8
  <2>4. ASSUME k + 1 <= EndOf(a)
        PROVE  0 <= data[k + 1].count /\ Len(result[a]) = span[k + 1].from - 1 + 0
    <3>1. k + 1 \in Nat /\ k + 1 \in 1..Len(data) /\ span[k + 1].array = a
      BY <1>5, <2>2, <2>4
    <3>2. Before(k + 1) = span[k].to
      BY <1>5, <1>6, <3>1 DEF Before
    <3>3. span[k + 1].from = span[k].to + 1
      BY <1>1, <3>1, <3>2 DEF SpansTile
    <3>4. data[k + 1].count \in 1..MaxCount
      BY <1>1, <3>1, ElementTypes
    <3>5. QED BY <1>7, <1>8, <3>3, <3>4, ConstantsAssumption DEF MaxCount
  <2>5. QED BY <1>2, <1>4, <2>1, <2>2, <2>3, <2>4 DEF Decoding
<1>12. QED BY <1>3, <1>9, <1>10, <1>11 DEF CodecInv

LEMMA FinishArrayInv == CodecInv /\ FinishArray => CodecInv'
<1> SUFFICES ASSUME CodecInv, FinishArray PROVE CodecInv'
  OBVIOUS
<1>1. TypeOK /\ SpansMatch /\ SpansTile /\ Sections /\ Decoding /\ RoundTrip
  BY DEF CodecInv
<1>2. /\ phase = "decode" /\ k > EndOf(a)
      /\ UNCHANGED <<chunk, encoder, data, header, j, result, span>>
      /\ IF a = 1 THEN a' = 2 /\ k' = header[1] + 1 /\ UNCHANGED phase
         ELSE phase' = "done" /\ UNCHANGED <<a, k>>
  BY DEF FinishArray
<1>3. SpansMatch' /\ SpansTile' /\ Sections' /\ CurrentRun' /\ RunsMaximal'
  <2>1. phase' # "encode"
    BY <1>2
  <2>2. QED BY <1>2, <2>1, PairsUnchanged
<1>4. /\ header[1] \in Nat /\ header[2] \in Nat /\ header[1] >= 1 /\ header[2] >= 1
      /\ Len(data) = header[1] + header[2] /\ a \in {1, 2}
  BY <1>1, <1>2, PairAtHand
<1>5. /\ j = 0 /\ Len(result[a]) = Size
      /\ (a = 1 => result[2] = <<>>) /\ (a = 2 => Len(result[1]) = Size)
  BY <1>1, <1>2 DEF Decoding
<1>6. CASE a = 1
  <2>1. a' = 2 /\ k' = header[1] + 1 /\ phase' = "decode"
    BY <1>2, <1>6
  <2>2. TypeOK'
    <3>1. a' \in Array /\ k' \in Nat \ {0}
      BY <1>4, <2>1 DEF Array
    <3>2. QED BY <1>1, <1>2, <2>1, <3>1 DEF TypeOK, encoder
  <2>3. RoundTrip'
    BY <1>1, <1>2, <2>1 DEF RoundTrip
  <2>4. Decoding'
    <3>1. EndOf(a)' = header[1] + header[2] /\ Start(a)' = header[1]
      BY <1>2, <2>1 DEF EndOf, Start
    <3>2. header[1] + 1 \in 1..Len(data) /\ header[1] \in 1..Len(data)
      BY <1>4
    <3>3. span[header[1] + 1].array = 2 /\ span[header[1]].array = 1
      <4>1. \A n \in 1..Len(data) : span[n].array = IF n <= header[1] THEN 1 ELSE 2
        BY <1>1, <1>2 DEF Sections, FirstDone
      <4>2. QED BY <1>4, <3>2, <4>1
    <3>4. Before(header[1] + 1) = 0
      BY <1>4, <3>3 DEF Before
    <3>5. span[header[1] + 1].from = 1
      BY <1>1, <3>2, <3>4 DEF SpansTile
    <3>6. data[header[1] + 1].count \in 1..MaxCount
      BY <1>1, <3>2, ElementTypes
    <3>7. 0 <= data[header[1] + 1].count
      BY <3>6, ConstantsAssumption DEF MaxCount
    <3>8. Len(result[2]) = 1 - 1 + 0
      BY <1>5, <1>6
    <3>9. header[1] < header[1] + 1 /\ header[1] + 1 <= header[1] + header[2]
      BY <1>4
    <3>10. QED BY <1>2, <1>4, <1>5, <1>6, <2>1, <3>1, <3>5, <3>7, <3>8, <3>9 DEF Decoding
  <2>5. QED BY <1>3, <2>2, <2>3, <2>4 DEF CodecInv
<1>7. CASE a = 2
  <2>1. phase' = "done" /\ a' = a /\ k' = k
    BY <1>2, <1>7
  <2>2. TypeOK'
    BY <1>1, <1>2, <2>1 DEF TypeOK, encoder
  <2>3. RoundTrip'
    BY <1>1, <1>2, <1>5, <1>7, <2>1 DEF RoundTrip, Array
  <2>4. Decoding'
    BY <2>1 DEF Decoding
  <2>5. QED BY <1>3, <2>2, <2>3, <2>4 DEF CodecInv
<1>8. QED BY <1>4, <1>6, <1>7

-----------------------------------------------------------------------------
(* The inductive invariant holds in every state.                           *)
THEOREM CodecCorrect == Spec => []CodecInv
<1>1. CodecInv /\ UNCHANGED vars => CodecInv'
  <2> SUFFICES ASSUME CodecInv, UNCHANGED vars PROVE CodecInv'
    OBVIOUS
  <2> USE DEF CodecInv, vars, encoder, decoder
  <2>1. TypeOK' /\ SpansMatch' /\ RoundTrip' /\ RunsMaximal'
    BY DEF TypeOK, SpansMatch, RoundTrip, RunsMaximal
  <2>2. \A n \in 1..Len(data) : Before(n)' = Before(n)
    BY DEF Before
  <2>3. SpansTile'
    BY <2>2 DEF SpansTile
  <2>4. Sections'
    BY DEF Sections, FirstDone
  <2>5. CurrentRun'
    BY DEF CurrentRun, Reached
  <2>6. Decoding'
    BY DEF Decoding, EndOf, Start
  <2>7. QED BY <2>1, <2>3, <2>4, <2>5, <2>6
<1>2. CodecInv /\ [Next]_vars => CodecInv'
  BY <1>1, ExtendRunInv, NewRunInv, FinishRunInv, DecodeByteInv, NextPairInv, FinishArrayInv
     DEF Next
<1>3. QED BY <1>2, InitInv, PTL DEF Spec

(* The values of a pair fit their bytes, and no run length is 0.           *)
THEOREM CodecTypeCorrect == Spec => []TypeOK
<1>1. CodecInv => TypeOK
  BY DEF CodecInv
<1>2. QED BY <1>1, CodecCorrect, PTL

(* Decoding gives back every chunk that was encoded, for arrays of any     *)
(* length and bytes of any width.                                          *)
THEOREM AlwaysRoundTrip == Spec => []RoundTrip
<1>1. CodecInv => RoundTrip
  BY DEF CodecInv
<1>2. QED BY <1>1, CodecCorrect, PTL

(* No run is cut before it ends or is full.                                *)
THEOREM AlwaysMaximalRuns == Spec => []RunsMaximal
<1>1. CodecInv => RunsMaximal
  BY DEF CodecInv
<1>2. QED BY <1>1, CodecCorrect, PTL

(* A serialized chunk takes at most two bytes per cell of each array: pair *)
(* n reaches at least cell n of the first array, or of the second.         *)
THEOREM AlwaysFitsBuffer == Spec => []FitsBuffer
<1>1. CodecInv => FitsBuffer
  <2> SUFFICES ASSUME CodecInv PROVE Len(data) <= 2 * Size
    BY DEF FitsBuffer
  <2>1. Len(data) \in Nat
    BY DEF CodecInv, TypeOK
  <2>2. CASE Len(data) = 0
    BY <2>2, ConstantsAssumption
  <2>3. CASE Len(data) # 0
    <3> DEFINE last == span[Len(data)]
    <3>1. Len(data) \in 1..Len(data)
      BY <2>1, <2>3
    <3>2. Len(data) <= last.to + (IF last.array = 1 THEN 0 ELSE Size)
      BY <3>1 DEF CodecInv, SpansTile
    <3>3. last.to \in Cell
      BY <3>1, ElementTypes DEF CodecInv
    <3> HIDE DEF last
    <3>4. last.to \in Nat /\ last.to <= Size
      BY <3>3, ConstantsAssumption DEF Cell
    <3>5. QED BY <2>1, <3>2, <3>4, ConstantsAssumption
  <2>4. QED BY <2>2, <2>3
<1>2. QED BY <1>1, CodecCorrect, PTL
=============================================================================
