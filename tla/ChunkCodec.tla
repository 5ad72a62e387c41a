------------------------------- MODULE ChunkCodec -------------------------------
(***************************************************************************)
(* Chunk::serialize and Chunk::unSerialize of common/Chunk.cpp: the block  *)
(* array and the light array, run-length coded one after the other behind  *)
(* a header of two lengths, as chunks are stored and sent.                 *)
(*                                                                         *)
(* The loops of rleEncode and rleDecode are steps.  A byte holds 0 to      *)
(* ByteLimit - 1, for cell values and for run lengths alike.  Lengths are  *)
(* counted in pairs of a value and a run length.                           *)
(***************************************************************************)
EXTENDS Integers, Sequences

CONSTANTS
  Size,        \* cells of a chunk: 16 * 16 * 256
  ByteLimit    \* 256

ASSUME ConstantsAssumption == Size \in Nat \ {0} /\ ByteLimit \in Nat /\ ByteLimit >= 2

VARIABLES
  chunk,       \* chunk[1]: blocks, chunk[2]: lightMap
  phase,       \* "encode", "decode", "done"
  a,           \* the array being coded
  i, lastVal, count, first,    \* locals of rleEncode
  data,        \* the pairs written to dataOut behind the header
  header,      \* header[a]: pairs that belong to array a
  k, j,        \* locals of rleDecode: the pair, and how many bytes of it are out
  result,      \* result[a]: the decoded bytes
  span         \* history: span[n], the array and the cells that pair n was made from

encoder == <<i, lastVal, count, first>>
decoder == <<k, j, result>>
vars == <<chunk, phase, a, encoder, data, header, decoder, span>>

Byte     == 0 .. ByteLimit - 1
MaxCount == ByteLimit - 1
Cell     == 1..Size
Array    == 1..2

Pair(v, n) == [value |-> v, count |-> n]
Span(b, m, n) == [array |-> b, from |-> m, to |-> n]

\* Before the first byte, lastVal is a value that it does not have.
Unlike(v) == (v + 1) % ByteLimit

Init ==
  /\ chunk \in [Array -> [Cell -> Byte]]
  /\ phase = "encode" /\ a = 1
  /\ i = 0 /\ lastVal = Unlike(chunk[1][1]) /\ count = 1 /\ first = TRUE
  /\ data = <<>> /\ header = [b \in Array |-> 0]
  /\ k = 1 /\ j = 0 /\ result = [b \in Array |-> <<>>]
  /\ span = <<>>

-----------------------------------------------------------------------------
(* rleEncode                                                               *)

WriteRun ==
  /\ data' = Append(data, Pair(lastVal, count))
  /\ span' = Append(span, Span(a, i - count + 1, i))

ExtendsToLimit(val) == val = lastVal /\ count <= MaxCount      \* mutant: 255 can grow
ExtendsShort(val)   == val = lastVal /\ count < MaxCount - 1   \* mutant: stops one early
Extends(val)        == val = lastVal /\ count < MaxCount

ExtendRun ==
  /\ phase = "encode" /\ i < Size
  /\ Extends(chunk[a][i + 1])
  /\ count' = (count + 1) % ByteLimit
  /\ i' = i + 1
  /\ UNCHANGED <<chunk, phase, a, lastVal, first, data, header, decoder, span>>

NewRunAlways ==                  \* mutant: the flag `first` is missing
  /\ phase = "encode" /\ i < Size
  /\ ~Extends(chunk[a][i + 1])
  /\ WriteRun
  /\ first' = FALSE
  /\ lastVal' = chunk[a][i + 1] /\ count' = 1
  /\ i' = i + 1
  /\ UNCHANGED <<chunk, phase, a, header, decoder>>

NewRun ==
  /\ phase = "encode" /\ i < Size
  /\ ~Extends(chunk[a][i + 1])
  /\ IF first THEN UNCHANGED <<data, span>> ELSE WriteRun
  /\ first' = FALSE
  /\ lastVal' = chunk[a][i + 1] /\ count' = 1
  /\ i' = i + 1
  /\ UNCHANGED <<chunk, phase, a, header, decoder>>

\* The last run of the array; then the second array, or the end of serialize.
FinishRun ==
  /\ phase = "encode" /\ i = Size
  /\ WriteRun
  /\ header' = [header EXCEPT ![a] = Len(data) + 1 - (IF a = 1 THEN 0 ELSE header[1])]
  /\ IF a = 1
       THEN /\ a' = 2
            /\ i' = 0 /\ lastVal' = Unlike(chunk[2][1]) /\ count' = 1 /\ first' = TRUE
            /\ UNCHANGED phase
       ELSE phase' = "decode" /\ a' = 1 /\ UNCHANGED encoder
  /\ UNCHANGED <<chunk, decoder>>

-----------------------------------------------------------------------------
(* rleDecode                                                               *)

\* The last pair of array a.
EndOf(b) == IF b = 1 THEN header[1] ELSE header[1] + header[2]

DecodeByte ==
  /\ phase = "decode" /\ k <= EndOf(a)
  /\ j < data[k].count
  /\ result' = [result EXCEPT ![a] = Append(@, data[k].value)]
  /\ j' = j + 1
  /\ UNCHANGED <<chunk, phase, a, encoder, data, header, k, span>>

NextPair ==
  /\ phase = "decode" /\ k <= EndOf(a)
  /\ j = data[k].count
  /\ k' = k + 1 /\ j' = 0
  /\ UNCHANGED <<chunk, phase, a, encoder, data, header, result, span>>

RestartArray ==                  \* mutant: dataIn + 8 for the second array too
  /\ phase = "decode" /\ k > EndOf(a)
  /\ IF a = 1 THEN a' = 2 /\ k' = 1 /\ UNCHANGED phase
     ELSE phase' = "done" /\ UNCHANGED <<a, k>>
  /\ UNCHANGED <<chunk, encoder, data, header, j, result, span>>

\* The second array is decoded from dataIn + 8 + blockLength.
FinishArray ==
  /\ phase = "decode" /\ k > EndOf(a)
  /\ IF a = 1 THEN a' = 2 /\ k' = header[1] + 1 /\ UNCHANGED phase
     ELSE phase' = "done" /\ UNCHANGED <<a, k>>
  /\ UNCHANGED <<chunk, encoder, data, header, j, result, span>>

-----------------------------------------------------------------------------
Next == ExtendRun \/ NewRun \/ FinishRun \/ DecodeByte \/ NextPair \/ FinishArray

Spec == Init /\ [][Next]_vars

-----------------------------------------------------------------------------
(* Properties.                                                             *)

PairSet == [value : Byte, count : 1..MaxCount]
SpanSet == [array : Array, from : Cell, to : Cell]

(* A run length is never 0 and fits a byte.                                *)
TypeOK ==
  /\ chunk \in [Array -> [Cell -> Byte]]
  /\ phase \in {"encode", "decode", "done"} /\ a \in Array
  /\ i \in 0..Size /\ lastVal \in Byte /\ count \in 1..MaxCount /\ first \in BOOLEAN
  /\ data \in Seq(PairSet) /\ header \in [Array -> Nat]
  /\ k \in Nat \ {0} /\ j \in 0..MaxCount /\ result \in [Array -> Seq(Byte)]
  /\ span \in Seq(SpanSet)

(* What is decoded is what was encoded: runs of any length, a run that     *)
(* ends with the array, a first byte 255, and light that begins where the  *)
(* blocks end.  On the way nothing else is written.                        *)
RoundTrip ==
  /\ \A b \in Array : \A m \in DOMAIN result[b] : m <= Size /\ result[b][m] = chunk[b][m]
  /\ phase = "done" => \A b \in Array : Len(result[b]) = Size

(* serialize writes at most two bytes for each cell of each array: with    *)
(* the header, 16*16*256*4 + 8 bytes fit the rleCache of client and server *)
(* (16*16*256*5), though not the buffer of ChunkIO::saveChunk.             *)
FitsBuffer == Len(data) <= 2 * Size

(* Runs are as long as they can be: neighbouring pairs of an array differ  *)
(* in their value, or the first is full.  What a chunk takes in a file is  *)
(* a function of its blocks and light alone.                               *)
RunsMaximal ==
  \A n \in DOMAIN data :
    n > 1 /\ span[n - 1].array = span[n].array
      => data[n].value # data[n - 1].value \/ data[n - 1].count = MaxCount
=============================================================================
