--------------------------- MODULE ChunkSyncProofs ---------------------------
(***************************************************************************)
(* Proofs about ChunkSync, for any number of clients, any set of positions *)
(* and render distance, any terrain and any column of blocks.              *)
(*                                                                         *)
(* The invariants of a client speak of which packets of some kind wait in  *)
(* a queue: at most one, at least one, and what the last of them puts      *)
(* where.  M stands for the set of those packets.  The first part proves   *)
(* what taking the first packet and adding packets at the end do to these, *)
(* the second that the requests of manageChunks are one per position, and  *)
(* the third goes through the actions.                                     *)
(***************************************************************************)
EXTENDS ChunkSync, FiniteSetTheorems, SequenceTheorems, TLAPS

-----------------------------------------------------------------------------
(* Packets in a queue.                                                     *)

Some(s, M)       == \E i \in DOMAIN s : s[i] \in M
AtMostOne(s, M)  == \A i, j \in DOMAIN s : s[i] \in M /\ s[j] \in M => i = j

\* The last packet of M in s puts v where init was.
Ends(s, M, y, init, v) ==
  /\ \A i \in DOMAIN s :
       s[i] \in M /\ (\A j \in DOMAIN s : s[j] \in M => j <= i) => Value(s[i], y) = v
  /\ ~Some(s, M) => init = v

(* Taking the first packet shifts the others.                              *)
LEMMA TailElements ==
  ASSUME NEW S, NEW s \in Seq(S), s # <<>>
  PROVE  /\ Len(s) \in Nat /\ DOMAIN s = 1..Len(s) /\ 1 \in DOMAIN s
         /\ Head(s) = s[1] /\ Head(s) \in S
         /\ Tail(s) \in Seq(S)
         /\ \A i \in DOMAIN Tail(s) : i + 1 \in DOMAIN s /\ Tail(s)[i] = s[i + 1]
         /\ \A i \in DOMAIN s : i # 1 => i - 1 \in DOMAIN Tail(s) /\ Tail(s)[i - 1] = s[i]
  BY SMT

LEMMA TailSome ==
  ASSUME NEW S, NEW s \in Seq(S), s # <<>>, NEW M
  PROVE  /\ Some(s, M) <=> Head(s) \in M \/ Some(Tail(s), M)
         /\ AtMostOne(s, M) => AtMostOne(Tail(s), M)
         /\ AtMostOne(s, M) /\ Head(s) \in M => ~Some(Tail(s), M)
<1> DEFINE t == Tail(s)
           n == Len(s)
<1>1. /\ n \in Nat /\ DOMAIN s = 1..n /\ 1 \in DOMAIN s /\ Head(s) = s[1]
      /\ \A i \in DOMAIN t : i + 1 \in DOMAIN s /\ t[i] = s[i + 1] /\ i \in Nat /\ i >= 1
      /\ \A i \in DOMAIN s : i # 1 => i - 1 \in DOMAIN t /\ t[i - 1] = s[i]
  BY TailElements, LenProperties, HeadTailProperties
<1> HIDE DEF t, n
<1>2. Some(s, M) <=> Head(s) \in M \/ Some(t, M)
  BY <1>1, SMT DEF Some
<1>3. AtMostOne(s, M) => AtMostOne(t, M)
  BY <1>1, SMT DEF AtMostOne
<1>4. AtMostOne(s, M) /\ Head(s) \in M => ~Some(t, M)
  BY <1>1, SMT DEF AtMostOne, Some
<1> QED BY <1>2, <1>3, <1>4 DEF t

LEMMA TailEnds ==
  ASSUME NEW S, NEW s \in Seq(S), s # <<>>, NEW M, NEW y, NEW init, NEW v,
         Ends(s, M, y, init, v)
  PROVE  /\ Head(s) \notin M => Ends(Tail(s), M, y, init, v)
         /\ Head(s) \in M => Ends(Tail(s), M, y, Value(Head(s), y), v)
<1> DEFINE t == Tail(s)
           n == Len(s)
<1>1. /\ n \in Nat /\ DOMAIN s = 1..n /\ 1 \in DOMAIN s /\ Head(s) = s[1]
      /\ \A i \in DOMAIN t : i + 1 \in DOMAIN s /\ t[i] = s[i + 1] /\ i \in Nat /\ i >= 1
      /\ \A i \in DOMAIN s : i # 1 => i - 1 \in DOMAIN t /\ t[i - 1] = s[i]
  BY TailElements, LenProperties, HeadTailProperties
<1> HIDE DEF t, n
<1>2. ASSUME NEW i \in DOMAIN t, t[i] \in M, \A j \in DOMAIN t : t[j] \in M => j <= i
      PROVE  Value(t[i], y) = v
  <2>1. i + 1 \in DOMAIN s /\ s[i + 1] = t[i]
    BY <1>1
  <2>2. ASSUME NEW j \in DOMAIN s, s[j] \in M PROVE j <= i + 1
    BY <1>1, <1>2, <2>2, SMT
  <2>3. Value(s[i + 1], y) = v
    BY <2>1, <2>2, <1>2 DEF Ends
  <2> QED BY <2>1, <2>3
<1>3. Head(s) \notin M /\ ~Some(t, M) => init = v
  <2>1. Head(s) \notin M /\ ~Some(t, M) => ~Some(s, M)
    BY TailSome DEF t
  <2> QED BY <2>1 DEF Ends
<1>4. Head(s) \in M /\ ~Some(t, M) => Value(Head(s), y) = v
  <2> SUFFICES ASSUME Head(s) \in M, ~Some(t, M) PROVE Value(Head(s), y) = v
    OBVIOUS
  <2>1. \A j \in DOMAIN s : s[j] \in M => j <= 1
    BY <1>1, SMT DEF Some
  <2> QED BY <1>1, <2>1 DEF Ends
<1>5. Ends(t, M, y, init, v) <=> (~Some(t, M) => init = v)
  BY <1>2 DEF Ends
<1>6. Ends(t, M, y, Value(Head(s), y), v) <=> (~Some(t, M) => Value(Head(s), y) = v)
  BY <1>2 DEF Ends
<1> QED BY <1>3, <1>4, <1>5, <1>6 DEF t

(* Adding packets at the end.                                              *)
LEMMA ConcatElements ==
  ASSUME NEW S, NEW s \in Seq(S), NEW t \in Seq(S)
  PROVE  /\ s \o t \in Seq(S)
         /\ Len(s) \in Nat /\ DOMAIN s = 1..Len(s)
         /\ Len(t) \in Nat /\ DOMAIN t = 1..Len(t)
         /\ DOMAIN (s \o t) = 1..(Len(s) + Len(t))
         /\ \A i \in DOMAIN s : i \in DOMAIN (s \o t) /\ (s \o t)[i] = s[i]
         /\ \A i \in DOMAIN t : Len(s) + i \in DOMAIN (s \o t) /\ (s \o t)[Len(s) + i] = t[i]
         /\ \A i \in DOMAIN (s \o t) : i \notin DOMAIN s =>
              i - Len(s) \in DOMAIN t /\ (s \o t)[i] = t[i - Len(s)]
  BY ConcatProperties, LenProperties, SMT

LEMMA ConcatSome ==
  ASSUME NEW S, NEW s \in Seq(S), NEW t \in Seq(S), NEW M
  PROVE  /\ Some(s \o t, M) <=> Some(s, M) \/ Some(t, M)
         /\ AtMostOne(s, M) /\ AtMostOne(t, M) /\ ~(Some(s, M) /\ Some(t, M)) =>
              AtMostOne(s \o t, M)
<1> DEFINE u == s \o t
           m == Len(s)
           n == Len(t)
<1>1. /\ m \in Nat /\ DOMAIN s = 1..m /\ n \in Nat /\ DOMAIN t = 1..n /\ DOMAIN u = 1..(m + n)
      /\ \A i \in DOMAIN s : i \in DOMAIN u /\ u[i] = s[i]
      /\ \A i \in DOMAIN t : m + i \in DOMAIN u /\ u[m + i] = t[i]
      /\ \A i \in DOMAIN u : i \notin DOMAIN s => i - m \in DOMAIN t /\ u[i] = t[i - m]
  BY ConcatElements
<1> HIDE DEF u, m, n
<1>2. Some(u, M) <=> Some(s, M) \/ Some(t, M)
  BY <1>1 DEF Some
<1>3. ASSUME AtMostOne(s, M), AtMostOne(t, M), ~(Some(s, M) /\ Some(t, M))
      PROVE  AtMostOne(u, M)
  <2> SUFFICES ASSUME NEW i \in DOMAIN u, NEW j \in DOMAIN u, u[i] \in M, u[j] \in M
               PROVE  i = j
    BY DEF AtMostOne
  <2>1. CASE i \in DOMAIN s /\ j \in DOMAIN s
    BY <2>1, <1>1, <1>3 DEF AtMostOne
  <2>2. CASE i \notin DOMAIN s /\ j \notin DOMAIN s
    <3>1. i - m = j - m
      BY <2>2, <1>1, <1>3 DEF AtMostOne
    <3> QED BY <3>1, <1>1
  <2>3. CASE i \in DOMAIN s /\ j \notin DOMAIN s
    BY <2>3, <1>1, <1>3 DEF Some
  <2>4. CASE i \notin DOMAIN s /\ j \in DOMAIN s
    BY <2>4, <1>1, <1>3 DEF Some
  <2> QED BY <2>1, <2>2, <2>3, <2>4
<1> QED BY <1>2, <1>3 DEF u

LEMMA ConcatEnds ==
  ASSUME NEW S, NEW s \in Seq(S), NEW t \in Seq(S), NEW M, NEW y, NEW init, NEW v
  PROVE  /\ ~Some(t, M) /\ Ends(s, M, y, init, v) => Ends(s \o t, M, y, init, v)
         /\ Some(t, M) /\ Ends(t, M, y, init, v) => Ends(s \o t, M, y, init, v)
<1> DEFINE u == s \o t
           m == Len(s)
           n == Len(t)
<1>1. /\ m \in Nat /\ DOMAIN s = 1..m /\ n \in Nat /\ DOMAIN t = 1..n /\ DOMAIN u = 1..(m + n)
      /\ \A i \in DOMAIN s : i \in DOMAIN u /\ u[i] = s[i]
      /\ \A i \in DOMAIN t : m + i \in DOMAIN u /\ u[m + i] = t[i]
      /\ \A i \in DOMAIN u : i \notin DOMAIN s => i - m \in DOMAIN t /\ u[i] = t[i - m]
      /\ Some(u, M) <=> Some(s, M) \/ Some(t, M)
  BY ConcatElements, ConcatSome
<1> HIDE DEF u, m, n
<1>2. ASSUME ~Some(t, M), Ends(s, M, y, init, v)
      PROVE  Ends(u, M, y, init, v)
  <2>1. ASSUME NEW i \in DOMAIN u, u[i] \in M, \A j \in DOMAIN u : u[j] \in M => j <= i
        PROVE  Value(u[i], y) = v
    <3>1. i \in DOMAIN s /\ u[i] = s[i]
      BY <1>1, <1>2, <2>1 DEF Some
    <3>2. \A j \in DOMAIN s : s[j] \in M => j <= i
      BY <1>1, <2>1
    <3> QED BY <3>1, <3>2, <2>1, <1>2 DEF Ends
  <2>2. ~Some(u, M) => init = v
    BY <1>1, <1>2 DEF Ends
  <2> QED BY <2>1, <2>2 DEF Ends
<1>3. ASSUME Some(t, M), Ends(t, M, y, init, v)
      PROVE  Ends(u, M, y, init, v)
  <2>1. ASSUME NEW i \in DOMAIN u, u[i] \in M, \A j \in DOMAIN u : u[j] \in M => j <= i
        PROVE  Value(u[i], y) = v
    <3>1. PICK k \in DOMAIN t : t[k] \in M
      BY <1>3 DEF Some
    <3>2. m + k <= i
      BY <3>1, <1>1, <2>1
    <3>3. i - m \in DOMAIN t /\ u[i] = t[i - m]
      BY <3>2, <1>1, SMT
    <3>4. ASSUME NEW j \in DOMAIN t, t[j] \in M PROVE j <= i - m
      <4>1. m + j <= i
        BY <3>4, <1>1, <2>1
      <4> QED BY <4>1, <1>1
    <3> QED BY <3>3, <3>4, <2>1, <1>3 DEF Ends
  <2>2. ~Some(u, M) => init = v
    BY <1>1, <1>3
  <2> QED BY <2>1, <2>2 DEF Ends
<1> QED BY <1>2, <1>3 DEF u

(* The queue of one packet.                                                *)
LEMMA SingleSome ==
  ASSUME NEW e, NEW M, NEW y, NEW init
  PROVE  /\ Some(<<e>>, M) <=> e \in M
         /\ AtMostOne(<<e>>, M)
         /\ e \in M => Ends(<<e>>, M, y, init, Value(e, y))
  BY DEF Some, AtMostOne, Ends

LEMMA AppendSome ==
  ASSUME NEW S, NEW s \in Seq(S), NEW e \in S, NEW M
  PROVE  /\ Append(s, e) \in Seq(S)
         /\ Some(Append(s, e), M) <=> Some(s, M) \/ e \in M
         /\ AtMostOne(s, M) /\ ~(Some(s, M) /\ e \in M) => AtMostOne(Append(s, e), M)
<1>1. Append(s, e) \in Seq(S) /\ Append(s, e) = s \o <<e>> /\ <<e>> \in Seq(S)
  BY AppendProperties, AppendIsConcat
<1>2. (Some(<<e>>, M) <=> e \in M) /\ AtMostOne(<<e>>, M)
  BY SingleSome
<1>3. Some(s \o <<e>>, M) <=> Some(s, M) \/ Some(<<e>>, M)
  BY <1>1, ConcatSome
<1>4. AtMostOne(s, M) /\ ~(Some(s, M) /\ e \in M) => AtMostOne(s \o <<e>>, M)
  BY <1>1, <1>2, ConcatSome
<1> QED BY <1>1, <1>2, <1>3, <1>4

LEMMA AppendEnds ==
  ASSUME NEW S, NEW s \in Seq(S), NEW e \in S, NEW M, NEW y, NEW init, NEW v
  PROVE  /\ e \notin M /\ Ends(s, M, y, init, v) => Ends(Append(s, e), M, y, init, v)
         /\ e \in M => Ends(Append(s, e), M, y, init, Value(e, y))
<1>1. Append(s, e) = s \o <<e>> /\ <<e>> \in Seq(S)
  BY AppendProperties, AppendIsConcat
<1>2. (Some(<<e>>, M) <=> e \in M) /\ (e \in M => Ends(<<e>>, M, y, init, Value(e, y)))
  BY SingleSome
<1>3. e \notin M /\ Ends(s, M, y, init, v) => Ends(s \o <<e>>, M, y, init, v)
  BY <1>1, <1>2, ConcatEnds
<1>4. e \in M => Ends(s \o <<e>>, M, y, init, Value(e, y))
  BY <1>1, <1>2, ConcatEnds
<1> QED BY <1>1, <1>3, <1>4

-----------------------------------------------------------------------------
(* Ranks.  In a finite set with a strict order R, the number of elements   *)
(* before an element, plus one, numbers the elements from 1 on.            *)

Before(S, R, x) == {z \in S : <<z, x>> \in R}

StrictOrder(S, R) ==
  /\ \A x \in S : <<x, x>> \notin R
  /\ \A x, y, z \in S : <<x, y>> \in R /\ <<y, z>> \in R => <<x, z>> \in R
  /\ \A x, y \in S : x = y \/ <<x, y>> \in R \/ <<y, x>> \in R

LEMMA RanksDistinct ==
  ASSUME NEW S, IsFiniteSet(S), NEW R, StrictOrder(S, R)
  PROVE  /\ \A x \in S : Cardinality(Before(S, R, x)) + 1 \in 1..Cardinality(S)
         /\ \A x, y \in S : Cardinality(Before(S, R, x)) = Cardinality(Before(S, R, y)) => x = y
<1> DEFINE B(x) == Before(S, R, x)
<1>1. Cardinality(S) \in Nat
  BY FS_CardinalityType
<1>2. ASSUME NEW x \in S
      PROVE  /\ IsFiniteSet(B(x)) /\ Cardinality(B(x)) \in Nat
             /\ Cardinality(B(x)) + 1 <= Cardinality(S)
  <2>1. B(x) \in SUBSET (S \ {x})
    BY DEF Before, StrictOrder
  <2>2. IsFiniteSet(S \ {x}) /\ Cardinality(S \ {x}) = Cardinality(S) - 1
    BY FS_RemoveElement
  <2>3. IsFiniteSet(B(x)) /\ Cardinality(B(x)) <= Cardinality(S \ {x})
    BY <2>1, <2>2, FS_Subset
  <2>4. Cardinality(B(x)) \in Nat
    BY <2>3, FS_CardinalityType
  <2> QED BY <2>2, <2>3, <2>4, <1>1
<1>3. ASSUME NEW x \in S, NEW y \in S, <<x, y>> \in R
      PROVE  Cardinality(B(x)) # Cardinality(B(y))
  <2>1. B(x) \in SUBSET B(y) /\ x \in B(y) /\ x \notin B(x)
    BY <1>3 DEF Before, StrictOrder
  <2>2. IsFiniteSet(B(y)) /\ B(y) # B(x)
    BY <2>1, <1>2
  <2> QED BY <2>1, <2>2, FS_Subset
<1>4. \A x \in S : Cardinality(B(x)) + 1 \in 1..Cardinality(S)
  BY <1>1, <1>2
<1>5. \A x, y \in S : Cardinality(B(x)) = Cardinality(B(y)) => x = y
  BY <1>3 DEF StrictOrder
<1> QED BY <1>4, <1>5

LEMMA RanksCover ==
  ASSUME NEW S, IsFiniteSet(S), NEW R, StrictOrder(S, R), NEW i \in 1..Cardinality(S)
  PROVE  \E x \in S : Cardinality(Before(S, R, x)) + 1 = i
<1> DEFINE n == Cardinality(S)
           r == [x \in S |-> Cardinality(Before(S, R, x)) + 1]
<1>1. n \in Nat
  BY FS_CardinalityType
<1>2. r \in Injection(S, 1..n)
  <2>1. \A x \in S : Cardinality(Before(S, R, x)) + 1 \in 1..n
    BY RanksDistinct
  <2>2. \A x, y \in S : r[x] = r[y] => x = y
    <3> SUFFICES ASSUME NEW x \in S, NEW y \in S, r[x] = r[y] PROVE x = y
      OBVIOUS
    <3>1. /\ IsFiniteSet(Before(S, R, x)) /\ IsFiniteSet(Before(S, R, y))
      BY FS_Subset DEF Before
    <3>2. Cardinality(Before(S, R, x)) \in Nat /\ Cardinality(Before(S, R, y)) \in Nat
      BY <3>1, FS_CardinalityType
    <3>3. Cardinality(Before(S, R, x)) = Cardinality(Before(S, R, y))
      BY <3>2
    <3> QED BY <3>3, RanksDistinct
  <2>3. r \in [S -> 1..n]
    BY <2>1
  <2> QED BY <2>2, <2>3 DEF Injection, IsInjective
<1>3. IsFiniteSet(1..n) /\ Cardinality(1..n) = n
  BY <1>1, FS_Interval
<1>4. r \in Surjection(S, 1..n)
  <2> HIDE DEF r
  <2> QED BY <1>2, <1>3, FS_Injection DEF n
<1>5. \E x \in S : r[x] = i
  BY <1>4 DEF Surjection
<1> QED BY <1>5

(* A finite set of numbers that is not empty has a largest one.            *)
LEMMA LargestExists ==
  ASSUME NEW S \in SUBSET Int, IsFiniteSet(S), S # {}
  PROVE  Max(S) \in S /\ \A x \in S : Max(S) >= x
<1> DEFINE R == {e \in S \X S : e[1] < e[2]}
           n == Cardinality(S)
<1>1. StrictOrder(S, R)
  BY SMT DEF StrictOrder
<1>2. n \in Nat /\ n # 0
  BY FS_CardinalityType, FS_EmptySet
<1>3. n \in 1..Cardinality(S)
  BY <1>2
<1>4. PICK m \in S : Cardinality(Before(S, R, m)) + 1 = n
  <2> HIDE DEF R
  <2> QED BY <1>1, <1>3, RanksCover
<1>5. Before(S, R, m) \in SUBSET (S \ {m})
  <2> HIDE DEF R
  <2> QED BY <1>1 DEF Before, StrictOrder
<1>6. IsFiniteSet(S \ {m}) /\ Cardinality(S \ {m}) = n - 1
  BY FS_RemoveElement
<1>7. IsFiniteSet(Before(S, R, m))
  BY <1>5, <1>6, FS_Subset
<1>8. Cardinality(Before(S, R, m)) \in Nat
  BY <1>7, FS_CardinalityType
<1>9. Cardinality(Before(S, R, m)) = Cardinality(S \ {m})
  <2> HIDE DEF R
  <2> QED BY <1>2, <1>4, <1>6, <1>8
<1>10. Before(S, R, m) = S \ {m}
  <2> HIDE DEF R
  <2> QED BY <1>5, <1>6, <1>9, FS_Subset
<1>11. \A x \in S : m >= x
  <2> SUFFICES ASSUME NEW x \in S PROVE m >= x
    OBVIOUS
  <2>1. CASE x = m
    BY <2>1
  <2>2. CASE x # m
    <3>1. x \in Before(S, R, m)
      BY <2>2, <1>10
    <3> QED BY <3>1 DEF Before
  <2> QED BY <2>1, <2>2
<1> QED BY <1>11 DEF Max

-----------------------------------------------------------------------------
(* The requests of manageChunks.                                           *)

(* A client sees finitely many positions.                                  *)
LEMMA WindowFinite ==
  ASSUME NEW p \in Pos
  PROVE  IsFiniteSet(Window(p))
<1> USE ConstantsAssumption
<1> DEFINE d == RenderDistance
           X == (p[1] - d)..(p[1] + d)
           Z == (p[2] - d)..(p[2] + d)
<1>1. p[1] \in Nat /\ p[2] \in Nat /\ d \in Nat
  BY SMT
<1>2. IsFiniteSet(X) /\ IsFiniteSet(Z)
  <2>1. \A a, b \in Int : IsFiniteSet(a..b)
    BY FS_Interval
  <2>2. p[1] - d \in Int /\ p[1] + d \in Int /\ p[2] - d \in Int /\ p[2] + d \in Int
    BY <1>1
  <2> QED BY <2>1, <2>2
<1>3. IsFiniteSet(X \X Z)
  <2> HIDE DEF X, Z
  <2> QED BY <1>2, FS_Product
<1>4. Window(p) \in SUBSET (X \X Z)
  <2>1. ASSUME NEW q \in Window(p) PROVE q \in X \X Z
    <3>1. q \in Nat \X Nat /\ q[1] \in Nat /\ q[2] \in Nat
      BY <2>1, SMT DEF Window
    <3>2. q[1] - p[1] \in -d..d /\ q[2] - p[2] \in -d..d
      BY <2>1 DEF Window, Within
    <3>3. q[1] \in X /\ q[2] \in Z
      BY <1>1, <3>1, <3>2
    <3>4. q = <<q[1], q[2]>>
      BY <3>1
    <3> HIDE DEF X, Z
    <3> QED BY <3>3, <3>4
  <2> QED BY <2>1
<1> HIDE DEF X, Z
<1> QED BY <1>3, <1>4, FS_Subset

(* The positions in the order of the loops.                                *)
LEMMA EarlierOrders ==
  ASSUME NEW ps \in SUBSET Pos
  PROVE  /\ StrictOrder(ps, {e \in ps \X ps : Earlier(e[1], e[2])})
         /\ \A p \in ps : {q \in ps : Earlier(q, p)}
                            = Before(ps, {e \in ps \X ps : Earlier(e[1], e[2])}, p)
<1> DEFINE R == {e \in ps \X ps : Earlier(e[1], e[2])}
<1>1. \A p \in ps : p = <<p[1], p[2]>> /\ p[1] \in Nat /\ p[2] \in Nat
  BY ConstantsAssumption, SMT
<1>2. \A p, q \in ps : <<p, q>> \in R <=> Earlier(p, q)
  OBVIOUS
<1>3. \A p \in ps : ~Earlier(p, p)
  BY <1>1 DEF Earlier
<1>4. \A p, q, r \in ps : Earlier(p, q) /\ Earlier(q, r) => Earlier(p, r)
  BY <1>1 DEF Earlier
<1>5. \A p, q \in ps : p = q \/ Earlier(p, q) \/ Earlier(q, p)
  <2> SUFFICES ASSUME NEW p \in ps, NEW q \in ps, ~Earlier(p, q), ~Earlier(q, p)
               PROVE  p = q
    OBVIOUS
  <2>1. p[1] = q[1] /\ p[2] = q[2]
    BY <1>1 DEF Earlier
  <2> QED BY <2>1, <1>1
<1> HIDE DEF R
<1>6. StrictOrder(ps, R)
  BY <1>2, <1>3, <1>4, <1>5 DEF StrictOrder
<1>7. \A p \in ps : {q \in ps : Earlier(q, p)} = Before(ps, R, p)
  BY <1>2 DEF Before
<1> QED BY <1>6, <1>7 DEF R

(* manageChunks asks for each position it misses, once, and for no other.  *)
LEMMA RequestedOnce ==
  ASSUME NEW ps \in SUBSET Pos, IsFiniteSet(ps)
  PROVE  /\ Requested(ps) \in Seq(UpPacket)
         /\ \A p : Some(Requested(ps), {Request(p)}) <=> p \in ps
         /\ \A p : AtMostOne(Requested(ps), {Request(p)})
<1> DEFINE n == Cardinality(ps)
           R == {e \in ps \X ps : Earlier(e[1], e[2])}
           at(i) == CHOOSE p \in ps : Rank(p, ps) = i
<1>1. n \in Nat
  BY FS_CardinalityType
<1>2. /\ StrictOrder(ps, R)
      /\ \A p \in ps : Rank(p, ps) = Cardinality(Before(ps, R, p)) + 1
  BY EarlierOrders DEF Rank
<1> HIDE DEF R
<1>3. \A p \in ps : Rank(p, ps) \in 1..n
  BY <1>2, RanksDistinct
<1>4. \A i \in 1..n : at(i) \in ps /\ Rank(at(i), ps) = i
  <2> SUFFICES ASSUME NEW i \in 1..n PROVE at(i) \in ps /\ Rank(at(i), ps) = i
    OBVIOUS
  <2>1. \E x \in ps : Cardinality(Before(ps, R, x)) + 1 = i
    BY <1>2, RanksCover
  <2>2. \E x \in ps : Rank(x, ps) = i
    BY <2>1, <1>2
  <2> QED BY <2>2
<1>5. \A p, q \in ps : Rank(p, ps) = Rank(q, ps) => p = q
  <2> SUFFICES ASSUME NEW p \in ps, NEW q \in ps, Rank(p, ps) = Rank(q, ps) PROVE p = q
    OBVIOUS
  <2>1. IsFiniteSet(Before(ps, R, p)) /\ IsFiniteSet(Before(ps, R, q))
    BY FS_Subset DEF Before
  <2>2. Cardinality(Before(ps, R, p)) \in Nat /\ Cardinality(Before(ps, R, q)) \in Nat
    BY <2>1, FS_CardinalityType
  <2>3. Cardinality(Before(ps, R, p)) = Cardinality(Before(ps, R, q))
    BY <2>2, <1>2
  <2> QED BY <2>3, <1>2, RanksDistinct
<1>6. Requested(ps) = [i \in 1..n |-> Request(at(i))]
  BY DEF Requested
<1> HIDE DEF n, at
<1>7. Requested(ps) \in Seq(UpPacket)
  <2>1. \A i \in 1..n : Request(at(i)) \in UpPacket
    BY <1>4 DEF Request, UpPacket
  <2> QED BY <1>1, <1>6, <2>1
<1>8. /\ DOMAIN Requested(ps) = 1..n
      /\ \A i \in 1..n : \A p : Requested(ps)[i] \in {Request(p)} <=> at(i) = p
  BY <1>6 DEF Request
<1>9. ASSUME NEW p PROVE Some(Requested(ps), {Request(p)}) <=> p \in ps
  <2>1. Some(Requested(ps), {Request(p)}) <=> \E i \in 1..n : at(i) = p
    BY <1>8 DEF Some
  <2>2. ASSUME p \in ps PROVE \E i \in 1..n : at(i) = p
    BY <2>2, <1>3, <1>4, <1>5
  <2> QED BY <2>1, <2>2, <1>4
<1>10. ASSUME NEW p PROVE AtMostOne(Requested(ps), {Request(p)})
  BY <1>4, <1>8 DEF AtMostOne
<1> QED BY <1>7, <1>9, <1>10

-----------------------------------------------------------------------------
(* The inductive invariant.                                                *)

Reply(p)      == {m \in DownPacket : m.type = "chunk" /\ m.pos = p}
BlockAt(p, y) == {m \in UpPacket : m.type = "block" /\ m.pos = p /\ m.y = y}
Write(p, y)   == {m \in DownPacket : m.pos = p /\ (m.type = "block" => m.y = y)}

\* A client that is not connected has nothing, and nothing is on its way to it.
AtRest(c) ==
  /\ player[c] = Spawn
  /\ mem[c] = [p \in Pos |-> Absent]
  /\ shown[c] = {} /\ expected[c] = {}
  /\ down[c] = <<>>

\* RequestsAccountedFor without counting.
Accounted(c, p) ==
  /\ AtMostOne(up[c], {Request(p)}) /\ AtMostOne(down[c], Reply(p))
  /\ ~(Some(up[c], {Request(p)}) /\ Some(down[c], Reply(p)))
  /\ Some(up[c], {Request(p)}) \/ Some(down[c], Reply(p)) => p \in expected[c]
  /\ InWorld(p) /\ p \in expected[c] =>
       Some(up[c], {Request(p)}) \/ Some(down[c], Reply(p))

\* The antecedent of ChunksConverge.
Following(c, p, y) ==
  /\ p \in shown[c] \/ Some(down[c], Reply(p))
  /\ ~Some(up[c], BlockAt(p, y))

\* ChunksConverge without Max.
Converges(c, p, y) ==
  Following(c, p, y) => Ends(down[c], Write(p, y), y, mem[c][p][y], server[p][y])

Covered(c) == Window(player[c]) \subseteq Held(c) \cup expected[c]

ClientInv(c) ==
  /\ c \notin online => AtRest(c)
  /\ c \in online => Covered(c) /\ \A p \in Pos : Accounted(c, p)
  /\ \A p \in Pos, y \in Cell : Converges(c, p, y)

SyncInv == TypeOK /\ \A c \in Client : ClientInv(c)

-----------------------------------------------------------------------------
(* Packets and chunk maps.                                                 *)

LEMMA UpPackets ==
  /\ \A m \in UpPacket : m.type = "request" => m.pos \in Pos /\ m = Request(m.pos)
  /\ \A m \in UpPacket : m.type = "block" =>
       m.pos \in Pos /\ m.y \in Cell /\ m.block \in Block
  /\ \A m \in UpPacket : m.type = "request" \/ m.type = "block"
  /\ \A p \in Pos : Request(p) \in UpPacket /\ Request(p).type = "request" /\ Request(p).pos = p
  /\ \A p \in Pos, y \in Cell, b \in Block : SetBlock(p, y, b) \in UpPacket
<1>1. \A m \in UpPacket : m.type = "request" => m.pos \in Pos /\ m = Request(m.pos)
  BY SMT DEF UpPacket, BlockPacket, Request
<1>2. \A m \in UpPacket : m.type = "block" => m.pos \in Pos /\ m.y \in Cell /\ m.block \in Block
  BY SMT DEF UpPacket, BlockPacket
<1>3. \A m \in UpPacket : m.type = "request" \/ m.type = "block"
  BY SMT DEF UpPacket, BlockPacket
<1>4. \A p \in Pos : Request(p) \in UpPacket /\ Request(p).type = "request" /\ Request(p).pos = p
  BY SMT DEF UpPacket, BlockPacket, Request
<1>5. \A p \in Pos, y \in Cell, b \in Block : SetBlock(p, y, b) \in UpPacket
  BY SMT DEF UpPacket, BlockPacket, SetBlock
<1> QED BY <1>1, <1>2, <1>3, <1>4, <1>5

LEMMA DownPackets ==
  /\ \A m \in DownPacket : m.type = "chunk" => m.pos \in Pos /\ m.chunk \in Chunk
  /\ \A m \in DownPacket : m.type = "block" =>
       m.pos \in Pos /\ m.y \in 0..Height /\ m.block \in Block
  /\ \A m \in DownPacket : m.type = "chunk" \/ m.type = "block"
  /\ \A p \in Pos, k \in Chunk :
       /\ ChunkData(p, k) \in DownPacket
       /\ ChunkData(p, k).type = "chunk" /\ ChunkData(p, k).pos = p /\ ChunkData(p, k).chunk = k
  /\ \A p \in Pos, y \in 0..Height, b \in Block :
       /\ SetBlock(p, y, b) \in DownPacket
       /\ SetBlock(p, y, b).type = "block" /\ SetBlock(p, y, b).pos = p
       /\ SetBlock(p, y, b).y = y /\ SetBlock(p, y, b).block = b
<1>1. \A m \in DownPacket : m.type = "chunk" => m.pos \in Pos /\ m.chunk \in Chunk
  BY SMT DEF DownPacket, BlockPacket
<1>2. \A m \in DownPacket : m.type = "block" => m.pos \in Pos /\ m.y \in 0..Height /\ m.block \in Block
  BY SMT DEF DownPacket, BlockPacket
<1>3. \A m \in DownPacket : m.type = "chunk" \/ m.type = "block"
  BY SMT DEF DownPacket, BlockPacket
<1>4. \A p \in Pos, k \in Chunk :
       /\ ChunkData(p, k) \in DownPacket
       /\ ChunkData(p, k).type = "chunk" /\ ChunkData(p, k).pos = p /\ ChunkData(p, k).chunk = k
  BY SMT DEF DownPacket, BlockPacket, ChunkData
<1>5. \A p \in Pos, y \in 0..Height, b \in Block :
       /\ SetBlock(p, y, b) \in DownPacket
       /\ SetBlock(p, y, b).type = "block" /\ SetBlock(p, y, b).pos = p
       /\ SetBlock(p, y, b).y = y /\ SetBlock(p, y, b).block = b
  BY SMT DEF DownPacket, BlockPacket, SetBlock
<1> QED BY <1>1, <1>2, <1>3, <1>4, <1>5

(* getChunk creates what it does not find and leaves the rest alone.       *)
LEMMA CreatedKeeps ==
  ASSUME NEW m \in [Pos -> Chunk \cup {Absent}], NEW ps
  PROVE  /\ Created(m, ps) \in [Pos -> Chunk \cup {Absent}]
         /\ \A p \in Pos : m[p] # Absent => Created(m, ps)[p] = m[p]
         /\ \A p \in Pos \cap ps : Created(m, ps)[p] # Absent
<1>1. BlankChunk \in Chunk /\ BlankChunk # Absent
  BY ConstantsAssumption DEF BlankChunk, Chunk
<1> QED BY <1>1 DEF Created

(* A block set in a chunk changes one cell of it; the chunks it creates    *)
(* are ones that were not there.                                           *)
LEMMA PlacedKeeps ==
  ASSUME NEW m \in [Pos -> Chunk \cup {Absent}], NEW q \in Pos, NEW z, NEW b \in Block
  PROVE  /\ Placed(m, q, z, b) \in [Pos -> Chunk \cup {Absent}]
         /\ \A p \in Pos : m[p] # Absent => Placed(m, q, z, b)[p] # Absent
         /\ \A p \in Pos, y \in Cell :
              m[p] # Absent /\ ~(p = q /\ y = z) => Placed(m, q, z, b)[p][y] = m[p][y]
         /\ z \in Cell => Placed(m, q, z, b)[q][z] = b
<1>1. CASE z \notin Cell
  BY <1>1, CreatedKeeps DEF Placed
<1>2. CASE z \in Cell
  <2> DEFINE k == Created(m, Near(q))
  <2>1. /\ k \in [Pos -> Chunk \cup {Absent}]
        /\ \A p \in Pos : m[p] # Absent => k[p] = m[p]
    BY CreatedKeeps
  <2>2. q \in Near(q)
    BY ConstantsAssumption, SMT DEF Near, Within
  <2>3. k[q] # Absent
    BY <2>2, CreatedKeeps
  <2> HIDE DEF k
  <2>4. k[q] \in Chunk
    BY <2>1, <2>3
  <2>5. Placed(m, q, z, b) = [k EXCEPT ![q] = [@ EXCEPT ![z] = b]]
    BY <1>2 DEF Placed, k
  <2> DEFINE new == [k[q] EXCEPT ![z] = b]
  <2>6. /\ new \in Chunk /\ new[z] = b
        /\ \A y \in Cell : y # z => new[y] = k[q][y]
    BY <1>2, <2>4 DEF Chunk
  <2>7. new # Absent
    BY <2>6, ConstantsAssumption
  <2>8. Placed(m, q, z, b) = [k EXCEPT ![q] = new]
    BY <2>5
  <2> HIDE DEF new
  <2>9. Placed(m, q, z, b)[q] = new /\ \A p \in Pos : p # q => Placed(m, q, z, b)[p] = k[p]
    BY <2>1, <2>8
  <2>10. Placed(m, q, z, b) \in [Pos -> Chunk \cup {Absent}]
    BY <2>1, <2>6, <2>8
  <2>11. \A p \in Pos : m[p] # Absent => Placed(m, q, z, b)[p] # Absent
    BY <2>1, <2>7, <2>9
  <2>12. \A p \in Pos, y \in Cell :
              m[p] # Absent /\ ~(p = q /\ y = z) => Placed(m, q, z, b)[p][y] = m[p][y]
    BY <2>1, <2>6, <2>9
  <2> QED BY <2>6, <2>9, <2>10, <2>11, <2>12
<1> QED BY <1>1, <1>2

(* manageChunks: what is out of range goes, what is missing is asked for.  *)
LEMMA ManageFacts ==
  ASSUME TypeOK, NEW c \in Client, NEW to \in Pos, NEW m \in [Pos -> Chunk \cup {Absent}],
         ManageChunks(c, to, m), NEW new, new = Missing(m, expected[c], to)
  PROVE  /\ mem' \in [Client -> [Pos -> Chunk \cup {Absent}]]
         /\ shown' \in [Client -> SUBSET Pos] /\ expected' \in [Client -> SUBSET Pos]
         /\ up' \in [Client -> Seq(UpPacket)]
         /\ \A d \in Client : d # c =>
              mem'[d] = mem[d] /\ shown'[d] = shown[d] /\ expected'[d] = expected[d] /\ up'[d] = up[d]
         /\ \A p \in Window(to) : mem'[c][p] = m[p]
         /\ shown'[c] = shown[c] \cap Window(to)
         /\ expected'[c] = expected[c] \cup new
         /\ up'[c] = up[c] \o Requested(new)
         /\ new \in SUBSET Pos /\ IsFiniteSet(new)
         /\ Requested(new) \in Seq(UpPacket)
<1> DEFINE kept == [p \in Pos |-> IF p \in Window(to) THEN m[p] ELSE Absent]
<1>1. /\ mem' = [mem EXCEPT ![c] = kept]
      /\ shown' = [shown EXCEPT ![c] = @ \cap Window(to)]
      /\ expected' = [expected EXCEPT ![c] = @ \cup new]
      /\ up' = [up EXCEPT ![c] = @ \o Requested(new)]
  <2>1. Missing(kept, expected[c], to) = new
    BY DEF Missing, Window
  <2> QED BY <2>1 DEF ManageChunks
<1>2. new \in SUBSET Window(to) /\ Window(to) \in SUBSET Pos
  BY DEF Missing, Window
<1>3. new \in SUBSET Pos /\ IsFiniteSet(new)
  BY <1>2, WindowFinite, FS_Subset
<1>4. kept \in [Pos -> Chunk \cup {Absent}] /\ \A p \in Window(to) : kept[p] = m[p]
  BY <1>2
<1> HIDE DEF kept
<1>5. Requested(new) \in Seq(UpPacket)
  BY <1>3, RequestedOnce
<1>6. up[c] \o Requested(new) \in Seq(UpPacket)
  BY <1>5, ConcatElements DEF TypeOK
<1>7. /\ mem \in [Client -> [Pos -> Chunk \cup {Absent}]]
      /\ shown \in [Client -> SUBSET Pos] /\ expected \in [Client -> SUBSET Pos]
      /\ up \in [Client -> Seq(UpPacket)]
  BY DEF TypeOK
<1>8. /\ mem' \in [Client -> [Pos -> Chunk \cup {Absent}]]
      /\ shown' \in [Client -> SUBSET Pos] /\ expected' \in [Client -> SUBSET Pos]
      /\ up' \in [Client -> Seq(UpPacket)]
  BY <1>1, <1>3, <1>4, <1>6, <1>7
<1>9. \A d \in Client : d # c =>
        mem'[d] = mem[d] /\ shown'[d] = shown[d] /\ expected'[d] = expected[d] /\ up'[d] = up[d]
  BY <1>1, <1>7
<1>10. /\ mem'[c] = kept
       /\ shown'[c] = shown[c] \cap Window(to)
       /\ expected'[c] = expected[c] \cup new
       /\ up'[c] = up[c] \o Requested(new)
  BY <1>1, <1>7
<1>11. \A p \in Window(to) : mem'[c][p] = m[p]
  BY <1>4, <1>10
<1> QED BY <1>3, <1>5, <1>8, <1>9, <1>10, <1>11

(* What a block is now does not matter while a packet is on its way that   *)
(* will set it; it does only for a chunk that is shown.                    *)
LEMMA ConvergesAt ==
  ASSUME NEW c, NEW p, NEW y, Converges(c, p, y), Following(c, p, y),
         NEW init, p \in shown[c] => init = mem[c][p][y]
  PROVE  Ends(down[c], Write(p, y), y, init, server[p][y])
<1>1. Ends(down[c], Write(p, y), y, mem[c][p][y], server[p][y])
  BY DEF Converges
<1>2. CASE p \in shown[c]
  BY <1>1, <1>2
<1>3. CASE p \notin shown[c]
  <2>1. Some(down[c], Reply(p))
    BY <1>3 DEF Following
  <2>2. Some(down[c], Write(p, y))
    BY <2>1 DEF Some, Reply, Write
  <2> QED BY <1>1, <2>2 DEF Ends
<1> QED BY <1>2, <1>3

(* The packets of a chunk's requests, replies and blocks are different     *)
(* ones.                                                                   *)
LEMMA PacketKinds ==
  /\ \A p, q, z : Request(q) \notin BlockAt(p, z)
  /\ \A p, q, z, b : SetBlock(q, z, b) \notin {Request(p)}
  /\ \A p, q, z, b : SetBlock(q, z, b) \notin Reply(p)
  /\ \A p, q, y, z, b : SetBlock(q, z, b) \in BlockAt(p, y) => p = q /\ y = z
  /\ \A p, q, y, z, b : SetBlock(q, z, b) \in Write(p, y) => p = q /\ y = z
  /\ \A p, q, k : ChunkData(q, k) \in Reply(p) => p = q
  /\ \A p, q, y, k : ChunkData(q, k) \in Write(p, y) => p = q
  /\ \A p, q : Request(q) \in {Request(p)} <=> p = q
<1>1. \A p, q, z : Request(q) \notin BlockAt(p, z)
  BY DEF Request, BlockAt
<1>2. \A p, q, z, b : SetBlock(q, z, b) \notin {Request(p)}
  <2>1. \A p, q, z, b : SetBlock(q, z, b).type = "block" /\ Request(p).type = "request"
    BY DEF Request, SetBlock
  <2> QED BY <2>1
<1>3. \A p, q, z, b : SetBlock(q, z, b) \notin Reply(p)
  BY DEF SetBlock, Reply
<1>4. \A p, q, y, z, b : SetBlock(q, z, b) \in BlockAt(p, y) => p = q /\ y = z
  BY DEF SetBlock, BlockAt
<1>5. \A p, q, y, z, b : SetBlock(q, z, b) \in Write(p, y) => p = q /\ y = z
  BY DEF SetBlock, Write
<1>6. \A p, q, k : ChunkData(q, k) \in Reply(p) => p = q
  BY DEF ChunkData, Reply
<1>7. \A p, q, y, k : ChunkData(q, k) \in Write(p, y) => p = q
  BY DEF ChunkData, Write
<1>8. \A p, q : Request(q) \in {Request(p)} <=> p = q
  <2>1. \A p : Request(p).pos = p
    BY DEF Request
  <2> QED BY <2>1
<1> QED BY <1>1, <1>2, <1>3, <1>4, <1>5, <1>6, <1>7, <1>8

-----------------------------------------------------------------------------
(* One lemma for each thing that happens to a client.                      *)

(* Nothing.                                                                *)
LEMMA ClientKept ==
  ASSUME NEW c, ClientInv(c),
         c \in online' <=> c \in online, server' = server, player'[c] = player[c],
         mem'[c] = mem[c], shown'[c] = shown[c], expected'[c] = expected[c],
         up'[c] = up[c], down'[c] = down[c]
  PROVE  ClientInv(c)'
<1>1. c \notin online' => AtRest(c)'
  BY DEF ClientInv, AtRest
<1>2. c \in online' => Covered(c)'
  BY DEF ClientInv, Covered, Held
<1>3. c \in online' => \A p \in Pos : Accounted(c, p)'
  BY DEF ClientInv, Accounted
<1>4. \A p \in Pos, y \in Cell : Converges(c, p, y)'
  BY DEF ClientInv, Converges, Following
<1> QED BY <1>1, <1>2, <1>3, <1>4 DEF ClientInv

(* manageChunks, after connecting or a move.                               *)
LEMMA ClientManages ==
  ASSUME TypeOK, NEW c \in Client, NEW to \in Pos, NEW m \in [Pos -> Chunk \cup {Absent}],
         ManageChunks(c, to, m), server' = server, down' = down,
         player'[c] = to, c \in online',
         \A p \in shown[c] : m[p] = mem[c][p],
         \A p \in Pos : Accounted(c, p),
         \A p \in Pos, y \in Cell : Converges(c, p, y)
  PROVE  ClientInv(c)'
<1> DEFINE new == Missing(m, expected[c], to)
           req == Requested(new)
<1>1. /\ \A p \in Window(to) : mem'[c][p] = m[p]
      /\ shown'[c] = shown[c] \cap Window(to)
      /\ expected'[c] = expected[c] \cup new
      /\ up'[c] = up[c] \o req
      /\ new \in SUBSET Pos /\ IsFiniteSet(new)
      /\ req \in Seq(UpPacket)
  <2>1. new = Missing(m, expected[c], to)
    OBVIOUS
  <2> HIDE DEF new
  <2>2. /\ \A p \in Window(to) : mem'[c][p] = m[p]
        /\ shown'[c] = shown[c] \cap Window(to)
        /\ expected'[c] = expected[c] \cup new
    BY <2>1, ManageFacts
  <2>3. up'[c] = up[c] \o Requested(new)
    <3>1. ManageChunks(c, to, m) /\ TypeOK /\ c \in Client /\ to \in Pos /\ m \in [Pos -> Chunk \cup {Absent}]
      OBVIOUS
    <3> QED BY ONLY <2>1, <3>1, ManageFacts, Zenon
  <2>4. Requested(new) \in Seq(UpPacket) /\ new \in SUBSET Pos /\ IsFiniteSet(new)
    BY <2>1, ManageFacts
  <2> QED BY <2>2, <2>3, <2>4 DEF req
<1>2. new = {p \in Window(to) : m[p] = Absent /\ p \notin expected[c]}
  BY DEF Missing
<1>3. /\ \A p : Some(req, {Request(p)}) <=> p \in new
      /\ \A p : AtMostOne(req, {Request(p)})
  BY <1>1, RequestedOnce
<1> HIDE DEF new, req
<1>4. up[c] \in Seq(UpPacket) /\ Window(to) \subseteq Pos
  BY DEF TypeOK, Window
<1>5. \A M : /\ Some(up'[c], M) <=> Some(up[c], M) \/ Some(req, M)
             /\ AtMostOne(up[c], M) /\ AtMostOne(req, M) /\ ~(Some(up[c], M) /\ Some(req, M)) =>
                  AtMostOne(up'[c], M)
  BY <1>1, <1>4, ConcatSome
<1>6. Covered(c)'
  <2>1. \A p \in Window(to) : mem'[c][p] # Absent \/ p \in expected'[c]
    BY <1>1, <1>2
  <2> QED BY <2>1, <1>4 DEF Covered, Held
<1>7. ASSUME NEW p \in Pos PROVE Accounted(c, p)'
  <2> DEFINE M == {Request(p)}
  <2>1. /\ AtMostOne(up[c], M) /\ AtMostOne(down[c], Reply(p))
        /\ ~(Some(up[c], M) /\ Some(down[c], Reply(p)))
        /\ Some(up[c], M) \/ Some(down[c], Reply(p)) => p \in expected[c]
        /\ InWorld(p) /\ p \in expected[c] => Some(up[c], M) \/ Some(down[c], Reply(p))
    BY <1>7 DEF Accounted
  <2>2. /\ Some(req, M) <=> p \in new
        /\ AtMostOne(req, M)
    BY <1>3
  <2>3. p \in new => p \notin expected[c]
    BY <1>2
  <2> HIDE DEF M
  <2>4. AtMostOne(up'[c], M)
    BY <1>5, <2>1, <2>2, <2>3
  <2>5. Some(up'[c], M) <=> Some(up[c], M) \/ p \in new
    BY <1>5, <2>2
  <2>6. ~(Some(up'[c], M) /\ Some(down[c], Reply(p)))
    BY <2>1, <2>3, <2>5
  <2>7. Some(up'[c], M) \/ Some(down[c], Reply(p)) => p \in expected'[c]
    BY <2>1, <2>5, <1>1
  <2>8. InWorld(p) /\ p \in expected'[c] => Some(up'[c], M) \/ Some(down[c], Reply(p))
    BY <2>1, <2>5, <1>1
  <2> QED BY <2>1, <2>4, <2>6, <2>7, <2>8 DEF Accounted, M
<1>8. ASSUME NEW p \in Pos, NEW y \in Cell, Following(c, p, y)' PROVE Converges(c, p, y)'
  <2>1. Following(c, p, y)
    BY <1>1, <1>5, <1>8 DEF Following
  <2>2. Ends(down[c], Write(p, y), y, mem'[c][p][y], server[p][y]) \/ ~(p \in shown'[c] \/ Some(down[c], Reply(p)))
    <3>1. CASE p \in shown'[c]
      <4>1. mem'[c][p] = mem[c][p]
        BY <3>1, <1>1
      <4> QED BY <2>1, <4>1, ConvergesAt
    <3>2. CASE Some(down[c], Reply(p))
      <4>1. Some(down[c], Write(p, y))
        BY <3>2 DEF Some, Reply, Write
      <4>2. Ends(down[c], Write(p, y), y, mem[c][p][y], server[p][y])
        BY <2>1 DEF Converges
      <4> QED BY <4>1, <4>2 DEF Ends
    <3> QED BY <3>1, <3>2
  <2> QED BY <2>2, <1>8 DEF Converges, Following
<1>9. \A p \in Pos, y \in Cell : Converges(c, p, y)'
  BY <1>8 DEF Converges
<1> QED BY <1>6, <1>7, <1>9 DEF ClientInv

(* What manageChunks leaves of the types.                                  *)
LEMMA ManageType ==
  ASSUME TypeOK, NEW c \in Client, NEW to \in Pos, NEW m \in [Pos -> Chunk \cup {Absent}],
         ManageChunks(c, to, m), \A p \in shown[c] : m[p] = mem[c][p]
  PROVE  /\ mem' \in [Client -> [Pos -> Chunk \cup {Absent}]]
         /\ shown' \in [Client -> SUBSET Pos] /\ expected' \in [Client -> SUBSET Pos]
         /\ up' \in [Client -> Seq(UpPacket)]
         /\ \A d \in Client : shown'[d] \subseteq Held(d)'
<1>1. /\ mem' \in [Client -> [Pos -> Chunk \cup {Absent}]]
      /\ shown' \in [Client -> SUBSET Pos] /\ expected' \in [Client -> SUBSET Pos]
      /\ up' \in [Client -> Seq(UpPacket)]
  BY ManageFacts
<1>2. /\ \A d \in Client : d # c => mem'[d] = mem[d] /\ shown'[d] = shown[d]
      /\ \A p \in Window(to) : mem'[c][p] = m[p]
      /\ shown'[c] = shown[c] \cap Window(to)
  BY ManageFacts
<1>3. \A d \in Client : shown[d] \subseteq Held(d)
  BY DEF TypeOK
<1>4. ASSUME NEW d \in Client PROVE shown'[d] \subseteq Held(d)'
  <2>1. CASE d = c
    BY <2>1, <1>2, <1>3 DEF Held
  <2>2. CASE d # c
    BY <2>2, <1>2, <1>3 DEF Held
  <2> QED BY <2>1, <2>2
<1> QED BY <1>1, <1>4

-----------------------------------------------------------------------------
(* The actions.                                                            *)

LEMMA InitInv == Init => SyncInv
<1> SUFFICES ASSUME Init PROVE SyncInv
  OBVIOUS
<1>1. TypeOK
  <2>1. server \in [Pos -> Chunk] /\ online \subseteq Client /\ player \in [Client -> Pos]
    BY ConstantsAssumption DEF Init
  <2>2. mem \in [Client -> [Pos -> Chunk \cup {Absent}]]
    BY DEF Init
  <2>3. shown \in [Client -> SUBSET Pos] /\ expected \in [Client -> SUBSET Pos]
    BY DEF Init
  <2>4. up \in [Client -> Seq(UpPacket)] /\ down \in [Client -> Seq(DownPacket)]
    BY DEF Init
  <2>5. edits \in 0..MaxEdits /\ moves \in 0..MaxMoves
    BY ConstantsAssumption DEF Init
  <2>6. \A c \in Client : shown[c] \subseteq Held(c)
    BY DEF Init
  <2> QED BY <2>1, <2>2, <2>3, <2>4, <2>5, <2>6 DEF TypeOK
<1>2. ASSUME NEW c \in Client PROVE ClientInv(c)
  <2>1. AtRest(c) /\ c \notin online
    BY DEF Init, AtRest
  <2>2. \A p \in Pos, y \in Cell : Converges(c, p, y)
    BY <2>1 DEF AtRest, Converges, Following, Some
  <2> QED BY <2>1, <2>2 DEF ClientInv
<1> QED BY <1>1, <1>2 DEF SyncInv

LEMMA ConnectInv ==
  ASSUME SyncInv, NEW c \in Client, Connect(c)
  PROVE  SyncInv'
<1>1. /\ TypeOK /\ \A d \in Client : ClientInv(d)
      /\ c \notin online /\ up[c] = <<>> /\ online' = online \cup {c}
      /\ ManageChunks(c, Spawn, mem[c])
      /\ server' = server /\ player' = player /\ down' = down /\ edits' = edits /\ moves' = moves
  BY DEF SyncInv, Connect
<1>2. AtRest(c)
  BY <1>1 DEF ClientInv
<1>3. Spawn \in Pos /\ mem[c] \in [Pos -> Chunk \cup {Absent}]
  BY <1>1, ConstantsAssumption DEF TypeOK
<1>4. TypeOK'
  <2>1. /\ mem' \in [Client -> [Pos -> Chunk \cup {Absent}]]
        /\ shown' \in [Client -> SUBSET Pos] /\ expected' \in [Client -> SUBSET Pos]
        /\ up' \in [Client -> Seq(UpPacket)]
        /\ \A d \in Client : shown'[d] \subseteq Held(d)'
    BY <1>1, <1>3, ManageType
  <2> QED BY <2>1, <1>1 DEF TypeOK
<1>5. ClientInv(c)'
  <2>1. \A p \in Pos : Accounted(c, p)
    BY <1>1, <1>2 DEF AtRest, Accounted, Some, AtMostOne
  <2>2. \A p \in Pos, y \in Cell : Converges(c, p, y)
    BY <1>1 DEF ClientInv
  <2>3. player'[c] = Spawn /\ c \in online'
    BY <1>1, <1>2 DEF AtRest
  <2> QED BY <1>1, <1>3, <2>1, <2>2, <2>3, ClientManages
<1>6. ASSUME NEW d \in Client, d # c PROVE ClientInv(d)'
  <2>1. mem'[d] = mem[d] /\ shown'[d] = shown[d] /\ expected'[d] = expected[d] /\ up'[d] = up[d]
    BY <1>1, <1>3, <1>6, ManageFacts
  <2>2. player'[d] = player[d] /\ down'[d] = down[d] /\ (d \in online' <=> d \in online)
    BY <1>1, <1>6
  <2> QED BY <1>1, <2>1, <2>2, ClientKept
<1> QED BY <1>4, <1>5, <1>6 DEF SyncInv

LEMMA LeaveInv ==
  ASSUME SyncInv, NEW c \in Client, Leave(c)
  PROVE  SyncInv'
<1>1. /\ TypeOK /\ \A d \in Client : ClientInv(d)
      /\ moves < MaxMoves /\ moves' = moves + 1 /\ online' = online \ {c}
      /\ down' = [down EXCEPT ![c] = <<>>] /\ player' = [player EXCEPT ![c] = Spawn]
      /\ mem' = [mem EXCEPT ![c] = [p \in Pos |-> Absent]]
      /\ shown' = [shown EXCEPT ![c] = {}] /\ expected' = [expected EXCEPT ![c] = {}]
      /\ server' = server /\ edits' = edits
  BY DEF SyncInv, Leave
<1>2. PICK n \in 0..Len(up[c]) : up' = [up EXCEPT ![c] = SubSeq(@, 1, n)]
  BY DEF Leave
<1>3. /\ player \in [Client -> Pos] /\ mem \in [Client -> [Pos -> Chunk \cup {Absent}]]
      /\ shown \in [Client -> SUBSET Pos] /\ expected \in [Client -> SUBSET Pos]
      /\ up \in [Client -> Seq(UpPacket)] /\ down \in [Client -> Seq(DownPacket)]
      /\ moves \in 0..MaxMoves /\ \A d \in Client : shown[d] \subseteq Held(d)
  BY <1>1 DEF TypeOK
<1>4. SubSeq(up[c], 1, n) \in Seq(UpPacket)
  BY <1>2, <1>3, SubSeqProperties
<1>5. /\ player'[c] = Spawn /\ mem'[c] = [p \in Pos |-> Absent] /\ shown'[c] = {}
      /\ expected'[c] = {} /\ down'[c] = <<>> /\ c \notin online'
  BY <1>1, <1>3
<1>6. ASSUME NEW d \in Client, d # c
      PROVE  /\ player'[d] = player[d] /\ mem'[d] = mem[d] /\ shown'[d] = shown[d]
             /\ expected'[d] = expected[d] /\ up'[d] = up[d] /\ down'[d] = down[d]
             /\ d \in online' <=> d \in online
  BY <1>1, <1>2, <1>3, <1>6
<1>7. TypeOK'
  <2>1. server' \in [Pos -> Chunk] /\ online' \subseteq Client
    BY <1>1 DEF TypeOK
  <2>2. player' \in [Client -> Pos] /\ mem' \in [Client -> [Pos -> Chunk \cup {Absent}]]
    BY <1>1, <1>3, ConstantsAssumption
  <2>3. shown' \in [Client -> SUBSET Pos] /\ expected' \in [Client -> SUBSET Pos]
    BY <1>1, <1>3
  <2>4. up' \in [Client -> Seq(UpPacket)] /\ down' \in [Client -> Seq(DownPacket)]
    BY <1>1, <1>2, <1>3, <1>4
  <2>5. edits' \in 0..MaxEdits
    BY <1>1 DEF TypeOK
  <2>6. moves' \in 0..MaxMoves
    BY <1>1, <1>3, ConstantsAssumption
  <2>7. ASSUME NEW d \in Client PROVE shown'[d] \subseteq Held(d)'
    <3>1. CASE d = c
      BY <3>1, <1>5
    <3>2. CASE d # c
      BY <3>2, <1>3, <1>6 DEF Held
    <3> QED BY <3>1, <3>2
  <2> QED BY <2>1, <2>2, <2>3, <2>4, <2>5, <2>6, <2>7 DEF TypeOK
<1>8. ClientInv(c)'
  <2>1. AtRest(c)'
    BY <1>5 DEF AtRest
  <2>2. \A p \in Pos, y \in Cell : Converges(c, p, y)'
    BY <1>5 DEF Converges, Following, Some
  <2> QED BY <1>5, <2>1, <2>2 DEF ClientInv
<1>9. ASSUME NEW d \in Client, d # c PROVE ClientInv(d)'
  BY <1>1, <1>6, <1>9, ClientKept
<1> QED BY <1>7, <1>8, <1>9 DEF SyncInv

LEMMA MoveInv ==
  ASSUME SyncInv, NEW c \in Client, NEW to \in Pos, Move(c, to)
  PROVE  SyncInv'
<1> DEFINE m == Created(mem[c], {to})
<1>1. /\ TypeOK /\ \A d \in Client : ClientInv(d)
      /\ c \in online /\ moves < MaxMoves /\ moves' = moves + 1
      /\ player' = [player EXCEPT ![c] = to]
      /\ ManageChunks(c, to, m)
      /\ server' = server /\ online' = online /\ down' = down /\ edits' = edits
  BY DEF SyncInv, Move
<1>2. /\ player \in [Client -> Pos] /\ mem[c] \in [Pos -> Chunk \cup {Absent}]
      /\ moves \in 0..MaxMoves /\ shown[c] \subseteq Held(c)
  BY <1>1 DEF TypeOK
<1>3. m \in [Pos -> Chunk \cup {Absent}] /\ \A p \in shown[c] : m[p] = mem[c][p]
  BY <1>2, CreatedKeeps DEF Held
<1> HIDE DEF m
<1>4. TypeOK'
  <2>1. /\ mem' \in [Client -> [Pos -> Chunk \cup {Absent}]]
        /\ shown' \in [Client -> SUBSET Pos] /\ expected' \in [Client -> SUBSET Pos]
        /\ up' \in [Client -> Seq(UpPacket)]
        /\ \A d \in Client : shown'[d] \subseteq Held(d)'
    BY <1>1, <1>3, ManageType
  <2>2. player' \in [Client -> Pos] /\ moves' \in 0..MaxMoves
    BY <1>1, <1>2, ConstantsAssumption
  <2> QED BY <2>1, <2>2, <1>1 DEF TypeOK
<1>5. ClientInv(c)'
  <2>1. (\A p \in Pos : Accounted(c, p)) /\ \A p \in Pos, y \in Cell : Converges(c, p, y)
    BY <1>1 DEF ClientInv
  <2>2. player'[c] = to /\ c \in online'
    BY <1>1, <1>2
  <2> QED BY <1>1, <1>3, <2>1, <2>2, ClientManages
<1>6. ASSUME NEW d \in Client, d # c PROVE ClientInv(d)'
  <2>1. mem'[d] = mem[d] /\ shown'[d] = shown[d] /\ expected'[d] = expected[d] /\ up'[d] = up[d]
    BY <1>1, <1>3, <1>6, ManageFacts
  <2>2. player'[d] = player[d] /\ down'[d] = down[d] /\ (d \in online' <=> d \in online)
    BY <1>1, <1>2, <1>6
  <2> QED BY <1>1, <2>1, <2>2, ClientKept
<1> QED BY <1>4, <1>5, <1>6 DEF SyncInv

LEMMA LookInv ==
  ASSUME SyncInv, NEW c \in Client, NEW q \in Pos, Look(c, q)
  PROVE  SyncInv'
<1> DEFINE m == Created(mem[c], {q})
<1>1. /\ TypeOK /\ \A d \in Client : ClientInv(d)
      /\ c \in online /\ mem' = [mem EXCEPT ![c] = m]
      /\ server' = server /\ online' = online /\ player' = player /\ shown' = shown
      /\ expected' = expected /\ up' = up /\ down' = down /\ edits' = edits /\ moves' = moves
  BY DEF SyncInv, Look
<1>2. /\ mem \in [Client -> [Pos -> Chunk \cup {Absent}]] /\ shown \in [Client -> SUBSET Pos]
      /\ \A d \in Client : shown[d] \subseteq Held(d)
  BY <1>1 DEF TypeOK
<1>3. /\ m \in [Pos -> Chunk \cup {Absent}]
      /\ \A p \in Pos : mem[c][p] # Absent => m[p] = mem[c][p]
  BY <1>2, CreatedKeeps
<1> HIDE DEF m
<1>4. mem'[c] = m /\ \A d \in Client : d # c => mem'[d] = mem[d]
  BY <1>1, <1>2
<1>5. TypeOK'
  <2>1. mem' \in [Client -> [Pos -> Chunk \cup {Absent}]]
    BY <1>1, <1>2, <1>3
  <2>2. ASSUME NEW d \in Client PROVE shown'[d] \subseteq Held(d)'
    <3>1. CASE d = c
      BY <3>1, <1>1, <1>2, <1>3, <1>4 DEF Held
    <3>2. CASE d # c
      BY <3>2, <1>1, <1>2, <1>4 DEF Held
    <3> QED BY <3>1, <3>2
  <2> QED BY <2>1, <2>2, <1>1 DEF TypeOK
<1>6. ClientInv(c)'
  <2>1. Covered(c)'
    BY <1>1, <1>3, <1>4 DEF ClientInv, Covered, Held
  <2>2. \A p \in Pos : Accounted(c, p)'
    BY <1>1 DEF ClientInv, Accounted
  <2>3. ASSUME NEW p \in Pos, NEW y \in Cell, Following(c, p, y)' PROVE Converges(c, p, y)'
    <3>1. Converges(c, p, y) /\ Following(c, p, y)
      BY <1>1, <2>3 DEF ClientInv, Following
    <3>2. p \in shown[c] => mem'[c][p][y] = mem[c][p][y]
      BY <1>2, <1>3, <1>4 DEF Held
    <3>3. Ends(down[c], Write(p, y), y, mem'[c][p][y], server[p][y])
      BY <3>1, <3>2, ConvergesAt
    <3> QED BY <1>1, <3>3 DEF Converges
  <2> QED BY <1>1, <2>1, <2>2, <2>3 DEF ClientInv, Converges
<1>7. ASSUME NEW d \in Client, d # c PROVE ClientInv(d)'
  BY <1>1, <1>4, <1>7, ClientKept
<1> QED BY <1>5, <1>6, <1>7 DEF SyncInv

(* The block a client is placing is pending until the server has it.       *)
LEMMA PlaceBlockInv ==
  ASSUME SyncInv, NEW c \in Client, NEW q \in Pos, NEW z \in Cell, NEW b \in Block,
         PlaceBlock(c, q, z, b)
  PROVE  SyncInv'
<1> DEFINE m == Placed(mem[c], q, z, b)
           e == SetBlock(q, z, b)
<1>1. /\ TypeOK /\ \A d \in Client : ClientInv(d)
      /\ c \in online /\ edits < MaxEdits /\ edits' = edits + 1
      /\ mem' = [mem EXCEPT ![c] = m] /\ up' = [up EXCEPT ![c] = Append(@, e)]
      /\ server' = server /\ online' = online /\ player' = player /\ shown' = shown
      /\ expected' = expected /\ down' = down /\ moves' = moves
  BY DEF SyncInv, PlaceBlock
<1>2. /\ mem \in [Client -> [Pos -> Chunk \cup {Absent}]] /\ shown \in [Client -> SUBSET Pos]
      /\ up \in [Client -> Seq(UpPacket)] /\ edits \in 0..MaxEdits
      /\ \A d \in Client : shown[d] \subseteq Held(d)
  BY <1>1 DEF TypeOK
<1>3. /\ m \in [Pos -> Chunk \cup {Absent}]
      /\ \A p \in Pos : mem[c][p] # Absent => m[p] # Absent
      /\ \A p \in Pos, y \in Cell : mem[c][p] # Absent /\ ~(p = q /\ y = z) => m[p][y] = mem[c][p][y]
  BY <1>2, PlacedKeeps
<1>4. e \in UpPacket
  BY UpPackets
<1> HIDE DEF m, e
<1>5. up[c] \in Seq(UpPacket) /\ Append(up[c], e) \in Seq(UpPacket)
  BY <1>2, <1>4, AppendProperties
<1>6. /\ mem'[c] = m /\ up'[c] = Append(up[c], e)
      /\ \A d \in Client : d # c => mem'[d] = mem[d] /\ up'[d] = up[d]
  BY <1>1, <1>2
<1>7. \A M : /\ Some(up'[c], M) <=> Some(up[c], M) \/ e \in M
             /\ AtMostOne(up[c], M) /\ ~(Some(up[c], M) /\ e \in M) => AtMostOne(up'[c], M)
  BY <1>4, <1>5, <1>6, AppendSome
<1>8. TypeOK'
  <2>1. mem' \in [Client -> [Pos -> Chunk \cup {Absent}]]
    BY <1>1, <1>2, <1>3
  <2>2. ASSUME NEW d \in Client PROVE shown'[d] \subseteq Held(d)'
    <3>1. CASE d = c
      BY <3>1, <1>1, <1>2, <1>3, <1>6 DEF Held
    <3>2. CASE d # c
      BY <3>2, <1>1, <1>2, <1>6 DEF Held
    <3> QED BY <3>1, <3>2
  <2>4. up' \in [Client -> Seq(UpPacket)]
    BY <1>1, <1>2, <1>5
  <2>5. edits' \in 0..MaxEdits
    BY <1>1, <1>2, ConstantsAssumption
  <2> QED BY <2>1, <2>2, <2>4, <2>5, <1>1 DEF TypeOK
<1>9. ClientInv(c)'
  <2>1. Covered(c)'
    BY <1>1, <1>3, <1>6 DEF ClientInv, Covered, Held
  <2>2. ASSUME NEW p \in Pos PROVE Accounted(c, p)'
    <3>1. Accounted(c, p)
      BY <1>1 DEF ClientInv
    <3>2. e \notin {Request(p)}
      BY PacketKinds DEF e
    <3>3. Some(up'[c], {Request(p)}) <=> Some(up[c], {Request(p)})
      BY <1>7, <3>2
    <3>4. AtMostOne(up'[c], {Request(p)})
      BY <3>1, <3>2, <1>7 DEF Accounted
    <3> QED BY <3>1, <3>3, <3>4, <1>1 DEF Accounted
  <2>3. ASSUME NEW p \in Pos, NEW y \in Cell, Following(c, p, y)' PROVE Converges(c, p, y)'
    <3>1. Converges(c, p, y) /\ Following(c, p, y)
      BY <1>1, <1>7, <2>3 DEF ClientInv, Following
    <3>2. e \notin BlockAt(p, y)
      BY <2>3, <1>7 DEF Following
    <3>3. ~(p = q /\ y = z)
      BY <3>2, <1>4 DEF BlockAt, SetBlock, e
    <3>4. p \in shown[c] => mem'[c][p][y] = mem[c][p][y]
      BY <3>3, <1>2, <1>3, <1>6 DEF Held
    <3>5. Ends(down[c], Write(p, y), y, mem'[c][p][y], server[p][y])
      BY <3>1, <3>4, ConvergesAt
    <3> QED BY <1>1, <3>5 DEF Converges
  <2> QED BY <1>1, <2>1, <2>2, <2>3 DEF ClientInv, Converges
<1>10. ASSUME NEW d \in Client, d # c PROVE ClientInv(d)'
  BY <1>1, <1>6, <1>10, ClientKept
<1> QED BY <1>8, <1>9, <1>10 DEF SyncInv

(* What a client takes from its queue is a packet, and only connected      *)
(* clients have any.                                                       *)
LEMMA HeadOfDown ==
  ASSUME SyncInv, NEW c \in Client, down[c] # <<>>
  PROVE  /\ c \in online /\ ClientInv(c) /\ Covered(c)
         /\ down[c] \in Seq(DownPacket) /\ Tail(down[c]) \in Seq(DownPacket)
         /\ Head(down[c]) \in DownPacket /\ Head(down[c]).pos \in Pos
         /\ \A p \in Pos : Accounted(c, p)
<1>1. TypeOK /\ ClientInv(c)
  BY DEF SyncInv
<1>2. c \in online
  BY <1>1 DEF ClientInv, AtRest
<1>3. down[c] \in Seq(DownPacket)
  BY <1>1 DEF TypeOK
<1>4. Head(down[c]) \in DownPacket /\ Tail(down[c]) \in Seq(DownPacket)
  BY <1>3, TailElements
<1>5. Head(down[c]).pos \in Pos
  BY <1>4, DownPackets
<1> QED BY <1>1, <1>2, <1>3, <1>4, <1>5 DEF ClientInv

(* A reply is the only packet about its chunk's request.                   *)
LEMMA ReceiveChunkInv ==
  ASSUME SyncInv, NEW c \in Client, ReceiveChunk(c)
  PROVE  SyncInv'
<1> DEFINE e == Head(down[c])
           t == Tail(down[c])
           q == e.pos
           k == e.chunk
<1>1. /\ TypeOK /\ \A d \in Client : ClientInv(d)
      /\ down[c] # <<>> /\ e.type = "chunk"
      /\ mem' = [mem EXCEPT ![c][q] = k]
      /\ shown' = [shown EXCEPT ![c] = @ \cup {q}]
      /\ expected' = [expected EXCEPT ![c] = @ \ {q}]
      /\ down' = [down EXCEPT ![c] = t]
      /\ server' = server /\ online' = online /\ player' = player
      /\ up' = up /\ edits' = edits /\ moves' = moves
  BY DEF SyncInv, ReceiveChunk
<1>2. /\ c \in online /\ Covered(c) /\ down[c] \in Seq(DownPacket) /\ t \in Seq(DownPacket)
      /\ e \in DownPacket /\ q \in Pos /\ \A p \in Pos : Accounted(c, p)
  BY <1>1, HeadOfDown
<1>3. k \in Chunk /\ k # Absent
  BY <1>1, <1>2, DownPackets, ConstantsAssumption
<1>4. \A M : /\ Some(down[c], M) <=> e \in M \/ Some(t, M)
             /\ AtMostOne(down[c], M) => AtMostOne(t, M)
             /\ AtMostOne(down[c], M) /\ e \in M => ~Some(t, M)
  BY <1>1, <1>2, TailSome
<1>5. /\ \A p : e \in Reply(p) <=> p = q
      /\ \A p, y : e \in Write(p, y) <=> p = q
  BY <1>1, <1>2 DEF Reply, Write
<1>6. \A M, y, v, init : Ends(down[c], M, y, init, v) =>
        /\ e \notin M => Ends(t, M, y, init, v)
        /\ e \in M => Ends(t, M, y, Value(e, y), v)
  BY <1>1, <1>2, TailEnds
<1>7. \A y : Value(e, y) = k[y]
  BY <1>1 DEF Value
<1> HIDE DEF e, t, q, k
<1>8. /\ mem \in [Client -> [Pos -> Chunk \cup {Absent}]] /\ shown \in [Client -> SUBSET Pos]
      /\ expected \in [Client -> SUBSET Pos] /\ down \in [Client -> Seq(DownPacket)]
      /\ \A d \in Client : shown[d] \subseteq Held(d)
  BY <1>1 DEF TypeOK
<1>9. /\ mem'[c][q] = k /\ \A p \in Pos : p # q => mem'[c][p] = mem[c][p]
      /\ shown'[c] = shown[c] \cup {q} /\ expected'[c] = expected[c] \ {q} /\ down'[c] = t
      /\ \A d \in Client : d # c => /\ mem'[d] = mem[d] /\ shown'[d] = shown[d]
                                    /\ expected'[d] = expected[d] /\ down'[d] = down[d]
  BY <1>1, <1>2, <1>8
<1>10. TypeOK'
  <2>1. mem' \in [Client -> [Pos -> Chunk \cup {Absent}]]
    BY <1>1, <1>2, <1>3, <1>8
  <2>2. shown' \in [Client -> SUBSET Pos] /\ expected' \in [Client -> SUBSET Pos]
    BY <1>1, <1>2, <1>8
  <2>3. down' \in [Client -> Seq(DownPacket)]
    BY <1>1, <1>2, <1>8
  <2>4. ASSUME NEW d \in Client PROVE shown'[d] \subseteq Held(d)'
    <3>1. CASE d = c
      BY <3>1, <1>2, <1>3, <1>8, <1>9 DEF Held
    <3>2. CASE d # c
      BY <3>2, <1>8, <1>9 DEF Held
    <3> QED BY <3>1, <3>2
  <2> QED BY <2>1, <2>2, <2>3, <2>4, <1>1 DEF TypeOK
<1>11. ClientInv(c)'
  <2>1. Covered(c)'
    BY <1>1, <1>2, <1>3, <1>9 DEF Covered, Held, Window
  <2>2. ASSUME NEW p \in Pos, p # q PROVE Accounted(c, p)'
    <3>1. Accounted(c, p) /\ e \notin Reply(p)
      BY <1>2, <1>5, <2>2
    <3>2. (p \in expected'[c] <=> p \in expected[c]) /\ up'[c] = up[c] /\ down'[c] = t
      BY <1>1, <1>9, <2>2
    <3>3. Some(t, Reply(p)) <=> Some(down[c], Reply(p))
      BY <1>4, <3>1
    <3>4. AtMostOne(t, Reply(p))
      BY <1>4, <3>1 DEF Accounted
    <3> QED BY <3>1, <3>2, <3>3, <3>4 DEF Accounted
  <2>3. ASSUME NEW p \in Pos, p = q PROVE Accounted(c, p)'
    <3>1. Accounted(c, p) /\ e \in Reply(p)
      BY <1>2, <1>5, <2>3
    <3>2. Some(down[c], Reply(p)) /\ ~Some(t, Reply(p)) /\ AtMostOne(t, Reply(p))
      BY <1>4, <3>1 DEF Accounted
    <3>3. ~Some(up[c], {Request(p)}) /\ AtMostOne(up[c], {Request(p)})
      BY <3>1, <3>2 DEF Accounted
    <3>4. p \notin expected'[c] /\ up'[c] = up[c] /\ down'[c] = t
      BY <1>1, <1>9, <2>3
    <3>5. /\ AtMostOne(up'[c], {Request(p)}) /\ AtMostOne(down'[c], Reply(p))
          /\ ~Some(up'[c], {Request(p)}) /\ ~Some(down'[c], Reply(p))
      BY <3>2, <3>3, <3>4
    <3> QED BY <2>3, <3>4, <3>5 DEF Accounted
  <2>4. ASSUME NEW p \in Pos, NEW y \in Cell, Following(c, p, y)' PROVE Converges(c, p, y)'
    <3>1. CASE p = q
      <4>1. Following(c, q, y)
        BY <2>4, <3>1, <1>1, <1>4, <1>5 DEF Following
      <4>2. Ends(down[c], Write(q, y), y, mem[c][q][y], server[q][y])
        BY <4>1, <1>1, <1>2 DEF ClientInv, Converges
      <4>3. Ends(t, Write(q, y), y, k[y], server[q][y])
        BY <4>2, <1>5, <1>6, <1>7
      <4> QED BY <4>3, <3>1, <1>1, <1>9 DEF Converges
    <3>2. CASE p # q
      <4>1. Following(c, p, y)
        BY <2>4, <3>2, <1>1, <1>4, <1>5, <1>9 DEF Following
      <4>2. Ends(down[c], Write(p, y), y, mem[c][p][y], server[p][y])
        BY <4>1, <1>1 DEF ClientInv, Converges
      <4>3. Ends(t, Write(p, y), y, mem[c][p][y], server[p][y])
        BY <4>2, <3>2, <1>5, <1>6
      <4> QED BY <4>3, <3>2, <1>1, <1>9 DEF Converges
    <3> QED BY <3>1, <3>2
  <2>5. \A p \in Pos : Accounted(c, p)'
    BY <2>2, <2>3
  <2>6. c \in online'
    BY <1>1, <1>2
  <2>7. \A p \in Pos, y \in Cell : Converges(c, p, y)'
    BY <2>4 DEF Converges
  <2> QED BY <2>1, <2>5, <2>6, <2>7 DEF ClientInv
<1>12. ASSUME NEW d \in Client, d # c PROVE ClientInv(d)'
  BY <1>1, <1>9, <1>12, ClientKept
<1> QED BY <1>10, <1>11, <1>12 DEF SyncInv

LEMMA ReceiveBlockInv ==
  ASSUME SyncInv, NEW c \in Client, ReceiveBlock(c)
  PROVE  SyncInv'
<1> DEFINE e == Head(down[c])
           t == Tail(down[c])
           q == e.pos
           z == e.y
           m == Placed(mem[c], q, z, e.block)
<1>1. /\ TypeOK /\ \A d \in Client : ClientInv(d)
      /\ down[c] # <<>> /\ e.type = "block"
      /\ mem' = [mem EXCEPT ![c] = m] /\ down' = [down EXCEPT ![c] = t]
      /\ server' = server /\ online' = online /\ player' = player /\ shown' = shown
      /\ expected' = expected /\ up' = up /\ edits' = edits /\ moves' = moves
  BY DEF SyncInv, ReceiveBlock
<1>2. /\ c \in online /\ Covered(c) /\ down[c] \in Seq(DownPacket) /\ t \in Seq(DownPacket)
      /\ e \in DownPacket /\ q \in Pos /\ \A p \in Pos : Accounted(c, p)
  BY <1>1, HeadOfDown
<1>3. e.block \in Block
  BY <1>1, <1>2, DownPackets
<1>4. \A M : /\ Some(down[c], M) <=> e \in M \/ Some(t, M)
             /\ AtMostOne(down[c], M) => AtMostOne(t, M)
  BY <1>1, <1>2, TailSome
<1>5. /\ \A p : e \notin Reply(p)
      /\ \A p, y : e \in Write(p, y) <=> p = q /\ y = z
  BY <1>1, <1>2 DEF Reply, Write
<1>6. \A M, y, v, init : Ends(down[c], M, y, init, v) =>
        /\ e \notin M => Ends(t, M, y, init, v)
        /\ e \in M => Ends(t, M, y, Value(e, y), v)
  BY <1>1, <1>2, TailEnds
<1>7. \A y : Value(e, y) = e.block
  BY <1>1 DEF Value
<1>8. /\ mem \in [Client -> [Pos -> Chunk \cup {Absent}]] /\ shown \in [Client -> SUBSET Pos]
      /\ down \in [Client -> Seq(DownPacket)]
      /\ \A d \in Client : shown[d] \subseteq Held(d)
  BY <1>1 DEF TypeOK
<1>9. /\ m \in [Pos -> Chunk \cup {Absent}]
      /\ \A p \in Pos : mem[c][p] # Absent => m[p] # Absent
      /\ \A p \in Pos, y \in Cell : mem[c][p] # Absent /\ ~(p = q /\ y = z) => m[p][y] = mem[c][p][y]
      /\ z \in Cell => m[q][z] = e.block
  BY <1>2, <1>3, <1>8, PlacedKeeps
<1> HIDE DEF e, t, q, z, m
<1>10. /\ mem'[c] = m /\ down'[c] = t
       /\ \A d \in Client : d # c => mem'[d] = mem[d] /\ down'[d] = down[d]
  BY <1>1, <1>8
<1>11. TypeOK'
  <2>1. mem' \in [Client -> [Pos -> Chunk \cup {Absent}]] /\ down' \in [Client -> Seq(DownPacket)]
    BY <1>1, <1>2, <1>8, <1>9
  <2>2. ASSUME NEW d \in Client PROVE shown'[d] \subseteq Held(d)'
    <3>1. CASE d = c
      BY <3>1, <1>1, <1>8, <1>9, <1>10 DEF Held
    <3>2. CASE d # c
      BY <3>2, <1>1, <1>8, <1>10 DEF Held
    <3> QED BY <3>1, <3>2
  <2> QED BY <2>1, <2>2, <1>1 DEF TypeOK
<1>12. ClientInv(c)'
  <2>1. Covered(c)'
    BY <1>1, <1>2, <1>9, <1>10 DEF Covered, Held
  <2>2. ASSUME NEW p \in Pos PROVE Accounted(c, p)'
    BY <1>1, <1>2, <1>4, <1>5, <1>10 DEF Accounted
  <2>3. ASSUME NEW p \in Pos, NEW y \in Cell, Following(c, p, y)' PROVE Converges(c, p, y)'
    <3>1. Converges(c, p, y) /\ Following(c, p, y)
      BY <2>3, <1>1, <1>4, <1>5, <1>10 DEF ClientInv, Following
    <3>2. CASE p = q /\ y = z
      <4>1. Ends(down[c], Write(q, z), z, mem[c][q][z], server[q][z])
        BY <3>1, <3>2 DEF Converges
      <4>2. Ends(t, Write(q, z), z, e.block, server[q][z])
        BY <4>1, <1>5, <1>6, <1>7
      <4> QED BY <4>2, <3>2, <1>1, <1>9, <1>10 DEF Converges
    <3>3. CASE ~(p = q /\ y = z)
      <4>1. p \in shown[c] => m[p][y] = mem[c][p][y]
        BY <3>3, <1>8, <1>9 DEF Held
      <4>2. Ends(down[c], Write(p, y), y, m[p][y], server[p][y])
        BY <3>1, <4>1, ConvergesAt
      <4>3. Ends(t, Write(p, y), y, m[p][y], server[p][y])
        BY <4>2, <3>3, <1>5, <1>6
      <4> QED BY <4>3, <1>1, <1>10 DEF Converges
    <3> QED BY <3>2, <3>3
  <2> QED BY <1>1, <1>2, <2>1, <2>2, <2>3 DEF ClientInv, Converges
<1>13. ASSUME NEW d \in Client, d # c PROVE ClientInv(d)'
  BY <1>1, <1>10, <1>13, ClientKept
<1> QED BY <1>11, <1>12, <1>13 DEF SyncInv

LEMMA HeadOfUp ==
  ASSUME SyncInv, NEW c \in Client, up[c] # <<>>
  PROVE  /\ up[c] \in Seq(UpPacket) /\ Tail(up[c]) \in Seq(UpPacket)
         /\ Head(up[c]) \in UpPacket /\ Head(up[c]).pos \in Pos
         /\ \A M : /\ Some(up[c], M) <=> Head(up[c]) \in M \/ Some(Tail(up[c]), M)
                   /\ AtMostOne(up[c], M) => AtMostOne(Tail(up[c]), M)
                   /\ AtMostOne(up[c], M) /\ Head(up[c]) \in M => ~Some(Tail(up[c]), M)
<1>1. up[c] \in Seq(UpPacket)
  BY DEF SyncInv, TypeOK
<1>2. Head(up[c]) \in UpPacket /\ Tail(up[c]) \in Seq(UpPacket)
  BY <1>1, TailElements
<1>3. Head(up[c]).pos \in Pos
  BY <1>2, UpPackets
<1>4. \A M : /\ Some(up[c], M) <=> Head(up[c]) \in M \/ Some(Tail(up[c]), M)
             /\ AtMostOne(up[c], M) => AtMostOne(Tail(up[c]), M)
             /\ AtMostOne(up[c], M) /\ Head(up[c]) \in M => ~Some(Tail(up[c]), M)
  BY <1>1, TailSome
<1> QED BY <1>1, <1>2, <1>3, <1>4

(* The reply takes the place of the request, and says what the server has. *)
LEMMA AnswerRequestInv ==
  ASSUME SyncInv, NEW c \in Client, AnswerRequest(c)
  PROVE  SyncInv'
<1> DEFINE e == Head(up[c])
           t == Tail(up[c])
           q == e.pos
           a == ChunkData(q, server[q])
<1>1. /\ TypeOK /\ \A d \in Client : ClientInv(d)
      /\ up[c] # <<>> /\ e.type = "request"
      /\ down' = IF InWorld(q) /\ c \in online THEN [down EXCEPT ![c] = Append(@, a)] ELSE down
      /\ up' = [up EXCEPT ![c] = t]
      /\ server' = server /\ online' = online /\ player' = player /\ mem' = mem
      /\ shown' = shown /\ expected' = expected /\ edits' = edits /\ moves' = moves
  BY DEF SyncInv, AnswerRequest
<1>2. up[c] \in Seq(UpPacket) /\ t \in Seq(UpPacket) /\ e \in UpPacket /\ q \in Pos
  BY <1>1, HeadOfUp
<1>3. \A M : /\ Some(up[c], M) <=> e \in M \/ Some(t, M)
             /\ AtMostOne(up[c], M) => AtMostOne(t, M)
             /\ AtMostOne(up[c], M) /\ e \in M => ~Some(t, M)
  BY <1>1, HeadOfUp
<1>4. e = Request(q)
  BY <1>1, <1>2, UpPackets
<1>5. /\ \A p : e \in {Request(p)} <=> p = q
      /\ \A p, y : e \notin BlockAt(p, y)
  BY <1>4, PacketKinds
<1>6. server[q] \in Chunk
  BY <1>1, <1>2 DEF TypeOK
<1>7. a \in DownPacket /\ a.type = "chunk" /\ a.pos = q /\ a.chunk = server[q]
  BY <1>2, <1>6, DownPackets
<1>8. /\ \A p : a \in Reply(p) <=> p = q
      /\ \A p, y : a \in Write(p, y) <=> p = q
      /\ \A y : Value(a, y) = server[q][y]
  BY <1>7 DEF Reply, Write, Value
<1> HIDE DEF e, t, q, a
<1>9. /\ up \in [Client -> Seq(UpPacket)] /\ down \in [Client -> Seq(DownPacket)]
      /\ down[c] \in Seq(DownPacket)
  BY <1>1 DEF TypeOK
<1>10. Append(down[c], a) \in Seq(DownPacket)
  BY <1>7, <1>9, AppendProperties
<1>11. /\ up'[c] = t
       /\ InWorld(q) /\ c \in online => down'[c] = Append(down[c], a)
       /\ ~(InWorld(q) /\ c \in online) => down'[c] = down[c]
       /\ \A d \in Client : d # c => up'[d] = up[d] /\ down'[d] = down[d]
  BY <1>1, <1>9
<1>12. \A M : /\ Some(Append(down[c], a), M) <=> Some(down[c], M) \/ a \in M
              /\ AtMostOne(down[c], M) /\ ~(Some(down[c], M) /\ a \in M) =>
                   AtMostOne(Append(down[c], a), M)
  BY <1>7, <1>9, AppendSome
<1>13. \A M, y, init, v :
         /\ a \notin M /\ Ends(down[c], M, y, init, v) => Ends(Append(down[c], a), M, y, init, v)
         /\ a \in M => Ends(Append(down[c], a), M, y, init, Value(a, y))
  BY <1>7, <1>9, AppendEnds
<1>14. TypeOK'
  <2>1. up' \in [Client -> Seq(UpPacket)]
    BY <1>1, <1>2, <1>9
  <2>2. down' \in [Client -> Seq(DownPacket)]
    BY <1>1, <1>9, <1>10
  <2>3. \A d \in Client : shown'[d] \subseteq Held(d)'
    BY <1>1 DEF TypeOK, Held
  <2> QED BY <2>1, <2>2, <2>3, <1>1 DEF TypeOK
<1>15. ClientInv(c)'
  <2>1. c \notin online' => AtRest(c)'
    BY <1>1, <1>11 DEF ClientInv, AtRest
  <2>2. c \in online' => Covered(c)'
    BY <1>1 DEF ClientInv, Covered, Held
  <2>3. ASSUME NEW p \in Pos, c \in online PROVE Accounted(c, p)'
    <3>1. Accounted(c, p)
      BY <1>1, <2>3 DEF ClientInv
    <3>2. CASE p # q
      <4>1. Some(down'[c], Reply(p)) <=> Some(down[c], Reply(p))
        BY <3>2, <1>8, <1>11, <1>12
      <4>2. AtMostOne(down'[c], Reply(p))
        BY <3>1, <3>2, <1>8, <1>11, <1>12 DEF Accounted
      <4>3. (Some(t, {Request(p)}) <=> Some(up[c], {Request(p)})) /\ AtMostOne(t, {Request(p)})
        BY <3>1, <3>2, <1>3, <1>5 DEF Accounted
      <4> QED BY <3>1, <4>1, <4>2, <4>3, <1>1, <1>11 DEF Accounted
    <3>3. CASE p = q
      <4>1. /\ Some(up[c], {Request(p)}) /\ ~Some(t, {Request(p)}) /\ AtMostOne(t, {Request(p)})
            /\ ~Some(down[c], Reply(p)) /\ AtMostOne(down[c], Reply(p)) /\ p \in expected[c]
        BY <3>1, <3>3, <1>3, <1>5 DEF Accounted
      <4>2. AtMostOne(down'[c], Reply(p))
        BY <4>1, <1>11, <1>12
      <4>3. InWorld(p) => Some(down'[c], Reply(p))
        BY <2>3, <3>3, <1>8, <1>11, <1>12
      <4> QED BY <4>1, <4>2, <4>3, <1>1, <1>11 DEF Accounted
    <3> QED BY <3>2, <3>3
  <2>4. ASSUME NEW p \in Pos, NEW y \in Cell, Following(c, p, y)' PROVE Converges(c, p, y)'
    <3>1. Converges(c, p, y)
      BY <1>1 DEF ClientInv
    <3>2. ~Some(up[c], BlockAt(p, y))
      BY <2>4, <1>3, <1>5, <1>11 DEF Following
    <3>3. CASE p = q /\ InWorld(q) /\ c \in online
      <4>1. Ends(down'[c], Write(p, y), y, mem[c][p][y], server[p][y])
        BY <3>3, <1>8, <1>11, <1>13
      <4> QED BY <4>1, <1>1 DEF Converges
    <3>4. CASE p # q /\ InWorld(q) /\ c \in online
      <4>1. Following(c, p, y)
        BY <2>4, <3>2, <3>4, <1>1, <1>8, <1>11, <1>12 DEF Following
      <4>2. Ends(down'[c], Write(p, y), y, mem[c][p][y], server[p][y])
        BY <3>1, <3>4, <4>1, <1>8, <1>11, <1>13 DEF Converges
      <4> QED BY <4>2, <1>1 DEF Converges
    <3>5. CASE ~(InWorld(q) /\ c \in online)
      <4>1. Following(c, p, y)
        BY <2>4, <3>2, <3>5, <1>1, <1>11 DEF Following
      <4> QED BY <3>1, <3>5, <4>1, <1>1, <1>11 DEF Converges
    <3> QED BY <3>3, <3>4, <3>5
  <2>5. \A p \in Pos, y \in Cell : Converges(c, p, y)'
    BY <2>4 DEF Converges
  <2>6. online' = online
    BY <1>1
  <2> QED BY <2>1, <2>2, <2>3, <2>5, <2>6 DEF ClientInv
<1>16. ASSUME NEW d \in Client, d # c PROVE ClientInv(d)'
  BY <1>1, <1>11, <1>16, ClientKept
<1> QED BY <1>14, <1>15, <1>16 DEF SyncInv

-----------------------------------------------------------------------------
(* What ServerWorld::setBlock does.                                        *)

LEMMA PairConcat ==
  ASSUME NEW f, NEW g
  PROVE  <<f>> \o <<g>> = <<f, g>>
<1> DEFINE S == {f, g}
           u == <<f>> \o <<g>>
<1>1. <<f>> \in Seq(S) /\ <<g>> \in Seq(S) /\ Len(<<f>>) = 1 /\ Len(<<g>>) = 1
      /\ 1 \in DOMAIN <<f>> /\ 1 \in DOMAIN <<g>>
  OBVIOUS
<1>2. u \in Seq(S) /\ DOMAIN u = 1..(1 + 1) /\ u[1] = f /\ u[1 + 1] = g
  BY <1>1, ConcatElements
<1> HIDE DEF u
<1>3. u = [i \in 1..2 |-> u[i]] /\ u[1] = f /\ u[2] = g
  BY <1>2
<1>4. u = [i \in 1..2 |-> IF i = 1 THEN f ELSE g]
  BY <1>3
<1>5. u = <<f, g>>
  BY <1>4
<1> QED BY <1>5 DEF u

BlockPackets(q, es) == [i \in DOMAIN es |-> SetBlock(q, es[i].y, es[i].block)]

Applied(k, es) == [y \in Cell |-> IF \E i \in DOMAIN es : es[i].y = y
                                  THEN (CHOOSE e \in ToSet(es) : e.y = y).block
                                  ELSE k[y]]

\* The packets s put into the chunk at q what makes k2 of k, and change nothing else.
Agree(s, q, k, k2) ==
  /\ \A p : ~Some(s, Reply(p))
  /\ \A y \in Cell : \A init : Some(s, Write(q, y)) => Ends(s, Write(q, y), y, init, k2[y])
  /\ \A y \in Cell : ~Some(s, Write(q, y)) => k2[y] = k[y]
  /\ \A p, y : p # q => ~Some(s, Write(p, y))

(* The packets of one broadcast set different blocks of one chunk, and the *)
(* server's chunk gets just these.                                         *)
LEMMA EffectsAgree ==
  ASSUME NEW q \in Pos, NEW z \in Cell, NEW b \in Block, NEW k \in Chunk, NEW s, NEW k2,
         s = BlockPackets(q, Effects(z, b)), k2 = Applied(k, Effects(z, b))
  PROVE  /\ s \in Seq(DownPacket) /\ k2 \in Chunk
         /\ Some(s, Write(q, z))
         /\ Agree(s, q, k, k2)
<1> DEFINE es == Effects(z, b)
           f == [y |-> z, block |-> b]
           g == [y |-> z + 1, block |-> Dirt]
           m == SetBlock(q, z, b)
           n == SetBlock(q, z + 1, Dirt)
<1>1. /\ Height \in Nat /\ z \in 0..Height /\ z + 1 \in 0..Height /\ Dirt \in Block
      /\ z + 1 # z
  BY ConstantsAssumption DEF Cell
<1>2. /\ m \in DownPacket /\ m.type = "block" /\ m.pos = q /\ m.y = z /\ m.block = b
      /\ n \in DownPacket /\ n.type = "block" /\ n.pos = q /\ n.y = z + 1 /\ n.block = Dirt
  BY <1>1, DownPackets
<1>3. /\ \A p : m \notin Reply(p) /\ n \notin Reply(p)
      /\ \A p, y : (m \in Write(p, y) <=> p = q /\ y = z) /\ (n \in Write(p, y) <=> p = q /\ y = z + 1)
      /\ \A y : Value(m, y) = b /\ Value(n, y) = Dirt
  BY <1>2 DEF Reply, Write, Value
<1>4. CASE b # Stone
  <2>1. es = <<f>> /\ DOMAIN es = {1} /\ es[1] = f /\ f.y = z /\ f.block = b
    BY <1>4 DEF Effects
  <2>2. s = [i \in {1} |-> m]
    BY <2>1 DEF BlockPackets
  <2>3. s = <<m>>
    BY <2>2
  <2>4. ToSet(es) = {f}
    BY <2>1 DEF ToSet
  <2>5. /\ k2 = [y \in Cell |-> k2[y]]
        /\ \A y \in Cell : k2[y] = IF y = z THEN b ELSE k[y]
    BY <2>1, <2>4 DEF Applied
  <2> HIDE DEF f, g, m, n
  <2>6. k2 \in Chunk
    BY <2>5 DEF Chunk
  <2>7. \A M : Some(s, M) <=> m \in M
    BY <2>3, SingleSome
  <2>8. \A M, y, init : m \in M => Ends(s, M, y, init, Value(m, y))
    BY <2>3, SingleSome
  <2>9. s \in Seq(DownPacket)
    BY <1>2, <2>3
  <2>10. \A y \in Cell : \A init : Some(s, Write(q, y)) => Ends(s, Write(q, y), y, init, k2[y])
    <3> SUFFICES ASSUME NEW y \in Cell, NEW init, Some(s, Write(q, y))
                 PROVE  Ends(s, Write(q, y), y, init, k2[y])
      OBVIOUS
    <3>1. m \in Write(q, y) /\ y = z
      BY <2>7, <1>3
    <3>2. k2[y] = Value(m, y)
      BY <3>1, <2>5, <1>3
    <3> QED BY <3>1, <3>2, <2>8
  <2> QED BY <1>3, <2>5, <2>6, <2>7, <2>9, <2>10 DEF Agree
<1>5. CASE b = Stone
  <2>1. es = <<f, g>> /\ DOMAIN es = {1, 2} /\ es[1] = f /\ es[2] = g
    <3>1. es = <<f>> \o <<g>>
      BY <1>5 DEF Effects
    <3> HIDE DEF f, g
    <3>2. es = <<f, g>>
      BY <3>1, PairConcat
    <3> QED BY <3>2
  <2>2. s = [i \in {1, 2} |-> IF i = 1 THEN m ELSE n]
    BY <2>1 DEF BlockPackets
  <2>3. s = <<m>> \o <<n>>
    BY <2>2
  <2>4. ToSet(es) = {f, g}
    BY <2>1 DEF ToSet
  <2>5. /\ k2 = [y \in Cell |-> k2[y]]
        /\ \A y \in Cell : k2[y] = IF y = z THEN b ELSE IF y = z + 1 THEN Dirt ELSE k[y]
    <3> SUFFICES ASSUME NEW y \in Cell
                 PROVE  k2[y] = IF y = z THEN b ELSE IF y = z + 1 THEN Dirt ELSE k[y]
      BY DEF Applied
    <3>1. (\E i \in DOMAIN es : es[i].y = y) <=> y = z \/ y = z + 1
      BY <2>1
    <3>2. y = z => (CHOOSE e \in ToSet(es) : e.y = y) = f
      BY <2>4, <1>1
    <3>3. y = z + 1 => (CHOOSE e \in ToSet(es) : e.y = y) = g
      BY <2>4, <1>1
    <3> QED BY <3>1, <3>2, <3>3, <1>1 DEF Applied
  <2> HIDE DEF f, g, m, n
  <2>6. k2 \in Chunk
    BY <1>1, <2>5 DEF Chunk
  <2>7. <<m>> \in Seq(DownPacket) /\ <<n>> \in Seq(DownPacket)
    BY <1>2
  <2>8. s \in Seq(DownPacket)
    BY <2>3, <2>7, ConcatElements
  <2>9. \A M : Some(s, M) <=> m \in M \/ n \in M
    <3>1. \A M : Some(<<m>> \o <<n>>, M) <=> Some(<<m>>, M) \/ Some(<<n>>, M)
      BY <2>7, ConcatSome
    <3>2. \A M : (Some(<<m>>, M) <=> m \in M) /\ (Some(<<n>>, M) <=> n \in M)
      BY SingleSome
    <3> QED BY ONLY <2>3, <3>1, <3>2
  <2>10. \A M, y, init : n \in M => Ends(s, M, y, init, Value(n, y))
    <3>1. \A M, y, init : n \in M => Some(<<n>>, M) /\ Ends(<<n>>, M, y, init, Value(n, y))
      BY SingleSome
    <3>2. \A M, y, init, v : /\ ~Some(<<n>>, M) /\ Ends(<<m>>, M, y, init, v) =>
                               Ends(<<m>> \o <<n>>, M, y, init, v)
                          /\ Some(<<n>>, M) /\ Ends(<<n>>, M, y, init, v) =>
                               Ends(<<m>> \o <<n>>, M, y, init, v)
      BY <2>7, ConcatEnds
    <3> QED BY ONLY <2>3, <3>1, <3>2
  <2>11. \A M, y, init : m \in M /\ n \notin M => Ends(s, M, y, init, Value(m, y))
    <3> SUFFICES ASSUME NEW M, NEW y, NEW init, m \in M, n \notin M
                 PROVE  Ends(s, M, y, init, Value(m, y))
      OBVIOUS
    <3>1. ~Some(<<n>>, M) /\ Ends(<<m>>, M, y, init, Value(m, y))
      BY SingleSome
    <3>2. \A v : ~Some(<<n>>, M) /\ Ends(<<m>>, M, y, init, v) => Ends(<<m>> \o <<n>>, M, y, init, v)
      BY <2>7, ConcatEnds
    <3>3. Ends(<<m>> \o <<n>>, M, y, init, Value(m, y))
      BY <3>1, <3>2
    <3> QED BY <2>3, <3>3
  <2>12. \A y \in Cell : \A init : Some(s, Write(q, y)) => Ends(s, Write(q, y), y, init, k2[y])
    <3> SUFFICES ASSUME NEW y \in Cell, NEW init, Some(s, Write(q, y))
                 PROVE  Ends(s, Write(q, y), y, init, k2[y])
      OBVIOUS
    <3>1. CASE y = z
      <4>1. m \in Write(q, y) /\ n \notin Write(q, y) /\ k2[y] = Value(m, y)
        BY <3>1, <1>1, <1>3, <2>5
      <4> QED BY <4>1, <2>11
    <3>2. CASE y = z + 1
      <4>1. n \in Write(q, y) /\ k2[y] = Value(n, y)
        BY <3>2, <1>1, <1>3, <2>5
      <4> QED BY <4>1, <2>10
    <3> QED BY <3>1, <3>2, <2>9, <1>3
  <2> QED BY <1>3, <2>5, <2>6, <2>8, <2>9, <2>12 DEF Agree
<1> QED BY <1>4, <1>5

LEMMA ApplyBlockInv ==
  ASSUME SyncInv, NEW c \in Client, ApplyBlock(c)
  PROVE  SyncInv'
<1> DEFINE e == Head(up[c])
           t == Tail(up[c])
           q == e.pos
           z == e.y
           s == BlockPackets(q, Effects(z, e.block))
           k2 == Applied(server[q], Effects(z, e.block))
<1>1. /\ TypeOK /\ \A d \in Client : ClientInv(d)
      /\ up[c] # <<>> /\ e.type = "block" /\ up' = [up EXCEPT ![c] = t]
      /\ online' = online /\ player' = player /\ mem' = mem
      /\ shown' = shown /\ expected' = expected /\ edits' = edits /\ moves' = moves
  BY DEF SyncInv, ApplyBlock
<1>2. server' = [server EXCEPT ![q] = k2]
  BY DEF ApplyBlock, Applied
<1>3. down' = [d \in Client |-> IF d \in online THEN down[d] \o s ELSE down[d]]
  BY DEF ApplyBlock, Broadcast, BlockPackets
<1>4. up[c] \in Seq(UpPacket) /\ t \in Seq(UpPacket) /\ e \in UpPacket /\ q \in Pos
  BY <1>1, HeadOfUp
<1>5. \A M : /\ Some(up[c], M) <=> e \in M \/ Some(t, M)
             /\ AtMostOne(up[c], M) => AtMostOne(t, M)
  BY <1>1, HeadOfUp
<1>6. z \in Cell /\ e.block \in Block
  BY <1>1, <1>4, UpPackets
<1>7. /\ \A p : e \notin {Request(p)}
      /\ \A p, y : e \in BlockAt(p, y) => p = q /\ y = z
  <2>1. \A p : Request(p).type = "request"
    BY DEF Request
  <2> QED BY <2>1, <1>1 DEF BlockAt
<1>8. server \in [Pos -> Chunk] /\ server[q] \in Chunk
  BY <1>1, <1>4 DEF TypeOK
<1>9. s = BlockPackets(q, Effects(z, e.block)) /\ k2 = Applied(server[q], Effects(z, e.block))
  OBVIOUS
<1> HIDE DEF e, t, q, z, s, k2
<1>11. /\ s \in Seq(DownPacket) /\ k2 \in Chunk
       /\ \A p : ~Some(s, Reply(p))
       /\ \A y \in Cell : \A init : Some(s, Write(q, y)) => Ends(s, Write(q, y), y, init, k2[y])
       /\ \A y \in Cell : ~Some(s, Write(q, y)) => k2[y] = server[q][y]
       /\ Some(s, Write(q, z))
       /\ \A p, y : p # q => ~Some(s, Write(p, y))
  <2>1. s \in Seq(DownPacket) /\ k2 \in Chunk /\ Some(s, Write(q, z)) /\ Agree(s, q, server[q], k2)
    BY <1>4, <1>6, <1>8, <1>9, EffectsAgree
  <2> QED BY <2>1, Zenon DEF Agree
<1>12. /\ up \in [Client -> Seq(UpPacket)] /\ down \in [Client -> Seq(DownPacket)]
  BY <1>1 DEF TypeOK
<1>13. /\ up'[c] = t /\ \A d \in Client : d # c => up'[d] = up[d]
       /\ \A d \in Client : down'[d] = IF d \in online THEN down[d] \o s ELSE down[d]
       /\ server'[q] = k2 /\ \A p \in Pos : p # q => server'[p] = server[p]
  BY <1>1, <1>2, <1>3, <1>4, <1>8, <1>12
<1>14. ASSUME NEW d \in Client
       PROVE  /\ down[d] \in Seq(DownPacket) /\ down[d] \o s \in Seq(DownPacket)
              /\ \A M : /\ Some(down[d] \o s, M) <=> Some(down[d], M) \/ Some(s, M)
                        /\ AtMostOne(down[d], M) /\ ~Some(s, M) => AtMostOne(down[d] \o s, M)
  <2>1. down[d] \in Seq(DownPacket)
    BY <1>12
  <2>2. down[d] \o s \in Seq(DownPacket)
    BY <1>11, <2>1, ConcatElements
  <2>3. \A M : ~Some(s, M) => AtMostOne(s, M)
    BY DEF Some, AtMostOne
  <2>4. \A M : /\ Some(down[d] \o s, M) <=> Some(down[d], M) \/ Some(s, M)
               /\ AtMostOne(down[d], M) /\ AtMostOne(s, M) /\ ~(Some(down[d], M) /\ Some(s, M)) =>
                    AtMostOne(down[d] \o s, M)
    BY <1>11, <2>1, ConcatSome
  <2> QED BY <2>1, <2>2, <2>3, <2>4
<1>15. ASSUME NEW d \in Client
       PROVE  \A M, y, init, v :
                /\ ~Some(s, M) /\ Ends(down[d], M, y, init, v) => Ends(down[d] \o s, M, y, init, v)
                /\ Some(s, M) /\ Ends(s, M, y, init, v) => Ends(down[d] \o s, M, y, init, v)
  BY <1>11, <1>14, ConcatEnds
<1>16. TypeOK'
  <2>1. up' \in [Client -> Seq(UpPacket)]
    BY <1>1, <1>4, <1>12
  <2>2. down' \in [Client -> Seq(DownPacket)]
    BY <1>3, <1>14
  <2>3. server' \in [Pos -> Chunk]
    BY <1>2, <1>8, <1>11
  <2>4. \A d \in Client : shown'[d] \subseteq Held(d)'
    BY <1>1 DEF TypeOK, Held
  <2> QED BY <2>1, <2>2, <2>3, <2>4, <1>1 DEF TypeOK
<1>17. ASSUME NEW d \in Client PROVE ClientInv(d)'
  <2>1. ClientInv(d) /\ online' = online
    BY <1>1
  <2>2. \A p : Some(up'[d], {Request(p)}) <=> Some(up[d], {Request(p)})
    <3>1. CASE d = c
      BY <3>1, <1>5, <1>7, <1>13
    <3>2. CASE d # c
      BY <3>2, <1>13
    <3> QED BY <3>1, <3>2
  <2>3. \A p : AtMostOne(up[d], {Request(p)}) => AtMostOne(up'[d], {Request(p)})
    <3>1. CASE d = c
      BY <3>1, <1>5, <1>13
    <3>2. CASE d # c
      BY <3>2, <1>13
    <3> QED BY <3>1, <3>2
  <2>4. \A p, y : ~(p = q /\ y = z) => (Some(up'[d], BlockAt(p, y)) <=> Some(up[d], BlockAt(p, y)))
    <3>1. CASE d = c
      BY <3>1, <1>5, <1>7, <1>13
    <3>2. CASE d # c
      BY <3>2, <1>13
    <3> QED BY <3>1, <3>2
  <2>5. CASE d \notin online
    <3>1. AtRest(d) /\ AtRest(d)'
      BY <2>1, <2>5, <1>1, <1>13 DEF ClientInv, AtRest
    <3>2. \A p \in Pos, y \in Cell : Converges(d, p, y)'
      BY <3>1 DEF AtRest, Converges, Following, Some
    <3> QED BY <2>1, <2>5, <3>1, <3>2 DEF ClientInv
  <2>6. CASE d \in online
    <3>1. down'[d] = down[d] \o s
      BY <2>6, <1>13
    <3>2. Covered(d)'
      BY <2>1, <2>6, <1>1 DEF ClientInv, Covered, Held
    <3>3. ASSUME NEW p \in Pos PROVE Accounted(d, p)'
      <4>1. Accounted(d, p)
        BY <2>1, <2>6 DEF ClientInv
      <4>2. Some(down'[d], Reply(p)) <=> Some(down[d], Reply(p))
        BY <3>1, <1>11, <1>14
      <4>3. AtMostOne(down'[d], Reply(p))
        BY <4>1, <3>1, <1>11, <1>14 DEF Accounted
      <4>4. (Some(up'[d], {Request(p)}) <=> Some(up[d], {Request(p)})) /\ AtMostOne(up'[d], {Request(p)})
        BY <4>1, <2>2, <2>3 DEF Accounted
      <4> QED BY <4>1, <4>2, <4>3, <4>4, <1>1 DEF Accounted
    <3>4. ASSUME NEW p \in Pos, NEW y \in Cell, Following(d, p, y)' PROVE Converges(d, p, y)'
      <4>1. CASE Some(s, Write(p, y))
        <5>1. p = q
          BY <4>1, <1>11
        <5>2. Ends(s, Write(p, y), y, mem[d][p][y], k2[y])
          BY <4>1, <5>1, <1>11
        <5>3. Ends(down[d] \o s, Write(p, y), y, mem[d][p][y], k2[y])
          BY <4>1, <5>2, <1>15
        <5> QED BY <5>1, <5>3, <3>1, <1>1, <1>13 DEF Converges
      <4>2. CASE ~Some(s, Write(p, y))
        <5>1. ~(p = q /\ y = z)
          BY <4>2, <1>11
        <5>2. Following(d, p, y)
          BY <3>4, <5>1, <2>4, <3>1, <1>1, <1>11, <1>14 DEF Following
        <5>3. Ends(down[d], Write(p, y), y, mem[d][p][y], server[p][y])
          BY <5>2, <2>1 DEF ClientInv, Converges
        <5>4. Ends(down[d] \o s, Write(p, y), y, mem[d][p][y], server[p][y])
          BY <4>2, <5>3, <1>15
        <5>5. server'[p][y] = server[p][y]
          BY <4>2, <1>11, <1>13
        <5> QED BY <5>4, <5>5, <3>1, <1>1 DEF Converges
      <4> QED BY <4>1, <4>2
    <3>5. \A p \in Pos, y \in Cell : Converges(d, p, y)'
      BY <3>4 DEF Converges
    <3> QED BY <2>1, <2>6, <3>2, <3>3, <3>5 DEF ClientInv
  <2> QED BY <2>5, <2>6
<1> QED BY <1>16, <1>17 DEF SyncInv

LEMMA SyncStep == SyncInv /\ [Next]_vars => SyncInv'
<1> SUFFICES ASSUME SyncInv, [Next]_vars PROVE SyncInv'
  OBVIOUS
<1>1. ASSUME NEW c \in Client, Connect(c) PROVE SyncInv'
  BY <1>1, ConnectInv
<1>2. ASSUME NEW c \in Client, Leave(c) PROVE SyncInv'
  BY <1>2, LeaveInv
<1>3. ASSUME NEW c \in Client, NEW p \in Pos, Move(c, p) PROVE SyncInv'
  BY <1>3, MoveInv
<1>4. ASSUME NEW c \in Client, NEW p \in Pos, Look(c, p) PROVE SyncInv'
  BY <1>4, LookInv
<1>5. ASSUME NEW c \in Client, NEW p \in Pos, NEW yb \in Placements, PlaceBlock(c, p, yb[1], yb[2])
      PROVE  SyncInv'
  <2>1. yb[1] \in Cell /\ yb[2] \in Block
    BY ConstantsAssumption, SMT DEF Cell
  <2> QED BY <1>5, <2>1, PlaceBlockInv
<1>6. ASSUME NEW c \in Client, Receive(c) PROVE SyncInv'
  BY <1>6, ReceiveChunkInv, ReceiveBlockInv DEF Receive
<1>7. ASSUME NEW c \in Client, Serve(c) PROVE SyncInv'
  BY <1>7, AnswerRequestInv, ApplyBlockInv DEF Serve
<1>8. ASSUME UNCHANGED vars PROVE SyncInv'
  <2>1. /\ server' = server /\ online' = online /\ player' = player /\ mem' = mem /\ shown' = shown
        /\ expected' = expected /\ up' = up /\ down' = down /\ edits' = edits /\ moves' = moves
    BY <1>8 DEF vars
  <2>2. TypeOK'
    BY <2>1 DEF SyncInv, TypeOK, Held
  <2>3. ASSUME NEW c \in Client PROVE ClientInv(c)'
    BY <2>1, ClientKept DEF SyncInv
  <2> QED BY <2>2, <2>3 DEF SyncInv
<1> QED BY <1>1, <1>2, <1>3, <1>4, <1>5, <1>6, <1>7, <1>8 DEF Next

LEMMA SyncAlways == Spec => []SyncInv
  BY InitInv, SyncStep, PTL DEF Spec

-----------------------------------------------------------------------------
(* The results.                                                            *)

(* The shapes of a client's and the server's chunks, queues and            *)
(* expectations, and that no ChunkRenderer is left for a chunk which       *)
(* manageChunks has deleted.                                               *)
THEOREM SyncTypeCorrect == Spec => []TypeOK
<1>1. SyncInv => TypeOK
  BY DEF SyncInv
<1> QED BY <1>1, SyncAlways, PTL

(* manageChunks never leaves a position within the render distance that is *)
(* neither in the client's world nor in expectedChunks.                    *)
THEOREM WindowAlwaysCovered == Spec => []WindowCovered
<1>1. SyncInv => WindowCovered
  BY DEF SyncInv, TypeOK, ClientInv, Covered, WindowCovered
<1> QED BY <1>1, SyncAlways, PTL

LEMMA CountHits ==
  ASSUME NEW S, NEW s \in Seq(S), NEW M, AtMostOne(s, M), NEW H,
         H = {i \in DOMAIN s : s[i] \in M}
  PROVE  Cardinality(H) = IF Some(s, M) THEN 1 ELSE 0
<1>1. CASE Some(s, M)
  <2>1. PICK i \in DOMAIN s : s[i] \in M
    BY <1>1 DEF Some
  <2>2. H = {i}
    BY <2>1 DEF AtMostOne
  <2> QED BY <1>1, <2>2, FS_Singleton
<1>2. CASE ~Some(s, M)
  <2>1. H = {}
    BY <1>2 DEF Some
  <2> QED BY <1>2, <2>1, FS_EmptySet
<1> QED BY <1>1, <1>2

(* The chunks in expectedChunks are those with one request or one reply    *)
(* on its way, whatever the player, the blocks of other clients, late      *)
(* replies and clients that end do in between: requestChunkFromServer is   *)
(* never called twice for a chunk that is still to come.                   *)
THEOREM RequestsAlwaysAccountedFor == Spec => []RequestsAccountedFor
<1>1. SyncInv => RequestsAccountedFor
  <2> SUFFICES ASSUME SyncInv, NEW c \in online, NEW p \in Pos
               PROVE  LET n == Cardinality(Requests(c, p)) + Cardinality(Replies(c, p))
                      IN  /\ n > 0 => n = 1 /\ p \in expected[c]
                          /\ InWorld(p) /\ p \in expected[c] => n = 1
    BY DEF RequestsAccountedFor
  <2>1. c \in Client /\ up[c] \in Seq(UpPacket) /\ down[c] \in Seq(DownPacket)
    BY DEF SyncInv, TypeOK
  <2>2. Accounted(c, p)
    BY <2>1 DEF SyncInv, ClientInv
  <2>3. Requests(c, p) = {i \in DOMAIN up[c] : up[c][i] \in {Request(p)}}
    BY DEF Requests
  <2>4. \A i \in DOMAIN down[c] : down[c][i] \in DownPacket
    BY <2>1
  <2>5. Replies(c, p) = {i \in DOMAIN down[c] : down[c][i] \in Reply(p)}
    BY <2>4 DEF Replies, Reply
  <2>6. Cardinality(Requests(c, p)) = IF Some(up[c], {Request(p)}) THEN 1 ELSE 0
    BY <2>1, <2>2, <2>3, CountHits DEF Accounted
  <2>7. Cardinality(Replies(c, p)) = IF Some(down[c], Reply(p)) THEN 1 ELSE 0
    BY <2>1, <2>2, <2>5, CountHits DEF Accounted
  <2> QED BY <2>2, <2>6, <2>7 DEF Accounted
<1> QED BY <1>1, SyncAlways, PTL

(* Once a client has applied what is in its queue, a chunk that the server *)
(* sent it has the server's blocks, but for those the client is changing   *)
(* itself: the order in which receivePackets of the server answers and     *)
(* broadcasts is the order every client applies.                           *)
THEOREM ChunksAlwaysConverge == Spec => []ChunksConverge
<1>1. SyncInv => ChunksConverge
  <2> SUFFICES ASSUME SyncInv, NEW c \in Client, NEW p \in Pos, NEW y \in Cell,
                      p \in shown[c] \/ Replies(c, p) # {}, ~Pending(c, p, y),
                      NEW ws, ws = Writes(c, p, y)
               PROVE  server[p][y] = IF ws = {} THEN mem[c][p][y]
                                     ELSE Value(down[c][Max(ws)], y)
    BY DEF ChunksConverge
  <2> DEFINE s == down[c]
  <2>1. up[c] \in Seq(UpPacket) /\ s \in Seq(DownPacket) /\ Len(s) \in Nat /\ DOMAIN s = 1..Len(s)
    BY LenProperties DEF SyncInv, TypeOK
  <2>2. \A i \in DOMAIN s : s[i] \in DownPacket
    BY <2>1
  <2>3. ws = {i \in DOMAIN s : s[i] \in Write(p, y)}
    BY <2>2 DEF Writes, Write
  <2>4. Following(c, p, y)
    <3>1. p \in shown[c] \/ Some(s, Reply(p))
      BY <2>2 DEF Replies, Some, Reply
    <3>2. ~Some(up[c], BlockAt(p, y))
      BY DEF Pending, Some, BlockAt
    <3> QED BY <3>1, <3>2 DEF Following
  <2>5. Ends(s, Write(p, y), y, mem[c][p][y], server[p][y])
    BY <2>4 DEF SyncInv, ClientInv, Converges
  <2>6. CASE ws = {}
    BY <2>3, <2>5, <2>6 DEF Ends, Some
  <2>7. CASE ws # {}
    <3>1. ws \in SUBSET (1..Len(s)) /\ ws \in SUBSET Int
      BY <2>1, <2>3
    <3>2. IsFiniteSet(1..Len(s))
      BY <2>1, FS_Interval
    <3>3. IsFiniteSet(ws)
      BY <3>1, <3>2, FS_Subset
    <3>4. Max(ws) \in ws /\ \A i \in ws : Max(ws) >= i
      BY <2>7, <3>1, <3>3, LargestExists
    <3>5. Max(ws) \in DOMAIN s /\ s[Max(ws)] \in Write(p, y)
      BY <2>3, <3>4
    <3>6. \A j \in DOMAIN s : s[j] \in Write(p, y) => j <= Max(ws)
      BY <2>3, <3>1, <3>4
    <3>7. Value(s[Max(ws)], y) = server[p][y]
      BY <2>5, <3>5, <3>6 DEF Ends
    <3> QED BY <2>7, <3>7
  <2> QED BY <2>6, <2>7
<1> QED BY <1>1, SyncAlways, PTL
=============================================================================
