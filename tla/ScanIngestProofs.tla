--------------------------- MODULE ScanIngestProofs ---------------------------
(***************************************************************************)
(* What ScanIngest promises of a file that is only appended to, for every  *)
(* set of lines and lives.  A cursor stands at the end of a line and has   *)
(* counted the good lines before it, a fingerprint is of a prefix of the   *)
(* file, and what a round has read is a run of the file's events.          *)
(***************************************************************************)
EXTENDS ScanIngest, FiniteSetTheorems, SequenceTheorems, WellFoundedInduction, TLAPS

-----------------------------------------------------------------------------
(* Sets of numbers.                                                        *)
LEMMA LeastNatural ==
  ASSUME NEW S \in SUBSET Nat, S # {}
  PROVE  \E m \in S : \A k \in S : m <= k
<1>1. PICK m \in S : \A k \in S : ~(<<k, m>> \in OpToRel(<, Nat))
  BY NatLessThanWellFounded, WFMin
<1>2. \A k \in S : ~(k < m)
  BY <1>1 DEF OpToRel
<1> QED
  BY <1>2

(* Latest is the greatest element, or zero: the least upper bound is one.  *)
LEMMA LatestIsGreatest ==
  ASSUME NEW n \in Nat, NEW S \in SUBSET (1..n)
  PROVE  /\ Latest(S) \in S \union {0} /\ Latest(S) \in 0..n
         /\ \A i \in S : i <= Latest(S)
<1> DEFINE bounds == {m \in Nat : \A i \in S : i <= m}
<1>1. n \in bounds
  OBVIOUS
<1>2. PICK m \in bounds : \A k \in bounds : m <= k
  <2>1. bounds \in SUBSET Nat /\ bounds # {}
    BY <1>1
  <2> HIDE DEF bounds
  <2> QED
    BY <2>1, LeastNatural
<1>3. m \in S \union {0}
  <2>1. CASE m = 0
    BY <2>1
  <2>2. CASE m # 0
    <3>1. m - 1 \in Nat /\ ~(m <= m - 1)
      BY <1>2, <2>2
    <3>2. m - 1 \notin bounds
      BY <1>2, <3>1
    <3>3. PICK i \in S : ~(i <= m - 1)
      BY <3>1, <3>2
    <3>4. i <= m
      BY <1>2
    <3> QED
      BY <1>2, <3>1, <3>3, <3>4
  <2> QED
    BY <2>1, <2>2
<1>4. \E l \in S \union {0} : \A i \in S : i <= l
  BY <1>2, <1>3
<1>5. Latest(S) \in S \union {0} /\ \A i \in S : i <= Latest(S)
  <2> DEFINE Top(l) == \A i \in S : i <= l
  <2>1. \E l \in S \union {0} : Top(l)
    BY <1>4
  <2>2. Latest(S) = CHOOSE l \in S \union {0} : Top(l)
    BY DEF Latest
  <2>3. Latest(S) \in S \union {0} /\ Top(Latest(S))
    <3> HIDE DEF Top
    <3> QED
      BY <2>1, <2>2
  <2> QED
    BY <2>3
<1>6. \A l \in S \union {0} : l \in 0..n
  OBVIOUS
<1> QED
  BY <1>5, <1>6

LEMMA GreatestIsLatest ==
  ASSUME NEW n \in Nat, NEW S \in SUBSET (1..n), NEW m \in S \union {0}, \A i \in S : i <= m
  PROVE  Latest(S) = m
<1>1. /\ Latest(S) \in S \union {0}
      /\ \A i \in S : i <= Latest(S)
  BY LatestIsGreatest
<1>2. \A i \in S \union {0} : i \in Nat
  OBVIOUS
<1>3. Latest(S) \in Nat /\ m \in Nat
  BY <1>1, <1>2
<1>4. Latest(S) <= m
  BY <1>1, <1>3
<1>5. m <= Latest(S)
  BY <1>1, <1>3
<1> QED
  BY <1>3, <1>4, <1>5

(* Moving every number of a set by the same distance keeps their count.    *)
LEMMA ShiftedCount ==
  ASSUME NEW S \in SUBSET Nat, IsFiniteSet(S), NEW o \in Nat, NEW T,
         \A j \in Nat : j \in S <=> o + j \in T, \A i \in T : i \in Nat /\ i >= o
  PROVE  IsFiniteSet(T) /\ Cardinality(T) = Cardinality(S)
<1> DEFINE f == [j \in S |-> o + j]
<1>1. f \in [S -> T]
  OBVIOUS
<1>2. \A i, j \in S : f[i] = f[j] => i = j
  OBVIOUS
<1>3. \A t \in T : \E j \in S : f[j] = t
  <2> SUFFICES ASSUME NEW t \in T PROVE \E j \in S : f[j] = t
    OBVIOUS
  <2>1. t - o \in Nat /\ o + (t - o) = t
    OBVIOUS
  <2>2. t - o \in S
    BY <2>1
  <2> QED
    BY <2>1, <2>2
<1>4. f \in Bijection(S, T)
  <2> HIDE DEF f
  <2> QED
    BY <1>1, <1>2, <1>3 DEF Bijection, Injection, IsInjective, Surjection
<1> QED
  BY <1>4, FS_Bijection DEF ExistsBijection

-----------------------------------------------------------------------------
(* Lines.  Where the good lines of a file end, how many there are up to a  *)
(* place, and the event of each.                                           *)
Place(b, i) == Cardinality({j \in GoodEnds(b) : j < i})
Counted(b, n) == Cardinality({j \in GoodEnds(b) : j <= n})
EventAt(b, i) == [seq |-> Place(b, i), text |-> TextAt(b, i)]
EventsOf(b) == Parse(b, 0)
Slice(b, from, to) == {e \in EventsOf(b) : from <= e.seq /\ e.seq < to}
AtBoundary(b, n) == n = 0 \/ n \in Newlines(b)

LEMMA EndsAreFinite ==
  ASSUME NEW b \in Seq(Byte)
  PROVE  /\ Newlines(b) \in SUBSET (1..Len(b)) /\ GoodEnds(b) \in SUBSET Newlines(b)
         /\ IsFiniteSet(GoodEnds(b))
         /\ \A S \in SUBSET GoodEnds(b) : IsFiniteSet(S) /\ Cardinality(S) \in Nat
<1>1. Newlines(b) \in SUBSET (1..Len(b)) /\ GoodEnds(b) \in SUBSET Newlines(b)
  BY DEF Newlines, GoodEnds
<1>2. IsFiniteSet(GoodEnds(b))
  BY <1>1, FS_Interval, FS_Subset
<1> QED
  BY <1>1, <1>2, FS_Subset, FS_CardinalityType

LEMMA CountsAre ==
  ASSUME NEW b \in Seq(Byte)
  PROVE  \A n : Place(b, n) \in Nat /\ Counted(b, n) \in Nat
BY EndsAreFinite DEF Place, Counted

LEMMA ParseIs ==
  ASSUME NEW b, NEW base
  PROVE  Parse(b, base) = {[seq |-> base + Place(b, i), text |-> TextAt(b, i)] : i \in GoodEnds(b)}
BY DEF Parse, Place

LEMMA EventsOfIs ==
  ASSUME NEW b \in Seq(Byte)
  PROVE  EventsOf(b) = {EventAt(b, i) : i \in GoodEnds(b)}
<1>1. \A i : Place(b, i) \in Nat
  BY CountsAre
<1>2. \A i : 0 + Place(b, i) = Place(b, i)
  BY <1>1
<1> QED
  BY <1>2, ParseIs DEF EventsOf, EventAt

(* A good line is among the first Counted(b, n) if and only if it ends by  *)
(* n.                                                                      *)
LEMMA PlacesInOrder ==
  ASSUME NEW b \in Seq(Byte), NEW i \in GoodEnds(b), NEW n \in Nat
  PROVE  i <= n <=> Place(b, i) < Counted(b, n)
<1> DEFINE before == {j \in GoodEnds(b) : j < i}
           upto == {j \in GoodEnds(b) : j <= n}
<1>1. i \in Nat /\ \A j \in GoodEnds(b) : j \in Nat
  BY EndsAreFinite
<1>2. IsFiniteSet(before) /\ IsFiniteSet(upto) /\ Cardinality(before) \in Nat /\ Cardinality(upto) \in Nat
  BY EndsAreFinite
<1>3. ASSUME i <= n PROVE Cardinality(before) < Cardinality(upto)
  <2>1. \A j \in before : j \in upto
    BY <1>1, <1>3
  <2>2. i \in upto /\ i \notin before
    BY <1>1, <1>3
  <2>3. before \in SUBSET upto /\ before # upto
    BY <2>1, <2>2
  <2> HIDE DEF before, upto
  <2> QED
    BY <1>2, <2>3, FS_Subset
<1>4. ASSUME ~(i <= n) PROVE Cardinality(upto) <= Cardinality(before)
  <2>1. \A j \in upto : j \in before
    BY <1>1, <1>4
  <2> HIDE DEF before, upto
  <2> QED
    BY <1>2, <2>1, FS_Subset
<1> QED
  BY <1>2, <1>3, <1>4 DEF Place, Counted

LEMMA CountsGrow ==
  ASSUME NEW b \in Seq(Byte), NEW m \in Nat, NEW n \in Nat, m <= n
  PROVE  /\ Counted(b, m) <= Counted(b, n) /\ Counted(b, 0) = 0
         /\ Counted(b, n) <= Counted(b, Len(b))
<1> DEFINE T(k) == {j \in GoodEnds(b) : j <= k}
<1>1. \A j \in GoodEnds(b) : j \in Nat /\ j >= 1 /\ j <= Len(b)
  BY EndsAreFinite
<1>2. /\ T(m) \in SUBSET T(n) /\ T(n) \in SUBSET T(Len(b)) /\ T(0) = {}
      /\ T(n) \in SUBSET GoodEnds(b) /\ T(Len(b)) \in SUBSET GoodEnds(b)
  BY <1>1
<1>3. /\ IsFiniteSet(T(n)) /\ IsFiniteSet(T(Len(b)))
  BY <1>2, EndsAreFinite
<1> QED
  BY <1>2, <1>3, FS_Subset, FS_EmptySet DEF Counted

-----------------------------------------------------------------------------
(* Pieces of a file.  What is read between the end of a line and some      *)
(* place holds the lines that end there, with the texts they have.         *)
Piece(f, o, n) == SubSeq(f, o + 1, n)

LEMMA PieceIs ==
  ASSUME NEW f \in Seq(Byte), NEW o \in Nat, NEW n \in Nat, o <= n, n <= Len(f)
  PROVE  /\ Piece(f, o, n) \in Seq(Byte) /\ Len(Piece(f, o, n)) = n - o
         /\ \A k \in 1..(n - o) : Piece(f, o, n)[k] = f[o + k]
BY SubSeqProperties DEF Piece

LEMMA PieceOfPiece ==
  ASSUME NEW f \in Seq(Byte), NEW o \in Nat, NEW n \in Nat, o <= n, n <= Len(f),
         NEW a \in Nat, NEW z \in Nat, a <= z, z <= n - o
  PROVE  Piece(Piece(f, o, n), a, z) = Piece(f, o + a, o + z)
<1> DEFINE b == Piece(f, o, n)
           s == Piece(b, a, z)
           t == Piece(f, o + a, o + z)
<1>1. /\ b \in Seq(Byte) /\ Len(b) = n - o
      /\ \A k \in 1..(n - o) : b[k] = f[o + k]
  BY PieceIs
<1> HIDE DEF b
<1>2. s \in Seq(Byte) /\ Len(s) = z - a /\ \A k \in 1..(z - a) : s[k] = b[a + k]
  BY <1>1, PieceIs
<1>3. o + a \in Nat /\ o + z \in Nat /\ o + a <= o + z /\ o + z <= Len(f) /\ (o + z) - (o + a) = z - a
  OBVIOUS
<1>4. t \in Seq(Byte) /\ Len(t) = z - a /\ \A k \in 1..(z - a) : t[k] = f[(o + a) + k]
  <2>1. PICK u \in Nat, v \in Nat : u = o + a /\ v = o + z
    BY <1>3
  <2>2. /\ Piece(f, u, v) \in Seq(Byte) /\ Len(Piece(f, u, v)) = v - u
        /\ \A k \in 1..(v - u) : Piece(f, u, v)[k] = f[u + k]
    BY <1>3, <2>1, PieceIs
  <2> QED
    BY <1>3, <2>1, <2>2
<1>5. \A k \in 1..(z - a) : a + k \in 1..(n - o) /\ o + (a + k) = (o + a) + k
  OBVIOUS
<1> HIDE DEF s, t
<1>6. \A k \in 1..Len(s) : s[k] = t[k]
  BY <1>1, <1>2, <1>4, <1>5
<1>7. s = t
  BY <1>2, <1>4, <1>6, SeqEqual
<1> QED
  BY <1>7 DEF s, t, b

LEMMA NewlinesOfPiece ==
  ASSUME NEW f \in Seq(Byte), NEW o \in Nat, NEW n \in Nat, o <= n, n <= Len(f),
         NEW k \in Nat
  PROVE  k \in Newlines(Piece(f, o, n)) <=> 1 <= k /\ o + k <= n /\ o + k \in Newlines(f)
<1>1. /\ Piece(f, o, n) \in Seq(Byte) /\ Len(Piece(f, o, n)) = n - o
      /\ \A j \in 1..(n - o) : Piece(f, o, n)[j] = f[o + j]
  BY PieceIs
<1>2. Newlines(Piece(f, o, n)) = {j \in 1..(n - o) : Piece(f, o, n)[j] = NL} /\ Newlines(f) = {j \in 1..Len(f) : f[j] = NL}
  BY <1>1 DEF Newlines
<1> QED
  BY <1>1, <1>2

LEMMA TextOfPiece ==
  ASSUME NEW f \in Seq(Byte), NEW o \in Nat, NEW n \in Nat, o <= n, n <= Len(f),
         AtBoundary(f, o), NEW k \in Newlines(Piece(f, o, n))
  PROVE  TextAt(Piece(f, o, n), k) = TextAt(f, o + k)
<1> DEFINE here == {j \in Newlines(Piece(f, o, n)) : j < k}
           there == {j \in Newlines(f) : j < o + k}
           p == Latest(here)
<1>1. /\ Piece(f, o, n) \in Seq(Byte) /\ Len(Piece(f, o, n)) = n - o
      /\ \A j \in 1..(n - o) : Piece(f, o, n)[j] = f[o + j]
  BY PieceIs
<1>2. k \in 1..(n - o) /\ Newlines(Piece(f, o, n)) \in SUBSET (1..(n - o)) /\ Newlines(f) \in SUBSET (1..Len(f))
  BY <1>1, EndsAreFinite
<1>3. here \in SUBSET (1..(n - o)) /\ there \in SUBSET (1..Len(f))
  BY <1>2
<1>4. /\ p \in here \union {0} /\ p \in 0..(n - o)
      /\ \A j \in here : j <= p
  <2> HIDE DEF here
  <2> QED
    BY <1>3, LatestIsGreatest
<1>5. p < k
  BY <1>2, <1>4
<1>6. o + p \in there \union {0}
  <2>1. CASE p \in here
    <3>1. p \in Nat /\ p \in Newlines(Piece(f, o, n))
      BY <1>4, <2>1
    <3>2. o + p \in Newlines(f)
      BY <3>1, NewlinesOfPiece
    <3> QED
      BY <1>2, <1>5, <3>1, <3>2
  <2>2. CASE p = 0
    BY <1>2, <2>2 DEF AtBoundary
  <2> QED
    BY <1>4, <2>1, <2>2
<1>7. ASSUME NEW i \in there PROVE i <= o + p
  <2>1. i \in Nat /\ i \in Newlines(f) /\ i < o + k
    BY <1>2
  <2>2. CASE i <= o
    BY <1>4, <2>1, <2>2
  <2>3. CASE i > o
    <3>1. i - o \in Nat /\ o + (i - o) = i /\ 1 <= i - o /\ o + (i - o) <= n /\ i - o < k
      BY <1>2, <2>1, <2>3
    <3>2. i - o \in Newlines(Piece(f, o, n))
      BY <2>1, <3>1, NewlinesOfPiece
    <3>3. i - o <= p
      BY <1>4, <3>1, <3>2
    <3> QED
      BY <1>4, <2>1, <3>3
  <2> QED
    BY <2>1, <2>2, <2>3
<1>8. Latest(there) = o + p
  <2>1. \A i \in there : i <= o + p
    BY <1>7
  <2>2. PICK m \in there \union {0} : m = o + p
    BY <1>6
  <2>3. Len(f) \in Nat /\ \A i \in there : i <= m
    BY <2>1, <2>2
  <2> HIDE DEF here, there, p
  <2>4. Latest(there) = m
    BY <1>3, <2>3, GreatestIsLatest
  <2> QED
    BY <2>2, <2>4
<1>9. SubSeq(Piece(f, o, n), p + 1, k - 1) = SubSeq(f, (o + p) + 1, (o + k) - 1)
  <2> HIDE DEF p
  <2>1. p \in Nat /\ k - 1 \in Nat /\ p <= k - 1 /\ k - 1 <= n - o /\ o + (k - 1) = (o + k) - 1
    BY <1>2, <1>4, <1>5
  <2>2. Piece(Piece(f, o, n), p, k - 1) = Piece(f, o + p, o + (k - 1))
    BY <2>1, PieceOfPiece
  <2> QED
    BY <2>1, <2>2 DEF Piece
<1> QED
  BY <1>8, <1>9 DEF TextAt

LEMMA GoodEndsOfPiece ==
  ASSUME NEW f \in Seq(Byte), NEW o \in Nat, NEW n \in Nat, o <= n, n <= Len(f),
         AtBoundary(f, o), NEW k \in Nat
  PROVE  k \in GoodEnds(Piece(f, o, n)) <=> 1 <= k /\ o + k <= n /\ o + k \in GoodEnds(f)
<1>1. k \in Newlines(Piece(f, o, n)) <=> 1 <= k /\ o + k <= n /\ o + k \in Newlines(f)
  BY NewlinesOfPiece
<1>2. k \in Newlines(Piece(f, o, n)) => TextAt(Piece(f, o, n), k) = TextAt(f, o + k)
  BY TextOfPiece
<1> QED
  BY <1>1, <1>2 DEF GoodEnds

(* The events of a piece, numbered on from the good lines before it, are   *)
(* those the file has there.                                               *)
LEMMA PlaceInPiece ==
  ASSUME NEW f \in Seq(Byte), NEW o \in Nat, NEW n \in Nat, o <= n, n <= Len(f),
         AtBoundary(f, o), NEW k \in Nat, o + k <= n + 1, 1 <= k
  PROVE  Place(f, o + k) = Counted(f, o) + Place(Piece(f, o, n), k)
<1> DEFINE here == {j \in GoodEnds(Piece(f, o, n)) : j < k}
           moved == {i \in GoodEnds(f) : o < i /\ i < o + k}
           before == {i \in GoodEnds(f) : i <= o}
           all == {i \in GoodEnds(f) : i < o + k}
<1>1. Piece(f, o, n) \in Seq(Byte)
  BY PieceIs
<1>2. /\ \A i \in GoodEnds(f) : i \in Nat
      /\ \A i \in GoodEnds(Piece(f, o, n)) : i \in Nat
  BY <1>1, EndsAreFinite
<1>3. /\ IsFiniteSet(here) /\ here \in SUBSET Nat
      /\ IsFiniteSet(before) /\ Cardinality(before) \in Nat
      /\ IsFiniteSet(moved) /\ Cardinality(moved) \in Nat
  BY <1>1, <1>2, EndsAreFinite
<1>4. \A j \in Nat : j \in here <=> o + j \in moved
  <2> SUFFICES ASSUME NEW j \in Nat PROVE j \in here <=> o + j \in moved
    OBVIOUS
  <2>1. j \in GoodEnds(Piece(f, o, n)) <=> 1 <= j /\ o + j <= n /\ o + j \in GoodEnds(f)
    BY GoodEndsOfPiece
  <2> QED
    BY <2>1
<1>5. \A i \in moved : i \in Nat /\ i >= o
  BY <1>2
<1>6. Cardinality(moved) = Cardinality(here)
  <2> HIDE DEF here, moved
  <2> QED
    BY <1>3, <1>4, <1>5, ShiftedCount
<1>7. all = before \union moved /\ before \intersect moved = {}
  <2>1. \A i \in GoodEnds(f) : i \in all <=> i \in before \/ i \in moved
    BY <1>2
  <2>2. \A i \in GoodEnds(f) : ~(i \in before /\ i \in moved)
    BY <1>2
  <2> QED
    BY <2>1, <2>2
<1>8. Cardinality(all) = Cardinality(before) + Cardinality(moved)
  <2>1. Cardinality({}) = 0
    BY FS_EmptySet
  <2>2. ASSUME NEW S, NEW T, IsFiniteSet(S), IsFiniteSet(T), S \intersect T = {},
               Cardinality(S) \in Nat, Cardinality(T) \in Nat
        PROVE  Cardinality(S \union T) = Cardinality(S) + Cardinality(T)
    <3>1. Cardinality(S \union T) = Cardinality(S) + Cardinality(T) - Cardinality(S \intersect T)
      BY <2>2, FS_Union
    <3>2. Cardinality(S \intersect T) = 0
      BY <2>1, <2>2
    <3> QED
      BY <2>2, <3>1, <3>2
  <2> HIDE DEF all, before, moved
  <2> QED
    BY <1>3, <1>7, <2>2
<1> QED
  BY <1>6, <1>8 DEF Place, Counted

LEMMA EventsOfPiece ==
  ASSUME NEW f \in Seq(Byte), NEW o \in Nat, NEW n \in Nat, o <= n, n <= Len(f),
         AtBoundary(f, o)
  PROVE  Parse(Piece(f, o, n), Counted(f, o)) = Slice(f, Counted(f, o), Counted(f, n))
<1> DEFINE base == Counted(f, o)
           E(k) == [seq |-> base + Place(Piece(f, o, n), k), text |-> TextAt(Piece(f, o, n), k)]
<1>1. Piece(f, o, n) \in Seq(Byte) /\ base \in Nat /\ Counted(f, n) \in Nat
  BY PieceIs, CountsAre
<1>2. /\ \A i \in GoodEnds(f) : i \in Nat
      /\ \A k \in GoodEnds(Piece(f, o, n)) : k \in Nat /\ k \in Newlines(Piece(f, o, n))
  BY <1>1, EndsAreFinite
<1>3. ASSUME NEW k \in GoodEnds(Piece(f, o, n))
      PROVE  /\ o + k \in GoodEnds(f) /\ o < o + k /\ o + k <= n
             /\ E(k) = EventAt(f, o + k)
  <2>1. k \in Nat /\ 1 <= k /\ o + k <= n /\ o + k \in GoodEnds(f)
    BY <1>2, <1>3, GoodEndsOfPiece
  <2>2. Place(f, o + k) = base + Place(Piece(f, o, n), k)
    BY <2>1, PlaceInPiece
  <2>3. TextAt(Piece(f, o, n), k) = TextAt(f, o + k)
    BY <1>2, TextOfPiece
  <2> QED
    BY <2>1, <2>2, <2>3 DEF EventAt
<1>4. \A i \in GoodEnds(f) : o < i /\ i <= n <=> base <= Place(f, i) /\ Place(f, i) < Counted(f, n)
  <2> SUFFICES ASSUME NEW i \in GoodEnds(f)
               PROVE  o < i /\ i <= n <=> base <= Place(f, i) /\ Place(f, i) < Counted(f, n)
    OBVIOUS
  <2>1. (i <= o <=> Place(f, i) < base) /\ (i <= n <=> Place(f, i) < Counted(f, n))
    BY PlacesInOrder
  <2>2. Place(f, i) \in Nat /\ i \in Nat
    BY <1>2, CountsAre
  <2> QED
    BY <1>1, <2>1, <2>2
<1>5. Parse(Piece(f, o, n), base) = {E(k) : k \in GoodEnds(Piece(f, o, n))}
  BY ParseIs
<1>6. EventsOf(f) = {EventAt(f, i) : i \in GoodEnds(f)}
  BY EventsOfIs
<1>7. ASSUME NEW e \in Parse(Piece(f, o, n), base) PROVE e \in Slice(f, base, Counted(f, n))
  <2>1. PICK k \in GoodEnds(Piece(f, o, n)) : e = E(k)
    BY <1>5
  <2>2. e = EventAt(f, o + k) /\ o + k \in GoodEnds(f) /\ o < o + k /\ o + k <= n
    BY <1>3, <2>1
  <2>3. e.seq = Place(f, o + k) /\ base <= e.seq /\ e.seq < Counted(f, n)
    BY <1>4, <2>2 DEF EventAt
  <2> QED
    BY <1>6, <2>2, <2>3 DEF Slice
<1>8. ASSUME NEW e \in Slice(f, base, Counted(f, n)) PROVE e \in Parse(Piece(f, o, n), base)
  <2>1. PICK i \in GoodEnds(f) : e = EventAt(f, i)
    BY <1>6 DEF Slice
  <2>2. e.seq = Place(f, i) /\ base <= e.seq /\ e.seq < Counted(f, n)
    BY <2>1 DEF Slice, EventAt
  <2>3. o < i /\ i <= n /\ i \in Nat
    BY <1>2, <1>4, <2>2
  <2>4. i - o \in Nat /\ 1 <= i - o /\ o + (i - o) = i /\ o + (i - o) <= n
    BY <2>3
  <2>5. i - o \in GoodEnds(Piece(f, o, n))
    BY <2>4, GoodEndsOfPiece
  <2>6. E(i - o) = EventAt(f, i)
    BY <1>3, <2>4, <2>5
  <2> QED
    BY <1>5, <2>1, <2>5, <2>6
<1> QED
  BY <1>7, <1>8

LEMMA CountedIsPlace ==
  ASSUME NEW b \in Seq(Byte), NEW n \in Nat
  PROVE  Counted(b, n) = Place(b, n + 1)
<1>1. \A j \in GoodEnds(b) : j \in Nat
  BY EndsAreFinite
<1>2. \A j \in GoodEnds(b) : j <= n <=> j < n + 1
  BY <1>1
<1>3. {j \in GoodEnds(b) : j <= n} = {j \in GoodEnds(b) : j < n + 1}
  BY <1>2
<1> QED
  BY <1>3 DEF Counted, Place

LEMMA CountedInPiece ==
  ASSUME NEW f \in Seq(Byte), NEW o \in Nat, NEW n \in Nat, o <= n, n <= Len(f),
         AtBoundary(f, o), NEW k \in Nat, o + k <= n
  PROVE  Counted(f, o + k) = Counted(f, o) + Counted(Piece(f, o, n), k)
<1>1. Piece(f, o, n) \in Seq(Byte)
  BY PieceIs
<1>2. k + 1 \in Nat /\ o + (k + 1) <= n + 1 /\ 1 <= k + 1 /\ o + k \in Nat /\ o + (k + 1) = (o + k) + 1
  OBVIOUS
<1>3. Place(f, o + (k + 1)) = Counted(f, o) + Place(Piece(f, o, n), k + 1)
  BY <1>2, PlaceInPiece
<1> QED
  BY <1>1, <1>2, <1>3, CountedIsPlace

(* As many events as good lines.                                           *)
LEMMA CountOfEvents ==
  ASSUME NEW b \in Seq(Byte), NEW base \in Nat
  PROVE  IsFiniteSet(Parse(b, base)) /\ Cardinality(Parse(b, base)) = Counted(b, Len(b))
<1> DEFINE f == [i \in GoodEnds(b) |-> [seq |-> base + Place(b, i), text |-> TextAt(b, i)]]
           T == Parse(b, base)
<1>1. \A i \in GoodEnds(b) : i \in Nat /\ i <= Len(b)
  BY EndsAreFinite
<1>2. T = {f[i] : i \in GoodEnds(b)}
  BY ParseIs
<1>3. ASSUME NEW i \in GoodEnds(b), NEW j \in GoodEnds(b), f[i] = f[j] PROVE i = j
  <2>1. base + Place(b, i) = base + Place(b, j) /\ Place(b, i) \in Nat /\ Place(b, j) \in Nat
    BY <1>3, CountsAre
  <2>2. Place(b, i) = Place(b, j)
    BY <2>1
  <2>3. (i <= j <=> Place(b, i) < Counted(b, j)) /\ (j <= j <=> Place(b, j) < Counted(b, j))
    BY <1>1, PlacesInOrder
  <2>4. (j <= i <=> Place(b, j) < Counted(b, i)) /\ (i <= i <=> Place(b, i) < Counted(b, i))
    BY <1>1, PlacesInOrder
  <2> QED
    BY <1>1, <2>2, <2>3, <2>4
<1>4. f \in Bijection(GoodEnds(b), T)
  <2>1. f \in [GoodEnds(b) -> T]
    BY <1>2
  <2> HIDE DEF f, T
  <2> QED
    BY <1>2, <1>3, <2>1 DEF Bijection, Injection, IsInjective, Surjection
<1>5. IsFiniteSet(GoodEnds(b))
  BY EndsAreFinite
<1>6. IsFiniteSet(T) /\ Cardinality(T) = Cardinality(GoodEnds(b))
  <2> HIDE DEF f, T
  <2> QED
    BY <1>4, <1>5, FS_Bijection DEF ExistsBijection
<1>7. {j \in GoodEnds(b) : j <= Len(b)} = GoodEnds(b)
  BY <1>1
<1> QED
  BY <1>6, <1>7 DEF Counted

(* Up to the last newline of a piece nothing but a half line is left out.  *)
LEMMA LastBoundary ==
  ASSUME NEW f \in Seq(Byte), NEW o \in Nat, NEW n \in Nat, o <= n, n <= Len(f),
         AtBoundary(f, o), NEW m, m = o + Latest(Newlines(Piece(f, o, n)))
  PROVE  /\ m \in Nat /\ o <= m /\ m <= n
         /\ AtBoundary(f, m) /\ Counted(f, m) = Counted(f, n)
<1> DEFINE b == Piece(f, o, n)
           l == Latest(Newlines(b))
<1>0. n - o \in Nat
  OBVIOUS
<1>1. b \in Seq(Byte) /\ Len(b) = n - o /\ n - o \in Nat
  BY <1>0, PieceIs
<1>2. Newlines(b) \in SUBSET (1..(n - o)) /\ \A j \in GoodEnds(f) : j \in Nat /\ j \in Newlines(f)
  BY <1>1, EndsAreFinite
<1>3. l \in Newlines(b) \union {0} /\ l \in 0..(n - o) /\ \A j \in Newlines(b) : j <= l
  BY <1>1, <1>2, LatestIsGreatest
<1>4. m \in Nat /\ o <= m /\ m <= n /\ m = o + l
  BY <1>3
<1>5. AtBoundary(f, m)
  <2>1. CASE l = 0
    BY <1>4, <2>1
  <2>2. CASE l \in Newlines(b)
    <3>1. l \in Nat
      BY <1>3
    <3>2. o + l \in Newlines(f)
      BY <2>2, <3>1, NewlinesOfPiece
    <3> QED
      BY <1>4, <3>2 DEF AtBoundary
  <2> QED
    BY <1>3, <2>1, <2>2
<1>6. ASSUME NEW j \in GoodEnds(f), j <= n PROVE j <= m
  <2> SUFFICES ASSUME ~(j <= m) PROVE FALSE
    OBVIOUS
  <2>1. j \in Nat /\ j \in Newlines(f) /\ j > m
    BY <1>2, <1>4
  <2>2. j - o \in Nat /\ o + (j - o) = j /\ 1 <= j - o /\ j - o > l
    BY <1>3, <1>4, <2>1
  <2>3. j - o \in Newlines(b)
    BY <1>6, <2>1, <2>2, NewlinesOfPiece
  <2> QED
    BY <1>3, <2>2, <2>3
<1>7. {j \in GoodEnds(f) : j <= m} = {j \in GoodEnds(f) : j <= n}
  BY <1>2, <1>4, <1>6
<1> QED
  BY <1>4, <1>5, <1>7 DEF Counted

-----------------------------------------------------------------------------
(* A file that grows keeps its lines, and their places.                    *)
LEMMA EventsAre ==
  ASSUME NEW f \in Seq(Byte)
  PROVE  /\ \A e \in EventsOf(f) : e.seq \in Nat /\ e.seq < Counted(f, Len(f)) /\ e.text \in Seq(Byte)
                                   /\ e = [seq |-> e.seq, text |-> e.text]
         /\ \A e, d \in EventsOf(f) : e.seq = d.seq => e = d
<1>1. EventsOf(f) = {EventAt(f, i) : i \in GoodEnds(f)}
  BY EventsOfIs
<1>2. \A i \in GoodEnds(f) : i \in Nat /\ i \in 1..Len(f)
  BY EndsAreFinite
<1>3. ASSUME NEW i \in GoodEnds(f)
      PROVE  Place(f, i) \in Nat /\ Place(f, i) < Counted(f, Len(f)) /\ TextAt(f, i) \in Seq(Byte)
  <2>1. Place(f, i) \in Nat /\ Place(f, i) < Counted(f, Len(f))
    BY <1>2, CountsAre, PlacesInOrder
  <2> DEFINE S == {j \in Newlines(f) : j < i}
  <2>2. S \in SUBSET (1..Len(f)) /\ Len(f) \in Nat
    BY EndsAreFinite
  <2>3. Latest(S) \in 0..Len(f)
    <3> HIDE DEF S
    <3> QED
      BY <2>2, LatestIsGreatest
  <2>4. TextAt(f, i) = SubSeq(f, Latest(S) + 1, i - 1)
    BY DEF TextAt
  <2> HIDE DEF S
  <2>5. PICK a \in Nat, z \in Nat : a = Latest(S) + 1 /\ z = i - 1 /\ a >= 1 /\ z <= Len(f)
    BY <1>2, <2>3
  <2>6. \A j \in a..z : f[j] \in Byte
    BY <2>5
  <2>7. SubSeq(f, a, z) \in Seq(Byte)
    BY <2>6, SubSeqProperties
  <2> QED
    BY <2>1, <2>4, <2>5, <2>7
<1>4. ASSUME NEW i \in GoodEnds(f), NEW j \in GoodEnds(f), Place(f, i) = Place(f, j) PROVE i = j
  <2>1. (i <= j <=> Place(f, i) < Counted(f, j)) /\ (j <= j <=> Place(f, j) < Counted(f, j))
    BY <1>2, PlacesInOrder
  <2>2. (j <= i <=> Place(f, j) < Counted(f, i)) /\ (i <= i <=> Place(f, i) < Counted(f, i))
    BY <1>2, PlacesInOrder
  <2> QED
    BY <1>2, <1>4, <2>1, <2>2
<1>5. \A i \in GoodEnds(f) :
        /\ EventAt(f, i).seq = Place(f, i) /\ EventAt(f, i).text = TextAt(f, i)
        /\ EventAt(f, i) = [seq |-> EventAt(f, i).seq, text |-> EventAt(f, i).text]
  BY DEF EventAt
<1>6. \A e \in EventsOf(f) : e.seq \in Nat /\ e.seq < Counted(f, Len(f)) /\ e.text \in Seq(Byte)
                             /\ e = [seq |-> e.seq, text |-> e.text]
  BY <1>1, <1>3, <1>5
<1>7. \A e, d \in EventsOf(f) : e.seq = d.seq => e = d
  BY <1>1, <1>4, <1>5
<1> QED
  BY <1>6, <1>7

Prefix(f, h) == Len(f) <= Len(h) /\ f = Piece(h, 0, Len(f))

LEMMA PrefixKeepsLines ==
  ASSUME NEW f \in Seq(Byte), NEW h \in Seq(Byte), Prefix(f, h), NEW n \in Nat, n <= Len(f)
  PROVE  /\ Counted(f, n) = Counted(h, n)
         /\ AtBoundary(f, n) <=> AtBoundary(h, n)
<1>1. f = Piece(h, 0, Len(f)) /\ Len(f) <= Len(h) /\ Len(f) \in Nat /\ AtBoundary(h, 0)
  BY DEF Prefix, AtBoundary
<1>2. Counted(h, 0) = 0 /\ Counted(f, n) \in Nat
  BY CountsGrow, CountsAre
<1>3. Counted(h, 0 + n) = Counted(h, 0) + Counted(Piece(h, 0, Len(f)), n)
  <2>1. 0 <= Len(f) /\ 0 + n <= Len(f) /\ 0 \in Nat
    BY <1>1
  <2> QED
    BY <1>1, <2>1, CountedInPiece
<1>4. 0 + n = n
  OBVIOUS
<1>5. Counted(f, n) = Counted(h, n)
  BY <1>1, <1>2, <1>3, <1>4
<1>6. n \in Newlines(Piece(h, 0, Len(f))) <=> 1 <= n /\ 0 + n <= Len(f) /\ 0 + n \in Newlines(h)
  <2>1. 0 <= Len(f) /\ 0 \in Nat
    BY <1>1
  <2> QED
    BY <1>1, <2>1, NewlinesOfPiece
<1>7. n # 0 => (n \in Newlines(f) <=> n \in Newlines(h))
  <2>1. n # 0 => 1 <= n
    OBVIOUS
  <2> QED
    BY <1>1, <1>4, <1>6, <2>1
<1> QED
  BY <1>5, <1>7 DEF AtBoundary

LEMMA PrefixKeepsEvents ==
  ASSUME NEW f \in Seq(Byte), NEW h \in Seq(Byte), Prefix(f, h)
  PROVE  /\ EventsOf(f) = Slice(h, 0, Counted(h, Len(f)))
         /\ \A a, z \in Nat : z <= Counted(f, Len(f)) => Slice(f, a, z) = Slice(h, a, z)
         /\ EventsOf(f) \subseteq EventsOf(h)
<1>1. f = Piece(h, 0, Len(f)) /\ Len(f) <= Len(h) /\ Len(f) \in Nat /\ AtBoundary(h, 0) /\ 0 <= Len(f)
  BY DEF Prefix, AtBoundary
<1>2. Counted(h, 0) = 0
  BY CountsGrow
<1>3. Parse(Piece(h, 0, Len(f)), Counted(h, 0)) = Slice(h, Counted(h, 0), Counted(h, Len(f)))
  BY <1>1, EventsOfPiece
<1>4. EventsOf(f) = Slice(h, 0, Counted(h, Len(f)))
  BY <1>1, <1>2, <1>3 DEF EventsOf
<1>5. Counted(f, Len(f)) = Counted(h, Len(f)) /\ Counted(h, Len(f)) \in Nat
  BY <1>1, PrefixKeepsLines, CountsAre
<1>6. \A e \in EventsOf(h) : e.seq \in Nat
  BY EventsAre
<1>7. ASSUME NEW a \in Nat, NEW z \in Nat, z <= Counted(f, Len(f))
      PROVE  Slice(f, a, z) = Slice(h, a, z)
  <2>1. \A e \in EventsOf(h) : e.seq < z => 0 <= e.seq /\ e.seq < Counted(h, Len(f))
    BY <1>5, <1>6, <1>7
  <2> QED
    BY <1>4, <2>1 DEF Slice
<1> QED
  BY <1>4, <1>7 DEF Slice

-----------------------------------------------------------------------------
(* Types.                                                                  *)
LEMMA NextFields ==
  ASSUME [Next]_vars
  PROVE  /\ life' = life
         /\ rewrites' = rewrites \/ Rewrite
BY DEF Next, vars, Write, Rewrite, Upgrade, Round, Stream, Fault, Begin, Stat, Read, ShortRead,
       Unavailable, Unreadable, Commit, CommitFails, Save, Crash, Forgetful, Strikes

LEMMA StepTells ==
  ASSUME TypeOK, NEW p \in Scanner
  PROVE  /\ scan[p] \in Rounds
         /\ scan[p].step = "stat" => scan[p] \in AtStat
         /\ scan[p].step = "read" => scan[p] \in AtRead
         /\ scan[p].step = "commit" => scan[p] \in AtCommit
         /\ scan[p].step = "save" => scan[p] \in AtSave
<1>1. scan[p] \in Rounds
  BY DEF TypeOK
<1> QED
  BY <1>1 DEF Rounds, Off, AtStat, AtRead, AtCommit, AtSave

(* A step of a scanner moves its own round.                                *)
LEMMA ScanMoves ==
  ASSUME TypeOK, NEW p \in Scanner, NEW r, scan' = [scan EXCEPT ![p] = r]
  PROVE  /\ scan'[p] = r /\ \A q \in Scanner : q # p => scan'[q] = scan[q]
         /\ r \in Rounds => scan' \in [Scanner -> Rounds]
BY DEF TypeOK

LEMMA EventsTyped ==
  ASSUME NEW b \in Seq(Byte), NEW base \in Nat
  PROVE  Parse(b, base) \in SUBSET Event /\ Cardinality(Parse(b, base)) \in Nat
<1>1. Parse(b, base) = {[seq |-> base + Place(b, i), text |-> TextAt(b, i)] : i \in GoodEnds(b)}
  BY ParseIs
<1>2. \A i \in GoodEnds(b) : EventAt(b, i) \in EventsOf(b) /\ EventAt(b, i).text = TextAt(b, i)
  BY EventsOfIs DEF EventAt
<1>3. \A i \in GoodEnds(b) : TextAt(b, i) \in Seq(Byte) /\ base + Place(b, i) \in Nat
  BY <1>2, EventsAre, CountsAre
<1>4. Parse(b, base) \in SUBSET Event
  BY <1>1, <1>3 DEF Event
<1>5. Cardinality(Parse(b, base)) \in Nat
  BY CountOfEvents, CountsAre
<1> QED
  BY <1>4, <1>5

LEMMA NoneIs ==
  /\ NoHash \notin Hash /\ NoState \notin State /\ NoCursor \notin Cursor
  /\ NewCursor \in Cursor /\ NewCursor.offset = 0 /\ NewCursor.seq = 0 /\ NewCursor.mtime = NoTime
  /\ NoHead \notin Nat \X Nat
<1>1. NoHash \notin Hash
  BY DEF NoHash, Hash
<1>2. NoState \notin State
  BY DEF NoState, State
<1>3. NoCursor \notin Cursor
  BY DEF NoCursor, Cursor
<1>4. NewCursor \in Cursor /\ NewCursor.offset = 0 /\ NewCursor.seq = 0 /\ NewCursor.mtime = NoTime
  BY DEF Cursor, NewCursor, NoTime
<1>5. NoHead \notin Nat \X Nat
  BY DEF NoHead
<1> QED
  BY <1>1, <1>2, <1>3, <1>4, <1>5

-----------------------------------------------------------------------------
(* What the steps of a round do: r is the round p is in afterwards.        *)
Elsewhere == <<life, file, unwritten, installed, disk>>
Moves(p, r) == scan' = [scan EXCEPT ![p] = r]
SameRound(r, s) ==
  /\ r.writes = s.writes /\ r.state = s.state /\ r.prior = s.prior
  /\ r.reasons = s.reasons /\ r.parser = s.parser

LEMMA WhyIs ==
  ASSUME NEW prior \in Prior, NEW stale \in BOOLEAN
  PROVE  Why(prior, stale) \in SUBSET Reason
BY DEF Why, Reason

LEMMA BeginIs ==
  ASSUME TypeOK, NEW p \in Scanner, NEW writes \in BOOLEAN, Begin(p, writes, disk[p])
  PROVE  \E r \in AtStat :
           /\ Moves(p, r) /\ UNCHANGED <<Elsewhere, store, rewrites, faults>>
           /\ r.writes = writes /\ r.state = disk[p] /\ r.prior = AskedPrior(writes)
           /\ \/ r.cursor = NoCursor
              \/ disk[p] \in State /\ r.cursor = disk[p].cursor /\ ~WantsReparse(r.reasons)
           /\ r.hash = NoHash \/ (disk[p] \in State /\ r.hash = disk[p].hash)
<1> DEFINE prior == AskedPrior(writes)
           why == Why(prior, Owes(writes, disk[p], installed))
           cursor == IF disk[p] = NoState \/ WantsFullRead(why) \/ WantsReparse(why)
                     THEN NoCursor ELSE disk[p].cursor
           hash == IF disk[p] = NoState THEN NoHash ELSE disk[p].hash
           r == [step |-> "stat", writes |-> writes, state |-> disk[p], prior |-> prior,
                 reasons |-> why, cursor |-> cursor, hash |-> hash, parser |-> installed]
<1>1. /\ Moves(p, r) /\ UNCHANGED <<Elsewhere, store, rewrites, faults>>
  BY DEF Begin, Moves, Elsewhere
<1>2. disk[p] \in State \union {NoState} /\ installed \in Nat
  BY DEF TypeOK
<1>3. prior \in Prior
  BY DEF AskedPrior, Prior
<1>4. why \in SUBSET Reason
  <2>1. Owes(writes, disk[p], installed) \in BOOLEAN
    BY DEF Owes
  <2> QED
    BY <1>3, <2>1, WhyIs
<1>5. \/ cursor = NoCursor
      \/ disk[p] \in State /\ cursor = disk[p].cursor /\ ~WantsReparse(why)
  <2> HIDE DEF why
  <2>1. CASE disk[p] = NoState \/ WantsFullRead(why) \/ WantsReparse(why)
    BY <2>1
  <2>2. CASE ~(disk[p] = NoState \/ WantsFullRead(why) \/ WantsReparse(why))
    BY <1>2, <2>2
  <2> QED
    BY <2>1, <2>2
<1>6. hash = NoHash \/ (disk[p] \in State /\ hash = disk[p].hash)
  <2>1. CASE disk[p] = NoState
    BY <2>1
  <2>2. CASE disk[p] # NoState
    BY <1>2, <2>2
  <2> QED
    BY <2>1, <2>2
<1>7. disk[p] \in State => disk[p].cursor \in Cursor /\ disk[p].hash \in Hash \union {NoHash}
  BY DEF State
<1> HIDE DEF prior, why, cursor, hash
<1>8. r \in AtStat
  BY <1>2, <1>3, <1>4, <1>5, <1>6, <1>7 DEF AtStat
<1> QED
  BY <1>1, <1>5, <1>6, <1>8 DEF prior

LEMMA ResumeIs ==
  ASSUME NEW c \in Cursor \union {NoCursor}
  PROVE  /\ Resume(c) \in Cursor
         /\ c = NoCursor => Resume(c) = NewCursor
         /\ c # NoCursor => Resume(c) = c
BY NoneIs DEF Resume

Resumed(p) == Resume(scan[p].cursor)

LEMMA StatIs ==
  ASSUME TypeOK, NEW p \in Scanner, Stat(p)
  PROVE  /\ scan[p] \in AtStat /\ Resumed(p) \in Cursor
         /\ UNCHANGED <<Elsewhere, store, rewrites, faults>>
         /\ \E r \in AtCommit \union AtRead, from \in Cursor :
              /\ Moves(p, r) /\ SameRound(r, scan[p])
              /\ from = IF Shrank(Resumed(p)) THEN NewCursor ELSE Resumed(p)
              /\ r \in AtCommit =>
                   /\ r.obs.change = IF Shrank(Resumed(p)) THEN "rewritten" ELSE "appended"
                   /\ r.obs.events = {} /\ r.obs.hash = NoHash
                   /\ r.obs.cursor.offset = from.offset /\ r.obs.cursor.seq = from.seq
                   /\ r.obs.cursor.mtime = file.mtime
              /\ r \in AtRead =>
                   /\ r.change = IF Shrank(Resumed(p)) THEN "rewritten" ELSE "appended"
                   /\ r.hash = scan[p].hash /\ r.cursor = from
                   /\ r.oneShot = (scan[p].cursor = NoCursor)
                   /\ r.size = Len(file.bytes) /\ r.mtime = file.mtime
                   /\ from.offset < r.size
<1>1. scan[p] \in AtStat
  BY StepTells DEF Stat
<1>2. Resumed(p) \in Cursor
  BY <1>1, ResumeIs DEF AtStat, Resumed
<1>3. UNCHANGED <<Elsewhere, store, rewrites, faults>>
  BY DEF Stat, Elsewhere
<1> DEFINE from == IF Shrank(Resumed(p)) THEN NewCursor ELSE Resumed(p)
           change == IF Shrank(Resumed(p)) THEN "rewritten" ELSE "appended"
<1>4. from \in Cursor /\ change \in Change
  BY <1>2, NoneIs DEF Change
<1>5. file.bytes \in Seq(Byte) /\ file.mtime \in Int /\ Len(file.bytes) \in Nat
  BY DEF TypeOK
<1>6. CASE from.offset >= Len(file.bytes)
  <2> DEFINE obs == [change |-> change, quality |-> "clean", events |-> {},
                     cursor |-> [from EXCEPT !.mtime = file.mtime], hash |-> NoHash]
             r == [step |-> "commit", writes |-> scan[p].writes, state |-> scan[p].state,
                   prior |-> scan[p].prior, reasons |-> scan[p].reasons,
                   parser |-> scan[p].parser, obs |-> obs]
  <2>1. Moves(p, r)
    BY <1>6 DEF Stat, Observed, Moves, Resumed
  <2>2. /\ obs.cursor \in Cursor /\ obs.cursor.mtime = file.mtime
        /\ obs.cursor.offset = from.offset /\ obs.cursor.seq = from.seq
    BY <1>4, <1>5 DEF Cursor
  <2>3. obs \in Obs
    BY <1>4, <2>2 DEF Obs, Quality, Change
  <2> HIDE DEF obs
  <2>4. r \in AtCommit
    BY <1>1, <2>3 DEF AtStat, AtCommit
  <2>5. r \notin AtRead
    BY DEF AtRead
  <2>6. SameRound(r, scan[p])
    BY DEF SameRound
  <2> QED
    BY <1>1, <1>2, <1>3, <1>4, <2>1, <2>2, <2>4, <2>5, <2>6 DEF obs
<1>7. CASE ~(from.offset >= Len(file.bytes))
  <2> DEFINE oneShot == (scan[p].cursor = NoCursor)
             r == [step |-> "read", writes |-> scan[p].writes, state |-> scan[p].state,
                   prior |-> scan[p].prior, reasons |-> scan[p].reasons,
                   parser |-> scan[p].parser, hash |-> scan[p].hash, oneShot |-> oneShot,
                   cursor |-> from, change |-> change, size |-> Len(file.bytes),
                   mtime |-> file.mtime]
  <2>1. Moves(p, r)
    BY <1>7 DEF Stat, Moves, Resumed
  <2>2. oneShot \in BOOLEAN
    OBVIOUS
  <2>3. r \in AtRead
    <3> HIDE DEF oneShot, from, change
    <3> QED
      BY <1>1, <1>4, <1>5, <2>2 DEF AtStat, AtRead
  <2>4. r \notin AtCommit
    BY DEF AtCommit
  <2>5. SameRound(r, scan[p])
    BY DEF SameRound
  <2>6. from.offset \in Nat
    BY <1>4 DEF Cursor
  <2>7. from.offset < Len(file.bytes)
    BY <1>5, <1>7, <2>6
  <2> QED
    BY <1>1, <1>2, <1>3, <1>4, <2>1, <2>3, <2>4, <2>5, <2>7
<1> QED
  BY <1>6, <1>7

Got(p) == Piece(file.bytes, scan[p].cursor.offset, scan[p].size)

LEMMA PendingIs ==
  ASSUME NEW b \in Seq(Byte)
  PROVE  /\ Pending(b) \in Int
         /\ (b = <<>> \/ b[Len(b)] \notin Lead) => Pending(b) = Len(b) - Latest(Newlines(b))
<1>1. Newlines(b) \in SUBSET (1..Len(b)) /\ Len(b) \in Nat
  BY EndsAreFinite
<1>2. Latest(Newlines(b)) \in 0..Len(b)
  BY <1>1, LatestIsGreatest
<1>3. PICK l \in Nat : l = Latest(Newlines(b))
  BY <1>2
<1> QED
  BY <1>1, <1>3 DEF Pending

LEMMA ReadIs ==
  ASSUME TypeOK, NEW p \in Scanner, Read(p)
  PROVE  /\ scan[p] \in AtRead /\ scan[p].size <= Len(file.bytes)
         /\ Got(p) \in Seq(Byte)
         /\ UNCHANGED <<Elsewhere, store, rewrites, faults>>
         /\ \E r \in AtCommit :
              /\ Moves(p, r) /\ SameRound(r, scan[p])
              /\ r.obs.change = IF scan[p].cursor.offset = 0 /\ PrefixDiffers(scan[p].hash, Got(p))
                                THEN "rewritten" ELSE scan[p].change
              /\ r.obs.hash = IF scan[p].cursor.offset = 0 THEN [bytes |-> Got(p)] ELSE NoHash
              /\ r.obs.cursor.mtime = scan[p].mtime
              /\ \/ /\ ~scan[p].oneShot
                    /\ r.obs.events = {} /\ r.obs.quality = "poison"
                    /\ r.obs.cursor.offset = scan[p].cursor.offset
                    /\ r.obs.cursor.seq = scan[p].cursor.seq
                 \/ /\ r.obs.events = Parse(Got(p), scan[p].cursor.seq)
                    /\ r.obs.cursor.offset = (scan[p].size - Pending(Got(p))) % Word
                    /\ r.obs.cursor.seq = scan[p].cursor.seq + Cardinality(r.obs.events)
<1> DEFINE s == scan[p]
           c == s.cursor
           b == Got(p)
           full == c.offset = 0
           change == IF full /\ PrefixDiffers(s.hash, b) THEN "rewritten" ELSE s.change
           bad == BadEnds(b) # {}
           events == Parse(b, c.seq)
           ahead == [offset |-> (s.size - Pending(b)) % Word, mtime |-> s.mtime,
                     seq |-> c.seq + Cardinality(events)]
           held == [c EXCEPT !.mtime = s.mtime]
           hash == IF full THEN [bytes |-> b] ELSE NoHash
           Seen(quality, got, cursor) ==
             [step |-> "commit", writes |-> s.writes, state |-> s.state, prior |-> s.prior,
              reasons |-> s.reasons, parser |-> s.parser,
              obs |-> [change |-> change, quality |-> quality, events |-> got,
                       cursor |-> cursor, hash |-> hash]]
<1>1. s \in AtRead /\ s.size <= Len(file.bytes) /\ UNCHANGED <<Elsewhere, store, rewrites, faults>>
  BY StepTells DEF Read, Elsewhere, TypeOK, AtRead
<1>2. /\ c \in Cursor /\ s.change \in Change /\ s.size \in Nat /\ s.mtime \in Int
      /\ c.offset \in Nat /\ c.seq \in Nat
  BY <1>1 DEF AtRead, Cursor
<1>3. file.bytes \in Seq(Byte) /\ Len(file.bytes) \in Nat
  BY DEF TypeOK
<1>4. b \in Seq(Byte)
  <2>1. \A i \in (c.offset + 1)..s.size : file.bytes[i] \in Byte
    BY <1>1, <1>2, <1>3
  <2>2. c.offset + 1 \in Int /\ s.size \in Int
    BY <1>2
  <2> HIDE DEF c, s
  <2>3. SubSeq(file.bytes, c.offset + 1, s.size) \in Seq(Byte)
    BY <2>1, <2>2, SubSeqProperties
  <2> QED
    BY <2>3 DEF Got, Piece, c, s
<1>5. change \in Change /\ hash \in Hash \union {NoHash}
  <2>1. change \in Change
    BY <1>2 DEF Change
  <2>2. hash \in Hash \union {NoHash}
    BY <1>4 DEF Hash
  <2> QED
    BY <2>1, <2>2
<1>6. events \in SUBSET Event /\ Cardinality(events) \in Nat
  BY <1>2, <1>4, EventsTyped
<1>7. ahead \in Cursor
  <2>1. (s.size - Pending(b)) % Word \in Nat
    <3>1. s.size - Pending(b) \in Int /\ Word \in Nat /\ Word > 0
      BY <1>2, <1>4, PendingIs, ScanAssumption
    <3> HIDE DEF s, b
    <3> QED
      BY <3>1
  <2>2. c.seq + Cardinality(events) \in Nat
    BY <1>2, <1>6
  <2> QED
    BY <1>2, <2>1, <2>2 DEF Cursor
<1>8. held \in Cursor /\ held.offset = c.offset /\ held.seq = c.seq /\ held.mtime = s.mtime
  BY <1>2 DEF Cursor
<1>9. ASSUME NEW quality \in Quality, NEW got \in SUBSET Event, NEW cursor \in Cursor
      PROVE  /\ Seen(quality, got, cursor) \in AtCommit
             /\ SameRound(Seen(quality, got, cursor), s)
             /\ Seen(quality, got, cursor).obs.change = change
             /\ Seen(quality, got, cursor).obs.hash = hash
             /\ Seen(quality, got, cursor).obs.events = got
             /\ Seen(quality, got, cursor).obs.quality = quality
             /\ Seen(quality, got, cursor).obs.cursor = cursor
  <2> HIDE DEF change, hash, b, c
  <2>1. [change |-> change, quality |-> quality, events |-> got, cursor |-> cursor, hash |-> hash]
          \in Obs
    BY <1>5, <1>9 DEF Obs
  <2>2. Seen(quality, got, cursor) \in AtCommit
    BY <1>1, <2>1 DEF AtCommit, AtRead
  <2> QED
    BY <2>2 DEF SameRound
<1>10. CASE bad /\ ~s.oneShot
  <2>1. Moves(p, Seen("poison", {}, held))
    BY <1>10 DEF Read, Observed, Moves, Got, Piece
  <2>2. {} \in SUBSET Event /\ "poison" \in Quality
    BY DEF Quality
  <2> HIDE DEF Seen, held, c, b, change, hash
  <2>3. PICK r \in AtCommit : r = Seen("poison", {}, held)
    BY <1>8, <1>9, <2>2
  <2> QED
    BY <1>1, <1>4, <1>8, <1>9, <1>10, <2>1, <2>2, <2>3 DEF c, b, change, hash
<1>11. CASE ~(bad /\ ~s.oneShot)
  <2>1. PICK quality \in {"degraded", "clean"} : Moves(p, Seen(quality, events, ahead))
    BY <1>11 DEF Read, Observed, Moves, Got, Piece
  <2>2. quality \in Quality
    BY DEF Quality
  <2>3. /\ ahead.mtime = s.mtime /\ ahead.offset = (s.size - Pending(b)) % Word
        /\ ahead.seq = c.seq + Cardinality(events)
    OBVIOUS
  <2> HIDE DEF Seen, ahead, c, b, change, hash, events
  <2>4. PICK r \in AtCommit : r = Seen(quality, events, ahead)
    BY <1>6, <1>7, <1>9, <2>2
  <2> QED
    BY <1>1, <1>4, <1>6, <1>7, <1>9, <2>1, <2>2, <2>3, <2>4 DEF c, b, change, hash, events
<1> QED
  BY <1>10, <1>11

LEMMA UnavailableIs ==
  ASSUME TypeOK, NEW p \in Scanner, Unavailable(p)
  PROVE  /\ scan[p] \in AtStat \union AtRead
         /\ UNCHANGED <<Elsewhere, store, rewrites>>
         /\ \E r \in AtCommit :
              /\ Moves(p, r) /\ SameRound(r, scan[p])
              /\ r.obs.quality \in {"stat_failed", "read_failed"}
              /\ r.obs.events = {} /\ r.obs.hash = NoHash
              /\ scan[p] \in AtStat =>
                   r.obs.change = "appended" /\ r.obs.cursor = Resume(scan[p].cursor)
              /\ scan[p] \in AtRead =>
                   r.obs.change = scan[p].change /\ r.obs.cursor = scan[p].cursor
<1>1. UNCHANGED <<Elsewhere, store, rewrites>> /\ scan[p].step \in {"stat", "read"}
  BY DEF Unavailable, Elsewhere
<1> DEFINE Seen(quality, change, cursor) ==
             [step |-> "commit", writes |-> scan[p].writes, state |-> scan[p].state,
              prior |-> scan[p].prior, reasons |-> scan[p].reasons, parser |-> scan[p].parser,
              obs |-> [change |-> change, quality |-> quality, events |-> {},
                       cursor |-> cursor, hash |-> NoHash]]
<1>2. ASSUME scan[p] \in AtStat \union AtRead, NEW quality \in {"stat_failed", "read_failed"},
             NEW change \in Change, NEW cursor \in Cursor
      PROVE  /\ Seen(quality, change, cursor) \in AtCommit
             /\ SameRound(Seen(quality, change, cursor), scan[p])
             /\ Seen(quality, change, cursor).obs.quality = quality
             /\ Seen(quality, change, cursor).obs.events = {}
             /\ Seen(quality, change, cursor).obs.hash = NoHash
             /\ Seen(quality, change, cursor).obs.change = change
             /\ Seen(quality, change, cursor).obs.cursor = cursor
  <2>1. [change |-> change, quality |-> quality, events |-> {}, cursor |-> cursor, hash |-> NoHash]
          \in Obs
    BY <1>2 DEF Obs, Quality
  <2>2. Seen(quality, change, cursor) \in AtCommit
    BY <1>2, <2>1 DEF AtCommit, AtRead, AtStat
  <2> QED
    BY <2>2 DEF SameRound
<1>3. CASE scan[p].step = "stat"
  <2>1. scan[p] \in AtStat /\ scan[p] \notin AtRead
    BY <1>3, StepTells DEF AtRead
  <2>2. Resume(scan[p].cursor) \in Cursor /\ "appended" \in Change
    BY <2>1, ResumeIs DEF AtStat, Change
  <2>3. Moves(p, Seen("stat_failed", "appended", Resume(scan[p].cursor)))
    BY <1>3 DEF Unavailable, Observed, Moves
  <2> HIDE DEF Seen
  <2> QED
    BY <1>1, <1>2, <2>1, <2>2, <2>3
<1>4. CASE scan[p].step = "read"
  <2>1. scan[p] \in AtRead /\ scan[p] \notin AtStat
    BY <1>4, StepTells DEF AtStat
  <2>2. scan[p].cursor \in Cursor /\ scan[p].change \in Change
    BY <2>1 DEF AtRead
  <2>3. Moves(p, Seen("read_failed", scan[p].change, scan[p].cursor))
    BY <1>4 DEF Unavailable, Observed, Moves
  <2> HIDE DEF Seen
  <2> QED
    BY <1>1, <1>2, <2>1, <2>2, <2>3
<1> QED
  BY <1>1, <1>3, <1>4

(* What is remembered of a round that moves the cursor on.                 *)
LEMMA NextStateIs ==
  ASSUME NEW s \in AtCommit
  PROVE  /\ NextState(s) \in State
         /\ NextState(s).cursor = s.obs.cursor
         /\ \/ NextState(s).hash = s.obs.hash
            \/ s.state \in State /\ NextState(s).hash = s.state.hash
            \/ NextState(s).hash = NoHash
<1>1. /\ s.obs \in Obs /\ s.state \in State \union {NoState} /\ s.parser \in Nat
      /\ s.writes \in BOOLEAN
  BY DEF AtCommit
<1>2. s.obs.cursor \in Cursor /\ s.obs.hash \in Hash \union {NoHash}
  BY <1>1 DEF Obs
<1>3. s.state \in State => s.state.hash \in Hash \union {NoHash}
  BY DEF State
<1> DEFINE hash == IF s.obs.hash # NoHash THEN s.obs.hash
                   ELSE IF s.state # NoState THEN s.state.hash ELSE NoHash
           parser == IF s.writes THEN s.parser ELSE Unrecorded
<1>4. /\ hash \in Hash \union {NoHash}
      /\ \/ hash = s.obs.hash
         \/ s.state \in State /\ hash = s.state.hash
         \/ hash = NoHash
  BY <1>1, <1>2, <1>3
<1>5. parser \in Nat
  BY <1>1 DEF Unrecorded
<1>6. NextState(s) = [cursor |-> s.obs.cursor, parser |-> parser, hash |-> hash]
  BY DEF NextState
<1> HIDE DEF hash, parser
<1> QED
  BY <1>2, <1>4, <1>5, <1>6 DEF State

Mode(p) == Projection(scan[p].obs.change, scan[p].reasons, scan[p].prior)

LEMMA CommitIs ==
  ASSUME TypeOK, NEW p \in Scanner, Commit(p)
  PROVE  /\ scan[p] \in AtCommit
         /\ UNCHANGED <<Elsewhere, rewrites, faults>>
         /\ \E r \in AtSave :
              /\ Moves(p, r)
              /\ \/ UNCHANGED store /\ ~scan[p].writes /\ r.state = NextState(scan[p])
                 \/ UNCHANGED store /\ r.state = scan[p].state
                 \/ /\ r.state = NextState(scan[p])
                    /\ ~Refused(Mode(p), scan[p].obs)
                    /\ Project(Mode(p), Token(scan[p]), scan[p].obs.events, scan[p].parser)
<1> DEFINE s == scan[p]
           mode == Plan(s.obs, s.reasons, s.prior).store
           Saving(state) == [step |-> "save", state |-> state]
<1>1. s \in AtCommit /\ UNCHANGED <<Elsewhere, rewrites, faults>>
  BY StepTells DEF Commit, Elsewhere
<1>2. s.state \in State \union {NoState} /\ NextState(s) \in State
  BY <1>1, NextStateIs DEF AtCommit
<1>3. \A state \in State \union {NoState} : Saving(state) \in AtSave /\ Saving(state).state = state
  BY DEF AtSave
<1>4. Saving(s.state) \in AtSave /\ Saving(NextState(s)) \in AtSave
      /\ Saving(s.state).state = s.state /\ Saving(NextState(s)).state = NextState(s)
  <2> HIDE DEF Saving, s
  <2> QED
    BY <1>2, <1>3
<1>5. (Finish(p, TRUE) => Moves(p, Saving(NextState(s)))) /\ (Finish(p, FALSE) => Moves(p, Saving(s.state)))
  BY DEF Finish, Moves
<1>6. mode = "preserve" \/ mode = Mode(p)
  BY DEF Plan, Held, Mode
<1>7. \/ ~s.writes /\ UNCHANGED store /\ Finish(p, TRUE)
      \/ UNCHANGED store /\ Finish(p, FALSE)
      \/ /\ mode # "preserve" /\ ~Refused(mode, s.obs)
         /\ Project(mode, Token(s), s.obs.events, s.parser) /\ Finish(p, TRUE)
  <2> HIDE DEF mode
  <2>1. /\ mode = Plan(scan[p].obs, scan[p].reasons, scan[p].prior).store
    BY DEF mode
  <2> QED
    BY <2>1 DEF Commit
<1> HIDE DEF mode, Saving, s
<1> QED
  BY <1>1, <1>4, <1>5, <1>6, <1>7 DEF s

(* The other steps of a round.                                             *)
LEMMA OtherStepsAre ==
  ASSUME TypeOK, NEW p \in Scanner
  PROVE  /\ CommitFails(p) =>
              /\ scan[p] \in AtCommit /\ UNCHANGED <<Elsewhere, store, rewrites>>
              /\ \E r \in AtSave : Moves(p, r) /\ r.state = scan[p].state
         /\ Save(p) =>
              /\ scan[p] \in AtSave /\ UNCHANGED <<life, file, unwritten, installed, store, rewrites>>
              /\ Moves(p, Off) /\ disk' = [disk EXCEPT ![p] = scan[p].state]
         /\ Crash(p) => Moves(p, Off) /\ UNCHANGED <<Elsewhere, store, rewrites>>
         /\ Forgetful(p) =>
              /\ UNCHANGED <<life, file, unwritten, installed, scan, store, rewrites>>
              /\ disk' = [disk EXCEPT ![p] = NoState]
<1>1. ASSUME CommitFails(p)
      PROVE  /\ scan[p] \in AtCommit /\ UNCHANGED <<Elsewhere, store, rewrites>>
             /\ \E r \in AtSave : Moves(p, r) /\ r.state = scan[p].state
  <2>1. scan[p] \in AtCommit /\ UNCHANGED <<Elsewhere, store, rewrites>>
    BY <1>1, StepTells DEF CommitFails, Elsewhere
  <2> DEFINE r == [step |-> "save", state |-> scan[p].state]
  <2>2. Moves(p, r)
    BY <1>1 DEF CommitFails, Finish, Moves
  <2>3. r \in AtSave /\ r.state = scan[p].state
    BY <2>1 DEF AtCommit, AtSave
  <2> QED
    BY <2>1, <2>2, <2>3
<1>2. ASSUME Save(p)
      PROVE  /\ scan[p] \in AtSave /\ UNCHANGED <<life, file, unwritten, installed, store, rewrites>>
             /\ Moves(p, Off) /\ disk' = [disk EXCEPT ![p] = scan[p].state]
  BY <1>2, StepTells DEF Save, Moves
<1>3. ASSUME Crash(p) PROVE Moves(p, Off) /\ UNCHANGED <<Elsewhere, store, rewrites>>
  BY <1>3 DEF Crash, Moves, Elsewhere
<1>4. ASSUME Forgetful(p)
      PROVE  /\ UNCHANGED <<life, file, unwritten, installed, scan, store, rewrites>>
             /\ disk' = [disk EXCEPT ![p] = NoState]
  BY <1>4 DEF Forgetful
<1> QED
  BY <1>1, <1>2, <1>3, <1>4

(* What a transaction does to the store: it shows the events it added, and *)
(* those that were shown when it appends.                                  *)
Tuples == [rev : Nat \X Nat, seq : Nat, text : Seq(Byte), parser : Nat]
Tokens == [hash : Hash, parser : Nat, upTo : Nat]
Plain(r) == [seq |-> r.seq, text |-> r.text]
Added(v, events) == {e \in events : \A r \in At(v) : r.seq # e.seq}

LEMMA ProjectIs ==
  ASSUME TypeOK, NEW mode \in {"append", "rollback", "reparse"}, NEW events \in SUBSET Event,
         NEW parser \in Nat, NEW token, mode # "append" => token \in Tokens,
         Project(mode, token, events, parser)
  PROVE  \/ mode # "append" /\ token \in tokens /\ UNCHANGED store
         \/ /\ mode = "append" \/ token \notin tokens
            /\ head' = Target(mode) /\ head' \in Nat \X Nat
            /\ tokens' = IF mode = "append" THEN tokens ELSE tokens \union {token}
            /\ tokens' \subseteq Tokens
            /\ rows' \subseteq Tuples
            /\ \A r \in rows' : \/ r \in rows
                                \/ r.rev = Target(mode) /\ Plain(r) \in Added(Target(mode), events)
            /\ \A e \in Added(Target(mode), events) :
                 \E r \in rows' : r.rev = Target(mode) /\ Plain(r) = e
            /\ mode = "append" => rows \subseteq rows'
<1> DEFINE v == Target(mode)
           added == Added(v, events)
           Row(e) == [rev |-> v, seq |-> e.seq, text |-> e.text, parser |-> parser]
           new == {Row(e) : e \in added}
           kept == IF Superseded(mode, added) THEN rows \ Current ELSE rows
<1>1. Head0 \in Nat \X Nat
  BY DEF TypeOK, Head0
<1>2. v \in Nat \X Nat
  BY <1>1 DEF Target
<1>3. \A e \in added : Row(e) \in Tuples /\ Row(e).rev = v /\ Plain(Row(e)) = e
  <2> SUFFICES ASSUME NEW e \in added PROVE Row(e) \in Tuples /\ Row(e).rev = v /\ Plain(Row(e)) = e
    OBVIOUS
  <2>1. e \in Event
    BY DEF Added
  <2>2. e.seq \in Nat /\ e.text \in Seq(Byte) /\ e = [seq |-> e.seq, text |-> e.text]
    BY <2>1 DEF Event
  <2> HIDE DEF v, added
  <2> QED
    BY <1>2, <2>2 DEF Tuples, Plain
<1>4. CASE mode # "append" /\ token \in tokens
  BY <1>4 DEF Project
<1>5. CASE ~(mode # "append" /\ token \in tokens)
  <2>1. /\ rows' = kept \union new /\ head' = v
        /\ tokens' = IF mode = "append" THEN tokens ELSE tokens \union {token}
    BY <1>5 DEF Project, Added
  <2>2. kept \subseteq rows /\ (mode = "append" => kept = rows)
    BY DEF Superseded
  <2>3. rows \subseteq Tuples /\ tokens \subseteq Tokens
    BY DEF TypeOK, Tuples, Tokens
  <2> HIDE DEF v, added, Row, kept
  <2>4. /\ \A r \in new : r \in Tuples /\ r.rev = v /\ Plain(r) \in added
        /\ \A e \in added : \E r \in new : r.rev = v /\ Plain(r) = e
    BY <1>3
  <2> HIDE DEF new
  <2>5. tokens' \subseteq Tokens
    BY <2>1, <2>3
  <2>6. rows' \subseteq Tuples /\ (\A r \in rows' : r \in rows \/ (r.rev = v /\ Plain(r) \in added))
    BY <2>1, <2>2, <2>3, <2>4
  <2>7. \A e \in added : \E r \in rows' : r.rev = v /\ Plain(r) = e
    BY <2>1, <2>4
  <2>8. mode = "append" => rows \subseteq rows'
    BY <2>1, <2>2
  <2> QED
    BY <1>2, <1>5, <2>1, <2>5, <2>6, <2>7, <2>8 DEF v, added
<1> QED
  BY <1>4, <1>5

LEMMA CommitProjects ==
  ASSUME TypeOK, NEW p \in Scanner, scan[p] \in AtCommit, ~Refused(Mode(p), scan[p].obs)
  PROVE  /\ Mode(p) \in {"append", "rollback", "reparse"}
         /\ scan[p].obs.events \in SUBSET Event /\ scan[p].parser \in Nat
         /\ Mode(p) # "append" => Token(scan[p]) \in Tokens
<1>1. scan[p].obs \in Obs /\ scan[p].parser \in Nat
  BY DEF AtCommit
<1>2. /\ scan[p].obs.events \in SUBSET Event /\ scan[p].obs.cursor.offset \in Nat
      /\ scan[p].obs.hash \in Hash \union {NoHash}
  BY <1>1 DEF Obs, Cursor
<1>3. Mode(p) \in {"append", "rollback", "reparse"}
  BY DEF Mode, Projection
<1>4. Mode(p) # "append" => scan[p].obs.hash \in Hash
  BY <1>2 DEF Refused
<1> QED
  BY <1>1, <1>2, <1>3, <1>4 DEF Token, Tokens

LEMMA TypeInit == Init => TypeOK
<1> SUFFICES ASSUME Init PROVE TypeOK
  OBVIOUS
<1>1. life \in Life /\ life.start \in Seq(Byte) /\ life.rewrites \in Nat
  BY ScanAssumption DEF Init
<1>2. file \in [bytes : Seq(Byte), mtime : Int] /\ unwritten \in Seq(Byte) /\ installed \in Nat
  BY <1>1 DEF Init
<1>3. disk \in [Scanner -> State \union {NoState}] /\ scan \in [Scanner -> Rounds]
  BY DEF Init, Rounds
<1>4. /\ rows \subseteq Tuples /\ head \in (Nat \X Nat) \union {NoHead}
      /\ tokens \subseteq Tokens /\ faults \in Nat /\ rewrites \in Nat
  BY DEF Init
<1> QED
  BY <1>1, <1>2, <1>3, <1>4 DEF TypeOK, Tuples, Tokens

LEMMA WriteIs ==
  ASSUME TypeOK, Write
  PROVE  /\ file'.bytes \in Seq(Byte) /\ unwritten' \in Seq(Byte)
         /\ file' \in [bytes : Seq(Byte), mtime : Int] /\ file'.mtime = file.mtime
         /\ UNCHANGED <<life, installed, disk, scan, store, faults, rewrites>>
         /\ \E line \in Seq(Byte), k \in Nat :
              /\ 1 <= k /\ k <= Len(line)
              /\ line = unwritten \/ (unwritten = <<>> /\ \E t \in Text : line = Append(t, NL))
              /\ Len(file.bytes) + Len(line) <= life.bytes
              /\ file'.bytes = file.bytes \o SubSeq(line, 1, k)
              /\ unwritten' = SubSeq(line, k + 1, Len(line))
<1>0. PICK line \in IF unwritten = <<>> THEN {Append(t, NL) : t \in Text} ELSE {unwritten} :
        \E k \in 1..Len(line) :
          /\ Len(file.bytes) + Len(line) <= life.bytes
          /\ file' = [file EXCEPT !.bytes = @ \o SubSeq(line, 1, k)]
          /\ unwritten' = SubSeq(line, k + 1, Len(line))
          /\ UNCHANGED <<life, installed, disk, scan, store, faults, rewrites>>
  BY DEF Write
<1>1. PICK k \in 1..Len(line) :
        /\ Len(file.bytes) + Len(line) <= life.bytes
        /\ file' = [file EXCEPT !.bytes = @ \o SubSeq(line, 1, k)]
        /\ unwritten' = SubSeq(line, k + 1, Len(line))
        /\ UNCHANGED <<life, installed, disk, scan, store, faults, rewrites>>
  BY <1>0
<1>2. file \in [bytes : Seq(Byte), mtime : Int] /\ unwritten \in Seq(Byte)
  BY DEF TypeOK
<1>3. line = unwritten \/ (unwritten = <<>> /\ \E t \in Text : line = Append(t, NL))
  BY <1>0
<1>4. line \in Seq(Byte)
  <2>1. \A t \in Text : t \in Seq(Byte) /\ NL \in Byte
    BY ScanAssumption
  <2>2. \A t \in Text : Append(t, NL) \in Seq(Byte)
    BY <2>1, AppendProperties
  <2> QED
    BY <1>2, <1>3, <2>2
<1>5. k \in Nat /\ 1 <= k /\ k <= Len(line) /\ Len(line) \in Nat
  BY <1>1, <1>4
<1>6. SubSeq(line, 1, k) \in Seq(Byte) /\ SubSeq(line, k + 1, Len(line)) \in Seq(Byte)
  <2>1. /\ \A i \in 1..k : line[i] \in Byte
        /\ \A i \in (k + 1)..Len(line) : line[i] \in Byte
        /\ 1 \in Int /\ k \in Int /\ k + 1 \in Int /\ Len(line) \in Int
    BY <1>4, <1>5
  <2> QED
    BY <2>1, SubSeqProperties
<1>7. /\ file'.bytes = file.bytes \o SubSeq(line, 1, k) /\ file'.mtime = file.mtime
      /\ file.bytes \o SubSeq(line, 1, k) \in Seq(Byte)
      /\ file' \in [bytes : Seq(Byte), mtime : Int]
  BY <1>1, <1>2, <1>6, ConcatProperties
<1> QED
  BY <1>1, <1>3, <1>4, <1>5, <1>6, <1>7

LEMMA TypeNext == TypeOK /\ [Next]_vars => TypeOK'
<1> SUFFICES ASSUME TypeOK, [Next]_vars PROVE TypeOK'
  OBVIOUS
<1> DEFINE Rest == UNCHANGED <<life, file, unwritten, installed, store, rewrites>> /\ faults' \in Nat
<1>1. faults \in Nat
  BY DEF TypeOK
<1>2. ASSUME NEW p \in Scanner, NEW r \in Rounds, Moves(p, r), UNCHANGED disk, Rest PROVE TypeOK'
  <2>1. scan' \in [Scanner -> Rounds]
    BY <1>2, ScanMoves DEF Moves
  <2> QED
    BY <1>2, <2>1 DEF TypeOK, store
<1>3. CASE UNCHANGED vars
  BY <1>3 DEF TypeOK, vars
<1>4. CASE Write
  BY <1>4, WriteIs DEF TypeOK, store
<1>5. CASE Rewrite
  <2>1. PICK b \in life.rewritten :
          /\ file' = [bytes |-> b, mtime |-> file.mtime - 1]
          /\ unwritten' = <<>> /\ rewrites' = rewrites + 1
          /\ UNCHANGED <<life, installed, disk, scan, store, faults>>
    BY <1>5 DEF Rewrite
  <2>2. b \in Seq(Byte)
    BY <2>1, ScanAssumption DEF TypeOK
  <2>3. file' \in [bytes : Seq(Byte), mtime : Int] /\ rewrites' \in Nat /\ unwritten' \in Seq(Byte)
    BY <2>1, <2>2 DEF TypeOK
  <2> QED
    BY <2>1, <2>3 DEF TypeOK, store
<1>6. CASE Upgrade
  BY <1>6 DEF TypeOK, Upgrade, store
<1>7. ASSUME NEW p \in Scanner, NEW writes \in BOOLEAN, Begin(p, writes, disk[p]) PROVE TypeOK'
  <2>1. PICK r \in AtStat : Moves(p, r) /\ UNCHANGED <<Elsewhere, store, rewrites, faults>>
    BY <1>7, BeginIs
  <2>2. r \in Rounds
    BY DEF Rounds
  <2> QED
    BY <1>1, <1>2, <2>1, <2>2 DEF Elsewhere
<1>8. ASSUME NEW p \in Scanner, Stat(p) PROVE TypeOK'
  <2>1. PICK r \in AtCommit \union AtRead : Moves(p, r)
    BY <1>8, StatIs
  <2>2. UNCHANGED <<Elsewhere, store, rewrites, faults>>
    BY <1>8, StatIs
  <2>3. r \in Rounds
    BY DEF Rounds
  <2> QED
    BY <1>1, <1>2, <2>1, <2>2, <2>3 DEF Elsewhere
<1>9. ASSUME NEW p \in Scanner, Read(p) PROVE TypeOK'
  <2>1. PICK r \in AtCommit : Moves(p, r)
    BY <1>9, ReadIs
  <2>2. UNCHANGED <<Elsewhere, store, rewrites, faults>>
    BY <1>9, ReadIs
  <2>3. r \in Rounds
    BY DEF Rounds
  <2> QED
    BY <1>1, <1>2, <2>1, <2>2, <2>3 DEF Elsewhere
<1>10. ASSUME NEW p \in Scanner, Unavailable(p), faults' \in Nat PROVE TypeOK'
  <2>1. PICK r \in AtCommit : Moves(p, r)
    BY <1>10, UnavailableIs
  <2>2. UNCHANGED <<Elsewhere, store, rewrites>>
    BY <1>10, UnavailableIs
  <2>3. r \in Rounds
    BY DEF Rounds
  <2> QED
    BY <1>2, <1>10, <2>1, <2>2, <2>3 DEF Elsewhere
<1>11. ASSUME NEW p \in Scanner, Commit(p) PROVE TypeOK'
  <2>1. scan[p] \in AtCommit /\ UNCHANGED <<Elsewhere, rewrites, faults>>
    BY <1>11, CommitIs
  <2>2. PICK r \in AtSave :
          /\ Moves(p, r)
          /\ \/ UNCHANGED store
             \/ /\ ~Refused(Mode(p), scan[p].obs)
                /\ Project(Mode(p), Token(scan[p]), scan[p].obs.events, scan[p].parser)
    BY <1>11, CommitIs
  <2>3. r \in Rounds
    BY DEF Rounds
  <2>4. CASE UNCHANGED store
    BY <1>1, <1>2, <2>1, <2>2, <2>3, <2>4 DEF Elsewhere
  <2>5. CASE ~UNCHANGED store
    <3>1. /\ ~Refused(Mode(p), scan[p].obs)
          /\ Project(Mode(p), Token(scan[p]), scan[p].obs.events, scan[p].parser)
      BY <2>2, <2>5
    <3>2. rows' \subseteq Tuples /\ head' \in Nat \X Nat /\ tokens' \subseteq Tokens
      BY <2>1, <2>5, <3>1, CommitProjects, ProjectIs
    <3>3. scan' \in [Scanner -> Rounds]
      BY <2>2, <2>3, ScanMoves DEF Moves
    <3> QED
      BY <2>1, <3>2, <3>3 DEF TypeOK, Elsewhere, Tuples, Tokens
  <2> QED
    BY <2>4, <2>5
<1>12. ASSUME NEW p \in Scanner, Save(p) PROVE TypeOK'
  <2>1. /\ scan[p] \in AtSave /\ UNCHANGED <<life, file, unwritten, installed, store, rewrites>>
        /\ Moves(p, Off) /\ disk' = [disk EXCEPT ![p] = scan[p].state]
    BY <1>12, OtherStepsAre
  <2>2. scan' \in [Scanner -> Rounds]
    BY <2>1, ScanMoves DEF Moves, Rounds
  <2>3. disk' \in [Scanner -> State \union {NoState}]
    BY <2>1 DEF TypeOK, AtSave
  <2> QED
    BY <1>12, <2>1, <2>2, <2>3 DEF TypeOK, store, Save
<1>13. ASSUME NEW p \in Scanner, Fault(p) PROVE TypeOK'
  <2>1. faults' \in Nat
    <3>1. \E kind \in {"unreadable", "commit", "crash", "forgetful"} : Strikes(kind)
      BY <1>13 DEF Fault, Unreadable, CommitFails, Crash, Forgetful
    <3> QED
      BY <1>1, <3>1 DEF Strikes
  <2>2. CASE Unreadable(p)
    BY <1>10, <2>1, <2>2 DEF Unreadable
  <2>3. CASE CommitFails(p)
    <3>1. PICK r \in AtSave : Moves(p, r)
      BY <2>3, OtherStepsAre
    <3>2. UNCHANGED <<Elsewhere, store, rewrites>>
      BY <2>3, OtherStepsAre
    <3>3. r \in Rounds
      BY DEF Rounds
    <3> QED
      BY <1>2, <2>1, <3>1, <3>2, <3>3 DEF Elsewhere
  <2>4. CASE Crash(p)
    <3>1. Moves(p, Off) /\ UNCHANGED <<Elsewhere, store, rewrites>> /\ Off \in Rounds
      BY <2>4, OtherStepsAre DEF Rounds
    <3> QED
      BY <1>2, <2>1, <3>1 DEF Elsewhere
  <2>5. CASE Forgetful(p)
    <3>1. /\ UNCHANGED <<life, file, unwritten, installed, scan, store, rewrites>>
          /\ disk' = [disk EXCEPT ![p] = NoState]
      BY <2>5, OtherStepsAre
    <3> QED
      BY <2>1, <3>1 DEF TypeOK, store
  <2> QED
    BY <1>13, <2>2, <2>3, <2>4, <2>5 DEF Fault
<1>14. ASSUME NEW p \in Scanner, ShortRead(p) PROVE TypeOK'
  BY <1>1, <1>10, <1>14 DEF ShortRead
<1> HIDE DEF Rest
<1>15. ASSUME NEW p \in Scanner, Round(p) \/ Stream(p) PROVE TypeOK'
  BY <1>7, <1>8, <1>9, <1>11, <1>12, <1>14, <1>15 DEF Round, Stream
<1> QED
  BY <1>3, <1>4, <1>5, <1>6, <1>13, <1>15 DEF Next

LEMMA AlwaysTyped == Spec => []TypeOK
BY TypeInit, TypeNext, PTL DEF Spec

(* What scanners know and what they store keeps its types, whatever        *)
(* happens to the file: no offset is negative, no full read is stored      *)
(* without its fingerprint (stat, read and commit of a round).             *)
THEOREM ScanTypeCorrect == Spec => []TypeOK
BY AlwaysTyped

-----------------------------------------------------------------------------
(* Growing.  No half line can end within a character: those that open one  *)
(* occur in no line that is written, nor at the end of a file as found.    *)
NoCutCharacter ==
  /\ NL \notin Lead
  /\ \A t \in Text : \A i \in 1..Len(t) : t[i] \notin Lead
  /\ \A l \in Life : l.start # <<>> => l.start[Len(l.start)] \notin Lead

FileGrows ==
  /\ file.mtime = life.rewrites
  /\ Len(life.start) <= Len(file.bytes) /\ Len(file.bytes) < Word
  /\ \A i \in 1..Len(file.bytes) : i >= Len(life.start) => file.bytes[i] \notin Lead
  /\ \A i \in 1..Len(unwritten) : unwritten[i] \notin Lead

(* A cursor stands at the end of a line and has counted the good lines     *)
(* before it; a fingerprint is of a prefix of the file.                    *)
CursorOK(c) ==
  /\ c.offset <= Len(file.bytes) /\ AtBoundary(file.bytes, c.offset)
  /\ c.mtime \in {NoTime, file.mtime}
  /\ c.seq = Counted(file.bytes, c.offset)
HashOK(h) == h \in Hash => Prefix(h.bytes, file.bytes)
StateOK(s) == s \in State => CursorOK(s.cursor) /\ HashOK(s.hash)

Firsts(n) == {e \in EventsOf(file.bytes) : e.seq < n}

ReadOK(r) ==
  /\ CursorOK(r.cursor) /\ HashOK(r.hash)
  /\ r.change = "appended" /\ r.mtime = file.mtime
  /\ Len(life.start) <= r.size /\ r.cursor.offset < r.size /\ r.size <= Len(file.bytes)
  /\ WantsReparse(r.reasons) => r.oneShot /\ r.cursor.offset = 0

(* What was read is an event of the file, before the new cursor; a reparse *)
(* has all of them.                                                        *)
ObsOK(r) ==
  /\ r.obs.change = "appended"
  /\ CursorOK(r.obs.cursor) /\ HashOK(r.obs.hash)
  /\ r.obs.events \subseteq Firsts(r.obs.cursor.seq)
  /\ WantsReparse(r.reasons) /\ r.obs.hash # NoHash => r.obs.events = Firsts(r.obs.cursor.seq)

RoundOK(r) ==
  /\ r \in AtStat \union AtRead \union AtCommit \union AtSave => StateOK(r.state)
  /\ r \in AtStat =>
       /\ r.cursor \in Cursor => CursorOK(r.cursor) /\ ~WantsReparse(r.reasons)
       /\ HashOK(r.hash)
  /\ r \in AtRead => ReadOK(r)
  /\ r \in AtCommit => ObsOK(r)

Growing ==
  /\ FileGrows
  /\ \A p \in Scanner : StateOK(disk[p]) /\ RoundOK(scan[p])
  /\ Head0[1] = 0
  /\ \A r \in rows : Plain(r) \in EventsOf(file.bytes)

GrowInv == rewrites = 0 => Growing

LEMMA GrowInit ==
  ASSUME NoCutCharacter, Init
  PROVE  GrowInv
<1>1. /\ life \in Life /\ file.bytes = life.start /\ file.mtime = life.rewrites /\ unwritten = <<>>
      /\ \A p \in Scanner : disk[p] = NoState /\ scan[p] = Off
      /\ rows = {} /\ head = NoHead
  BY DEF Init
<1>2. life.start \in Seq(Byte) /\ Len(life.start) < Word /\ Len(life.start) \in Nat
  BY <1>1, ScanAssumption
<1>3. \A i \in 1..Len(life.start) : i >= Len(life.start) => life.start[i] \notin Lead
  <2> SUFFICES ASSUME NEW i \in 1..Len(life.start), i >= Len(life.start)
               PROVE  life.start[i] \notin Lead
    OBVIOUS
  <2>1. i = Len(life.start) /\ life.start # <<>>
    BY <1>2
  <2> QED
    BY <1>1, <2>1 DEF NoCutCharacter
<1>4. FileGrows
  BY <1>1, <1>2, <1>3 DEF FileGrows
<1>5. ASSUME NEW p \in Scanner PROVE StateOK(disk[p]) /\ RoundOK(scan[p])
  <2>1. disk[p] \notin State
    BY <1>1, NoneIs
  <2>2. scan[p] \notin AtStat \union AtRead \union AtCommit \union AtSave
    BY <1>1 DEF Off, AtStat, AtRead, AtCommit, AtSave
  <2> QED
    BY <2>1, <2>2 DEF StateOK, RoundOK
<1>6. Head0[1] = 0
  BY <1>1 DEF Head0
<1> QED
  BY <1>1, <1>4, <1>5, <1>6 DEF GrowInv, Growing

LEMMA FileStays ==
  ASSUME UNCHANGED <<life, file>>, NEW p \in Scanner
  PROVE  /\ RoundOK(scan'[p]) => RoundOK(scan[p])'
         /\ StateOK(disk'[p]) => StateOK(disk[p])'
BY DEF RoundOK, StateOK, ReadOK, ObsOK, CursorOK, HashOK, Firsts

(* A scanner makes a step that leaves the file as it is.                   *)
LEMMA GrowMoves ==
  ASSUME TypeOK, Growing, NEW p \in Scanner, NEW r \in Rounds, Moves(p, r), RoundOK(r),
         UNCHANGED Elsewhere,
         Head0'[1] = 0, \A t \in rows' : Plain(t) \in EventsOf(file.bytes)
  PROVE  Growing'
<1>1. UNCHANGED <<life, file, unwritten, disk>>
  BY DEF Elsewhere
<1>2. FileGrows'
  BY <1>1 DEF Growing, FileGrows
<1>3. ASSUME NEW q \in Scanner PROVE (StateOK(disk[q]) /\ RoundOK(scan[q]))'
  <2>1. scan'[q] = r \/ scan'[q] = scan[q]
    BY ScanMoves DEF Moves
  <2>2. StateOK(disk[q]) /\ RoundOK(scan[q])
    BY DEF Growing
  <2>3. RoundOK(scan'[q]) /\ StateOK(disk'[q])
    BY <1>1, <2>1, <2>2
  <2> QED
    BY <1>1, <2>3, FileStays
<1>4. (\A q \in Scanner : StateOK(disk[q]) /\ RoundOK(scan[q]))'
  BY <1>3
<1>5. (\A t \in rows : Plain(t) \in EventsOf(file.bytes))'
  BY <1>1 DEF EventsOf, Parse
<1>6. (Head0[1] = 0)'
  BY DEF Head0
<1> QED
  BY <1>2, <1>4, <1>5, <1>6 DEF Growing

LEMMA GrowMove ==
  ASSUME TypeOK, Growing, NEW p \in Scanner, NEW r \in Rounds, Moves(p, r), RoundOK(r),
         UNCHANGED <<Elsewhere, store>>
  PROVE  Growing'
<1>1. Head0' = Head0 /\ rows' = rows
  BY DEF Head0, store
<1>2. Head0'[1] = 0 /\ \A t \in rows' : Plain(t) \in EventsOf(file.bytes)
  BY <1>1 DEF Growing
<1> QED
  BY <1>2, GrowMoves

LEMMA ConcatExtends ==
  ASSUME NEW f \in Seq(Byte), NEW g \in Seq(Byte)
  PROVE  Prefix(f, f \o g)
<1>1. /\ f \o g \in Seq(Byte) /\ Len(f \o g) = Len(f) + Len(g) /\ Len(f) \in Nat /\ Len(g) \in Nat
      /\ \A i \in 1..Len(f) : (f \o g)[i] = f[i]
  BY ConcatProperties
<1>2. PICK h \in Seq(Byte) : h = f \o g
  BY <1>1
<1>3. Len(f) <= Len(h) /\ 0 \in Nat /\ 0 <= Len(f) /\ Len(f) - 0 = Len(f)
  BY <1>1, <1>2
<1>4. /\ Piece(h, 0, Len(f)) \in Seq(Byte) /\ Len(Piece(h, 0, Len(f))) = Len(f) - 0
      /\ \A k \in 1..(Len(f) - 0) : Piece(h, 0, Len(f))[k] = h[0 + k]
  BY <1>1, <1>3, PieceIs
<1>5. \A k \in 1..Len(f) : f[k] = Piece(h, 0, Len(f))[k]
  BY <1>1, <1>2, <1>3, <1>4
<1>6. f = Piece(h, 0, Len(f))
  BY <1>3, <1>4, <1>5, SeqEqual
<1> QED
  BY <1>2, <1>3, <1>6 DEF Prefix

LEMMA PrefixTransitive ==
  ASSUME NEW a \in Seq(Byte), NEW b \in Seq(Byte), NEW c \in Seq(Byte), Prefix(a, b), Prefix(b, c)
  PROVE  Prefix(a, c)
<1>1. /\ Len(a) \in Nat /\ Len(b) \in Nat /\ Len(c) \in Nat
      /\ Len(a) <= Len(b) /\ Len(b) <= Len(c)
      /\ a = Piece(b, 0, Len(a)) /\ b = Piece(c, 0, Len(b))
  BY DEF Prefix
<1>2. 0 \in Nat /\ 0 <= Len(b) /\ 0 <= Len(a) /\ Len(a) <= Len(b) - 0 /\ 0 + 0 = 0 /\ 0 + Len(a) = Len(a)
  BY <1>1
<1>3. Piece(Piece(c, 0, Len(b)), 0, Len(a)) = Piece(c, 0 + 0, 0 + Len(a))
  BY <1>1, <1>2, PieceOfPiece
<1>4. Len(a) <= Len(c)
  BY <1>1
<1> QED
  BY <1>1, <1>2, <1>3, <1>4 DEF Prefix

LEMMA FirstsIs ==
  ASSUME TypeOK
  PROVE  \A n : Firsts(n) = Slice(file.bytes, 0, n)
<1>1. \A e \in EventsOf(file.bytes) : 0 <= e.seq
  BY EventsAre DEF TypeOK
<1> QED
  BY <1>1 DEF Firsts, Slice

(* What was true of a part of the file stays true when it grows.           *)
FileGrew ==
  /\ Prefix(file.bytes, file'.bytes) /\ file'.mtime = file.mtime
  /\ file'.bytes \in Seq(Byte) /\ life' = life

LEMMA FirstsStay ==
  ASSUME TypeOK, FileGrew, NEW n \in Nat, n <= Counted(file.bytes, Len(file.bytes))
  PROVE  Firsts(n)' = Firsts(n)
<1>1. file.bytes \in Seq(Byte) /\ file'.bytes \in Seq(Byte) /\ Prefix(file.bytes, file'.bytes)
  BY DEF TypeOK, FileGrew
<1>2. Slice(file.bytes, 0, n) = Slice(file'.bytes, 0, n)
  <2>1. 0 \in Nat
    OBVIOUS
  <2> QED
    BY <1>1, <2>1, PrefixKeepsEvents
<1>3. \A e \in EventsOf(file'.bytes) : 0 <= e.seq
  BY <1>1, EventsAre
<1>4. Firsts(n)' = {e \in EventsOf(file'.bytes) : e.seq < n}
  BY DEF Firsts, EventsOf, Parse
<1>5. Firsts(n)' = Slice(file'.bytes, 0, n)
  BY <1>3, <1>4 DEF Slice
<1> QED
  BY <1>2, <1>5, FirstsIs

LEMMA CursorStays ==
  ASSUME TypeOK, FileGrew, NEW c \in Cursor, CursorOK(c)
  PROVE  CursorOK(c)' /\ c.seq <= Counted(file.bytes, Len(file.bytes))
<1>1. /\ file.bytes \in Seq(Byte) /\ file'.bytes \in Seq(Byte) /\ Prefix(file.bytes, file'.bytes)
      /\ c.offset \in Nat /\ c.offset <= Len(file.bytes) /\ Len(file.bytes) <= Len(file'.bytes)
      /\ Len(file.bytes) \in Nat /\ Len(file'.bytes) \in Nat
  BY DEF TypeOK, FileGrew, Cursor, CursorOK, Prefix
<1>2. /\ Counted(file.bytes, c.offset) = Counted(file'.bytes, c.offset)
      /\ AtBoundary(file.bytes, c.offset) <=> AtBoundary(file'.bytes, c.offset)
  BY <1>1, PrefixKeepsLines
<1>3. c.seq <= Counted(file.bytes, Len(file.bytes))
  BY <1>1, CountsGrow DEF CursorOK
<1>4. c.offset <= Len(file'.bytes)
  BY <1>1
<1>5. /\ c.mtime \in {NoTime, file'.mtime} /\ c.seq = Counted(file'.bytes, c.offset)
      /\ AtBoundary(file'.bytes, c.offset)
  BY <1>2 DEF CursorOK, FileGrew
<1>6. CursorOK(c)' <=> /\ c.offset <= Len(file'.bytes) /\ AtBoundary(file'.bytes, c.offset)
                       /\ c.mtime \in {NoTime, file'.mtime}
                       /\ c.seq = Counted(file'.bytes, c.offset)
  BY DEF CursorOK, AtBoundary, Newlines, Counted, GoodEnds, TextAt
<1> QED
  BY <1>3, <1>4, <1>5, <1>6

LEMMA HashStays ==
  ASSUME TypeOK, FileGrew, NEW h, HashOK(h)
  PROVE  HashOK(h)'
<1>1. file.bytes \in Seq(Byte) /\ file'.bytes \in Seq(Byte) /\ Prefix(file.bytes, file'.bytes)
  BY DEF TypeOK, FileGrew
<1>2. ASSUME h \in Hash PROVE Prefix(h.bytes, file'.bytes)
  <2>1. h.bytes \in Seq(Byte) /\ Prefix(h.bytes, file.bytes)
    BY <1>2 DEF Hash, HashOK
  <2> QED
    BY <1>1, <2>1, PrefixTransitive
<1>3. HashOK(h)' <=> (h \in Hash => Prefix(h.bytes, file'.bytes))
  BY DEF HashOK, Prefix, Piece
<1> QED
  BY <1>2, <1>3

LEMMA StateStays ==
  ASSUME TypeOK, FileGrew, NEW s, StateOK(s)
  PROVE  StateOK(s)'
<1>1. CASE s \in State
  <2>1. s.cursor \in Cursor /\ CursorOK(s.cursor) /\ HashOK(s.hash)
    BY <1>1 DEF State, StateOK
  <2>2. CursorOK(s.cursor)' /\ HashOK(s.hash)'
    BY <2>1, CursorStays, HashStays
  <2> QED
    BY <2>2 DEF StateOK
<1>2. CASE s \notin State
  BY <1>2 DEF StateOK
<1> QED
  BY <1>1, <1>2

LEMMA RoundStays ==
  ASSUME TypeOK, FileGrew, NEW r, RoundOK(r)
  PROVE  RoundOK(r)'
<1>0. /\ file.bytes \in Seq(Byte) /\ file'.bytes \in Seq(Byte)
      /\ Len(file.bytes) \in Nat /\ Len(file'.bytes) \in Nat /\ Len(file.bytes) <= Len(file'.bytes)
      /\ file'.mtime = file.mtime /\ life' = life
  BY DEF TypeOK, FileGrew, Prefix
<1>1. (r \in AtStat \union AtRead \union AtCommit \union AtSave => StateOK(r.state))'
  BY StateStays DEF RoundOK
<1>2. (r \in AtStat => /\ r.cursor \in Cursor => CursorOK(r.cursor) /\ ~WantsReparse(r.reasons)
                       /\ HashOK(r.hash))'
  BY CursorStays, HashStays DEF RoundOK
<1>3. ASSUME r \in AtRead PROVE ReadOK(r)'
  <2>1. ReadOK(r) /\ r.cursor \in Cursor /\ r.size \in Nat
    BY <1>3 DEF RoundOK, AtRead
  <2>2. CursorOK(r.cursor)' /\ HashOK(r.hash)'
    BY <2>1, CursorStays, HashStays DEF ReadOK
  <2>3. r.size <= Len(file'.bytes)
    BY <1>0, <2>1 DEF ReadOK
  <2> QED
    BY <1>0, <2>1, <2>2, <2>3 DEF ReadOK
<1>4. ASSUME r \in AtCommit PROVE ObsOK(r)'
  <2>1. ObsOK(r) /\ r.obs.cursor \in Cursor /\ r.obs.cursor.seq \in Nat
    BY <1>4 DEF RoundOK, AtCommit, Obs, Cursor
  <2>2. /\ CursorOK(r.obs.cursor)' /\ HashOK(r.obs.hash)'
        /\ r.obs.cursor.seq <= Counted(file.bytes, Len(file.bytes))
    BY <2>1, CursorStays, HashStays DEF ObsOK
  <2>3. Firsts(r.obs.cursor.seq)' = Firsts(r.obs.cursor.seq)
    BY <2>1, <2>2, FirstsStay
  <2> QED
    BY <2>1, <2>2, <2>3 DEF ObsOK
<1> QED
  BY <1>1, <1>2, <1>3, <1>4 DEF RoundOK

LEMMA WriteGrows ==
  ASSUME NoCutCharacter, TypeOK, Growing, Write
  PROVE  FileGrew /\ FileGrows'
<1>1. PICK line \in Seq(Byte), k \in Nat :
        /\ 1 <= k /\ k <= Len(line)
        /\ line = unwritten \/ (unwritten = <<>> /\ \E t \in Text : line = Append(t, NL))
        /\ Len(file.bytes) + Len(line) <= life.bytes
        /\ file'.bytes = file.bytes \o SubSeq(line, 1, k)
        /\ unwritten' = SubSeq(line, k + 1, Len(line))
  BY WriteIs
<1>2. /\ file.bytes \in Seq(Byte) /\ file'.bytes \in Seq(Byte) /\ file'.mtime = file.mtime
      /\ life' = life /\ life \in Life /\ Len(line) \in Nat /\ Len(file.bytes) \in Nat
      /\ life.start \in Seq(Byte) /\ Len(life.start) \in Nat /\ life.bytes \in Nat
      /\ life.bytes < Word /\ Word \in Nat
  <2>1. file.bytes \in Seq(Byte) /\ life \in Life
    BY DEF TypeOK
  <2>2. file'.bytes \in Seq(Byte) /\ file'.mtime = file.mtime /\ life' = life
    BY WriteIs
  <2> QED
    BY <2>1, <2>2, ScanAssumption
<1> DEFINE piece == SubSeq(line, 1, k)
<1>3. piece = Piece(line, 0, k)
  BY DEF Piece
<1>4. /\ piece \in Seq(Byte) /\ Len(piece) = k /\ \A i \in 1..k : piece[i] = line[i]
  <2>1. 0 \in Nat /\ 0 <= k /\ k - 0 = k /\ \A i \in 1..k : 0 + i = i
    BY <1>1
  <2>2. /\ Piece(line, 0, k) \in Seq(Byte) /\ Len(Piece(line, 0, k)) = k - 0
        /\ \A i \in 1..(k - 0) : Piece(line, 0, k)[i] = line[0 + i]
    BY <1>1, <2>1, PieceIs
  <2> HIDE DEF piece
  <2> QED
    BY <1>3, <2>1, <2>2
<1>5. /\ unwritten' \in Seq(Byte) /\ Len(unwritten') = Len(line) - k
      /\ \A i \in 1..(Len(line) - k) : unwritten'[i] = line[k + i]
  BY <1>1, <1>2, PieceIs DEF Piece
<1>6. \A i \in 1..Len(line) : line[i] \notin Lead
  <2>1. CASE line = unwritten
    BY <2>1 DEF Growing, FileGrows
  <2>2. ASSUME NEW t \in Text, line = Append(t, NL) PROVE \A i \in 1..Len(line) : line[i] \notin Lead
    <3>1. t \in Seq(Byte) /\ Len(t) \in Nat
      BY ScanAssumption
    <3>2. /\ Len(line) = Len(t) + 1 /\ line[Len(t) + 1] = NL
          /\ \A i \in 1..Len(t) : line[i] = t[i]
      BY <2>2, <3>1, AppendProperties
    <3>3. \A i \in 1..(Len(t) + 1) : i \in 1..Len(t) \/ i = Len(t) + 1
      BY <3>1
    <3> QED
      BY <3>2, <3>3 DEF NoCutCharacter
  <2> QED
    BY <1>1, <2>1, <2>2
<1>7. Prefix(file.bytes, file'.bytes)
  <2> HIDE DEF piece
  <2> QED
    BY <1>1, <1>2, <1>4, ConcatExtends DEF piece
<1>8. /\ Len(file'.bytes) = Len(file.bytes) + k
      /\ \A i \in 1..Len(file.bytes) : file'.bytes[i] = file.bytes[i]
      /\ \A i \in (Len(file.bytes) + 1)..(Len(file.bytes) + k) :
           file'.bytes[i] = piece[i - Len(file.bytes)]
  <2>1. file'.bytes = file.bytes \o piece
    BY <1>1
  <2>2. PICK g \in Seq(Byte) : g = piece
    BY <1>4
  <2>3. /\ Len(file.bytes \o g) = Len(file.bytes) + Len(g)
        /\ \A i \in 1..Len(file.bytes) : (file.bytes \o g)[i] = file.bytes[i]
        /\ \A i \in (Len(file.bytes) + 1)..(Len(file.bytes) + Len(g)) :
             (file.bytes \o g)[i] = g[i - Len(file.bytes)]
    BY <1>2, ConcatProperties
  <2> HIDE DEF piece
  <2> QED
    BY <1>4, <2>1, <2>2, <2>3
<1>9. Len(file'.bytes) < Word /\ Len(life.start) <= Len(file'.bytes)
  BY <1>1, <1>2, <1>8 DEF Growing, FileGrows
<1>10. ASSUME NEW i \in 1..Len(file'.bytes), i >= Len(life.start) PROVE file'.bytes[i] \notin Lead
  <2>1. CASE i <= Len(file.bytes)
    <3>1. i \in 1..Len(file.bytes)
      BY <1>2, <2>1
    <3> QED
      BY <1>8, <1>10, <3>1 DEF Growing, FileGrows
  <2>2. CASE ~(i <= Len(file.bytes))
    <3>1. /\ i \in (Len(file.bytes) + 1)..(Len(file.bytes) + k)
          /\ i - Len(file.bytes) \in 1..k /\ i - Len(file.bytes) \in 1..Len(line)
      BY <1>1, <1>2, <1>8, <2>2
    <3> HIDE DEF piece
    <3> QED
      BY <1>4, <1>6, <1>8, <3>1
  <2> QED
    BY <2>1, <2>2
<1>11. \A i \in 1..Len(unwritten') : unwritten'[i] \notin Lead
  <2>1. \A i \in 1..(Len(line) - k) : k + i \in 1..Len(line)
    BY <1>1, <1>2
  <2> QED
    BY <1>5, <1>6, <2>1
<1>12. FileGrew
  BY <1>2, <1>7 DEF FileGrew
<1> HIDE DEF piece
<1> QED
  BY <1>2, <1>9, <1>10, <1>11, <1>12 DEF FileGrows, Growing

LEMMA GrowWrite ==
  ASSUME NoCutCharacter, TypeOK, Growing, Write
  PROVE  Growing'
<1>1. FileGrew /\ FileGrows'
  BY WriteGrows
<1>2. UNCHANGED <<disk, scan, rows, head>>
  BY WriteIs DEF store
<1>3. ASSUME NEW p \in Scanner PROVE (StateOK(disk[p]) /\ RoundOK(scan[p]))'
  <2>1. PICK x, y : x = disk[p] /\ y = scan[p]
    OBVIOUS
  <2>2. StateOK(x) /\ RoundOK(y)
    BY <2>1 DEF Growing
  <2>3. StateOK(x)' /\ RoundOK(y)'
    BY <1>1, <2>2, StateStays, RoundStays
  <2>4. x = disk'[p] /\ y = scan'[p]
    BY <1>2, <2>1
  <2>5. StateOK(disk[p])'
    BY <2>3, <2>4 DEF StateOK, CursorOK, HashOK
  <2>6. RoundOK(scan[p])'
    BY <2>3, <2>4 DEF RoundOK, StateOK, ReadOK, ObsOK, CursorOK, HashOK, Firsts
  <2> QED
    BY <2>5, <2>6
<1>4. EventsOf(file.bytes) \subseteq EventsOf(file'.bytes)
  BY <1>1, PrefixKeepsEvents DEF FileGrew, TypeOK
<1>5. (\A r \in rows : Plain(r) \in EventsOf(file.bytes))'
  <2>1. \A r \in rows' : Plain(r) \in EventsOf(file'.bytes)
    BY <1>2, <1>4 DEF Growing
  <2> QED
    BY <2>1 DEF EventsOf, Parse
<1>6. Head0' = Head0
  BY <1>2 DEF Head0
<1> QED
  BY <1>1, <1>3, <1>5, <1>6 DEF Growing

-----------------------------------------------------------------------------
(* Steps of a round keep what is known of a growing file.                  *)
LEMMA NewCursorOK ==
  ASSUME TypeOK
  PROVE  CursorOK(NewCursor) /\ Firsts(0) = {} /\ Counted(file.bytes, 0) = 0
<1>1. file.bytes \in Seq(Byte) /\ 0 \in Nat /\ 0 <= 0 /\ 0 <= Len(file.bytes)
  BY DEF TypeOK
<1>2. Counted(file.bytes, 0) = 0
  BY <1>1, CountsGrow
<1>3. \A e \in EventsOf(file.bytes) : ~(e.seq < 0)
  <2>1. \A e \in EventsOf(file.bytes) : e.seq \in Nat
    BY <1>1, EventsAre
  <2> QED
    BY <2>1
<1> QED
  BY <1>1, <1>2, <1>3, NoneIs DEF CursorOK, AtBoundary, Firsts

LEMMA StepsApart ==
  ASSUME NEW r
  PROVE  /\ r \in AtStat => r \notin AtRead /\ r \notin AtCommit /\ r \notin AtSave
         /\ r \in AtRead => r \notin AtCommit /\ r \notin AtSave
         /\ r \in AtCommit => r \notin AtSave
BY DEF AtStat, AtRead, AtCommit, AtSave

LEMMA GrowBegin ==
  ASSUME TypeOK, Growing, NEW p \in Scanner, NEW writes \in BOOLEAN, Begin(p, writes, disk[p])
  PROVE  Growing'
<1>1. PICK r \in AtStat :
        /\ Moves(p, r) /\ UNCHANGED <<Elsewhere, store, rewrites, faults>>
        /\ r.state = disk[p]
        /\ \/ r.cursor = NoCursor
           \/ disk[p] \in State /\ r.cursor = disk[p].cursor /\ ~WantsReparse(r.reasons)
        /\ r.hash = NoHash \/ (disk[p] \in State /\ r.hash = disk[p].hash)
  BY BeginIs
<1>2. StateOK(disk[p])
  BY DEF Growing
<1>3. HashOK(r.hash)
  BY <1>1, <1>2, NoneIs DEF HashOK, StateOK
<1>4. r.cursor \in Cursor => CursorOK(r.cursor) /\ ~WantsReparse(r.reasons)
  BY <1>1, <1>2, NoneIs DEF StateOK
<1>5. RoundOK(r)
  BY <1>1, <1>2, <1>3, <1>4, StepsApart DEF RoundOK
<1> QED
  BY <1>1, <1>5, GrowMove DEF Rounds

LEMMA GrowStat ==
  ASSUME TypeOK, Growing, NEW p \in Scanner, Stat(p)
  PROVE  Growing'
<1>1. /\ scan[p] \in AtStat /\ Resumed(p) \in Cursor
      /\ UNCHANGED <<Elsewhere, store, rewrites, faults>>
  BY StatIs
<1>2. PICK r \in AtCommit \union AtRead, from \in Cursor :
        /\ Moves(p, r) /\ SameRound(r, scan[p])
        /\ from = IF Shrank(Resumed(p)) THEN NewCursor ELSE Resumed(p)
        /\ r \in AtCommit =>
             /\ r.obs.change = IF Shrank(Resumed(p)) THEN "rewritten" ELSE "appended"
             /\ r.obs.events = {} /\ r.obs.hash = NoHash
             /\ r.obs.cursor.offset = from.offset /\ r.obs.cursor.seq = from.seq
             /\ r.obs.cursor.mtime = file.mtime
        /\ r \in AtRead =>
             /\ r.change = IF Shrank(Resumed(p)) THEN "rewritten" ELSE "appended"
             /\ r.hash = scan[p].hash /\ r.cursor = from
             /\ r.oneShot = (scan[p].cursor = NoCursor)
             /\ r.size = Len(file.bytes) /\ r.mtime = file.mtime
             /\ from.offset < r.size
  BY StatIs
<1>3. /\ file.bytes \in Seq(Byte) /\ Len(file.bytes) \in Nat /\ file.mtime \in Int
  BY DEF TypeOK
<1>4. /\ RoundOK(scan[p]) /\ FileGrows
      /\ scan[p].cursor \in Cursor \union {NoCursor} /\ scan[p].state \in State \union {NoState}
  BY <1>1 DEF Growing, AtStat
<1>5. CursorOK(Resumed(p))
  <2>1. CASE scan[p].cursor = NoCursor
    BY <2>1, NewCursorOK, ResumeIs DEF Resumed
  <2>2. CASE scan[p].cursor # NoCursor
    BY <1>1, <1>4, <2>2, ResumeIs DEF Resumed, RoundOK
  <2> QED
    BY <2>1, <2>2
<1>6. ~Shrank(Resumed(p))
  <2>1. Resumed(p).offset \in Nat /\ Resumed(p).offset <= Len(file.bytes)
        /\ Resumed(p).mtime \in {NoTime, file.mtime}
    BY <1>1, <1>5 DEF CursorOK, Cursor
  <2>2. ~(Len(file.bytes) < Resumed(p).offset) /\ ~(file.mtime < file.mtime)
    BY <1>3, <2>1
  <2> QED
    BY <2>1, <2>2 DEF Shrank
<1>7. from = Resumed(p)
  BY <1>2, <1>6
<1>8. StateOK(r.state)
  BY <1>1, <1>2, <1>4 DEF SameRound, RoundOK
<1>9. ASSUME r \in AtCommit PROVE ObsOK(r)
  <2>1. CursorOK(r.obs.cursor)
    BY <1>2, <1>5, <1>7, <1>9 DEF CursorOK
  <2>2. HashOK(r.obs.hash)
    BY <1>2, <1>9, NoneIs DEF HashOK
  <2> QED
    BY <1>2, <1>6, <1>9, <2>1, <2>2 DEF ObsOK
<1>10. ASSUME r \in AtRead PROVE ReadOK(r)
  <2>1. CursorOK(r.cursor) /\ HashOK(r.hash)
    BY <1>1, <1>2, <1>4, <1>5, <1>7, <1>10 DEF RoundOK
  <2>2. WantsReparse(r.reasons) => r.oneShot /\ r.cursor.offset = 0
    <3> SUFFICES ASSUME WantsReparse(r.reasons) PROVE r.oneShot /\ r.cursor.offset = 0
      OBVIOUS
    <3>1. WantsReparse(scan[p].reasons)
      BY <1>2 DEF SameRound
    <3>2. scan[p].cursor = NoCursor
      BY <1>1, <1>4, <3>1 DEF RoundOK
    <3>3. Resumed(p).offset = 0
      BY <3>2, ResumeIs, NoneIs DEF Resumed
    <3> QED
      BY <1>2, <1>7, <1>10, <3>2, <3>3
  <2>3. /\ r.change = "appended" /\ r.mtime = file.mtime /\ r.size = Len(file.bytes)
        /\ r.cursor.offset < r.size
    BY <1>2, <1>6, <1>10
  <2>4. Len(life.start) <= r.size /\ r.size <= Len(file.bytes)
    BY <1>3, <1>4, <2>3 DEF FileGrows
  <2> QED
    BY <2>1, <2>2, <2>3, <2>4 DEF ReadOK
<1>11. RoundOK(r)
  BY <1>8, <1>9, <1>10, StepsApart DEF RoundOK
<1> QED
  BY <1>1, <1>2, <1>11, GrowMove DEF Rounds

(* A full read that ends with a whole character is of all lines up to the  *)
(* last newline.                                                           *)
LEMMA ReadsEvents ==
  ASSUME NEW f \in Seq(Byte), NEW o \in Nat, NEW n \in Nat, o < n, n <= Len(f),
         AtBoundary(f, o), f[n] \notin Lead,
         NEW m, m = n - Pending(Piece(f, o, n))
  PROVE  /\ m \in Nat /\ o <= m /\ m <= n /\ AtBoundary(f, m) /\ Counted(f, m) = Counted(f, n)
         /\ Parse(Piece(f, o, n), Counted(f, o)) = Slice(f, Counted(f, o), Counted(f, m))
         /\ Counted(f, o) + Cardinality(Parse(Piece(f, o, n), Counted(f, o))) = Counted(f, m)
<1>0. o <= n /\ n - o \in Nat /\ n - o \in 1..(n - o) /\ o + (n - o) = n
  OBVIOUS
<1>1. /\ Piece(f, o, n) \in Seq(Byte) /\ Len(Piece(f, o, n)) = n - o
      /\ \A k \in 1..(n - o) : Piece(f, o, n)[k] = f[o + k]
  BY <1>0, PieceIs
<1>2. PICK b \in Seq(Byte) : b = Piece(f, o, n)
  BY <1>1
<1>3. b[Len(b)] \notin Lead
  BY <1>0, <1>1, <1>2
<1>4. Pending(b) = Len(b) - Latest(Newlines(b))
  BY <1>3, PendingIs
<1>5. Latest(Newlines(b)) \in 0..Len(b)
  BY EndsAreFinite, LatestIsGreatest
<1>6. m = o + Latest(Newlines(Piece(f, o, n)))
  BY <1>0, <1>1, <1>2, <1>4, <1>5
<1>7. /\ m \in Nat /\ o <= m /\ m <= n
      /\ AtBoundary(f, m) /\ Counted(f, m) = Counted(f, n)
  BY <1>0, <1>6, LastBoundary
<1>8. Parse(b, Counted(f, o)) = Slice(f, Counted(f, o), Counted(f, n))
  BY <1>0, <1>2, EventsOfPiece
<1>9. Counted(f, o) \in Nat
  BY CountsAre
<1>10. Cardinality(Parse(b, Counted(f, o))) = Counted(b, Len(b))
  BY <1>9, CountOfEvents
<1>11. Counted(f, o + (n - o)) = Counted(f, o) + Counted(Piece(f, o, n), n - o)
  BY <1>0, CountedInPiece
<1> QED
  BY <1>0, <1>1, <1>2, <1>7, <1>8, <1>10, <1>11

(* A full read of a growing file has the fingerprint's bytes at its start. *)
LEMMA GrowNoDifference ==
  ASSUME TypeOK, NEW h \in Hash \union {NoHash}, HashOK(h), NEW n \in Nat, n <= Len(file.bytes)
  PROVE  ~PrefixDiffers(h, Piece(file.bytes, 0, n))
<1> SUFFICES ASSUME PrefixDiffers(h, Piece(file.bytes, 0, n)) PROVE FALSE
  OBVIOUS
<1>0. PICK f \in Seq(Byte) : f = file.bytes
  BY DEF TypeOK
<1>1. h \in Hash /\ h.bytes \in Seq(Byte) /\ Prefix(h.bytes, f)
  BY <1>0 DEF PrefixDiffers, HashOK, Hash
<1>2. PICK a \in Seq(Byte) : a = h.bytes
  BY <1>1
<1>3. 0 \in Nat /\ 0 <= n /\ n - 0 = n /\ n <= Len(f) /\ Len(a) \in Nat /\ 0 <= Len(a) /\ 0 + Len(a) = Len(a)
  BY <1>0, <1>2
<1>4. Len(Piece(f, 0, n)) = n
  BY <1>3, PieceIs
<1>5. Len(a) <= n /\ SubSeq(Piece(f, 0, n), 1, Len(a)) # a
  BY <1>0, <1>2, <1>4 DEF PrefixDiffers
<1>6. Len(a) <= n - 0
  BY <1>3, <1>5
<1>7. Piece(Piece(f, 0, n), 0, Len(a)) = Piece(f, 0 + 0, 0 + Len(a))
  BY <1>3, <1>6, PieceOfPiece
<1>8. a = Piece(f, 0, Len(a))
  BY <1>1, <1>2 DEF Prefix
<1>9. Piece(Piece(f, 0, n), 0, Len(a)) = SubSeq(Piece(f, 0, n), 1, Len(a))
  BY DEF Piece
<1> QED
  BY <1>3, <1>5, <1>7, <1>8, <1>9

LEMMA GrowRead ==
  ASSUME TypeOK, Growing, NEW p \in Scanner, Read(p)
  PROVE  Growing'
<1>1. /\ scan[p] \in AtRead /\ scan[p].size <= Len(file.bytes) /\ Got(p) \in Seq(Byte)
      /\ UNCHANGED <<Elsewhere, store, rewrites, faults>>
  BY ReadIs
<1>2. PICK r \in AtCommit :
        /\ Moves(p, r) /\ SameRound(r, scan[p])
        /\ r.obs.change = IF scan[p].cursor.offset = 0 /\ PrefixDiffers(scan[p].hash, Got(p))
                          THEN "rewritten" ELSE scan[p].change
        /\ r.obs.hash = IF scan[p].cursor.offset = 0 THEN [bytes |-> Got(p)] ELSE NoHash
        /\ r.obs.cursor.mtime = scan[p].mtime
        /\ \/ /\ ~scan[p].oneShot
              /\ r.obs.events = {} /\ r.obs.quality = "poison"
              /\ r.obs.cursor.offset = scan[p].cursor.offset
              /\ r.obs.cursor.seq = scan[p].cursor.seq
           \/ /\ r.obs.events = Parse(Got(p), scan[p].cursor.seq)
              /\ r.obs.cursor.offset = (scan[p].size - Pending(Got(p))) % Word
              /\ r.obs.cursor.seq = scan[p].cursor.seq + Cardinality(r.obs.events)
  BY ReadIs
<1>3. PICK f \in Seq(Byte), o \in Nat, n \in Nat :
        f = file.bytes /\ o = scan[p].cursor.offset /\ n = scan[p].size
  BY <1>1 DEF TypeOK, AtRead, Cursor
<1>4. ReadOK(scan[p]) /\ StateOK(scan[p].state) /\ FileGrows
  BY <1>1 DEF Growing, RoundOK
<1>5. /\ CursorOK(scan[p].cursor) /\ HashOK(scan[p].hash) /\ scan[p].change = "appended"
      /\ scan[p].mtime = file.mtime /\ o < n /\ n <= Len(f) /\ Len(f) \in Nat /\ Len(f) < Word
      /\ AtBoundary(f, o) /\ scan[p].cursor.seq = Counted(f, o)
      /\ scan[p].cursor \in Cursor
      /\ WantsReparse(scan[p].reasons) => scan[p].oneShot /\ o = 0
  BY <1>1, <1>3, <1>4 DEF ReadOK, CursorOK, FileGrows, AtRead
<1>6. Got(p) = Piece(f, o, n)
  BY <1>3 DEF Got
<1>7. ~(o = 0 /\ PrefixDiffers(scan[p].hash, Got(p)))
  <2>1. scan[p].hash \in Hash \union {NoHash}
    BY <1>1 DEF AtRead
  <2> QED
    BY <1>3, <1>5, <1>6, <2>1, GrowNoDifference
<1>8. r.obs.change = "appended"
  BY <1>2, <1>3, <1>5, <1>7
<1>9. HashOK(r.obs.hash)
  <2>1. CASE o # 0
    BY <1>2, <1>3, <2>1, NoneIs DEF HashOK
  <2>2. CASE o = 0
    <3>1. PICK g \in Seq(Byte) : g = Piece(f, 0, n)
      BY <1>1, <1>6, <2>2
    <3>2. 0 \in Nat /\ 0 <= n /\ n - 0 = n
      OBVIOUS
    <3>3. Len(g) = n
      BY <1>5, <3>1, <3>2, PieceIs
    <3>4. Prefix(g, f)
      BY <1>5, <3>1, <3>3 DEF Prefix
    <3> QED
      BY <1>2, <1>3, <1>6, <2>2, <3>1, <3>4 DEF HashOK
  <2> QED
    BY <2>1, <2>2
<1>10. StateOK(r.state)
  BY <1>2, <1>4 DEF SameRound
<1>11. CASE /\ ~scan[p].oneShot /\ r.obs.events = {}
            /\ r.obs.cursor.offset = scan[p].cursor.offset /\ r.obs.cursor.seq = scan[p].cursor.seq
  <2>1. CursorOK(r.obs.cursor)
    BY <1>2, <1>5, <1>11 DEF CursorOK
  <2>2. ~WantsReparse(r.reasons)
    BY <1>2, <1>5, <1>11 DEF SameRound
  <2>3. ObsOK(r)
    BY <1>8, <1>9, <1>11, <2>1, <2>2 DEF ObsOK
  <2> QED
    BY <1>1, <1>2, <1>10, <2>3, StepsApart, GrowMove DEF RoundOK, Rounds
<1>12. CASE /\ r.obs.events = Parse(Got(p), scan[p].cursor.seq)
            /\ r.obs.cursor.offset = (scan[p].size - Pending(Got(p))) % Word
            /\ r.obs.cursor.seq = scan[p].cursor.seq + Cardinality(r.obs.events)
  <2>1. n \in 1..Len(f) /\ f[n] \notin Lead
    <3>1. n \in 1..Len(f) /\ n >= Len(life.start)
      <4>1. Len(life.start) \in Nat
        BY ScanAssumption DEF TypeOK
      <4> QED
        BY <1>3, <1>4, <1>5, <4>1 DEF ReadOK
    <3> QED
      BY <1>3, <1>4, <3>1 DEF FileGrows
  <2>2. PICK m : m = n - Pending(Piece(f, o, n))
    OBVIOUS
  <2>3. /\ m \in Nat /\ o <= m /\ m <= n /\ AtBoundary(f, m)
        /\ Parse(Piece(f, o, n), Counted(f, o)) = Slice(f, Counted(f, o), Counted(f, m))
        /\ Counted(f, o) + Cardinality(Parse(Piece(f, o, n), Counted(f, o))) = Counted(f, m)
    BY <1>5, <2>1, <2>2, ReadsEvents
  <2>4. m % Word = m /\ m <= Len(f)
    <3>1. Word \in Nat /\ Word > 0 /\ m < Word
      BY <1>5, <2>3, ScanAssumption
    <3> QED
      BY <1>5, <2>3, <3>1
  <2>5. r.obs.cursor.offset = m /\ r.obs.cursor.seq = Counted(f, m) /\ r.obs.cursor.mtime = file.mtime
    BY <1>2, <1>3, <1>5, <1>6, <1>12, <2>2, <2>3, <2>4
  <2>6. CursorOK(r.obs.cursor)
    BY <1>3, <2>3, <2>4, <2>5 DEF CursorOK
  <2>7. r.obs.events = Slice(f, Counted(f, o), Counted(f, m))
    BY <1>5, <1>6, <1>12, <2>3
  <2>8. r.obs.events \subseteq Firsts(r.obs.cursor.seq)
    BY <1>3, <2>5, <2>7 DEF Slice, Firsts
  <2>9. ASSUME WantsReparse(r.reasons) PROVE r.obs.events = Firsts(r.obs.cursor.seq)
    <3>1. o = 0
      BY <1>2, <1>5, <2>9 DEF SameRound
    <3>2. Counted(f, o) = 0
      BY <1>3, <3>1, NewCursorOK
    <3> QED
      BY <1>3, <2>5, <2>7, <3>2, FirstsIs
  <2>10. ObsOK(r)
    BY <1>8, <1>9, <2>6, <2>8, <2>9 DEF ObsOK
  <2> QED
    BY <1>1, <1>2, <1>10, <2>10, StepsApart, GrowMove DEF RoundOK, Rounds
<1> QED
  BY <1>2, <1>11, <1>12

LEMMA GrowUnavailable ==
  ASSUME TypeOK, Growing, NEW p \in Scanner, Unavailable(p)
  PROVE  Growing'
<1>1. scan[p] \in AtStat \union AtRead /\ UNCHANGED <<Elsewhere, store, rewrites>>
  BY UnavailableIs
<1>2. PICK r \in AtCommit :
        /\ Moves(p, r) /\ SameRound(r, scan[p])
        /\ r.obs.quality \in {"stat_failed", "read_failed"}
        /\ r.obs.events = {} /\ r.obs.hash = NoHash
        /\ scan[p] \in AtStat =>
             r.obs.change = "appended" /\ r.obs.cursor = Resume(scan[p].cursor)
        /\ scan[p] \in AtRead =>
             r.obs.change = scan[p].change /\ r.obs.cursor = scan[p].cursor
  BY UnavailableIs
<1>3. RoundOK(scan[p])
  BY DEF Growing
<1>4. CursorOK(r.obs.cursor) /\ r.obs.change = "appended"
  <2>1. CASE scan[p] \in AtRead
    BY <1>2, <1>3, <2>1 DEF RoundOK, ReadOK
  <2>2. CASE scan[p] \in AtStat
    <3>1. scan[p].cursor \in Cursor \union {NoCursor}
      BY <2>2 DEF AtStat
    <3>2. CASE scan[p].cursor = NoCursor
      BY <1>2, <2>2, <3>1, <3>2, ResumeIs, NewCursorOK
    <3>3. CASE scan[p].cursor # NoCursor
      BY <1>2, <1>3, <2>2, <3>1, <3>3, ResumeIs DEF RoundOK
    <3> QED
      BY <3>2, <3>3
  <2> QED
    BY <1>1, <2>1, <2>2
<1>5. ObsOK(r)
  BY <1>2, <1>4, NoneIs DEF ObsOK, HashOK
<1>6. StateOK(r.state)
  BY <1>1, <1>2, <1>3 DEF RoundOK, SameRound
<1> QED
  BY <1>1, <1>2, <1>5, <1>6, StepsApart, GrowMove DEF RoundOK, Rounds

LEMMA GrowCommit ==
  ASSUME TypeOK, Growing, NEW p \in Scanner, Commit(p)
  PROVE  Growing'
<1>1. scan[p] \in AtCommit /\ UNCHANGED <<Elsewhere, rewrites, faults>>
  BY CommitIs
<1>2. PICK r \in AtSave :
        /\ Moves(p, r)
        /\ \/ UNCHANGED store /\ ~scan[p].writes /\ r.state = NextState(scan[p])
           \/ UNCHANGED store /\ r.state = scan[p].state
           \/ /\ r.state = NextState(scan[p])
              /\ ~Refused(Mode(p), scan[p].obs)
              /\ Project(Mode(p), Token(scan[p]), scan[p].obs.events, scan[p].parser)
  BY CommitIs
<1>3. StateOK(scan[p].state) /\ ObsOK(scan[p])
  BY <1>1 DEF Growing, RoundOK
<1>4. StateOK(NextState(scan[p]))
  <2>1. CursorOK(NextState(scan[p]).cursor)
    BY <1>1, <1>3, NextStateIs DEF ObsOK
  <2>2. HashOK(NextState(scan[p]).hash)
    BY <1>1, <1>3, NextStateIs, NoneIs DEF ObsOK, StateOK, HashOK
  <2> QED
    BY <2>1, <2>2 DEF StateOK
<1>5. RoundOK(r)
  BY <1>2, <1>3, <1>4, StepsApart DEF RoundOK
<1>6. CASE UNCHANGED store
  BY <1>1, <1>2, <1>5, <1>6, GrowMove DEF Rounds
<1>7. CASE /\ ~Refused(Mode(p), scan[p].obs)
           /\ Project(Mode(p), Token(scan[p]), scan[p].obs.events, scan[p].parser)
           /\ ~UNCHANGED store
  <2>1. /\ Mode(p) \in {"append", "rollback", "reparse"}
        /\ scan[p].obs.events \in SUBSET Event /\ scan[p].parser \in Nat
        /\ Mode(p) # "append" => Token(scan[p]) \in Tokens
    BY <1>1, <1>7, CommitProjects
  <2>2. /\ head' = Target(Mode(p)) /\ head' \in Nat \X Nat
        /\ \A t \in rows' : \/ t \in rows
                            \/ /\ t.rev = Target(Mode(p))
                               /\ Plain(t) \in Added(Target(Mode(p)), scan[p].obs.events)
    BY <1>7, <2>1, ProjectIs
  <2>3. Mode(p) # "rollback"
    BY <1>3 DEF ObsOK, Mode, Projection
  <2>4. Head0[1] = 0
    BY DEF Growing
  <2>5. Head0'[1] = 0
    <3>1. Head0' = head'
      BY <2>2, NoneIs DEF Head0
    <3> QED
      BY <2>1, <2>2, <2>3, <2>4, <3>1 DEF Target
  <2>6. \A t \in rows' : Plain(t) \in EventsOf(file.bytes)
    BY <1>3, <2>2 DEF Growing, ObsOK, Firsts, Added
  <2> QED
    BY <1>1, <1>2, <1>5, <2>5, <2>6, GrowMoves DEF Rounds
<1> QED
  BY <1>2, <1>6, <1>7

(* A step that changes the state files only forgets or copies.             *)
LEMMA GrowDisk ==
  ASSUME TypeOK, Growing, NEW p \in Scanner, NEW x, StateOK(x), disk' = [disk EXCEPT ![p] = x],
         UNCHANGED <<life, file, unwritten, store>>,
         scan' = scan \/ Moves(p, Off)
  PROVE  Growing'
<1>1. FileGrows'
  BY DEF Growing, FileGrows
<1>2. ASSUME NEW q \in Scanner PROVE (StateOK(disk[q]) /\ RoundOK(scan[q]))'
  <2>1. disk'[q] = x \/ disk'[q] = disk[q]
    BY DEF TypeOK
  <2>2. scan'[q] = Off \/ scan'[q] = scan[q]
    BY ScanMoves DEF Moves
  <2>3. RoundOK(Off)
    BY DEF RoundOK, Off, AtStat, AtRead, AtCommit, AtSave
  <2>4. StateOK(disk'[q]) /\ RoundOK(scan'[q])
    BY <2>1, <2>2, <2>3 DEF Growing
  <2> QED
    BY <2>4, FileStays
<1>3. Head0' = Head0 /\ rows' = rows
  BY DEF Head0, store
<1>4. (\A t \in rows : Plain(t) \in EventsOf(file.bytes))'
  BY <1>3 DEF Growing, EventsOf, Parse
<1>5. (\A q \in Scanner : StateOK(disk[q]) /\ RoundOK(scan[q]))'
  BY <1>2
<1> QED
  BY <1>1, <1>3, <1>4, <1>5 DEF Growing

LEMMA GrowOther ==
  ASSUME TypeOK, Growing, NEW p \in Scanner,
         CommitFails(p) \/ Save(p) \/ Crash(p) \/ Forgetful(p)
  PROVE  Growing'
<1>1. CASE CommitFails(p)
  <2>1. scan[p] \in AtCommit /\ UNCHANGED <<Elsewhere, store, rewrites>>
    BY <1>1, OtherStepsAre
  <2>2. PICK r \in AtSave : Moves(p, r) /\ r.state = scan[p].state
    BY <1>1, OtherStepsAre
  <2>3. RoundOK(r)
    BY <2>1, <2>2, StepsApart DEF Growing, RoundOK
  <2> QED
    BY <2>1, <2>2, <2>3, GrowMove DEF Rounds
<1>2. CASE Save(p)
  <2>1. /\ scan[p] \in AtSave /\ UNCHANGED <<life, file, unwritten, installed, store, rewrites>>
        /\ Moves(p, Off) /\ disk' = [disk EXCEPT ![p] = scan[p].state]
    BY <1>2, OtherStepsAre
  <2>2. StateOK(scan[p].state)
    BY <2>1 DEF Growing, RoundOK
  <2> QED
    BY <2>1, <2>2, GrowDisk
<1>3. CASE Crash(p)
  <2>1. Moves(p, Off) /\ UNCHANGED <<Elsewhere, store, rewrites>>
    BY <1>3, OtherStepsAre
  <2>2. RoundOK(Off)
    BY DEF RoundOK, Off, AtStat, AtRead, AtCommit, AtSave
  <2> QED
    BY <2>1, <2>2, GrowMove DEF Rounds
<1>4. CASE Forgetful(p)
  <2>1. /\ UNCHANGED <<life, file, unwritten, installed, scan, store, rewrites>>
        /\ disk' = [disk EXCEPT ![p] = NoState]
    BY <1>4, OtherStepsAre
  <2>2. StateOK(NoState)
    BY NoneIs DEF StateOK
  <2> QED
    BY <2>1, <2>2, GrowDisk
<1> QED
  BY <1>1, <1>2, <1>3, <1>4

LEMMA RewriteCounts == ASSUME TypeOK, Rewrite PROVE rewrites' # 0
BY DEF Rewrite, TypeOK

LEMMA GrowStays ==
  ASSUME TypeOK, Growing, UNCHANGED <<life, file, unwritten, disk, scan, store>>
  PROVE  Growing'
<1>1. FileGrows'
  BY DEF Growing, FileGrows
<1>2. (\A q \in Scanner : StateOK(disk[q]) /\ RoundOK(scan[q]))'
  BY FileStays DEF Growing
<1>3. Head0' = Head0 /\ rows' = rows
  BY DEF Head0, store
<1>4. (\A t \in rows : Plain(t) \in EventsOf(file.bytes))'
  BY <1>3 DEF Growing, EventsOf, Parse
<1> QED
  BY <1>1, <1>2, <1>3, <1>4 DEF Growing

LEMMA GrowNext ==
  ASSUME NoCutCharacter, TypeOK, GrowInv, [Next]_vars
  PROVE  GrowInv'
<1> SUFFICES ASSUME rewrites' = 0 PROVE Growing'
  BY DEF GrowInv
<1>1. rewrites = 0 /\ ~Rewrite
  BY NextFields, RewriteCounts
<1>2. Growing
  BY <1>1 DEF GrowInv
<1>3. CASE UNCHANGED vars
  BY <1>2, <1>3, GrowStays DEF vars, store
<1>4. CASE Write
  BY <1>2, <1>4, GrowWrite
<1>5. CASE Upgrade
  <2>1. UNCHANGED <<life, file, unwritten, disk, scan, store>>
    BY <1>5 DEF Upgrade
  <2> QED
    BY <1>2, <2>1, GrowStays
<1>6. ASSUME NEW p \in Scanner, Round(p) \/ Stream(p) \/ Fault(p) PROVE Growing'
  <2>1. CASE Begin(p, TRUE, disk[p]) \/ Begin(p, FALSE, disk[p])
    BY <1>2, <2>1, GrowBegin
  <2>2. CASE Stat(p)
    BY <1>2, <2>2, GrowStat
  <2>3. CASE Read(p)
    BY <1>2, <2>3, GrowRead
  <2>4. CASE Unavailable(p)
    BY <1>2, <2>4, GrowUnavailable
  <2>5. CASE Commit(p)
    BY <1>2, <2>5, GrowCommit
  <2>6. CASE CommitFails(p) \/ Save(p) \/ Crash(p) \/ Forgetful(p)
    BY <1>2, <2>6, GrowOther
  <2> QED
    BY <1>6, <2>1, <2>2, <2>3, <2>4, <2>5, <2>6
    DEF Round, Stream, Fault, ShortRead, Unreadable
<1> QED
  BY <1>1, <1>3, <1>4, <1>5, <1>6 DEF Next

(* A file that was only ever appended to never gets a new source revision: *)
(* whatever crashes, fails or is forgotten, and however many scanners      *)
(* there are, none takes growth for a rewrite (Shrank, PrefixDiffers and   *)
(* the plan they lead to), unless a character is cut by the end of a read. *)
THEOREM GrowthIsNoRewriting ==
  ASSUME NoCutCharacter
  PROVE  Spec => []NoFalseRollback
<1>1. Init => GrowInv
  BY GrowInit
<1>2. TypeOK /\ GrowInv /\ [Next]_vars => GrowInv'
  BY GrowNext
<1>3. GrowInv => NoFalseRollback
  BY DEF GrowInv, Growing, NoFalseRollback
<1> QED
  BY AlwaysTyped, <1>1, <1>2, <1>3, PTL DEF Spec

-----------------------------------------------------------------------------
(* One scanner.  Then nobody else stores events between a scanner's reads  *)
(* and its commit, and what it read stays what the store lacked.           *)
OneScanner == \A p, q \in Scanner : p = q

Stored(n) == Firsts(n) \subseteq Shown
StoredState(s) == s \in State => Stored(s.cursor.seq)

StoredRound(r) ==
  /\ r \in AtStat \union AtRead \union AtCommit \union AtSave => StoredState(r.state)
  /\ r \in AtStat \union AtRead \union AtCommit => r.writes = TRUE
  /\ r \in AtStat => (r.cursor \in Cursor => Stored(r.cursor.seq))
  /\ r \in AtRead =>
       /\ Stored(r.cursor.seq)
       /\ Shown \subseteq Firsts(Counted(file.bytes, r.size))
  /\ r \in AtCommit =>
       /\ Firsts(r.obs.cursor.seq) \subseteq Shown \union r.obs.events
       /\ WantsReparse(r.reasons) /\ r.obs.hash # NoHash => Shown \subseteq Firsts(r.obs.cursor.seq)

(* Every cursor there is stands before an event the store lacks; no row    *)
(* waits in a generation that is still to be opened; a reparse that is     *)
(* remembered left all it read in the store.                               *)
Covered ==
  /\ \A t \in rows : t.rev[1] = 0 /\ t.rev[2] <= Head0[2]
  /\ \E k \in Nat : k <= Counted(file.bytes, Len(file.bytes)) /\ Shown = Firsts(k)
  /\ \A p \in Scanner : StoredState(disk[p]) /\ StoredRound(scan[p])
  /\ \A t \in tokens : t.upTo <= Len(file.bytes) /\ Stored(Counted(file.bytes, t.upTo))

CoverInv == rewrites = 0 /\ AllWrite => Covered

LEMMA HeadTyped ==
  ASSUME TypeOK
  PROVE  Head0 \in Nat \X Nat /\ Head0[1] \in Nat /\ Head0[2] \in Nat
BY DEF TypeOK, Head0

LEMMA CoverInit ==
  ASSUME NoCutCharacter, Init
  PROVE  CoverInv
<1>1. /\ \A p \in Scanner : disk[p] = NoState /\ scan[p] = Off
      /\ rows = {} /\ tokens = {}
  BY DEF Init
<1>2. TypeOK
  BY TypeInit
<1>3. Shown = Firsts(0)
  BY <1>1, <1>2, NewCursorOK DEF Shown, Current, At
<1>4. 0 \in Nat /\ 0 <= Counted(file.bytes, Len(file.bytes))
  <2>1. file.bytes \in Seq(Byte)
    BY <1>2 DEF TypeOK
  <2>2. Counted(file.bytes, Len(file.bytes)) \in Nat
    BY <2>1, CountsAre
  <2> QED
    BY <2>2
<1>5. ASSUME NEW p \in Scanner PROVE StoredState(disk[p]) /\ StoredRound(scan[p])
  <2>1. scan[p] \notin AtStat \union AtRead \union AtCommit \union AtSave
    BY <1>1 DEF Off, AtStat, AtRead, AtCommit, AtSave
  <2> QED
    BY <1>1, <2>1, NoneIs DEF StoredState, StoredRound
<1> QED
  BY <1>1, <1>3, <1>4, <1>5 DEF CoverInv, Covered

LEMMA ShownStays ==
  ASSUME UNCHANGED <<file, store>>
  PROVE  /\ Shown' = Shown /\ Head0' = Head0
         /\ \A n : Firsts(n)' = Firsts(n)
         /\ \A n : Counted(file.bytes, n)' = Counted(file.bytes, n)
BY DEF store, Shown, Current, At, Head0, Firsts, EventsOf, Parse, Counted, GoodEnds, TextAt, Newlines

LEMMA CoversStay ==
  ASSUME UNCHANGED <<file, store>>, NEW x
  PROVE  /\ StoredRound(x) => StoredRound(x)'
         /\ StoredState(x) => StoredState(x)'
BY ShownStays DEF StoredRound, StoredState, Stored

(* A step that leaves file and store as they are.                          *)
LEMMA CoverMove ==
  ASSUME TypeOK, Covered, UNCHANGED <<file, store>>,
         \A p \in Scanner : StoredState(disk'[p]) /\ StoredRound(scan'[p])
  PROVE  Covered'
<1>1. ASSUME NEW p \in Scanner PROVE (StoredState(disk[p]) /\ StoredRound(scan[p]))'
  <2>1. PICK x, y : x = disk'[p] /\ y = scan'[p]
    OBVIOUS
  <2>2. StoredState(x)' /\ StoredRound(y)'
    BY <2>1, CoversStay
  <2> QED
    BY <2>1, <2>2 DEF StoredState, StoredRound, Stored
<1>2. (\A p \in Scanner : StoredState(disk[p]) /\ StoredRound(scan[p]))'
  BY <1>1
<1>3. rows' = rows /\ tokens' = tokens /\ file' = file
  BY DEF store
<1>4. (\A t \in rows : t.rev[1] = 0 /\ t.rev[2] <= Head0[2])'
  BY <1>3, ShownStays DEF Covered
<1>5. (\E k \in Nat : k <= Counted(file.bytes, Len(file.bytes)) /\ Shown = Firsts(k))'
  BY <1>3, ShownStays DEF Covered
<1>6. (\A t \in tokens : t.upTo <= Len(file.bytes) /\ Stored(Counted(file.bytes, t.upTo)))'
  <2> SUFFICES ASSUME NEW t \in tokens
               PROVE  (t.upTo <= Len(file.bytes) /\ Stored(Counted(file.bytes, t.upTo)))'
    BY <1>3
  <2>1. t.upTo <= Len(file.bytes) /\ Stored(Counted(file.bytes, t.upTo))
    BY DEF Covered
  <2> QED
    BY <1>3, <2>1, ShownStays DEF Stored
<1> QED
  BY <1>2, <1>4, <1>5, <1>6 DEF Covered

LEMMA CoverRound ==
  ASSUME TypeOK, Covered, NEW p \in Scanner, NEW r \in Rounds, Moves(p, r), StoredRound(r),
         UNCHANGED <<Elsewhere, store>>
  PROVE  Covered'
<1>1. UNCHANGED <<file, disk>>
  BY DEF Elsewhere
<1>2. ASSUME NEW q \in Scanner PROVE StoredState(disk'[q]) /\ StoredRound(scan'[q])
  <2>1. scan'[q] = r \/ scan'[q] = scan[q]
    BY ScanMoves DEF Moves
  <2> QED
    BY <1>1, <2>1 DEF Covered
<1> QED
  BY <1>1, <1>2, CoverMove

LEMMA CoverBegin ==
  ASSUME TypeOK, Covered, NEW p \in Scanner, Begin(p, TRUE, disk[p])
  PROVE  Covered'
<1>1. PICK r \in AtStat :
        /\ Moves(p, r) /\ UNCHANGED <<Elsewhere, store, rewrites, faults>>
        /\ r.writes = TRUE /\ r.state = disk[p]
        /\ \/ r.cursor = NoCursor
           \/ disk[p] \in State /\ r.cursor = disk[p].cursor /\ ~WantsReparse(r.reasons)
  BY BeginIs
<1>2. StoredState(disk[p])
  BY DEF Covered
<1>3. r.cursor \in Cursor => Stored(r.cursor.seq)
  BY <1>1, <1>2, NoneIs DEF StoredState
<1>4. StoredRound(r)
  BY <1>1, <1>2, <1>3, StepsApart DEF StoredRound
<1> QED
  BY <1>1, <1>4, CoverRound DEF Rounds

LEMMA NothingStored ==
  ASSUME TypeOK
  PROVE  Stored(NewCursor.seq)
BY NewCursorOK, NoneIs DEF Stored

LEMMA CoverStat ==
  ASSUME TypeOK, Growing, Covered, NEW p \in Scanner, Stat(p)
  PROVE  Covered'
<1>1. /\ scan[p] \in AtStat /\ Resumed(p) \in Cursor
      /\ UNCHANGED <<Elsewhere, store, rewrites, faults>>
  BY StatIs
<1>2. PICK r \in AtCommit \union AtRead, from \in Cursor :
        /\ Moves(p, r) /\ SameRound(r, scan[p])
        /\ from = IF Shrank(Resumed(p)) THEN NewCursor ELSE Resumed(p)
        /\ r \in AtCommit =>
             /\ r.obs.change = IF Shrank(Resumed(p)) THEN "rewritten" ELSE "appended"
             /\ r.obs.events = {} /\ r.obs.hash = NoHash
             /\ r.obs.cursor.offset = from.offset /\ r.obs.cursor.seq = from.seq
             /\ r.obs.cursor.mtime = file.mtime
        /\ r \in AtRead =>
             /\ r.change = IF Shrank(Resumed(p)) THEN "rewritten" ELSE "appended"
             /\ r.hash = scan[p].hash /\ r.cursor = from
             /\ r.oneShot = (scan[p].cursor = NoCursor)
             /\ r.size = Len(file.bytes) /\ r.mtime = file.mtime
             /\ from.offset < r.size
  BY StatIs
<1>3. StoredRound(scan[p]) /\ scan[p].cursor \in Cursor \union {NoCursor}
  BY <1>1 DEF Covered, AtStat
<1>4. Stored(from.seq)
  <2>1. CASE scan[p].cursor = NoCursor
    BY <1>2, <2>1, NothingStored, ResumeIs DEF Resumed
  <2>2. CASE scan[p].cursor # NoCursor
    <3>1. Resumed(p) = scan[p].cursor /\ Stored(scan[p].cursor.seq)
      BY <1>1, <1>3, <2>2, ResumeIs DEF Resumed, StoredRound
    <3> QED
      BY <1>2, <3>1, NothingStored
  <2> QED
    BY <2>1, <2>2
<1>5. Shown \subseteq Firsts(Counted(file.bytes, Len(file.bytes)))
  <2>1. PICK k \in Nat : k <= Counted(file.bytes, Len(file.bytes)) /\ Shown = Firsts(k)
    BY DEF Covered
  <2>2. file.bytes \in Seq(Byte)
    BY DEF TypeOK
  <2>3. \A e \in EventsOf(file.bytes) : e.seq < Counted(file.bytes, Len(file.bytes))
    BY <2>2, EventsAre
  <2> QED
    BY <2>1, <2>3 DEF Firsts
<1>6. r.writes = TRUE /\ StoredState(r.state)
  BY <1>1, <1>2, <1>3 DEF SameRound, StoredRound
<1>7. r \in AtRead =>
        Stored(r.cursor.seq) /\ Shown \subseteq Firsts(Counted(file.bytes, r.size))
  BY <1>2, <1>4, <1>5
<1>8. r \in AtCommit =>
        /\ Firsts(r.obs.cursor.seq) \subseteq Shown \union r.obs.events
        /\ r.obs.hash = NoHash
  BY <1>2, <1>4 DEF Stored
<1>9. StoredRound(r)
  BY <1>2, <1>6, <1>7, <1>8, StepsApart DEF StoredRound
<1> QED
  BY <1>1, <1>2, <1>9, CoverRound DEF Rounds

LEMMA CoverRead ==
  ASSUME TypeOK, Growing, Covered, NEW p \in Scanner, Read(p)
  PROVE  Covered'
<1>1. /\ scan[p] \in AtRead /\ scan[p].size <= Len(file.bytes) /\ Got(p) \in Seq(Byte)
      /\ UNCHANGED <<Elsewhere, store, rewrites, faults>>
  BY ReadIs
<1>2. PICK r \in AtCommit :
        /\ Moves(p, r) /\ SameRound(r, scan[p])
        /\ r.obs.hash = IF scan[p].cursor.offset = 0 THEN [bytes |-> Got(p)] ELSE NoHash
        /\ \/ /\ ~scan[p].oneShot
              /\ r.obs.events = {} /\ r.obs.quality = "poison"
              /\ r.obs.cursor.offset = scan[p].cursor.offset
              /\ r.obs.cursor.seq = scan[p].cursor.seq
           \/ /\ r.obs.events = Parse(Got(p), scan[p].cursor.seq)
              /\ r.obs.cursor.offset = (scan[p].size - Pending(Got(p))) % Word
              /\ r.obs.cursor.seq = scan[p].cursor.seq + Cardinality(r.obs.events)
  BY ReadIs
<1>3. PICK f \in Seq(Byte), o \in Nat, n \in Nat :
        f = file.bytes /\ o = scan[p].cursor.offset /\ n = scan[p].size
  BY <1>1 DEF TypeOK, AtRead, Cursor
<1>4. ReadOK(scan[p]) /\ FileGrows /\ StoredRound(scan[p])
  BY <1>1 DEF Growing, RoundOK, Covered
<1>5. /\ o < n /\ n <= Len(f) /\ Len(f) \in Nat
      /\ AtBoundary(f, o) /\ scan[p].cursor.seq = Counted(f, o)
      /\ Stored(Counted(f, o)) /\ Shown \subseteq Firsts(Counted(f, n))
      /\ WantsReparse(scan[p].reasons) => scan[p].oneShot
  BY <1>1, <1>3, <1>4 DEF ReadOK, CursorOK, StoredRound
<1>6. r.writes = TRUE /\ StoredState(r.state)
  BY <1>1, <1>2, <1>4 DEF SameRound, StoredRound
<1>7. /\ Firsts(r.obs.cursor.seq) \subseteq Shown \union r.obs.events
      /\ WantsReparse(r.reasons) => Shown \subseteq Firsts(r.obs.cursor.seq)
  <2>1. CASE /\ ~scan[p].oneShot /\ r.obs.cursor.seq = scan[p].cursor.seq
    BY <1>2, <1>5, <2>1 DEF Stored, SameRound
  <2>2. CASE /\ r.obs.events = Parse(Got(p), scan[p].cursor.seq)
             /\ r.obs.cursor.seq = scan[p].cursor.seq + Cardinality(r.obs.events)
    <3>1. n \in 1..Len(f) /\ f[n] \notin Lead
      <4>1. Len(life.start) \in Nat
        BY ScanAssumption DEF TypeOK
      <4>2. n \in 1..Len(f) /\ n >= Len(life.start)
        BY <1>3, <1>4, <1>5, <4>1 DEF ReadOK
      <4> QED
        BY <1>3, <1>4, <4>2 DEF FileGrows
    <3>2. PICK m : m = n - Pending(Piece(f, o, n))
      OBVIOUS
    <3>3. /\ Counted(f, m) = Counted(f, n)
          /\ Parse(Piece(f, o, n), Counted(f, o)) = Slice(f, Counted(f, o), Counted(f, m))
          /\ Counted(f, o) + Cardinality(Parse(Piece(f, o, n), Counted(f, o))) = Counted(f, m)
      BY <1>5, <3>1, <3>2, ReadsEvents
    <3>4. Got(p) = Piece(f, o, n)
      BY <1>3 DEF Got
    <3>5. r.obs.cursor.seq = Counted(f, n) /\ r.obs.events = Slice(f, Counted(f, o), Counted(f, n))
      BY <1>5, <2>2, <3>3, <3>4
    <3>6. \A e \in EventsOf(f) : e.seq < Counted(f, o) \/ Counted(f, o) <= e.seq
      BY EventsAre, CountsAre
    <3>7. Firsts(Counted(f, n)) \subseteq Firsts(Counted(f, o)) \union r.obs.events
      BY <1>3, <3>5, <3>6 DEF Firsts, Slice
    <3> QED
      BY <1>5, <3>5, <3>7 DEF Stored
  <2> QED
    BY <1>2, <2>1, <2>2
<1>8. StoredRound(r)
  BY <1>6, <1>7, StepsApart DEF StoredRound
<1> QED
  BY <1>1, <1>2, <1>8, CoverRound DEF Rounds

LEMMA CoverUnavailable ==
  ASSUME TypeOK, Covered, NEW p \in Scanner, Unavailable(p)
  PROVE  Covered'
<1>1. scan[p] \in AtStat \union AtRead /\ UNCHANGED <<Elsewhere, store, rewrites>>
  BY UnavailableIs
<1>2. PICK r \in AtCommit :
        /\ Moves(p, r) /\ SameRound(r, scan[p])
        /\ r.obs.events = {} /\ r.obs.hash = NoHash
        /\ scan[p] \in AtStat => r.obs.cursor = Resume(scan[p].cursor)
        /\ scan[p] \in AtRead => r.obs.cursor = scan[p].cursor
  BY UnavailableIs
<1>3. StoredRound(scan[p])
  BY DEF Covered
<1>4. Stored(r.obs.cursor.seq)
  <2>1. CASE scan[p] \in AtRead
    BY <1>2, <1>3, <2>1 DEF StoredRound
  <2>2. CASE scan[p] \in AtStat
    <3>1. scan[p].cursor \in Cursor \union {NoCursor}
      BY <2>2 DEF AtStat
    <3>2. CASE scan[p].cursor = NoCursor
      BY <1>2, <2>2, <3>1, <3>2, ResumeIs, NothingStored
    <3>3. CASE scan[p].cursor # NoCursor
      BY <1>2, <1>3, <2>2, <3>1, <3>3, ResumeIs DEF StoredRound
    <3> QED
      BY <3>2, <3>3
  <2> QED
    BY <1>1, <2>1, <2>2
<1>5. r.writes = TRUE /\ StoredState(r.state)
  BY <1>1, <1>2, <1>3 DEF SameRound, StoredRound
<1>6. StoredRound(r)
  BY <1>2, <1>4, <1>5, StepsApart DEF StoredRound, Stored
<1> QED
  BY <1>1, <1>2, <1>6, CoverRound DEF Rounds

LEMMA CoverOther ==
  ASSUME TypeOK, Covered, NEW p \in Scanner,
         CommitFails(p) \/ Save(p) \/ Crash(p) \/ Forgetful(p)
  PROVE  Covered'
<1>0. StoredRound(Off) /\ StoredState(NoState) /\ Off \in Rounds
  BY NoneIs DEF StoredRound, StoredState, Rounds, Off, AtStat, AtRead, AtCommit, AtSave
<1>1. CASE CommitFails(p)
  <2>1. scan[p] \in AtCommit /\ UNCHANGED <<Elsewhere, store, rewrites>>
    BY <1>1, OtherStepsAre
  <2>2. PICK r \in AtSave : Moves(p, r) /\ r.state = scan[p].state
    BY <1>1, OtherStepsAre
  <2>3. StoredRound(r)
    BY <2>1, <2>2, StepsApart DEF Covered, StoredRound
  <2> QED
    BY <2>1, <2>2, <2>3, CoverRound DEF Rounds
<1>2. CASE Crash(p)
  BY <1>0, <1>2, OtherStepsAre, CoverRound
<1>3. CASE Save(p)
  <2>1. /\ scan[p] \in AtSave /\ UNCHANGED <<life, file, unwritten, installed, store, rewrites>>
        /\ Moves(p, Off) /\ disk' = [disk EXCEPT ![p] = scan[p].state]
    BY <1>3, OtherStepsAre
  <2>2. StoredState(scan[p].state)
    BY <2>1 DEF Covered, StoredRound
  <2>3. ASSUME NEW q \in Scanner PROVE StoredState(disk'[q]) /\ StoredRound(scan'[q])
    <3>1. disk'[q] = scan[p].state \/ disk'[q] = disk[q]
      BY <2>1 DEF TypeOK
    <3>2. scan'[q] = Off \/ scan'[q] = scan[q]
      BY <2>1, ScanMoves DEF Moves
    <3> QED
      BY <1>0, <2>2, <3>1, <3>2 DEF Covered
  <2> QED
    BY <2>1, <2>3, CoverMove
<1>4. CASE Forgetful(p)
  <2>1. /\ UNCHANGED <<life, file, unwritten, installed, scan, store, rewrites>>
        /\ disk' = [disk EXCEPT ![p] = NoState]
    BY <1>4, OtherStepsAre
  <2>2. ASSUME NEW q \in Scanner PROVE StoredState(disk'[q]) /\ StoredRound(scan'[q])
    <3>1. disk'[q] = NoState \/ disk'[q] = disk[q]
      BY <2>1 DEF TypeOK
    <3> QED
      BY <1>0, <2>1, <3>1 DEF Covered
  <2> QED
    BY <2>1, <2>2, CoverMove
<1> QED
  BY <1>1, <1>2, <1>3, <1>4

(* What is stored stays stored when the file grows.                        *)
LEMMA StoredStays ==
  ASSUME TypeOK, FileGrew, UNCHANGED store, NEW n \in Nat,
         n <= Counted(file.bytes, Len(file.bytes))
  PROVE  Firsts(n)' = Firsts(n) /\ Shown' = Shown /\ (Stored(n) => Stored(n)')
<1>1. Firsts(n)' = Firsts(n)
  BY FirstsStay
<1>2. Shown' = Shown
  BY DEF store, Shown, Current, At, Head0
<1> QED
  BY <1>1, <1>2 DEF Stored

LEMMA CursorStored ==
  ASSUME TypeOK, FileGrew, UNCHANGED store, NEW c \in Cursor, CursorOK(c), Stored(c.seq)
  PROVE  Stored(c.seq)'
<1>1. PICK n \in Nat : n = c.seq
  BY DEF Cursor
<1>2. n <= Counted(file.bytes, Len(file.bytes))
  BY <1>1, CursorStays
<1>3. Stored(n)'
  BY <1>1, <1>2, StoredStays
<1> QED
  BY <1>1, <1>3 DEF Stored

LEMMA StateStored ==
  ASSUME TypeOK, FileGrew, UNCHANGED store, NEW s, StateOK(s), StoredState(s)
  PROVE  StoredState(s)'
<1>1. CASE s \in State
  <2>1. s.cursor \in Cursor /\ CursorOK(s.cursor) /\ Stored(s.cursor.seq)
    BY <1>1 DEF State, StateOK, StoredState
  <2>2. Stored(s.cursor.seq)'
    BY <2>1, CursorStored
  <2> QED
    BY <2>2 DEF StoredState
<1>2. CASE s \notin State
  BY <1>2 DEF StoredState
<1> QED
  BY <1>1, <1>2

LEMMA RoundStored ==
  ASSUME TypeOK, FileGrew, UNCHANGED store, NEW r, RoundOK(r), StoredRound(r)
  PROVE  StoredRound(r)'
<1>1. (r \in AtStat \union AtRead \union AtCommit \union AtSave => StoredState(r.state))'
  BY StateStored DEF RoundOK, StoredRound
<1>2. (r \in AtStat => (r.cursor \in Cursor => Stored(r.cursor.seq)))'
  BY CursorStored DEF RoundOK, StoredRound
<1>3. (r \in AtRead => /\ Stored(r.cursor.seq)
                       /\ Shown \subseteq Firsts(Counted(file.bytes, r.size)))'
  <2> SUFFICES ASSUME r \in AtRead
               PROVE  /\ Stored(r.cursor.seq)'
                      /\ (Shown \subseteq Firsts(Counted(file.bytes, r.size)))'
    OBVIOUS
  <2>1. /\ ReadOK(r) /\ r.cursor \in Cursor /\ r.size \in Nat
        /\ Stored(r.cursor.seq) /\ Shown \subseteq Firsts(Counted(file.bytes, r.size))
    BY DEF RoundOK, StoredRound, AtRead
  <2>2. Stored(r.cursor.seq)'
    BY <2>1, CursorStored DEF ReadOK
  <2>3. /\ file.bytes \in Seq(Byte) /\ file'.bytes \in Seq(Byte) /\ Prefix(file.bytes, file'.bytes)
        /\ r.size <= Len(file.bytes)
    BY <2>1 DEF TypeOK, FileGrew, ReadOK
  <2>4. Counted(file.bytes, r.size) = Counted(file'.bytes, r.size)
    BY <2>1, <2>3, PrefixKeepsLines
  <2>5. PICK n \in Nat : n = Counted(file.bytes, r.size)
    BY <2>3, CountsAre
  <2>6. n <= Counted(file.bytes, Len(file.bytes))
    <3>1. Len(file.bytes) \in Nat
      BY <2>3
    <3> QED
      BY <2>1, <2>3, <2>5, <3>1, CountsGrow
  <2>7. Firsts(n)' = Firsts(n) /\ Shown' = Shown
    BY <2>6, StoredStays
  <2>8. Counted(file.bytes, r.size)' = n
    BY <2>4, <2>5 DEF Counted, GoodEnds, Newlines, TextAt
  <2>9. Firsts(Counted(file.bytes, r.size))' = Firsts(n)'
    BY <2>8 DEF Firsts
  <2> QED
    BY <2>1, <2>2, <2>5, <2>7, <2>9
<1>4. (r \in AtCommit =>
         /\ Firsts(r.obs.cursor.seq) \subseteq Shown \union r.obs.events
         /\ WantsReparse(r.reasons) /\ r.obs.hash # NoHash => Shown \subseteq Firsts(r.obs.cursor.seq))'
  <2> SUFFICES ASSUME r \in AtCommit
               PROVE  (/\ Firsts(r.obs.cursor.seq) \subseteq Shown \union r.obs.events
                       /\ WantsReparse(r.reasons) /\ r.obs.hash # NoHash =>
                            Shown \subseteq Firsts(r.obs.cursor.seq))'
    OBVIOUS
  <2>1. ObsOK(r) /\ r.obs.cursor \in Cursor
    BY DEF RoundOK, AtCommit, Obs
  <2>2. PICK n \in Nat : n = r.obs.cursor.seq
    BY <2>1 DEF Cursor
  <2>3. n <= Counted(file.bytes, Len(file.bytes))
    BY <2>1, <2>2, CursorStays DEF ObsOK
  <2>4. Firsts(n)' = Firsts(n) /\ Shown' = Shown
    BY <2>3, StoredStays
  <2>5. Firsts(r.obs.cursor.seq)' = Firsts(n)'
    BY <2>2 DEF Firsts
  <2> QED
    BY <2>2, <2>4, <2>5 DEF StoredRound
<1> QED
  BY <1>1, <1>2, <1>3, <1>4 DEF StoredRound

LEMMA CoverWrite ==
  ASSUME NoCutCharacter, TypeOK, Growing, Covered, Write
  PROVE  Covered'
<1>1. FileGrew /\ UNCHANGED <<disk, scan, store>>
  BY WriteGrows, WriteIs
<1>2. PICK f \in Seq(Byte), h \in Seq(Byte) : f = file.bytes /\ h = file'.bytes
  BY <1>1 DEF FileGrew, TypeOK
<1>3. Prefix(f, h) /\ Len(f) \in Nat /\ Len(h) \in Nat /\ Len(f) <= Len(h)
  BY <1>1, <1>2 DEF FileGrew, Prefix
<1>4. Counted(f, Len(f)) <= Counted(h, Len(h))
  <2>1. Counted(f, Len(f)) = Counted(h, Len(f))
    BY <1>3, PrefixKeepsLines
  <2>2. Counted(h, Len(f)) <= Counted(h, Len(h))
    BY <1>3, CountsGrow
  <2> QED
    BY <2>1, <2>2
<1>5. (\A t \in rows : t.rev[1] = 0 /\ t.rev[2] <= Head0[2])'
  BY <1>1 DEF Covered, store, Head0
<1>6. (\E k \in Nat : k <= Counted(file.bytes, Len(file.bytes)) /\ Shown = Firsts(k))'
  <2>1. PICK k \in Nat : k <= Counted(f, Len(f)) /\ Shown = Firsts(k)
    BY <1>2 DEF Covered
  <2>2. Firsts(k)' = Firsts(k) /\ Shown' = Shown
    BY <1>1, <1>2, <2>1, StoredStays
  <2>3. Counted(f, Len(f)) \in Nat /\ Counted(h, Len(h)) \in Nat
    BY CountsAre
  <2>4. k <= Counted(h, Len(h))
    BY <1>4, <2>1, <2>3
  <2>5. Counted(file.bytes, Len(file.bytes))' = Counted(h, Len(h))
    BY <1>2 DEF Counted, GoodEnds, Newlines, TextAt
  <2> QED
    BY <2>1, <2>2, <2>4, <2>5
<1>7. ASSUME NEW p \in Scanner PROVE (StoredState(disk[p]) /\ StoredRound(scan[p]))'
  <2>1. PICK x, y : x = disk[p] /\ y = scan[p]
    OBVIOUS
  <2>2. StateOK(x) /\ RoundOK(y) /\ StoredState(x) /\ StoredRound(y)
    BY <2>1 DEF Growing, Covered
  <2>3. StoredState(x)' /\ StoredRound(y)'
    BY <1>1, <2>2, StateStored, RoundStored
  <2>4. x = disk'[p] /\ y = scan'[p]
    BY <1>1, <2>1
  <2> QED
    BY <2>3, <2>4 DEF StoredState, StoredRound, Stored
<1>8. (\A p \in Scanner : StoredState(disk[p]) /\ StoredRound(scan[p]))'
  BY <1>7
<1>9. (\A t \in tokens : t.upTo <= Len(file.bytes) /\ Stored(Counted(file.bytes, t.upTo)))'
  <2> SUFFICES ASSUME NEW t \in tokens
               PROVE  (t.upTo <= Len(file.bytes) /\ Stored(Counted(file.bytes, t.upTo)))'
    BY <1>1 DEF store
  <2>1. t.upTo \in Nat /\ t.upTo <= Len(f) /\ Stored(Counted(f, t.upTo))
    BY <1>2 DEF Covered, TypeOK
  <2>2. PICK n \in Nat : n = Counted(f, t.upTo)
    BY CountsAre
  <2>3. n <= Counted(f, Len(f))
    BY <1>3, <2>1, <2>2, CountsGrow
  <2>4. Stored(n)'
    BY <1>1, <1>2, <2>1, <2>2, <2>3, StoredStays
  <2>5. Counted(h, t.upTo) = n
    BY <1>3, <2>1, <2>2, PrefixKeepsLines
  <2>6. Stored(Counted(file.bytes, t.upTo))'
    BY <1>2, <2>4, <2>5 DEF Stored, Firsts, Counted, GoodEnds, Newlines, TextAt
  <2> QED
    BY <1>2, <1>3, <2>1, <2>6
<1> QED
  BY <1>5, <1>6, <1>8, <1>9 DEF Covered

(* An append shows what was read besides what was shown; a reparse opens a *)
(* generation that has no row yet and shows what was read.                 *)
LEMMA ProjectShows ==
  ASSUME TypeOK, NEW p \in Scanner, scan[p] \in AtCommit, ~Refused(Mode(p), scan[p].obs),
         Mode(p) # "rollback",
         Project(Mode(p), Token(scan[p]), scan[p].obs.events, scan[p].parser),
         Head0[1] = 0, \A t \in rows : t.rev[1] = 0 /\ t.rev[2] <= Head0[2],
         Shown \subseteq EventsOf(file.bytes), scan[p].obs.events \subseteq EventsOf(file.bytes)
  PROVE  \/ Mode(p) = "reparse" /\ Token(scan[p]) \in tokens /\ UNCHANGED store
         \/ /\ \A t \in rows' : t.rev[1] = 0 /\ t.rev[2] <= Head0'[2]
            /\ \/ /\ Mode(p) = "append" /\ tokens' = tokens
                  /\ Shown' = Shown \union scan[p].obs.events
               \/ /\ Mode(p) = "reparse" /\ tokens' = tokens \union {Token(scan[p])}
                  /\ Shown' = scan[p].obs.events
<1> DEFINE v == Target(Mode(p))
           events == scan[p].obs.events
<1>1. /\ Mode(p) \in {"append", "reparse"} /\ events \in SUBSET Event
      /\ scan[p].parser \in Nat
      /\ Mode(p) # "append" => Token(scan[p]) \in Tokens
  BY CommitProjects
<1>2. Head0 \in Nat \X Nat /\ Head0[1] \in Nat /\ Head0[2] \in Nat
  BY HeadTyped
<1>3. CASE Mode(p) # "append" /\ Token(scan[p]) \in tokens /\ UNCHANGED store
  BY <1>1, <1>3
<1>4. CASE /\ head' = v /\ head' \in Nat \X Nat
           /\ tokens' = IF Mode(p) = "append" THEN tokens ELSE tokens \union {Token(scan[p])}
           /\ \A r \in rows' : r \in rows \/ (r.rev = v /\ Plain(r) \in Added(v, events))
           /\ \A e \in Added(v, events) : \E r \in rows' : r.rev = v /\ Plain(r) = e
           /\ Mode(p) = "append" => rows \subseteq rows'
  <2>1. Head0' = v
    BY <1>4, NoneIs DEF Head0
  <2>2. Shown' = {Plain(r) : r \in {t \in rows' : t.rev = v}}
    BY <2>1 DEF Shown, Current, At, Plain
  <2>3. Shown = {Plain(r) : r \in {t \in rows : t.rev = Head0}}
    BY DEF Shown, Current, At, Plain
  <2>4. CASE Mode(p) = "append"
    <3>1. v = Head0
      BY <2>4 DEF Target
    <3>2. Added(v, events) = {e \in events : \A r \in rows : r.rev = Head0 => r.seq # e.seq}
      BY <3>1 DEF Added, At
    <3> HIDE DEF v
    <3>3. Shown' \subseteq Shown \union events
      BY <1>4, <2>2, <2>3, <3>1, <3>2
    <3>4. Shown \subseteq Shown'
      BY <1>4, <2>2, <2>3, <2>4, <3>1
    <3>5. ASSUME NEW e \in events PROVE e \in Shown'
      <4>1. CASE e \in Added(v, events)
        BY <1>4, <2>2, <4>1
      <4>2. CASE e \notin Added(v, events)
        <5>1. PICK r \in rows : r.rev = Head0 /\ r.seq = e.seq
          BY <3>2, <3>5, <4>2
        <5>2. Plain(r) \in Shown /\ Plain(r).seq = e.seq
          BY <2>3, <5>1 DEF Plain
        <5>3. file.bytes \in Seq(Byte)
          BY DEF TypeOK
        <5>4. Plain(r) = e
          BY <3>5, <5>2, <5>3, EventsAre
        <5> QED
          BY <3>4, <5>2, <5>4
      <4> QED
        BY <4>1, <4>2
    <3>6. \A t \in rows' : t.rev[1] = 0 /\ t.rev[2] <= Head0'[2]
      BY <1>2, <1>4, <2>1, <3>1
    <3>7. Shown' = Shown \union events
      BY <3>3, <3>4, <3>5
    <3> QED
      BY <1>4, <2>4, <3>6, <3>7
  <2>5. CASE Mode(p) = "reparse"
    <3>1. v = <<Head0[1], Head0[2] + 1>> /\ v[1] = 0 /\ v[2] = Head0[2] + 1
      BY <2>5 DEF Target
    <3> HIDE DEF v
    <3>2. \A t \in rows : t.rev # v
      BY <1>2, <3>1
    <3>3. Added(v, events) = events
      BY <3>2 DEF Added, At
    <3>4. \A r \in rows' : r.rev = v => Plain(r) \in events
      BY <1>4, <3>2, <3>3
    <3>5. \A e \in events : \E r \in rows' : r.rev = v /\ Plain(r) = e
      BY <1>4, <3>3
    <3>6. Shown' = events
      BY <2>2, <3>4, <3>5
    <3>7. \A t \in rows' : t.rev[1] = 0 /\ t.rev[2] <= Head0'[2]
      <4> SUFFICES ASSUME NEW t \in rows' PROVE t.rev[1] = 0 /\ t.rev[2] <= Head0'[2]
        OBVIOUS
      <4>1. CASE t \in rows
        <5>1. t.rev \in Nat \X Nat
          BY <4>1 DEF TypeOK
        <5>2. t.rev[2] \in Nat /\ t.rev[1] = 0 /\ t.rev[2] <= Head0[2]
          BY <4>1, <5>1
        <5> QED
          BY <1>2, <2>1, <3>1, <5>2
      <4>2. CASE t.rev = v
        BY <1>2, <2>1, <3>1, <4>2
      <4> QED
        BY <1>4, <4>1, <4>2
    <3> QED
      BY <1>4, <2>5, <3>6, <3>7
  <2> QED
    BY <1>1, <2>4, <2>5
<1>5. PICK mode, token : mode = Mode(p) /\ token = Token(scan[p])
  OBVIOUS
<1>6. PICK got \in SUBSET Event, parser \in Nat : got = events /\ parser = scan[p].parser
  BY <1>1
<1>7. Project(mode, token, got, parser)
  BY <1>5, <1>6
<1>8. mode \in {"append", "rollback", "reparse"} /\ (mode # "append" => token \in Tokens)
  BY <1>1, <1>5
<1>9. \/ mode # "append" /\ token \in tokens /\ UNCHANGED store
      \/ /\ head' = Target(mode) /\ head' \in Nat \X Nat
         /\ tokens' = IF mode = "append" THEN tokens ELSE tokens \union {token}
         /\ \A r \in rows' : \/ r \in rows
                             \/ r.rev = Target(mode) /\ Plain(r) \in Added(Target(mode), got)
         /\ \A e \in Added(Target(mode), got) :
              \E r \in rows' : r.rev = Target(mode) /\ Plain(r) = e
         /\ mode = "append" => rows \subseteq rows'
  BY <1>7, <1>8, ProjectIs
<1> QED
  BY <1>3, <1>4, <1>5, <1>6, <1>9

LEMMA FirstsMerge ==
  ASSUME TypeOK, NEW k \in Nat, NEW z \in Nat
  PROVE  \E m \in Nat : m \in {k, z} /\ Firsts(k) \union Firsts(z) = Firsts(m)
<1>1. \A e \in EventsOf(file.bytes) : e.seq \in Nat
  BY EventsAre DEF TypeOK
<1>2. CASE k <= z
  BY <1>1, <1>2 DEF Firsts
<1>3. CASE ~(k <= z)
  BY <1>1, <1>3 DEF Firsts
<1> QED
  BY <1>2, <1>3

LEMMA CoverCommit ==
  ASSUME TypeOK, Growing, Covered, OneScanner, NEW p \in Scanner, Commit(p)
  PROVE  Covered'
<1>1. scan[p] \in AtCommit /\ UNCHANGED <<Elsewhere, rewrites, faults>>
  BY CommitIs
<1>2. PICK r \in AtSave :
        /\ Moves(p, r)
        /\ \/ UNCHANGED store /\ ~scan[p].writes /\ r.state = NextState(scan[p])
           \/ UNCHANGED store /\ r.state = scan[p].state
           \/ /\ r.state = NextState(scan[p])
              /\ ~Refused(Mode(p), scan[p].obs)
              /\ Project(Mode(p), Token(scan[p]), scan[p].obs.events, scan[p].parser)
  BY CommitIs
<1>3. ObsOK(scan[p]) /\ StoredRound(scan[p]) /\ scan[p].obs \in Obs
  BY <1>1 DEF Growing, RoundOK, Covered, AtCommit
<1>4. PICK z \in Nat : z = scan[p].obs.cursor.seq
  BY <1>3 DEF Obs, Cursor
<1>5. PICK o \in Nat : o = scan[p].obs.cursor.offset
  BY <1>3 DEF Obs, Cursor
<1>6. PICK f \in Seq(Byte) : f = file.bytes
  BY DEF TypeOK
<1>7. /\ o <= Len(f) /\ z = Counted(f, o) /\ Len(f) \in Nat /\ z <= Counted(f, Len(f))
      /\ Token(scan[p]).upTo = o
  BY <1>3, <1>4, <1>5, <1>6, CountsGrow DEF ObsOK, CursorOK, Token
<1>8. NextState(scan[p]).cursor.seq = z
  BY <1>1, <1>4, NextStateIs
<1>9. CASE UNCHANGED store /\ ~scan[p].writes
  BY <1>1, <1>3, <1>9 DEF StoredRound
<1>10. CASE UNCHANGED store /\ r.state = scan[p].state
  <2>1. StoredRound(r)
    BY <1>1, <1>3, <1>10, StepsApart DEF StoredRound
  <2> QED
    BY <1>1, <1>2, <1>10, <2>1, CoverRound DEF Rounds
<1>11. CASE /\ r.state = NextState(scan[p])
            /\ ~Refused(Mode(p), scan[p].obs)
            /\ Project(Mode(p), Token(scan[p]), scan[p].obs.events, scan[p].parser)
  <2>1. PICK k \in Nat : k <= Counted(f, Len(f)) /\ Shown = Firsts(k)
    BY <1>6 DEF Covered
  <2>2. /\ Mode(p) # "rollback" /\ Head0[1] = 0
        /\ \A t \in rows : t.rev[1] = 0 /\ t.rev[2] <= Head0[2]
        /\ Shown \subseteq EventsOf(file.bytes) /\ scan[p].obs.events \subseteq EventsOf(file.bytes)
    BY <1>3, <2>1 DEF ObsOK, Mode, Projection, Growing, Covered, Firsts
  <2>3. \/ Mode(p) = "reparse" /\ Token(scan[p]) \in tokens /\ UNCHANGED store
        \/ /\ \A t \in rows' : t.rev[1] = 0 /\ t.rev[2] <= Head0'[2]
           /\ \/ /\ Mode(p) = "append" /\ tokens' = tokens
                 /\ Shown' = Shown \union scan[p].obs.events
              \/ /\ Mode(p) = "reparse" /\ tokens' = tokens \union {Token(scan[p])}
                 /\ Shown' = scan[p].obs.events
    BY <1>1, <1>11, <2>2, ProjectShows
  <2>4. CASE Token(scan[p]) \in tokens /\ UNCHANGED store
    <3>1. Stored(z)
      BY <1>6, <1>7, <2>4 DEF Covered
    <3>2. StoredRound(r)
      BY <1>8, <1>11, <3>1, StepsApart DEF StoredRound, StoredState
    <3> QED
      BY <1>1, <1>2, <2>4, <3>2, CoverRound DEF Rounds
  <2>5. CASE /\ \A t \in rows' : t.rev[1] = 0 /\ t.rev[2] <= Head0'[2]
             /\ \/ /\ Mode(p) = "append" /\ tokens' = tokens
                   /\ Shown' = Shown \union scan[p].obs.events
                \/ /\ Mode(p) = "reparse" /\ tokens' = tokens \union {Token(scan[p])}
                   /\ Shown' = scan[p].obs.events
    <3>1. scan[p].obs.events \subseteq Firsts(z) /\ Firsts(z) \subseteq Shown \union scan[p].obs.events
      BY <1>1, <1>3, <1>4 DEF ObsOK, StoredRound
    <3>2. /\ Firsts(z) \subseteq Shown' /\ Shown \subseteq Shown'
          /\ \E m \in Nat : m \in {k, z} /\ Shown' = Firsts(m)
      <4>1. CASE Mode(p) = "append"
        <5>1. Shown' = Firsts(k) \union Firsts(z)
          BY <2>1, <2>5, <3>1, <4>1
        <5>2. \E m \in Nat : m \in {k, z} /\ Firsts(k) \union Firsts(z) = Firsts(m)
          BY FirstsMerge
        <5>3. Firsts(z) \subseteq Shown' /\ Shown \subseteq Shown'
          BY <2>1, <5>1
        <5>4. \E m \in Nat : m \in {k, z} /\ Shown' = Firsts(m)
          BY <5>1, <5>2
        <5> QED
          BY <5>3, <5>4
      <4>2. CASE Mode(p) = "reparse"
        <5>1. WantsReparse(scan[p].reasons) /\ scan[p].obs.hash # NoHash
          BY <1>11, <4>2 DEF Mode, Projection, Refused
        <5>2. scan[p].obs.events = Firsts(z) /\ Shown \subseteq Firsts(z)
          BY <1>1, <1>3, <1>4, <5>1 DEF ObsOK, StoredRound
        <5> QED
          BY <2>5, <4>2, <5>2
      <4> QED
        BY <2>5, <4>1, <4>2
    <3>3. /\ \A n : Firsts(n)' = Firsts(n)
          /\ \A n : Counted(file.bytes, n)' = Counted(file.bytes, n)
          /\ file' = file /\ disk' = disk
      BY <1>1 DEF Elsewhere, Firsts, EventsOf, Parse, Counted, GoodEnds, TextAt, Newlines
    <3>4. \A n : (Stored(n) => Stored(n)') /\ Stored(z)'
      BY <3>2, <3>3 DEF Stored
    <3>5. (\E m \in Nat : m <= Counted(file.bytes, Len(file.bytes)) /\ Shown = Firsts(m))'
      <4>1. PICK m \in Nat : m \in {k, z} /\ Shown' = Firsts(m)
        BY <3>2
      <4>2. m <= Counted(f, Len(f))
        BY <1>7, <2>1, <4>1
      <4> QED
        BY <1>6, <3>3, <4>1, <4>2
    <3>6. ASSUME NEW q \in Scanner PROVE (StoredState(disk[q]) /\ StoredRound(scan[q]))'
      <4>1. PICK x : x = disk[q]
        OBVIOUS
      <4>2. StoredState(x)'
        <5>1. x \in State => Stored(x.cursor.seq)
          BY <4>1 DEF Covered, StoredState
        <5> QED
          BY <3>4, <5>1 DEF StoredState
      <4>3. scan'[q] = r
        BY <1>2, ScanMoves DEF OneScanner, Moves
      <4>4. StoredState(r.state)'
        BY <1>8, <1>11, <3>4 DEF StoredState, Stored
      <4>5. StoredRound(r)'
        BY <4>4, StepsApart DEF StoredRound
      <4> QED
        BY <3>3, <4>1, <4>2, <4>3, <4>5 DEF StoredState, StoredRound, Stored
    <3>7. (\A q \in Scanner : StoredState(disk[q]) /\ StoredRound(scan[q]))'
      BY <3>6
    <3>8. (\A t \in tokens : t.upTo <= Len(file.bytes) /\ Stored(Counted(file.bytes, t.upTo)))'
      <4> SUFFICES ASSUME NEW t \in tokens'
                   PROVE  (t.upTo <= Len(file.bytes) /\ Stored(Counted(file.bytes, t.upTo)))'
        OBVIOUS
      <4>1. t.upTo <= Len(f) /\ Stored(Counted(f, t.upTo))'
        <5>1. CASE t \in tokens
          <6>1. t.upTo <= Len(f) /\ Stored(Counted(f, t.upTo))
            BY <1>6, <5>1 DEF Covered
          <6> QED
            BY <3>4, <6>1
        <5>2. CASE t = Token(scan[p])
          BY <1>7, <3>4, <5>2
        <5> QED
          BY <2>5, <5>1, <5>2
      <4> QED
        BY <1>6, <3>3, <4>1 DEF Stored, Firsts
    <3>9. (\A t \in rows : t.rev[1] = 0 /\ t.rev[2] <= Head0[2])'
      BY <2>5
    <3> QED
      BY <3>5, <3>7, <3>8, <3>9 DEF Covered
  <2> QED
    BY <2>3, <2>4, <2>5
<1> QED
  BY <1>2, <1>9, <1>10, <1>11

LEMMA CoverNext ==
  ASSUME NoCutCharacter, OneScanner, TypeOK, GrowInv, CoverInv, [Next]_vars
  PROVE  CoverInv'
<1> SUFFICES ASSUME rewrites' = 0, AllWrite' PROVE Covered'
  BY DEF CoverInv
<1>1. rewrites = 0 /\ ~Rewrite /\ AllWrite
  BY NextFields, RewriteCounts DEF AllWrite
<1>2. Growing /\ Covered
  BY <1>1 DEF GrowInv, CoverInv
<1>3. CASE UNCHANGED <<file, disk, scan, store>>
  BY <1>2, <1>3, CoverMove DEF Covered
<1>4. CASE Write
  BY <1>2, <1>4, CoverWrite
<1>5. ASSUME NEW p \in Scanner, Round(p) \/ Stream(p) \/ Fault(p) PROVE Covered'
  <2>1. CASE Begin(p, TRUE, disk[p])
    BY <1>2, <2>1, CoverBegin
  <2>2. CASE Stat(p)
    BY <1>2, <2>2, CoverStat
  <2>3. CASE Read(p)
    BY <1>2, <2>3, CoverRead
  <2>4. CASE Unavailable(p)
    BY <1>2, <2>4, CoverUnavailable
  <2>5. CASE Commit(p)
    BY <1>2, <2>5, CoverCommit
  <2>6. CASE CommitFails(p) \/ Save(p) \/ Crash(p) \/ Forgetful(p)
    BY <1>2, <2>6, CoverOther
  <2> QED
    BY <1>1, <1>5, <2>1, <2>2, <2>3, <2>4, <2>5, <2>6
    DEF Round, Stream, Fault, ShortRead, Unreadable, AllWrite
<1> QED
  BY <1>1, <1>3, <1>4, <1>5 DEF Next, vars, store, Upgrade

-----------------------------------------------------------------------------
LEMMA GrowingAlways ==
  ASSUME NoCutCharacter
  PROVE  Spec => []GrowInv
<1>1. Init => GrowInv
  BY GrowInit
<1>2. TypeOK /\ GrowInv /\ [Next]_vars => GrowInv'
  BY GrowNext
<1> QED
  BY AlwaysTyped, <1>1, <1>2, PTL DEF Spec

LEMMA CoveredAlways ==
  ASSUME NoCutCharacter, OneScanner
  PROVE  Spec => []CoverInv
<1>1. Init => CoverInv
  BY CoverInit
<1>2. TypeOK /\ GrowInv /\ CoverInv /\ [Next]_vars => CoverInv'
  BY CoverNext
<1> QED
  BY AlwaysTyped, GrowingAlways, <1>1, <1>2, PTL DEF Spec

LEMMA ShownInFile ==
  ASSUME TypeOK, Growing
  PROVE  Shown \subseteq FileEvents
BY DEF Growing, Shown, Current, At, Plain, FileEvents, EventsOf

(* However many scanners share the store, and also when some rounds only   *)
(* stream: what the store shows of a growing file is in the file, under    *)
(* the number it has there (the base apply_projection is given is right).  *)
THEOREM ShownIsInTheFile ==
  ASSUME NoCutCharacter
  PROVE  Spec => [](rewrites = 0 => Shown \subseteq FileEvents)
<1>1. TypeOK /\ GrowInv => (rewrites = 0 => Shown \subseteq FileEvents)
  BY ShownInFile DEF GrowInv
<1> QED
  BY AlwaysTyped, GrowingAlways, <1>1, PTL

LEMMA PrefixShown ==
  ASSUME TypeOK, GrowInv, CoverInv
  PROVE  StoreIsPrefixOfFile
<1> SUFFICES ASSUME rewrites = 0 
             PROVE  /\ Shown \subseteq FileEvents
                    /\ AllWrite => \E n \in 0..Cardinality(FileEvents) :
                                     Shown = {e \in FileEvents : e.seq < n}
  BY DEF StoreIsPrefixOfFile
<1>1. Shown \subseteq FileEvents
  BY ShownInFile DEF GrowInv
<1>2. ASSUME AllWrite
      PROVE  \E n \in 0..Cardinality(FileEvents) : Shown = {e \in FileEvents : e.seq < n}
  <2>1. PICK k \in Nat : k <= Counted(file.bytes, Len(file.bytes)) /\ Shown = Firsts(k)
    BY <1>2 DEF CoverInv, Covered
  <2>2. file.bytes \in Seq(Byte) /\ 0 \in Nat
    BY DEF TypeOK
  <2>3. Cardinality(FileEvents) = Counted(file.bytes, Len(file.bytes))
    BY <2>2, CountOfEvents DEF FileEvents
  <2>4. Counted(file.bytes, Len(file.bytes)) \in Nat
    BY <2>2, CountsAre
  <2>5. k \in 0..Cardinality(FileEvents)
    BY <2>1, <2>3, <2>4
  <2>6. Shown = {e \in FileEvents : e.seq < k}
    BY <2>1 DEF Firsts, EventsOf, FileEvents
  <2> QED
    BY <2>5, <2>6
<1> QED
  BY <1>1, <1>2

(* A file that is only appended to is shown as it is, from its first event *)
(* on, without a gap and without a duplicate, whatever crashed, failed,    *)
(* was forgotten, was retried or was upgraded on the way: the cursor moves *)
(* on only with the transaction (ScanWriter::commit), and what a lost      *)
(* cursor reads again is in the store already.                             *)
THEOREM FileIsShownAsItIs ==
  ASSUME NoCutCharacter, OneScanner
  PROVE  Spec => []StoreIsPrefixOfFile
<1>1. TypeOK /\ GrowInv /\ CoverInv => StoreIsPrefixOfFile
  BY PrefixShown
<1> QED
  BY AlwaysTyped, GrowingAlways, CoveredAlways, <1>1, PTL

LEMMA BehindIsShown ==
  ASSUME TypeOK, Growing, Covered
  PROVE  ConsumedIsStored
<1> SUFFICES ASSUME NEW p \in Scanner, disk[p] # NoState
             PROVE  Consumed(disk[p].cursor) \subseteq Shown
  BY DEF ConsumedIsStored
<1>1. disk[p] \in State /\ disk[p].cursor \in Cursor
  BY DEF TypeOK, State
<1>2. CursorOK(disk[p].cursor) /\ Stored(disk[p].cursor.seq)
  BY <1>1 DEF Growing, Covered, StateOK, StoredState
<1>3. PICK f \in Seq(Byte), n \in Nat : f = file.bytes /\ n = disk[p].cursor.offset
  BY <1>1 DEF TypeOK, Cursor
<1>4. 0 \in Nat /\ 0 <= n /\ n <= Len(f) /\ AtBoundary(f, 0) /\ Counted(f, 0) = 0
  BY <1>2, <1>3, NewCursorOK DEF CursorOK, AtBoundary
<1>5. Parse(Piece(f, 0, n), Counted(f, 0)) = Slice(f, Counted(f, 0), Counted(f, n))
  BY <1>4, EventsOfPiece
<1>6. Slice(f, 0, Counted(f, n)) = Firsts(Counted(f, n))
  BY <1>3, FirstsIs
<1>7. Parse(SubSeq(file.bytes, 1, n), 0) = Firsts(Counted(f, n))
  BY <1>3, <1>4, <1>5, <1>6 DEF Piece
<1>8. Counted(f, n) = disk[p].cursor.seq
  BY <1>2, <1>3 DEF CursorOK
<1> QED
  BY <1>2, <1>3, <1>7, <1>8 DEF Consumed, Stored

(* Until the file is first replaced, what a remembered offset has left     *)
(* behind is in the store: no crash, failure or retry makes a scanner skip *)
(* a line it has not stored (next_state and save_cursors).                 *)
THEOREM NothingIsSkipped ==
  ASSUME NoCutCharacter, OneScanner
  PROVE  Spec => [](rewrites = 0 => ConsumedIsStored)
<1>1. TypeOK /\ GrowInv /\ CoverInv => (rewrites = 0 => ConsumedIsStored)
  <2> SUFFICES ASSUME TypeOK, GrowInv, CoverInv, rewrites = 0 PROVE ConsumedIsStored
    OBVIOUS
  <2>1. CASE AllWrite
    BY <2>1, BehindIsShown DEF GrowInv, CoverInv
  <2>2. CASE ~AllWrite
    BY <2>2 DEF ConsumedIsStored
  <2> QED
    BY <2>1, <2>2
<1> QED
  BY AlwaysTyped, GrowingAlways, CoveredAlways, <1>1, PTL
=============================================================================
