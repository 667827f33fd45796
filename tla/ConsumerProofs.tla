---------------------------- MODULE ConsumerProofs ----------------------------
(* What holds of Consumer for every set of sources and sessions, every     *)
(* page size, every --limit and every --max-events; and of Replicas, whose *)
(* readers put the stores of several machines together.                    *)
EXTENDS Consumer, Replicas, FiniteSetTheorems, WellFoundedInduction, TLAPS

-----------------------------------------------------------------------------
(* The inductive invariant.                                                *)

(* A generation has one row per session and seq, and no row is of a        *)
(* generation that was not opened yet.                                     *)
SlotsUnique ==
  \A q, r \in rows : q.ses = r.ses /\ q.seq = r.seq /\ q.gen = r.gen => q = r
GenerationsOpened == \A r \in rows : r.gen <= head[Of(r.ses)]

StoreInv == IsFiniteSet(rows) /\ SlotsUnique /\ GenerationsOpened

(* Row r is one the consumer must have, if it was given offsets up to n.   *)
Due(r, n) == Current(r) /\ r.good /\ r.off <= n

MirrorCovers(n) ==
  \A r \in rows : Due(r, n) /\ ~Outdated(Of(r.ses)) => Told(r) \in mirror

(* A pull has mirrored everything up to its cursor, not only to what it    *)
(* will report; offsets yet to be given are beyond every cursor.           *)
PullInv ==
  task.cmd = "pull" =>
    /\ pulled <= task.upto /\ task.upto <= task.cursor /\ task.cursor <= last
    /\ MirrorCovers(task.cursor)

(* A rebuild has every row that was there when it began, or has still to   *)
(* come to it; a source replaced since is announced in the change-feed.    *)
Reached(r) ==
  \/ task.todo[r.ses] = NotStarted
  \/ Told(r) \in task.got
  \/ task.todo[r.ses] >= 0 /\ r.seq > task.todo[r.ses]

RebuildInv ==
  task.cmd = "rebuild" /\ (\A i \in DOMAIN feed : i > changed => feed[i] # task.src) =>
    \A r \in rows : Due(r, pulled) /\ Of(r.ses) = task.src => Reached(r)

ConsumerInv ==
  /\ TypeOK /\ StoreInv
  /\ pulled <= last
  /\ MirrorCovers(pulled)
  /\ PullInv /\ RebuildInv

-----------------------------------------------------------------------------
(* Lemmas about sets of numbers.                                           *)

(* A set of naturals has a least element.                                  *)
LEMMA LeastNatural ==
  ASSUME NEW S \in SUBSET Nat, S # {}
  PROVE  \E m \in S : \A k \in S : m <= k
<1>1. PICK m \in S : \A k \in S : ~(<<k, m>> \in OpToRel(<, Nat))
  BY NatLessThanWellFounded, WFMin
<1>2. \A k \in S : ~(k < m)
  BY <1>1 DEF OpToRel
<1> QED
  BY <1>2

(* A finite set of integers is bounded: take a smallest unbounded subset,  *)
(* and an element away from it.                                            *)
LEMMA FiniteIsBounded ==
  ASSUME NEW S \in SUBSET Int, IsFiniteSet(S)
  PROVE  \E b \in Int : \A k \in S : k <= b
<1> DEFINE Bounded(U) == \E b \in Int : \A k \in U : k <= b
           Unbounded == {U \in SUBSET S : ~Bounded(U)}
           sizes == {Cardinality(U) : U \in Unbounded}
<1> SUFFICES ASSUME ~Bounded(S) PROVE FALSE
  OBVIOUS
<1>1. \A U \in SUBSET S : IsFiniteSet(U) /\ Cardinality(U) \in Nat
  BY FS_Subset, FS_CardinalityType
<1>2. sizes \in SUBSET Nat /\ sizes # {}
  BY <1>1
<1>3. PICK n \in sizes : \A m \in sizes : n <= m
  BY <1>2, LeastNatural
<1>4. PICK U \in Unbounded : Cardinality(U) = n
  BY <1>3
<1>5. PICK x \in U : TRUE
  BY <1>4
<1>6. Cardinality(U \ {x}) = n - 1
  BY <1>1, <1>4, <1>5, FS_RemoveElement
<1>7. Bounded(U \ {x})
  <2>1. U \ {x} \in SUBSET S /\ ~(Cardinality(U \ {x}) >= n)
    BY <1>1, <1>4, <1>6
  <2> QED
    BY <1>3, <2>1, <1>1
<1>8. PICK b \in Int : \A k \in U \ {x} : k <= b
  BY <1>7
<1>9. Bounded(U)
  <2>1. x \in Int
    BY <1>4, <1>5
  <2>2. CASE x <= b
    BY <1>8, <2>2
  <2>3. CASE b < x
    <3>1. \A k \in U : k \in Int
      BY <1>4
    <3>2. \A k \in U : k <= x
      BY <1>8, <2>1, <2>3, <3>1
    <3> QED
      BY <2>1, <3>2
  <2> QED
    BY <2>1, <2>2, <2>3
<1> QED
  BY <1>4, <1>9

(* Top of a finite set is its greatest element.                            *)
LEMMA TopIsGreatest ==
  ASSUME NEW S \in SUBSET Int, S # {}, IsFiniteSet(S)
  PROVE  Top(S) \in S /\ \A k \in S : k <= Top(S)
<1>1. PICK b \in Int : \A k \in S : k <= b
  BY FiniteIsBounded
<1> DEFINE gaps == {b - k : k \in S}
<1>2. gaps \in SUBSET Nat /\ gaps # {}
  <2>1. \A k \in S : b - k \in Nat
    <3> TAKE k \in S
    <3>1. k \in Int /\ k <= b
      BY <1>1
    <3> QED
      BY <3>1
  <2> QED
    BY <2>1
<1>3. PICK d \in gaps : \A e \in gaps : d <= e
  BY <1>2, LeastNatural
<1>4. PICK m \in S : d = b - m
  BY <1>3
<1>5. \A k \in S : k <= m
  <2> TAKE k \in S
  <2>1. d <= b - k
    BY <1>3
  <2> QED
    BY <1>4, <2>1
<1> QED
  BY <1>5 DEF Top

(* The image of a finite set under a function is finite, and no larger.    *)
LEMMA ImageFinite ==
  ASSUME NEW S, IsFiniteSet(S), NEW f, DOMAIN f = S
  PROVE  /\ IsFiniteSet({f[r] : r \in S})
         /\ Cardinality({f[r] : r \in S}) <= Cardinality(S)
<1> DEFINE T == {f[r] : r \in S}
           g == [r \in S |-> f[r]]
<1>1. g \in Surjection(S, T)
  BY DEF Surjection
<1> QED
  BY <1>1, FS_Surjection

LEMMA FieldsFinite ==
  ASSUME NEW P \in SUBSET Row, IsFiniteSet(P)
  PROVE  /\ IsFiniteSet({r.off : r \in P}) /\ {r.off : r \in P} \in SUBSET Nat
         /\ IsFiniteSet({r.seq : r \in P}) /\ {r.seq : r \in P} \in SUBSET Nat
         /\ IsFiniteSet({Told(r) : r \in P}) /\ {Told(r) : r \in P} \subseteq Entry
         /\ Cardinality({Told(r) : r \in P}) <= Cardinality(P)
<1>1. IsFiniteSet({r.off : r \in P})
  <2> DEFINE f == [r \in P |-> r.off]
             T == {f[r] : r \in P}
  <2>1. T = {r.off : r \in P}
    <3>1. \A r \in P : f[r] = r.off
      OBVIOUS
    <3> QED
      BY <3>1
  <2>2. IsFiniteSet(T)
    <3>1. DOMAIN f = P
      OBVIOUS
    <3> HIDE DEF f
    <3> QED
      BY <3>1, ImageFinite
  <2> HIDE DEF T
  <2> QED
    BY <2>1, <2>2
<1>2. IsFiniteSet({r.seq : r \in P})
  <2> DEFINE f == [r \in P |-> r.seq]
             T == {f[r] : r \in P}
  <2>1. T = {r.seq : r \in P}
    <3>1. \A r \in P : f[r] = r.seq
      OBVIOUS
    <3> QED
      BY <3>1
  <2>2. IsFiniteSet(T)
    <3>1. DOMAIN f = P
      OBVIOUS
    <3> HIDE DEF f
    <3> QED
      BY <3>1, ImageFinite
  <2> HIDE DEF T
  <2> QED
    BY <2>1, <2>2
<1>3. /\ IsFiniteSet({Told(r) : r \in P})
      /\ Cardinality({Told(r) : r \in P}) <= Cardinality(P)
  <2> DEFINE f == [r \in P |-> Told(r)]
             T == {f[r] : r \in P}
  <2>1. DOMAIN f = P /\ T = {Told(r) : r \in P}
    <3>1. \A r \in P : f[r] = Told(r)
      OBVIOUS
    <3> QED
      BY <3>1
  <2>2. IsFiniteSet(T) /\ Cardinality(T) <= Cardinality(P)
    <3>1. DOMAIN f = P
      BY <2>1
    <3> HIDE DEF f
    <3> QED
      BY <3>1, ImageFinite
  <2> HIDE DEF T
  <2> QED
    BY <2>1, <2>2
<1> QED
  BY <1>1, <1>2, <1>3 DEF Row, Told, Entry

-----------------------------------------------------------------------------
(* Lemmas about pages.                                                     *)

(* A page of pull has every row up to its last offset.                     *)
LEMMA OffsetPageClosed ==
  ASSUME NEW S \in SUBSET Row, IsFiniteSet(S), NEW n \in Int,
         NEW q \in FirstByOffset(S, n), NEW r \in S, r.off <= q.off
  PROVE  r \in FirstByOffset(S, n)
<1> DEFINE below(p) == {s \in S : s.off < p.off}
<1>1. q \in S /\ Cardinality(below(q)) < n
  BY DEF FirstByOffset
<1>2. below(r) \subseteq below(q)
  BY <1>1 DEF Row
<1>3. IsFiniteSet(below(q)) /\ IsFiniteSet(below(r)) /\ Cardinality(below(r)) <= Cardinality(below(q))
  BY <1>2, FS_Subset
<1>4. Cardinality(below(q)) \in Nat /\ Cardinality(below(r)) \in Nat
  BY <1>3, FS_CardinalityType
<1>5. Cardinality(below(r)) < n
  BY <1>1, <1>3, <1>4
<1> QED
  BY <1>5 DEF FirstByOffset

(* So has a page of a session, up to its last seq.                         *)
LEMMA SeqPageClosed ==
  ASSUME NEW S \in SUBSET Row, IsFiniteSet(S), NEW n \in Int,
         NEW q \in FirstBySeq(S, n), NEW r \in S, r.seq <= q.seq
  PROVE  r \in FirstBySeq(S, n)
<1> DEFINE below(p) == {s \in S : s.seq < p.seq}
<1>1. q \in S /\ Cardinality(below(q)) < n
  BY DEF FirstBySeq
<1>2. below(r) \subseteq below(q)
  BY <1>1 DEF Row
<1>3. IsFiniteSet(below(q)) /\ IsFiniteSet(below(r)) /\ Cardinality(below(r)) <= Cardinality(below(q))
  BY <1>2, FS_Subset
<1>4. Cardinality(below(q)) \in Nat /\ Cardinality(below(r)) \in Nat
  BY <1>3, FS_CardinalityType
<1>5. Cardinality(below(r)) < n
  BY <1>1, <1>3, <1>4
<1> QED
  BY <1>5 DEF FirstBySeq

DistinctSeqs(S) == \A q, r \in S : q.seq = r.seq => q = r

(* A page holds at most n rows: all but its last come before its last.     *)
LEMMA SeqPageSize ==
  ASSUME NEW S \in SUBSET Row, IsFiniteSet(S), DistinctSeqs(S), NEW n \in Nat
  PROVE  /\ IsFiniteSet(FirstBySeq(S, n))
         /\ Cardinality(FirstBySeq(S, n)) \in 0..n
<1> DEFINE P == FirstBySeq(S, n)
<1>1. P \subseteq S /\ IsFiniteSet(P) /\ Cardinality(P) \in Nat
  <2>1. P \subseteq S
    BY DEF FirstBySeq
  <2> QED
    BY <2>1, FS_Subset, FS_CardinalityType
<1> HIDE DEF P
<1>2. CASE P = {}
  BY <1>1, <1>2, FS_EmptySet DEF P
<1>3. CASE P # {}
  <2>1. /\ {r.seq : r \in P} \in SUBSET Int /\ {r.seq : r \in P} # {}
        /\ IsFiniteSet({r.seq : r \in P})
    <3>1. P \in SUBSET Row /\ P # {} /\ \A k \in Nat : k \in Int
      BY <1>1, <1>3
    <3> QED
      BY <1>1, <3>1, FieldsFinite
  <2>2. PICK m \in P : \A r \in P : r.seq <= m.seq
    <3>1. PICK k \in {r.seq : r \in P} : \A j \in {r.seq : r \in P} : j <= k
      BY <2>1, TopIsGreatest
    <3> QED
      BY <3>1
  <2> DEFINE below == {q \in S : q.seq < m.seq}
  <2>3. IsFiniteSet(below) /\ Cardinality(below) \in Nat /\ Cardinality(below) < n
    <3>1. Cardinality(below) < n
      BY <2>2 DEF P, FirstBySeq
    <3> QED
      BY <3>1, FS_Subset, FS_CardinalityType
  <2>4. P \ {m} \subseteq below
    BY <1>1, <2>2 DEF DistinctSeqs, Row
  <2>5. Cardinality(P \ {m}) <= Cardinality(below) /\ Cardinality(P \ {m}) = Cardinality(P) - 1
    BY <1>1, <2>2, <2>3, <2>4, FS_Subset, FS_RemoveElement
  <2>6. Cardinality(P) <= n
    BY <1>1, <2>3, <2>5
  <2> QED
    BY <1>1, <2>6 DEF P
<1> QED
  BY <1>2, <1>3

(* If looking up one row more than the page holds finds no more than the   *)
(* page, there is no more.                                                 *)
LEMMA ProbeRowTells ==
  ASSUME NEW S \in SUBSET Row, IsFiniteSet(S), DistinctSeqs(S), NEW b \in Nat,
         FirstBySeq(FirstBySeq(S, b + 1), b) = FirstBySeq(S, b + 1)
  PROVE  FirstBySeq(S, b + 1) = S
<1> DEFINE F == FirstBySeq(S, b + 1)
           rest == S \ F
<1>1. F \subseteq S
  BY DEF FirstBySeq
<1> SUFFICES ASSUME rest # {} PROVE FALSE
  BY <1>1
<1>2. IsFiniteSet(F) /\ Cardinality(F) <= b
  <2>1. IsFiniteSet(F) /\ DistinctSeqs(F) /\ F \in SUBSET Row
    BY <1>1, FS_Subset DEF DistinctSeqs
  <2>2. Cardinality(FirstBySeq(F, b)) <= b
    <3> HIDE DEF F
    <3> QED
      BY <2>1, SeqPageSize
  <2> QED
    BY <2>1, <2>2
<1>3. {r.seq : r \in rest} \in SUBSET Nat /\ {r.seq : r \in rest} # {}
  BY DEF Row
<1>4. PICK r \in rest : \A q \in rest : r.seq <= q.seq
  <2>1. PICK k \in {r.seq : r \in rest} : \A j \in {r.seq : r \in rest} : k <= j
    BY <1>3, LeastNatural
  <2> QED
    BY <2>1
<1> DEFINE below == {q \in S : q.seq < r.seq}
<1>5. below \subseteq F
  BY <1>4 DEF Row
<1>6. Cardinality(below) <= Cardinality(F) /\ Cardinality(below) \in Nat /\ Cardinality(F) \in Nat
  BY <1>2, <1>5, FS_Subset, FS_CardinalityType
<1>7. ~(Cardinality(below) < b + 1)
  BY <1>4 DEF FirstBySeq
<1> QED
  BY <1>2, <1>6, <1>7

-----------------------------------------------------------------------------
(* What one page of sessions-read leaves for the next.                     *)
LEMMA SessionPageCovers ==
  ASSUME TypeOK, StoreInv, NEW x \in Session, NEW after \in Nat \union {NotStarted},
         NEW b \in Nat, NEW page, page = SessionPage(x, after, b)
  PROVE  /\ page.events \subseteq Entry
         /\ Cardinality(page.events) \in 0..b
         /\ Position(page) \in Nat \union {NotStarted, Done}
         /\ \A r \in CurrentRowsOf(x, after) :
              \/ r.good => Told(r) \in page.events
              \/ Position(page) = NotStarted
              \/ Position(page) >= 0 /\ r.seq > Position(page)
<1> DEFINE S == CurrentRowsOf(x, after)
           found == FirstBySeq(S, b + 1)
           P == FirstBySeq(found, b)
           good == {q \in P : q.good}
           lastSeq == Top({after} \union {r.seq : r \in P})
<1>1. S \in SUBSET Row /\ IsFiniteSet(S) /\ DistinctSeqs(S)
  <2>1. S \subseteq rows
    BY DEF CurrentRowsOf
  <2>2. DistinctSeqs(S)
    BY <2>1 DEF CurrentRowsOf, Current, StoreInv, SlotsUnique, DistinctSeqs
  <2> QED
    BY <2>1, <2>2, FS_Subset DEF StoreInv, TypeOK
<1>2. found \in SUBSET S /\ P \in SUBSET found /\ good \in SUBSET P
  BY DEF FirstBySeq
<1>3. /\ page.events = {Told(r) : r \in good}
      /\ page.hasMore = (found # P)
      /\ page.lastSeq = lastSeq
  BY DEF SessionPage
<1> HIDE DEF S
<1>4. IsFiniteSet(found) /\ found \in SUBSET Row /\ DistinctSeqs(found)
  BY <1>1, <1>2, FS_Subset DEF DistinctSeqs
<1> HIDE DEF found
<1>5. IsFiniteSet(P) /\ Cardinality(P) \in 0..b /\ P \in SUBSET Row
  BY <1>2, <1>4, SeqPageSize
<1>6. IsFiniteSet(good) /\ Cardinality(good) <= Cardinality(P) /\ good \in SUBSET Row
  BY <1>2, <1>5, FS_Subset
<1> HIDE DEF P, good
<1>7. page.events \subseteq Entry /\ Cardinality(page.events) \in 0..b
  <2>1. /\ IsFiniteSet(page.events) /\ page.events \subseteq Entry
        /\ Cardinality(page.events) <= Cardinality(good)
    BY <1>3, <1>6, FieldsFinite
  <2>2. Cardinality(page.events) \in Nat /\ Cardinality(good) \in Nat
    BY <1>6, <2>1, FS_CardinalityType
  <2> QED
    BY <1>5, <1>6, <2>1, <2>2
<1>8. /\ lastSeq \in {after} \union {r.seq : r \in P}
      /\ lastSeq \in Nat \union {NotStarted}
      /\ \A r \in P : r.seq <= lastSeq
  <2> DEFINE seqs == {after} \union {r.seq : r \in P}
  <2>1. IsFiniteSet({r.seq : r \in P}) /\ {r.seq : r \in P} \in SUBSET Nat
    BY <1>5, FieldsFinite
  <2>2. IsFiniteSet(seqs)
    BY <2>1, FS_Union, FS_Singleton
  <2>3. seqs \in SUBSET (Nat \union {NotStarted}) /\ seqs \in SUBSET Int /\ seqs # {}
    BY <2>1 DEF NotStarted
  <2>4. Top(seqs) \in seqs /\ \A k \in seqs : k <= Top(seqs)
    BY <2>2, <2>3, TopIsGreatest
  <2> QED
    BY <2>3, <2>4
<1>9. Position(page) \in Nat \union {NotStarted, Done}
  BY <1>3, <1>8 DEF Position
<1>10. ASSUME NEW r \in S, ~(r.good => Told(r) \in page.events)
       PROVE  \/ Position(page) = NotStarted
              \/ Position(page) >= 0 /\ r.seq > Position(page)
  <2>1. r \notin P
    BY <1>3, <1>10 DEF good
  <2>2. found # P
    <3> SUFFICES ASSUME found = P PROVE FALSE
      OBVIOUS
    <3>1. found = S
      BY <1>1, ProbeRowTells DEF found, P
    <3> QED
      BY <1>10, <2>1, <3>1
  <2>3. Position(page) = lastSeq
    BY <1>3, <2>2 DEF Position
  <2>4. ASSUME NEW q \in P PROVE q.seq < r.seq
    <3> SUFFICES ASSUME ~(q.seq < r.seq) PROVE FALSE
      OBVIOUS
    <3>1. q \in found /\ r.seq <= q.seq
      BY <1>1, <1>2, <1>5, <1>10 DEF Row
    <3>2. r \in found
      BY <1>1, <1>10, <3>1, SeqPageClosed DEF found
    <3>3. r \in P
      BY <1>4, <3>1, <3>2, SeqPageClosed DEF P
    <3> QED
      BY <2>1, <3>3
  <2>5. after < r.seq
    BY <1>10 DEF S, CurrentRowsOf
  <2>6. lastSeq < r.seq
    BY <1>8, <2>4, <2>5
  <2> HIDE DEF lastSeq
  <2> QED
    BY <1>8, <2>3, <2>6
<1> QED
  BY <1>7, <1>9, <1>10 DEF S

(* What one page of pull leaves for the next: its rows are all that the    *)
(* store shows between the two cursors.                                    *)
LEMMA PullPageCovers ==
  ASSUME TypeOK, StoreInv, NEW c \in Nat, NEW n \in Int, NEW page, page = PullPage(c, n),
         page # {}, NEW top, top = Top({r.off : r \in page})
  PROVE  /\ page \subseteq rows /\ IsFiniteSet(page) /\ page \in SUBSET Row
         /\ top \in Nat /\ c < top /\ top <= last
         /\ \A r \in page : r.off <= top
         /\ \A r \in rows : Current(r) /\ c < r.off /\ r.off <= top => r \in page
<1> DEFINE S == {r \in rows : r.off > c /\ Current(r)}
<1>1. S \in SUBSET Row /\ IsFiniteSet(S) /\ page = FirstByOffset(S, n)
  BY FS_Subset DEF PullPage, StoreInv, TypeOK
<1>2. page \in SUBSET S
  BY <1>1 DEF FirstByOffset
<1>3. page \subseteq rows /\ page \in SUBSET Row /\ IsFiniteSet(page)
  BY <1>1, <1>2, FS_Subset
<1>4. PICK q \in page : top = q.off /\ \A r \in page : r.off <= top
  <2>1. /\ {r.off : r \in page} \in SUBSET Int /\ {r.off : r \in page} # {}
        /\ IsFiniteSet({r.off : r \in page})
    <3>1. {r.off : r \in page} \in SUBSET Nat /\ IsFiniteSet({r.off : r \in page})
      BY <1>3, FieldsFinite
    <3> QED
      BY <3>1
  <2>2. top \in {r.off : r \in page} /\ \A k \in {r.off : r \in page} : k <= top
    BY <2>1, TopIsGreatest
  <2> QED
    BY <2>2
<1>5. top \in Nat /\ c < top /\ top <= last
  BY <1>2, <1>3, <1>4 DEF TypeOK, Row
<1>6. ASSUME NEW r \in rows, Current(r), c < r.off, r.off <= top PROVE r \in page
  BY <1>1, <1>4, <1>6, OffsetPageClosed
<1> QED
  BY <1>3, <1>4, <1>5, <1>6

-----------------------------------------------------------------------------
(* Writers.                                                                *)

(* What the consumer has stays enough, if every row a writer makes current *)
(* has a new offset or is of a source that the writer announces.           *)
Announced(s) == \E i \in DOMAIN feed : i > changed /\ feed[i] = s

LEMMA WriterKeepsCover ==
  ASSUME ConsumerInv, UNCHANGED consumer, last' \in Nat, last <= last', rows' \subseteq Row,
         \A i \in DOMAIN feed : i \in DOMAIN feed' /\ feed'[i] = feed[i],
         \A r \in rows' : \/ r \in rows /\ (Current(r)' => Current(r))
                          \/ r.off > last
                          \/ Announced(Of(r.ses))'
  PROVE  pulled' <= last' /\ MirrorCovers(pulled)' /\ PullInv' /\ RebuildInv'
<1>1. UNCHANGED <<mirror, pulled, changed, stale, task>>
  BY DEF consumer
<1>2. \A s : Announced(s) => Announced(s)'
  BY <1>1 DEF Announced
<1>3. \A s : Outdated(s) <=> s \in stale \/ Announced(s)
  BY DEF Outdated, Announced
<1>4. \A s : (Outdated(s)' <=> s \in stale' \/ Announced(s)')
  BY DEF Outdated, Announced
<1>5. pulled \in Nat /\ last \in Nat /\ pulled <= last
  BY DEF ConsumerInv, TypeOK
<1>6. ASSUME NEW n \in Nat, n <= last, NEW r \in rows', Due(r, n)', ~Announced(Of(r.ses))'
      PROVE  r \in rows /\ Due(r, n)
  <2>1. Current(r)' /\ r.good /\ r.off <= n
    BY <1>6 DEF Due
  <2>2. ~(r.off > last)
    BY <2>1, <1>5, <1>6 DEF Row
  <2>3. r \in rows /\ Current(r)
    BY <1>6, <2>1, <2>2
  <2> QED
    BY <2>1, <2>3 DEF Due
<1>7. ASSUME NEW n \in Nat, n <= last, MirrorCovers(n) PROVE MirrorCovers(n)'
  <2> SUFFICES ASSUME NEW r \in rows', Due(r, n)', ~Outdated(Of(r.ses))'
               PROVE  Told(r) \in mirror'
    BY DEF MirrorCovers, Told
  <2>1. ~Announced(Of(r.ses))' /\ Of(r.ses) \notin stale'
    BY <1>4 DEF Of
  <2>2. r \in rows /\ Due(r, n)
    BY <1>6, <1>7, <2>1
  <2>3. ~Outdated(Of(r.ses))
    BY <1>1, <1>2, <1>3, <2>1 DEF Of
  <2> QED
    BY <1>1, <1>7, <2>2, <2>3 DEF MirrorCovers
<1>8. MirrorCovers(pulled)'
  <2>1. PICK n \in Nat : n = pulled
    BY <1>5
  <2>2. MirrorCovers(n)'
    BY <1>5, <1>7, <2>1 DEF ConsumerInv, MirrorCovers
  <2> QED
    BY <1>1, <2>1, <2>2 DEF MirrorCovers, Due
<1>9. PullInv'
  <2> SUFFICES ASSUME task.cmd = "pull"
               PROVE  /\ pulled <= task.upto /\ task.upto <= task.cursor /\ task.cursor <= last'
                      /\ \A n \in Nat : n = task.cursor => MirrorCovers(n)'
    BY <1>1 DEF PullInv, ConsumerInv, TypeOK, Pulling, Rebuilding, Idle, MirrorCovers, Due
  <2>1. task \in Pulling
    BY DEF ConsumerInv, TypeOK, Pulling, Rebuilding, Idle
  <2>2. task.cursor \in Nat /\ task.upto \in Nat
    BY <2>1 DEF Pulling
  <2>3. /\ pulled <= task.upto /\ task.upto <= task.cursor /\ task.cursor <= last
        /\ MirrorCovers(task.cursor)
    BY DEF ConsumerInv, PullInv
  <2>4. ASSUME NEW n \in Nat, n = task.cursor PROVE MirrorCovers(n)'
    BY <1>7, <2>3, <2>4 DEF MirrorCovers
  <2> QED
    BY <1>5, <2>2, <2>3, <2>4
<1>10. RebuildInv'
  <2> SUFFICES ASSUME task.cmd = "rebuild",
                      ~Announced(task.src)',
                      NEW r \in rows', Due(r, pulled)', Of(r.ses) = task.src
               PROVE  Reached(r)'
    BY <1>1 DEF RebuildInv, Announced
  <2>1. r \in rows /\ Due(r, pulled)
    BY <1>1, <1>5, <1>6 DEF Due, Announced
  <2>2. ~Announced(task.src)
    BY <1>1, <1>2 DEF Announced
  <2>3. Reached(r)
    BY <2>1, <2>2 DEF ConsumerInv, RebuildInv, Announced
  <2> QED
    BY <1>1, <2>3 DEF Reached
<1>11. pulled' <= last'
  BY <1>1, <1>5
<1> QED
  BY <1>8, <1>9, <1>10, <1>11

LEMMA AppendRowInv ==
  ASSUME ConsumerInv, NEW x \in Session, NEW good \in BOOLEAN, AppendRow(x, good)
  PROVE  ConsumerInv'
<1> DEFINE seqs == {r.seq : r \in {q \in rows : q.ses = x /\ q.gen = head[Of(x)]}}
           s == Top(seqs \union {-1}) + 1
           new == [off |-> NextOffset, ses |-> x, seq |-> s, gen |-> head[Of(x)], good |-> good]
<1>1. /\ rows' = rows \union {new} /\ last' = last + 1
      /\ UNCHANGED <<head, feed, erased, consumer>>
  BY DEF AppendRow, NextOffset
<1>2. TypeOK /\ StoreInv /\ IsFiniteSet(rows)
  BY DEF ConsumerInv, StoreInv
<1>3. s \in Nat /\ \A k \in seqs : k < s
  <2> DEFINE P == {q \in rows : q.ses = x /\ q.gen = head[Of(x)]}
             all == seqs \union {-1}
  <2>1. P \in SUBSET Row /\ IsFiniteSet(P)
    BY <1>2, FS_Subset DEF TypeOK
  <2>2. IsFiniteSet(seqs) /\ seqs \in SUBSET Nat
    BY <2>1, FieldsFinite
  <2>3. IsFiniteSet(all)
    <3> HIDE DEF seqs
    <3> QED
      BY <2>2, FS_Union, FS_Singleton
  <2> HIDE DEF seqs
  <2>4. all \in SUBSET Int /\ all # {}
    BY <2>2
  <2>5. Top(all) \in all /\ \A k \in all : k <= Top(all)
    BY <2>3, <2>4, TopIsGreatest
  <2>6. PICK m \in Int : m = Top(all)
    BY <2>4, <2>5
  <2>7. m + 1 \in Nat /\ \A k \in seqs : k < m + 1
    BY <2>2, <2>5, <2>6
  <2> QED
    BY <2>6, <2>7
<1> HIDE DEF s
<1>4. new \in Row /\ new.off = last + 1 /\ new.ses = x /\ new.seq = s /\ new.gen = head[Of(x)]
  BY <1>2, <1>3, ConsumerAssumption DEF NextOffset, TypeOK, Row, Of
<1> HIDE DEF new
<1>5. IsFiniteSet(rows')
  BY <1>1, <1>2, FS_AddElement
<1>6. SlotsUnique'
  <2>1. \A r \in rows : ~(r.ses = new.ses /\ r.seq = new.seq /\ r.gen = new.gen)
    BY <1>3, <1>4
  <2> QED
    BY <1>1, <1>2, <2>1 DEF StoreInv, SlotsUnique
<1>7. GenerationsOpened'
  BY <1>1, <1>2, <1>4, ConsumerAssumption DEF StoreInv, GenerationsOpened, TypeOK, Of
<1>8. rows' \subseteq Row /\ last' \in Nat /\ last <= last'
  BY <1>1, <1>2, <1>4 DEF TypeOK
<1>9. \A r \in rows : r.off \in 1..last
  BY <1>2 DEF TypeOK
<1>10. /\ \A r \in rows' : r.off \in 1..last'
       /\ \A q, r \in rows' : q.off = r.off => q = r
  BY <1>1, <1>2, <1>4, <1>9 DEF TypeOK
<1>11. TypeOK'
  BY <1>1, <1>2, <1>8, <1>10 DEF TypeOK, consumer
<1>12. pulled' <= last' /\ MirrorCovers(pulled)' /\ PullInv' /\ RebuildInv'
  <2>1. \A r \in rows' : \/ r \in rows /\ (Current(r)' => Current(r))
                         \/ r.off > last
    BY <1>1, <1>2, <1>4 DEF Current, TypeOK
  <2> QED
    BY <1>1, <1>8, <2>1, WriterKeepsCover
<1> QED
  BY <1>5, <1>6, <1>7, <1>11, <1>12 DEF ConsumerInv, StoreInv

LEMMA EraseInv ==
  ASSUME ConsumerInv, NEW x \in Session, Erase(x)
  PROVE  ConsumerInv'
<1>1. /\ rows' = {r \in rows : r.ses # x} /\ erased' = erased \union {x}
      /\ UNCHANGED <<last, head, feed, consumer>>
  BY DEF Erase
<1>2. TypeOK' /\ StoreInv'
  BY <1>1, FS_Subset DEF ConsumerInv, TypeOK, StoreInv, SlotsUnique, GenerationsOpened, consumer
<1>3. \A r \in rows' : r \in rows /\ (Current(r)' => Current(r))
  BY <1>1 DEF Current
<1>4. pulled' <= last' /\ MirrorCovers(pulled)' /\ PullInv' /\ RebuildInv'
  <2>1. last' \in Nat /\ last <= last' /\ rows' \subseteq Row
    BY <1>1 DEF ConsumerInv, TypeOK
  <2> QED
    BY <1>1, <1>3, <2>1, WriterKeepsCover
<1> QED
  BY <1>2, <1>4 DEF ConsumerInv

(* The rows of a new generation get offsets in the order of their slots:   *)
(* consecutive, so each its own.                                           *)
Before(N, p) == {q \in N : q[1] < p[1] \/ (q[1] = p[1] /\ q[2] < p[2])}

LEMMA BeforeCounts ==
  ASSUME NEW N \in SUBSET (Nat \X Nat), IsFiniteSet(N), NEW p \in N
  PROVE  /\ Cardinality(Before(N, p)) \in Nat
         /\ Cardinality(Before(N, p)) < Cardinality(N)
         /\ \A q \in N : Cardinality(Before(N, p)) = Cardinality(Before(N, q)) => p = q
<1>1. \A q \in N : IsFiniteSet(Before(N, q)) /\ Cardinality(Before(N, q)) \in Nat
  BY FS_Subset, FS_CardinalityType DEF Before
<1>2. Cardinality(Before(N, p)) < Cardinality(N)
  <2>1. Before(N, p) \subseteq N \ {p}
    BY DEF Before
  <2>2. /\ IsFiniteSet(N \ {p}) /\ Cardinality(N) \in Nat
        /\ Cardinality(N \ {p}) = Cardinality(N) - 1
    BY FS_RemoveElement, FS_CardinalityType
  <2>3. Cardinality(Before(N, p)) <= Cardinality(N \ {p})
    BY <2>1, <2>2, FS_Subset
  <2> QED
    BY <1>1, <2>2, <2>3
<1>3. ASSUME NEW a \in N, NEW b \in N, a \in Before(N, b)
      PROVE  Cardinality(Before(N, a)) < Cardinality(Before(N, b))
  <2>1. Before(N, a) \subseteq Before(N, b) \ {a}
    BY <1>3 DEF Before
  <2>2. /\ IsFiniteSet(Before(N, b) \ {a})
        /\ Cardinality(Before(N, b) \ {a}) = Cardinality(Before(N, b)) - 1
    BY <1>1, <1>3, FS_RemoveElement
  <2>3. Cardinality(Before(N, a)) <= Cardinality(Before(N, b) \ {a})
    BY <2>1, <2>2, FS_Subset
  <2> QED
    BY <1>1, <2>2, <2>3
<1>4. ASSUME NEW q \in N, p # q PROVE p \in Before(N, q) \/ q \in Before(N, p)
  BY <1>4 DEF Before
<1>5. ASSUME NEW q \in N, p # q
      PROVE  Cardinality(Before(N, p)) # Cardinality(Before(N, q))
  <2>1. Cardinality(Before(N, p)) \in Nat /\ Cardinality(Before(N, q)) \in Nat
    BY <1>1
  <2>2. \/ Cardinality(Before(N, p)) < Cardinality(Before(N, q))
        \/ Cardinality(Before(N, q)) < Cardinality(Before(N, p))
    BY <1>3, <1>4, <1>5
  <2> QED
    BY <2>1, <2>2
<1> QED
  BY <1>1, <1>2, <1>5

LEMMA ReplaceInv ==
  ASSUME ConsumerInv, NEW s \in Source, NEW n, NEW bad, NEW supersedes \in BOOLEAN,
         Replace(s, n, bad, supersedes)
  PROVE  ConsumerInv'
<1> DEFINE N == {p \in Session \X (0..MaxOffset) :
                   Of(p[1]) = s /\ p[2] < n[p[1]] /\ p[1] \notin erased}
           row(p) == [off |-> NextOffset + Cardinality(Before(N, p)), ses |-> p[1], seq |-> p[2],
                      gen |-> head[s] + 1, good |-> p \notin bad]
           new == {row(p) : p \in N}
           kept == {r \in rows : ~(supersedes /\ Of(r.ses) = s /\ Current(r))}
<1>1. /\ rows' = kept \union new
      /\ last' = last + Cardinality(N)
      /\ head' = [head EXCEPT ![s] = @ + 1]
      /\ feed' = Append(feed, s)
      /\ UNCHANGED <<erased, consumer>>
  <2>1. \A p : {q \in N : q[1] < p[1] \/ (q[1] = p[1] /\ q[2] < p[2])} = Before(N, p)
    BY DEF Before
  <2> QED
    BY <2>1 DEF Replace
<1>2. TypeOK /\ StoreInv
  BY DEF ConsumerInv
<1>3. N \in SUBSET (Session \X Nat) /\ N \in SUBSET (Nat \X Nat) /\ IsFiniteSet(N) /\ Cardinality(N) \in Nat
  <2>1. IsFiniteSet(0..MaxOffset) /\ IsFiniteSet(Session)
    BY ConsumerAssumption, FS_Interval
  <2>2. IsFiniteSet(Session \X (0..MaxOffset))
    BY <2>1, FS_Product
  <2>3. IsFiniteSet(N) /\ Cardinality(N) \in Nat
    BY <2>2, FS_Subset, FS_CardinalityType
  <2>4. N \subseteq Session \X (0..MaxOffset)
    OBVIOUS
  <2>5. Session \X (0..MaxOffset) \subseteq Session \X Nat
    BY ConsumerAssumption
  <2>6. Session \X Nat \subseteq Nat \X Nat
    BY ConsumerAssumption
  <2> QED
    BY <2>3, <2>4, <2>5, <2>6
<1>4. \A p \in N : Of(p[1]) = s /\ p[1] \in Session /\ p[2] \in Nat
  BY <1>3
<1> HIDE DEF N
<1>5. ASSUME NEW p \in N
      PROVE  /\ row(p) \in Row
             /\ row(p).off \in last + 1 .. last'
             /\ \A q \in N : row(p).off = row(q).off => p = q
  <2>1. /\ Cardinality(Before(N, p)) \in Nat
        /\ Cardinality(Before(N, p)) < Cardinality(N)
        /\ \A q \in N : Cardinality(Before(N, q)) \in Nat
        /\ \A q \in N : Cardinality(Before(N, p)) = Cardinality(Before(N, q)) => p = q
    BY <1>3, BeforeCounts
  <2>2. last \in Nat /\ head[s] \in Nat
    BY <1>2 DEF TypeOK
  <2>3. row(p).off \in last + 1 .. last'
    BY <1>1, <1>3, <2>1, <2>2 DEF NextOffset
  <2>4. \A q \in N : row(p).off = row(q).off => p = q
    BY <2>1, <2>2 DEF NextOffset
  <2>5. row(p) \in Row
    BY <1>4, <2>1, <2>2 DEF Row, NextOffset
  <2> QED
    BY <2>3, <2>4, <2>5
<1>6. IsFiniteSet(new)
  <2> DEFINE f == [p \in N |-> row(p)]
             T == {f[p] : p \in N}
  <2>1. T = new
    <3>1. \A p \in N : f[p] = row(p)
      OBVIOUS
    <3> HIDE DEF f, row
    <3> QED
      BY <3>1
  <2>2. IsFiniteSet(T)
    <3>1. DOMAIN f = N
      OBVIOUS
    <3> HIDE DEF f
    <3> QED
      BY <1>3, <3>1, ImageFinite
  <2> HIDE DEF T, new
  <2> QED
    BY <2>1, <2>2
<1>7. \A r \in new : \E p \in N : r = row(p)
  OBVIOUS
<1>8. \A p \in N : /\ row(p).ses = p[1] /\ row(p).seq = p[2] /\ row(p).gen = head[s] + 1
                   /\ Of(row(p).ses) = s
  BY <1>4
<1> HIDE DEF row, new
<1>9. kept \subseteq rows /\ IsFiniteSet(kept)
  <2>1. kept \subseteq rows
    OBVIOUS
  <2> QED
    BY <1>2, <2>1, FS_Subset DEF StoreInv
<1> HIDE DEF kept
<1>10. \A r \in new : /\ r \in Row /\ r.off \in last + 1 .. last' /\ Of(r.ses) = s
                      /\ r.gen = head[s] + 1
  BY <1>5, <1>7, <1>8
<1>11. \A q, r \in new : (q.off = r.off \/ (q.ses = r.ses /\ q.seq = r.seq)) => q = r
  <2> SUFFICES ASSUME NEW q \in new, NEW r \in new,
                      q.off = r.off \/ (q.ses = r.ses /\ q.seq = r.seq)
               PROVE  q = r
    OBVIOUS
  <2>1. PICK a \in N, b \in N : q = row(a) /\ r = row(b)
    BY <1>7
  <2>2. a \in Session \X Nat /\ b \in Session \X Nat
    BY <1>3
  <2>3. a = b
    BY <1>5, <1>8, <2>1, <2>2
  <2> QED
    BY <2>1, <2>3
<1>12. IsFiniteSet(rows')
  BY <1>1, <1>6, <1>9, FS_Union
<1>13. SlotsUnique'
  <2>1. ASSUME NEW r \in rows, Of(r.ses) = s PROVE r.gen # head[s] + 1
    <3>1. r.gen <= head[s] /\ r.gen \in Nat /\ head[s] \in Nat
      BY <1>2, <2>1 DEF StoreInv, GenerationsOpened, TypeOK, Row
    <3> QED
      BY <3>1
  <2> QED
    BY <1>1, <1>2, <1>9, <1>10, <1>11, <2>1 DEF StoreInv, SlotsUnique
<1>14. GenerationsOpened'
  <2> SUFFICES ASSUME NEW r \in rows' PROVE r.gen <= head'[Of(r.ses)]
    BY DEF GenerationsOpened, Of
  <2>1. head[s] \in Nat /\ head'[s] = head[s] + 1 /\ \A x \in Source \ {s} : head'[x] = head[x]
    BY <1>1, <1>2 DEF TypeOK
  <2>2. CASE r \in new
    BY <1>10, <2>1, <2>2
  <2>3. CASE r \in rows
    <3>1. r.gen <= head[Of(r.ses)] /\ r.gen \in Nat /\ Of(r.ses) \in Source
      BY <1>2, <2>3, ConsumerAssumption DEF StoreInv, GenerationsOpened, TypeOK, Row, Of
    <3> QED
      BY <2>1, <3>1
  <2> QED
    BY <1>1, <1>9, <2>2, <2>3
<1>15. last \in Nat /\ last' \in Nat /\ last <= last' /\ rows' \subseteq Row
  BY <1>1, <1>2, <1>3, <1>9, <1>10 DEF TypeOK
<1>16. /\ \A r \in rows' : r.off \in 1..last'
       /\ \A q, r \in rows' : q.off = r.off => q = r
  <2>1. \A r \in kept : r.off \in 1..last
    BY <1>2, <1>9 DEF TypeOK
  <2>2. \A r \in rows' : r.off \in 1..last'
    BY <1>1, <1>10, <1>15, <2>1
  <2>3. \A q \in kept, r \in new : q.off # r.off
    BY <1>10, <1>15, <2>1
  <2> QED
    BY <1>1, <1>2, <1>9, <1>11, <2>2, <2>3 DEF TypeOK
<1>17. /\ feed \in Seq(Source) /\ feed' \in Seq(Source) /\ Len(feed') = Len(feed) + 1
       /\ feed'[Len(feed) + 1] = s
       /\ \A i \in DOMAIN feed : i \in DOMAIN feed' /\ feed'[i] = feed[i]
  BY <1>1, <1>2 DEF TypeOK
<1>18. TypeOK'
  <2>1. head' \in [Source -> Nat]
    BY <1>1, <1>2 DEF TypeOK
  <2>2. changed' \in 0..Len(feed')
    BY <1>1, <1>2, <1>17 DEF TypeOK, consumer
  <2> QED
    BY <1>1, <1>2, <1>15, <1>16, <1>17, <2>1, <2>2 DEF TypeOK, consumer
<1>19. Announced(s)'
  <2>1. Len(feed) + 1 \in DOMAIN feed' /\ Len(feed) + 1 > changed'
    BY <1>1, <1>2, <1>17 DEF TypeOK, consumer
  <2> QED
    BY <1>17, <2>1 DEF Announced
<1>20. pulled' <= last' /\ MirrorCovers(pulled)' /\ PullInv' /\ RebuildInv'
  <2>1. \A r \in rows' : \/ r \in rows /\ (Current(r)' => Current(r))
                         \/ Announced(Of(r.ses))'
    <3> SUFFICES ASSUME NEW r \in rows', Of(r.ses) # s
                 PROVE  r \in rows /\ (Current(r)' => Current(r))
      BY <1>19 DEF Of
    <3>1. r \in rows
      BY <1>1, <1>9, <1>10
    <3>2. head'[Of(r.ses)] = head[Of(r.ses)]
      BY <1>1, <1>2, <3>1, ConsumerAssumption DEF TypeOK, Row, Of
    <3> QED
      BY <1>1, <3>1, <3>2 DEF Current, Of
  <2> QED
    BY <1>1, <1>15, <1>17, <2>1, WriterKeepsCover
<1> QED
  BY <1>12, <1>13, <1>14, <1>18, <1>20 DEF ConsumerInv, StoreInv

-----------------------------------------------------------------------------
(* The consumer.                                                           *)
LEMMA TaskTyped ==
  ASSUME TypeOK
  PROVE  /\ task.cmd = "pull" => task \in Pulling
         /\ task.cmd = "rebuild" => task \in Rebuilding
         /\ task = Idle => task.cmd = "idle"
         /\ Idle.cmd = "idle"
BY DEF TypeOK, Pulling, Rebuilding, Idle

(* A step that leaves store, mirror and cursors alone.                     *)
LEMMA CoverCarries ==
  ASSUME UNCHANGED <<store, changed, stale>>, mirror \subseteq mirror', NEW n, MirrorCovers(n)
  PROVE  MirrorCovers(n)'
BY DEF store, MirrorCovers, Due, Current, Outdated, Told, Of

LEMMA StoreCarries ==
  ASSUME UNCHANGED store, StoreInv
  PROVE  StoreInv'
BY DEF store, StoreInv, SlotsUnique, GenerationsOpened, Of

LEMMA BeginPullInv ==
  ASSUME ConsumerInv, NEW limit \in PullLimit, BeginPull(limit)
  PROVE  ConsumerInv'
<1> DEFINE new == [cmd |-> "pull", cursor |-> pulled, emitted |-> 0, limit |-> limit,
                   upto |-> pulled]
<1>1. UNCHANGED <<store, mirror, pulled, changed, stale, failures>> /\ task' = new
  BY DEF BeginPull
<1>2. new \in Pulling /\ new.cmd = "pull" /\ new.cursor = pulled /\ new.upto = pulled
  BY DEF Pulling, ConsumerInv, TypeOK
<1> HIDE DEF new
<1>3. TypeOK' /\ StoreInv'
  BY <1>1, <1>2, StoreCarries DEF ConsumerInv, TypeOK, store
<1>4. MirrorCovers(pulled)' /\ pulled' <= last'
  <2>1. PICK n : n = pulled
    OBVIOUS
  <2>2. MirrorCovers(n)'
    BY <1>1, <2>1, CoverCarries DEF ConsumerInv
  <2> QED
    BY <1>1, <2>1, <2>2 DEF MirrorCovers, Due, ConsumerInv, store
<1>5. PullInv'
  BY <1>1, <1>2, <1>4 DEF PullInv, MirrorCovers, Due, ConsumerInv, TypeOK
<1>6. RebuildInv'
  BY <1>1, <1>2 DEF RebuildInv
<1> QED
  BY <1>3, <1>4, <1>5, <1>6 DEF ConsumerInv

(* Taking newer rows never drops one that is current: a row that says      *)
(* something else in its slot would be current too, in the same generation.*)
LEMMA UpsertKeeps ==
  ASSUME TypeOK, NEW P \in SUBSET rows, \A q \in P : Current(q),
         NEW r \in rows, Current(r), Told(r) \in mirror
  PROVE  Told(r) \in Upsert(mirror, {Told(q) : q \in P})
<1>1. ASSUME NEW q \in P, Slot(Told(q)) = Slot(Told(r)) PROVE Told(q) = Told(r)
  BY <1>1 DEF Slot, Told, Current, Of
<1> QED
  BY <1>1 DEF Upsert

LEMMA PullMoreInv ==
  ASSUME ConsumerInv, PullMore
  PROVE  ConsumerInv'
<1> DEFINE page == PullPage(task.cursor, Wanted(task))
           good == {r \in page : r.good}
           offs == {r.off : r \in good}
           top == Top({r.off : r \in page})
           upto == Top({task.upto} \union offs)
           new == [task EXCEPT !.cursor = top, !.emitted = @ + Cardinality(good), !.upto = upto]
<1>1. /\ task.cmd = "pull" /\ page # {}
      /\ mirror' = Upsert(mirror, {Told(r) : r \in good})
      /\ task' = new
      /\ UNCHANGED <<store, pulled, changed, stale, failures>>
  BY DEF PullMore, CaughtUp
<1>2. TypeOK /\ StoreInv
  BY DEF ConsumerInv
<1>3. task \in Pulling /\ task.cursor \in Nat /\ task.upto \in Nat /\ task.emitted \in Nat
      /\ Wanted(task) \in Int
  <2>1. task \in Pulling
    BY <1>1, <1>2, TaskTyped
  <2>2. task.limit \in Int /\ task.emitted \in Int /\ Batch \in Int
    <3>1. task.limit \in PullLimit /\ task.emitted \in Nat
      BY <2>1 DEF Pulling
    <3>2. PullLimit \subseteq Nat /\ Batch \in Nat
      BY ConsumerAssumption
    <3>3. Nat \subseteq Int
      OBVIOUS
    <3> QED
      BY <3>1, <3>2, <3>3
  <2>3. Wanted(task) \in Int
    BY <2>2 DEF Wanted
  <2> QED
    BY <2>1, <2>3 DEF Pulling
<1>4. /\ page \subseteq rows /\ IsFiniteSet(page) /\ page \in SUBSET Row
      /\ top \in Nat /\ task.cursor < top /\ top <= last
      /\ \A r \in page : r.off <= top
      /\ \A r \in rows : Current(r) /\ task.cursor < r.off /\ r.off <= top => r \in page
  BY <1>1, <1>2, <1>3, PullPageCovers
<1>5. \A r \in page : Current(r)
  BY DEF PullPage, FirstByOffset
<1> HIDE DEF page, top
<1>6. good \in SUBSET Row /\ good \in SUBSET rows /\ IsFiniteSet(good) /\ Cardinality(good) \in Nat
      /\ \A r \in good : Current(r)
  BY <1>4, <1>5, FS_Subset, FS_CardinalityType
<1>7. upto \in Nat /\ task.upto <= upto /\ upto <= top
  <2>1. PullInv
    BY DEF ConsumerInv
  <2>2. task.upto <= task.cursor
    BY <1>1, <2>1 DEF PullInv
  <2>3. IsFiniteSet(offs) /\ offs \in SUBSET Nat
    <3> HIDE DEF good
    <3> QED
      BY <1>6, FieldsFinite
  <2>4. \A k \in offs : k <= top
    BY <1>4
  <2> HIDE DEF offs
  <2> DEFINE all == {task.upto} \union offs
  <2>5. IsFiniteSet(all) /\ all \in SUBSET Nat /\ all \in SUBSET Int /\ all # {}
    <3>1. IsFiniteSet({task.upto})
      BY FS_Singleton
    <3>2. IsFiniteSet(all)
      BY <2>3, <3>1, FS_Union
    <3> QED
      <4>1. all \in SUBSET Nat /\ all # {}
        BY <1>3, <2>3
      <4>2. all \in SUBSET Int
        BY <4>1
      <4> HIDE DEF all
      <4> QED
        BY <3>2, <4>1, <4>2
  <2>6. \A k \in all : k <= top
    BY <1>3, <1>4, <2>2, <2>4
  <2>7. Top(all) \in all /\ \A k \in all : k <= Top(all)
    BY <2>5, TopIsGreatest
  <2> QED
    BY <2>5, <2>6, <2>7
<1> HIDE DEF upto
<1>8. new \in Pulling /\ new.cmd = "pull" /\ new.cursor = top /\ new.upto = upto
  <2>1. task.emitted + Cardinality(good) \in Nat
    BY <1>3, <1>6
  <2> HIDE DEF good
  <2> QED
    BY <1>3, <1>4, <1>7, <2>1 DEF Pulling
<1> HIDE DEF new
<1>9. mirror' \subseteq Entry
  <2>1. {Told(r) : r \in good} \subseteq Entry
    <3> HIDE DEF good
    <3> QED
      BY <1>6, FieldsFinite
  <2> QED
    BY <1>1, <1>2, <2>1 DEF Upsert, TypeOK
<1>10. TypeOK' /\ StoreInv'
  BY <1>1, <1>2, <1>8, <1>9, StoreCarries DEF TypeOK, store
<1>11. \A r \in rows : Current(r) /\ Told(r) \in mirror => Told(r) \in mirror'
  <2> HIDE DEF good
  <2> QED
    BY <1>1, <1>2, <1>6, UpsertKeeps
<1>12. ASSUME NEW n \in Nat, MirrorCovers(n) PROVE MirrorCovers(n)'
  BY <1>1, <1>11, <1>12 DEF store, MirrorCovers, Due, Current, Outdated, Told, Of
<1>13. MirrorCovers(pulled)' /\ pulled' <= last'
  <2>1. PICK n \in Nat : n = pulled
    BY <1>2 DEF TypeOK
  <2>2. MirrorCovers(n)'
    BY <1>12, <2>1 DEF ConsumerInv
  <2> QED
    BY <1>1, <2>1, <2>2 DEF MirrorCovers, Due, ConsumerInv, store
<1>14. ASSUME NEW r \in rows, Due(r, top), ~Outdated(Of(r.ses)) PROVE Told(r) \in mirror'
  <2>1. Current(r) /\ r.good /\ r.off <= top /\ r.off \in Nat
    BY <1>2, <1>14 DEF Due, TypeOK, Row
  <2>2. CASE r.off <= task.cursor
    <3>1. MirrorCovers(task.cursor)
      BY <1>1 DEF ConsumerInv, PullInv
    <3>2. Told(r) \in mirror
      BY <1>14, <2>1, <2>2, <3>1 DEF MirrorCovers, Due
    <3> QED
      BY <1>11, <2>1, <3>2
  <2>3. CASE task.cursor < r.off
    <3>1. r \in good
      BY <1>4, <2>1, <2>3
    <3> QED
      BY <1>1, <3>1 DEF Upsert
  <2> QED
    BY <1>3, <2>1, <2>2, <2>3
<1>15. PullInv'
  <2>1. PICK k \in Nat : k = top
    BY <1>4
  <2>2. MirrorCovers(k)'
    BY <1>1, <1>14, <2>1 DEF store, MirrorCovers, Due, Current, Outdated, Of, Told
  <2>3. pulled <= task.upto
    BY <1>1 DEF ConsumerInv, PullInv
  <2>4. pulled' <= upto /\ upto <= top /\ top <= last'
    BY <1>1, <1>2, <1>3, <1>4, <1>7, <2>3 DEF store, TypeOK
  <2>5. MirrorCovers(task.cursor)'
    BY <1>1, <1>8, <2>1, <2>2 DEF MirrorCovers, Due
  <2> QED
    BY <1>1, <1>8, <2>4, <2>5 DEF PullInv
<1>16. RebuildInv'
  BY <1>1, <1>8 DEF RebuildInv
<1> QED
  BY <1>10, <1>13, <1>15, <1>16 DEF ConsumerInv

LEMMA EndPullInv ==
  ASSUME ConsumerInv, EndPull
  PROVE  ConsumerInv'
<1>1. /\ task.cmd = "pull" /\ pulled' = task.upto /\ task' = Idle
      /\ UNCHANGED <<store, mirror, changed, stale, failures>>
  BY DEF EndPull
<1>2. task \in Pulling /\ task.upto \in Nat /\ task.cursor \in Nat /\ last \in Nat
  <2>1. task \in Pulling
    BY <1>1, TaskTyped DEF ConsumerInv
  <2> QED
    BY <2>1 DEF Pulling, ConsumerInv, TypeOK
<1>3. /\ task.upto <= task.cursor /\ task.cursor <= last
      /\ MirrorCovers(task.cursor)
  BY <1>1 DEF ConsumerInv, PullInv
<1>4. TypeOK' /\ StoreInv'
  BY <1>1, <1>2, StoreCarries DEF ConsumerInv, TypeOK, store
<1>5. MirrorCovers(task.upto)
  BY <1>2, <1>3 DEF MirrorCovers, Due, ConsumerInv, TypeOK, Row
<1>6. MirrorCovers(pulled)'
  <2>1. PICK n : n = task.upto
    OBVIOUS
  <2>2. MirrorCovers(n)'
    BY <1>1, <1>5, <2>1, CoverCarries
  <2> QED
    BY <1>1, <2>1, <2>2 DEF MirrorCovers, Due
<1>7. pulled' <= last'
  BY <1>1, <1>2, <1>3 DEF store
<1>8. PullInv' /\ RebuildInv'
  BY <1>1 DEF PullInv, RebuildInv, Idle
<1> QED
  BY <1>4, <1>6, <1>7, <1>8 DEF ConsumerInv

LEMMA FailInv ==
  ASSUME ConsumerInv, Fail
  PROVE  ConsumerInv'
<1>1. /\ task' = Idle /\ failures' = failures + 1 /\ failures < MaxFailures
      /\ UNCHANGED <<store, mirror, pulled, changed, stale>>
  BY DEF Fail
<1>2. failures' \in 0..MaxFailures
  BY <1>1, ConsumerAssumption DEF ConsumerInv, TypeOK
<1>3. TypeOK' /\ StoreInv'
  BY <1>1, <1>2, StoreCarries DEF ConsumerInv, TypeOK, store
<1>4. MirrorCovers(pulled)' /\ pulled' <= last'
  BY <1>1 DEF store, MirrorCovers, Due, Current, Outdated, Told, Of, ConsumerInv
<1>5. PullInv' /\ RebuildInv'
  BY <1>1 DEF PullInv, RebuildInv, Idle
<1> QED
  BY <1>3, <1>4, <1>5 DEF ConsumerInv

(* A record that leaves the change-feed cursor behind makes its source one *)
(* to rebuild, so no source becomes less outdated.                         *)
LEMMA ChangesInv ==
  ASSUME ConsumerInv, Changes
  PROVE  ConsumerInv'
<1> DEFINE page == ChangesAfter(changed)
           end == IF changed + ChangeLimit < Len(feed) THEN changed + ChangeLimit ELSE Len(feed)
<1>1. /\ task = Idle /\ page # <<>>
      /\ stale' = stale \union {page[i] : i \in DOMAIN page}
      /\ changed' = changed + Len(page)
      /\ UNCHANGED <<store, mirror, pulled, task, failures>>
  BY DEF Changes
<1>2. /\ feed \in Seq(Source) /\ Len(feed) \in Nat /\ changed \in 0..Len(feed)
      /\ ChangeLimit \in Nat \ {0}
  BY ConsumerAssumption DEF ConsumerInv, TypeOK
<1>3. changed + 1 \in Nat /\ end \in Nat /\ changed <= end /\ end <= Len(feed)
  BY <1>2
<1>4. page = SubSeq(feed, changed + 1, end)
  BY DEF ChangesAfter
<1>5. /\ page \in Seq(Source) /\ Len(page) = end - changed
      /\ \A i \in 1..Len(page) : page[i] = feed[changed + i]
  <2>1. PICK a \in Nat : a = changed
    BY <1>2
  <2>2. PICK b \in Nat : b = end
    BY <1>3
  <2>3. page = SubSeq(feed, a + 1, b) /\ a \in Nat /\ b \in Nat /\ b <= Len(feed) /\ a <= b
    BY <1>3, <1>4, <2>1, <2>2
  <2> HIDE DEF page, end
  <2>4. page \in Seq(Source) /\ Len(page) = b - a
    BY <1>2, <2>3
  <2>5. \A i \in 1..Len(page) : page[i] = feed[a + i]
    BY <1>2, <2>3, <2>4
  <2> QED
    BY <2>1, <2>2, <2>4, <2>5
<1>6. changed' = end /\ changed' \in 0..Len(feed)
  BY <1>1, <1>2, <1>3, <1>5
<1> HIDE DEF page
<1>7. stale' \subseteq Source
  <2>1. \A i \in DOMAIN page : page[i] \in Source
    BY <1>5
  <2> QED
    BY <1>1, <2>1 DEF ConsumerInv, TypeOK
<1>8. \A i \in DOMAIN feed : i > changed => i > changed' \/ feed[i] \in stale'
  <2> SUFFICES ASSUME NEW i \in DOMAIN feed, i > changed, ~(i > changed')
               PROVE  feed[i] \in stale'
    OBVIOUS
  <2>1. i - changed \in 1..Len(page) /\ changed + (i - changed) = i
    BY <1>2, <1>3, <1>5, <1>6
  <2>2. page[i - changed] = feed[i]
    BY <1>5, <2>1
  <2>3. i - changed \in DOMAIN page
    BY <1>5, <2>1
  <2> QED
    BY <1>1, <2>2, <2>3
<1>9. \A s : Outdated(s) => Outdated(s)'
  BY <1>1, <1>8 DEF Outdated, store
<1>10. TypeOK' /\ StoreInv'
  BY <1>1, <1>6, <1>7, StoreCarries DEF ConsumerInv, TypeOK, store
<1>11. MirrorCovers(pulled)' /\ pulled' <= last'
  BY <1>1, <1>9 DEF store, MirrorCovers, Due, Current, Told, Of, ConsumerInv
<1>12. PullInv' /\ RebuildInv'
  BY <1>1 DEF PullInv, RebuildInv, Idle
<1> QED
  BY <1>10, <1>11, <1>12 DEF ConsumerInv

LEMMA ErasuresInv ==
  ASSUME ConsumerInv, Erasures
  PROVE  ConsumerInv'
<1>1. /\ task = Idle /\ mirror' = {e \in mirror : e.ses \notin erased}
      /\ UNCHANGED <<store, pulled, changed, stale, task, failures>>
  BY DEF Erasures
<1>2. TypeOK' /\ StoreInv'
  BY <1>1, StoreCarries DEF ConsumerInv, TypeOK, store
<1>3. MirrorCovers(pulled)' /\ pulled' <= last'
  BY <1>1 DEF store, MirrorCovers, Due, Current, Outdated, Told, Of, ConsumerInv
<1>4. PullInv' /\ RebuildInv'
  BY <1>1 DEF PullInv, RebuildInv, Idle
<1> QED
  BY <1>2, <1>3, <1>4 DEF ConsumerInv

-----------------------------------------------------------------------------
(* Rebuilding a source.                                                    *)

(* A step of a rebuild leaves the mirror and the cursors alone.            *)
LEMMA RebuildStep ==
  ASSUME ConsumerInv, UNCHANGED <<store, mirror, pulled, changed, stale, failures>>,
         NEW new, task' = new, new \in Rebuilding,
         \A r \in rows : Due(r, pulled) /\ Of(r.ses) = new.src /\ ~Announced(new.src)
           => Reached(r)'
  PROVE  ConsumerInv'
<1>1. new.cmd = "rebuild"
  BY DEF Rebuilding
<1>2. TypeOK' /\ StoreInv'
  BY StoreCarries DEF ConsumerInv, TypeOK, store
<1>3. MirrorCovers(pulled)' /\ pulled' <= last'
  BY DEF store, MirrorCovers, Due, Current, Outdated, Told, Of, ConsumerInv
<1>4. PullInv'
  BY <1>1 DEF PullInv
<1>5. RebuildInv'
  <2> SUFFICES ASSUME NEW r \in rows', Due(r, pulled)', Of(r.ses) = new.src, ~Announced(new.src)
               PROVE  Reached(r)'
    BY DEF RebuildInv, Announced, store, Of
  <2> QED
    BY DEF store, Due, Current, Of
<1> QED
  BY <1>2, <1>3, <1>4, <1>5 DEF ConsumerInv

LEMMA BeginRebuildInv ==
  ASSUME ConsumerInv, NEW s \in Source, BeginRebuild(s)
  PROVE  ConsumerInv'
<1> DEFINE new == [cmd |-> "rebuild", src |-> s, left |-> MaxEvents, got |-> {},
                   todo |-> [x \in Session |->
                     IF Of(x) = s /\ CurrentRowsOf(x, -1) # {} THEN NotStarted ELSE Done]]
<1>1. /\ task' = new
      /\ UNCHANGED <<store, mirror, pulled, changed, stale, failures>>
  BY DEF BeginRebuild
<1>2. new \in Rebuilding /\ new.src = s
  BY ConsumerAssumption DEF Rebuilding
<1>3. ASSUME NEW r \in rows, Due(r, pulled), Of(r.ses) = s PROVE Reached(r)'
  <2>1. r \in Row /\ Current(r)
    BY <1>3 DEF Due, ConsumerInv, TypeOK
  <2>2. r.ses \in Session /\ r \in CurrentRowsOf(r.ses, -1)
    BY <2>1 DEF Row, CurrentRowsOf
  <2>3. new.todo[r.ses] = NotStarted
    BY <1>3, <2>2
  <2> QED
    BY <1>1, <2>3 DEF Reached
<1> HIDE DEF new
<1> QED
  BY <1>1, <1>2, <1>3, RebuildStep

(* Reading on in session x: what was behind its position is in the page or *)
(* behind the new position.                                                *)
LEMMA PageMovesOn ==
  ASSUME ConsumerInv, task.cmd = "rebuild", NEW x \in Session,
         NEW after \in Nat \union {NotStarted}, task.todo[x] = after,
         NEW b \in Nat, NEW page, page = SessionPage(x, after, b), NEW left \in 1..MaxEvents,
         task' = [task EXCEPT !.got = @ \union page.events, !.todo[x] = Position(page),
                              !.left = left],
         UNCHANGED <<store, mirror, pulled, changed, stale, failures>>
  PROVE  ConsumerInv'
<1> DEFINE new == [task EXCEPT !.got = @ \union page.events, !.todo[x] = Position(page),
                               !.left = left]
<1>1. task \in Rebuilding
  BY TaskTyped DEF ConsumerInv
<1>2. /\ page.events \subseteq Entry
      /\ Position(page) \in Nat \union {NotStarted, Done}
      /\ \A r \in CurrentRowsOf(x, after) :
           \/ r.good => Told(r) \in page.events
           \/ Position(page) = NotStarted
           \/ Position(page) >= 0 /\ r.seq > Position(page)
  BY SessionPageCovers DEF ConsumerInv
<1>3. PICK at \in Nat \union {NotStarted, Done} : at = Position(page)
  BY <1>2
<1>4. /\ new.src = task.src
      /\ new.got = task.got \union page.events
      /\ new.todo = [task.todo EXCEPT ![x] = at]
  BY <1>1, <1>3 DEF Rebuilding
<1>5. new \in Rebuilding
  BY <1>1, <1>2, <1>3 DEF Rebuilding
<1>6. task' = new
  OBVIOUS
<1> HIDE DEF new
<1>7. ASSUME NEW r \in rows, Due(r, pulled), Of(r.ses) = task.src, ~Announced(task.src)
      PROVE  Reached(r)'
  <2>1. Reached(r)
    BY <1>7 DEF ConsumerInv, RebuildInv, Announced
  <2>2. r \in Row /\ Current(r) /\ r.good
    BY <1>7 DEF Due, ConsumerInv, TypeOK
  <2>3. CASE r.ses # x
    <3>1. new.todo[r.ses] = task.todo[r.ses]
      BY <1>1, <1>4, <2>2, <2>3 DEF Rebuilding, Row
    <3> QED
      BY <1>4, <1>6, <2>1, <3>1 DEF Reached
  <2>4. CASE r.ses = x
    <3>1. new.todo[x] = at
      BY <1>1, <1>4 DEF Rebuilding
    <3>2. CASE Told(r) \in task.got
      BY <1>4, <1>6, <3>2 DEF Reached
    <3>3. CASE Told(r) \notin task.got
      <4>1. r.seq > after
        BY <2>1, <2>2, <2>4, <3>3 DEF Reached, Row, NotStarted
      <4>2. r \in CurrentRowsOf(x, after)
        BY <2>2, <2>4, <4>1 DEF CurrentRowsOf
      <4> QED
        BY <1>2, <1>3, <1>4, <1>6, <2>2, <2>4, <3>1, <4>2 DEF Reached
    <3> QED
      BY <3>2, <3>3
  <2> QED
    BY <2>3, <2>4
<1> QED
  BY <1>4, <1>5, <1>6, <1>7, RebuildStep

LEMMA ReadSessionInv ==
  ASSUME ConsumerInv, NEW x \in Session, ReadSession(x)
  PROVE  ConsumerInv'
<1>1. task \in Rebuilding /\ task.left \in 1..MaxEvents
  <2>1. task \in Rebuilding
    BY TaskTyped DEF ReadSession, ConsumerInv
  <2> QED
    BY <2>1 DEF Rebuilding
<1>2. PICK page : page = SessionPage(x, -1, task.left)
  OBVIOUS
<1> DEFINE rest == task.left - Cardinality(page.events)
           left == IF rest = 0 \/ Unread = {x} THEN MaxEvents ELSE rest
<1>3. /\ task.cmd = "rebuild" /\ task.todo[x] = NotStarted
      /\ task' = [task EXCEPT !.got = @ \union page.events, !.todo[x] = Position(page),
                              !.left = left]
      /\ UNCHANGED <<store, mirror, pulled, changed, stale, failures>>
  BY <1>2 DEF ReadSession, Unread
<1>4. left \in 1..MaxEvents
  <2>1. Cardinality(page.events) \in 0..task.left
    <3>1. page = SessionPage(x, NotStarted, task.left) /\ task.left \in Nat
      BY <1>1, <1>2, ConsumerAssumption DEF NotStarted
    <3> QED
      BY <3>1, SessionPageCovers DEF ConsumerInv
  <2> QED
    BY <1>1, <2>1, ConsumerAssumption
<1>5. PICK l \in 1..MaxEvents : l = left
  BY <1>4
<1>6. PICK b \in Nat : b = task.left
  BY <1>1, ConsumerAssumption
<1>7. page = SessionPage(x, NotStarted, b)
  BY <1>2, <1>6 DEF NotStarted
<1> HIDE DEF left, rest
<1> QED
  BY <1>3, <1>5, <1>7, PageMovesOn

LEMMA ReadOnInv ==
  ASSUME ConsumerInv, NEW x \in Session, ReadOn(x)
  PROVE  ConsumerInv'
<1>1. task \in Rebuilding /\ task.left = MaxEvents
  BY TaskTyped DEF ReadOn, ConsumerInv
<1>2. PICK after \in Nat : after = task.todo[x]
  BY <1>1 DEF Rebuilding, ReadOn, NotStarted, Done
<1>3. PICK page : page = SessionPage(x, after, MaxEvents)
  OBVIOUS
<1>4. MaxEvents \in 1..MaxEvents /\ MaxEvents \in Nat
  BY ConsumerAssumption
<1>5. /\ task.cmd = "rebuild"
      /\ task' = [task EXCEPT !.got = @ \union page.events, !.todo[x] = Position(page)]
      /\ UNCHANGED <<store, mirror, pulled, changed, stale, failures>>
  BY <1>2, <1>3 DEF ReadOn
<1>6. task' = [task EXCEPT !.got = @ \union page.events, !.todo[x] = Position(page),
                           !.left = MaxEvents]
  BY <1>1, <1>5 DEF Rebuilding
<1>7. PICK l \in 1..MaxEvents : l = MaxEvents
  BY <1>4
<1>8. PICK b \in Nat : b = MaxEvents
  BY <1>4
<1>9. task' = [task EXCEPT !.got = @ \union page.events, !.todo[x] = Position(page), !.left = l]
  BY <1>6, <1>7
<1>10. page = SessionPage(x, after, b)
  BY <1>3, <1>8
<1>11. after \in Nat \union {NotStarted} /\ task.todo[x] = after
  BY <1>2
<1>12. task.cmd = "rebuild" /\ UNCHANGED <<store, mirror, pulled, changed, stale, failures>>
  BY <1>5
<1> QED
  BY <1>9, <1>10, <1>11, <1>12, PageMovesOn

(* When every session is done, every row that is due was read, unless the  *)
(* source was replaced meanwhile and stays outdated for it.                *)
LEMMA EndRebuildInv ==
  ASSUME ConsumerInv, EndRebuild
  PROVE  ConsumerInv'
<1>1. /\ task.cmd = "rebuild" /\ task' = Idle
      /\ \A x \in Session : task.todo[x] = Done
      /\ mirror' = {e \in mirror : Of(e.ses) # task.src} \union task.got
      /\ stale' = stale \ {task.src}
      /\ UNCHANGED <<store, pulled, changed, failures>>
  BY DEF EndRebuild
<1>2. task \in Rebuilding /\ task.got \subseteq Entry
  <2>1. task \in Rebuilding
    BY <1>1, TaskTyped DEF ConsumerInv
  <2> QED
    BY <2>1 DEF Rebuilding
<1>3. TypeOK' /\ StoreInv'
  BY <1>1, <1>2, StoreCarries DEF ConsumerInv, TypeOK, store
<1>4. ASSUME NEW r \in rows, Due(r, pulled), ~Outdated(Of(r.ses))' PROVE Told(r) \in mirror'
  <2>1. r \in Row
    BY DEF ConsumerInv, TypeOK
  <2>2. CASE Of(r.ses) = task.src
    <3>1. ~Announced(task.src)
      BY <1>1, <1>4, <2>2 DEF Outdated, Announced, store, Of
    <3>2. Reached(r)
      BY <1>1, <1>4, <2>2, <3>1 DEF ConsumerInv, RebuildInv, Announced
    <3>3. task.todo[r.ses] = Done
      BY <1>1, <2>1 DEF Row
    <3> QED
      BY <1>1, <3>2, <3>3 DEF Reached, NotStarted, Done
  <2>3. CASE Of(r.ses) # task.src
    <3>1. ~Outdated(Of(r.ses))
      BY <1>1, <1>4, <2>3 DEF Outdated, store, Of
    <3>2. Told(r) \in mirror
      BY <1>4, <3>1 DEF ConsumerInv, MirrorCovers
    <3> QED
      BY <1>1, <2>3, <3>2 DEF Told
  <2> QED
    BY <2>2, <2>3
<1>5. MirrorCovers(pulled)' /\ pulled' <= last'
  BY <1>1, <1>4 DEF store, MirrorCovers, Due, Current, Told, Of, ConsumerInv
<1>6. PullInv' /\ RebuildInv'
  BY <1>1 DEF PullInv, RebuildInv, Idle
<1> QED
  BY <1>3, <1>5, <1>6 DEF ConsumerInv

-----------------------------------------------------------------------------
LEMMA ConsumerInvInit == Init => ConsumerInv
<1> SUFFICES ASSUME Init PROVE ConsumerInv
  OBVIOUS
<1>1. TypeOK
  BY ConsumerAssumption DEF Init, TypeOK
<1>2. StoreInv
  BY FS_EmptySet DEF Init, StoreInv, SlotsUnique, GenerationsOpened
<1>3. pulled <= last /\ MirrorCovers(pulled) /\ PullInv /\ RebuildInv
  BY DEF Init, MirrorCovers, PullInv, RebuildInv, Idle
<1> QED
  BY <1>1, <1>2, <1>3 DEF ConsumerInv

LEMMA ConsumerInvNext ==
  ASSUME ConsumerInv, [Next]_vars
  PROVE  ConsumerInv'
<1>1. CASE Write
  BY <1>1, AppendRowInv, ReplaceInv, EraseInv DEF Write
<1>2. CASE Consume
  BY <1>2, BeginPullInv, PullMoreInv, EndPullInv, ChangesInv, ErasuresInv, BeginRebuildInv,
     ReadSessionInv, ReadOnInv, EndRebuildInv DEF Consume
<1>3. CASE UNCHANGED vars
  <2>1. TypeOK' /\ StoreInv'
    BY <1>3, StoreCarries DEF vars, store, ConsumerInv, TypeOK
  <2>2. MirrorCovers(pulled)' /\ pulled' <= last' /\ PullInv' /\ RebuildInv'
    BY <1>3 DEF vars, ConsumerInv, MirrorCovers, PullInv, RebuildInv, Due, Current, Outdated,
                Told, Of, Reached
  <2> QED
    BY <2>1, <2>2 DEF ConsumerInv
<1> QED
  BY <1>1, <1>2, <1>3, FailInv DEF Next

(* Every reachable state of store and consumer is well typed.              *)
THEOREM ConsumerTypeCorrect == Spec => []TypeOK
<1>1. ConsumerInv => TypeOK
  BY DEF ConsumerInv
<1>2. ConsumerInv /\ [Next]_vars => ConsumerInv'
  BY ConsumerInvNext
<1> QED
  BY <1>1, <1>2, ConsumerInvInit, PTL DEF Spec

(* The mirror has every row up to the pull cursor of every source that is  *)
(* not outdated, whatever the page sizes and whatever is written between   *)
(* two pages.                                                              *)
THEOREM PagingMissesNothing == Spec => []MirrorMissesNothing
<1>1. ConsumerInv => MirrorMissesNothing
  BY DEF ConsumerInv, MirrorCovers, Due, MirrorMissesNothing
<1>2. ConsumerInv /\ [Next]_vars => ConsumerInv'
  BY ConsumerInvNext
<1> QED
  BY <1>1, <1>2, ConsumerInvInit, PTL DEF Spec

-----------------------------------------------------------------------------
(* The same kind of promise between machines: what the stores have erased  *)
(* together, readers of all of them are not shown.  The inductive          *)
(* invariant of Replicas, for any machines, sessions, roots and mounts,    *)
(* any budget, and whatever order replicas are exchanged in.               *)

(* Everything that is passed between machines is a tombstone.               *)
StoresOK ==
  /\ stores \in [Machine -> Store]
  /\ replica \in [Machine -> [Machine -> Store \union {Unavailable}]]
  /\ adopting \in [Machine -> SUBSET Tombstone]

(* A merged read keeps the tombstones it gathered; past the choice of a     *)
(* copy none of them names the session or its file.                         *)
ReadOK ==
  \/ read = NoRead
  \/ read.step \in {"gathered", "picked", "shown"} /\ read.tombs \subseteq Tombstone

PickedIsNotCovered ==
  read.step = "picked" => ~CoversSession(read.tombs, read.ses)

ReadInv == StoresOK /\ ReadOK /\ PickedIsNotCovered /\ MergedReadShowsNoErased

-----------------------------------------------------------------------------
(* tombstone_covering takes a store to a store: the spellings it adds are   *)
(* erasures of project roots.                                               *)
LEMMA CoveringKeepsStore ==
  ASSUME NEW s \in Store, NEW t \in Tombstone, NEW dir
  PROVE  Covering(s, t, dir) \in Store
<1>1. Spellings(s, t, dir) \subseteq Tombstone
  BY ReplicasAssumption DEF Spellings, Store, Tombstone
<1> QED BY <1>1 DEF Covering, Store

(* A replica that opens is a store, and so is the machine's own.            *)
LEMMA SlotsAreStores ==
  ASSUME StoresOK, NEW m \in Machine, NEW n \in Slots(m)
  PROVE  SlotOf(m, n) \in Store
BY DEF StoresOK, Slots, SlotOf

LEMMA IngestKeeps ==
  ASSUME ReadInv, NEW m \in Machine, NEW e \in Event, Ingest(m, e)
  PROVE  ReadInv'
<1>1. StoresOK'
  BY DEF ReadInv, StoresOK, Store, Ingest
<1> QED BY <1>1 DEF ReadInv, ReadOK, PickedIsNotCovered, MergedReadShowsNoErased, Ingest

LEMMA EraseKeeps ==
  ASSUME ReadInv, NEW m \in Machine, NEW t \in Erasable, EraseOn(m, t)
  PROVE  ReadInv'
<1>1. StoresOK'
  <2>1. PICK dir \in Mounts(m) : stores' = [stores EXCEPT ![m] = Covering(@, t, dir)]
    BY DEF EraseOn
  <2>2. t \in Tombstone
    BY ReplicasAssumption
  <2>3. Covering(stores[m], t, dir) \in Store
    BY <2>2, CoveringKeepsStore DEF ReadInv, StoresOK
  <2> QED BY <2>1, <2>3 DEF ReadInv, StoresOK, EraseOn
<1> QED BY <1>1 DEF ReadInv, ReadOK, PickedIsNotCovered, MergedReadShowsNoErased, EraseOn

LEMMA AdoptOneKeeps ==
  ASSUME ReadInv, NEW m \in Machine, NEW t \in adopting[m], AdoptOne(m, t)
  PROVE  ReadInv'
<1>1. StoresOK'
  <2>1. PICK dir \in Mounts(m) : stores' = [stores EXCEPT ![m] = Covering(@, t, dir)]
    BY DEF AdoptOne
  <2>2. t \in Tombstone
    BY DEF ReadInv, StoresOK
  <2>3. Covering(stores[m], t, dir) \in Store
    BY <2>2, CoveringKeepsStore DEF ReadInv, StoresOK
  <2>4. adopting' \in [Machine -> SUBSET Tombstone]
    BY DEF ReadInv, StoresOK, AdoptOne
  <2>5. stores' \in [Machine -> Store]
    BY <2>1, <2>3 DEF ReadInv, StoresOK
  <2>6. replica' = replica /\ replica \in [Machine -> [Machine -> Store \union {Unavailable}]]
    BY DEF ReadInv, StoresOK, AdoptOne
  <2> QED BY <2>4, <2>5, <2>6 DEF StoresOK
<1> QED BY <1>1 DEF ReadInv, ReadOK, PickedIsNotCovered, MergedReadShowsNoErased, AdoptOne

LEMMA TransportKeeps ==
  ASSUME ReadInv, NEW m \in Machine, NEW n \in Machine, Sync(m, n) \/ Break(m, n)
  PROVE  ReadInv'
<1>1. StoresOK'
  <2>1. PICK r \in Store \union {Unavailable} : replica' = [replica EXCEPT ![m][n] = r]
    BY DEF ReadInv, StoresOK, Sync, Break
  <2>2. replica' \in [Machine -> [Machine -> Store \union {Unavailable}]]
    BY <2>1 DEF ReadInv, StoresOK
  <2>3. stores' = stores /\ adopting' = adopting
    BY DEF Sync, Break
  <2> QED BY <2>2, <2>3 DEF ReadInv, StoresOK
<1> QED BY <1>1 DEF ReadInv, ReadOK, PickedIsNotCovered, MergedReadShowsNoErased, Sync, Break

LEMMA AdoptionKeeps ==
  ASSUME ReadInv, NEW m \in Machine, BeginAdopt(m) \/ AdoptDies(m)
  PROVE  ReadInv'
<1>1. NewTombstones(m) \subseteq Tombstone
  BY SlotsAreStores DEF NewTombstones, ReadInv, Store
<1>2. StoresOK'
  BY <1>1 DEF ReadInv, StoresOK, BeginAdopt, AdoptDies
<1> QED
  BY <1>2 DEF ReadInv, ReadOK, PickedIsNotCovered, MergedReadShowsNoErased, BeginAdopt, AdoptDies

LEMMA BeginReadKeeps ==
  ASSUME ReadInv, NEW m \in Reader, NEW x \in SessionId, BeginRead(m, x)
  PROVE  ReadInv'
<1> m \in Machine
  BY ReplicasAssumption
<1>1. UNION {SlotOf(m, n).tombs : n \in Slots(m)} \subseteq Tombstone
  BY SlotsAreStores DEF ReadInv, Store
<1>2. read'.step = "gathered" /\ read'.tombs \subseteq Tombstone
  BY <1>1 DEF BeginRead
<1>3. StoresOK'
  BY DEF ReadInv, StoresOK, BeginRead
<1> QED BY <1>2, <1>3 DEF ReadInv, ReadOK, PickedIsNotCovered, MergedReadShowsNoErased

(* The copy picked is one of a session that no gathered tombstone covers.   *)
LEMMA CountKeeps ==
  ASSUME ReadInv, Count
  PROVE  ReadInv'
<1>1. StoresOK'
  BY DEF ReadInv, StoresOK, Count
<1>2. read.tombs \subseteq Tombstone
  BY DEF ReadInv, ReadOK, NoRead, Count
<1>3. CASE read' = NoRead
  BY <1>1, <1>3 DEF ReadInv, ReadOK, PickedIsNotCovered, MergedReadShowsNoErased, NoRead
<1>4. CASE read' # NoRead
  <2>1. /\ read'.step = "picked"
        /\ read'.tombs = read.tombs /\ read'.ses = read.ses
        /\ ~CoversSession(read.tombs, read.ses)
    BY <1>4 DEF Count
  <2> QED
    BY <1>1, <1>2, <2>1
       DEF ReadInv, ReadOK, PickedIsNotCovered, MergedReadShowsNoErased, CoversSession
<1> QED BY <1>3, <1>4

(* Each scope on its own: session and file were looked at when the copy was *)
(* picked, the directory event by event.                                    *)
LEMMA FetchKeeps ==
  ASSUME ReadInv, Fetch
  PROVE  ReadInv'
<1>1. StoresOK'
  BY DEF ReadInv, StoresOK, Fetch
<1>2. read.tombs \subseteq Tombstone /\ ~CoversSession(read.tombs, read.ses)
  BY DEF ReadInv, ReadOK, PickedIsNotCovered, NoRead, Fetch
<1>3. /\ read'.step = "shown" /\ read'.tombs = read.tombs
      /\ \A e \in read'.events : SessionOf[e] = read.ses /\ ~CoversRoot(read.tombs, RootOf[e])
  BY DEF Fetch, EventsOf
<1>4. MergedReadShowsNoErased'
  <2> SUFFICES ASSUME NEW e \in read'.events, NEW t \in read.tombs
               PROVE  /\ ~Matches(t, e)
                      /\ t.scope = "project_root" => DirOf[t.key] # DirOf[RootOf[e]]
    BY <1>3 DEF MergedReadShowsNoErased, Matches, Column
  <2>1. CASE t.scope = "session"
    BY <1>2, <1>3, <2>1 DEF Matches, Column, CoversSession, Tombstone
  <2>2. CASE t.scope = "source_path"
    BY <1>2, <1>3, <2>2 DEF Matches, Column, CoversSession, Tombstone
  <2>3. CASE t.scope = "project_root"
    BY <1>3, <2>3 DEF Matches, Column, CoversRoot
  <2> QED BY <1>2, <2>1, <2>2, <2>3 DEF Tombstone
<1> QED BY <1>1, <1>2, <1>3, <1>4 DEF ReadInv, ReadOK, PickedIsNotCovered

LEMMA EndReadKeeps ==
  ASSUME ReadInv, EndRead
  PROVE  ReadInv'
<1>1. StoresOK'
  BY DEF ReadInv, StoresOK, EndRead
<1> QED
  BY <1>1 DEF ReadInv, ReadOK, PickedIsNotCovered, MergedReadShowsNoErased, EndRead, NoRead

-----------------------------------------------------------------------------
(* The theorem.                                                             *)

LEMMA ReplicasInitEstablishes == ReplicasInit => ReadInv
<1> SUFFICES ASSUME ReplicasInit PROVE ReadInv
  OBVIOUS
<1>1. StoresOK
  BY DEF ReplicasInit, StoresOK, Store, Empty
<1> QED
  BY <1>1 DEF ReplicasInit, ReadInv, ReadOK, PickedIsNotCovered, MergedReadShowsNoErased, NoRead

LEMMA ReplicasNextKeeps ==
  ASSUME ReadInv, [ReplicasNext]_replicaVars
  PROVE  ReadInv'
<1>1. CASE \E m \in Machine, e \in Event : Ingest(m, e)        BY <1>1, IngestKeeps
<1>2. CASE \E m \in Machine, t \in Erasable : EraseOn(m, t)      BY <1>2, EraseKeeps
<1>3. CASE \E m, n \in Machine : Sync(m, n) \/ Break(m, n)     BY <1>3, TransportKeeps
<1>4. CASE \E m \in Machine : BeginAdopt(m) \/ AdoptDies(m)    BY <1>4, AdoptionKeeps
<1>5. CASE \E m \in Machine : \E t \in adopting[m] : AdoptOne(m, t)  BY <1>5, AdoptOneKeeps
<1>6. CASE \E m \in Reader, x \in SessionId : BeginRead(m, x)    BY <1>6, BeginReadKeeps
<1>7. CASE Count                                              BY <1>7, CountKeeps
<1>8. CASE Fetch                                              BY <1>8, FetchKeeps
<1>9. CASE EndRead                                            BY <1>9, EndReadKeeps
<1>10. CASE UNCHANGED replicaVars
  BY <1>10 DEF replicaVars, ReadInv, StoresOK, ReadOK, PickedIsNotCovered, MergedReadShowsNoErased
<1> QED BY <1>1, <1>2, <1>3, <1>4, <1>5, <1>6, <1>7, <1>8, <1>9, <1>10 DEF ReplicasNext

(* A merged read shows nothing that any store it could read had erased when *)
(* it began, under whatever spelling of the directory, whichever copy it    *)
(* picked and however far that copy lags.                                   *)
THEOREM NoErasedInMergedRead == ReplicasSpec => []MergedReadShowsNoErased
<1>1. ReadInv => MergedReadShowsNoErased  BY DEF ReadInv
<1> QED BY ReplicasInitEstablishes, ReplicasNextKeeps, <1>1, PTL DEF ReplicasSpec
=============================================================================
