--------------------------- MODULE MigrationProofs ---------------------------
(***************************************************************************)
(* What Migration promises, for every set of programs, files and stores    *)
(* found.  The invariant is layered: where each program is tells what the  *)
(* tables look like, that tells how rows may move, and with both no event  *)
(* is lost and every envelope can still be opened.                         *)
(***************************************************************************)
EXTENDS Migration, FiniteSetTheorems, WellFoundedInduction, TLAPS

-----------------------------------------------------------------------------
(* Finite sets.                                                            *)

LEMMA LeastNatural ==
  ASSUME NEW S \in SUBSET Nat, S # {}
  PROVE  \E m \in S : \A k \in S : m <= k
<1>1. PICK m \in S : \A k \in S : ~(<<k, m>> \in OpToRel(<, Nat))
  BY NatLessThanWellFounded, WFMin
<1>2. \A k \in S : ~(k < m)
  BY <1>1 DEF OpToRel
<1> QED
  BY <1>2

(* A finite set that is not empty has a greatest element in any total      *)
(* preorder: take a smallest subset without one, and an element away.      *)
LEMMA FiniteHasGreatest ==
  ASSUME NEW S, IsFiniteSet(S), S # {}, NEW R,
         \A x, y \in S : <<x, y>> \in R \/ <<y, x>> \in R,
         \A x, y, z \in S : <<x, y>> \in R /\ <<y, z>> \in R => <<x, z>> \in R
  PROVE  \E g \in S : \A x \in S : <<x, g>> \in R
<1> DEFINE Topped(U) == \E g \in U : \A x \in U : <<x, g>> \in R
           Topless == {U \in SUBSET S : U # {} /\ ~Topped(U)}
           sizes == {Cardinality(U) : U \in Topless}
<1> SUFFICES ASSUME ~Topped(S) PROVE FALSE
  OBVIOUS
<1>1. \A U \in SUBSET S : IsFiniteSet(U) /\ Cardinality(U) \in Nat
  BY FS_Subset, FS_CardinalityType
<1>2. sizes \in SUBSET Nat /\ sizes # {}
  BY <1>1
<1>3. PICK n \in sizes : \A m \in sizes : n <= m
  BY <1>2, LeastNatural
<1>4. PICK U \in Topless : Cardinality(U) = n
  BY <1>3
<1>5. PICK x \in U : TRUE
  BY <1>4
<1>6. Cardinality(U \ {x}) = n - 1
  BY <1>1, <1>4, <1>5, FS_RemoveElement
<1>7. U \ {x} # {} => Topped(U \ {x})
  <2>0. n \in Nat
    BY <1>2, <1>3
  <2>1. U \ {x} \in SUBSET S /\ ~(n <= Cardinality(U \ {x}))
    BY <1>4, <1>6, <2>0
  <2>2. Cardinality(U \ {x}) \notin sizes
    BY <1>3, <2>1
  <2> QED
    BY <2>1, <2>2
<1>8. x \in S /\ <<x, x>> \in R
  BY <1>4, <1>5
<1>9. CASE U \ {x} = {}
  BY <1>4, <1>5, <1>8, <1>9
<1>10. CASE U \ {x} # {}
  <2>1. PICK g \in U \ {x} : \A y \in U \ {x} : <<y, g>> \in R
    BY <1>7, <1>10
  <2>2. g \in S /\ \A y \in U : y \in S
    BY <1>4, <2>1
  <2>3. CASE <<x, g>> \in R
    BY <1>4, <2>1, <2>3
  <2>4. CASE <<g, x>> \in R
    <3>1. \A y \in U : <<y, x>> \in R
      BY <1>8, <2>1, <2>2, <2>4
    <3> QED
      BY <1>4, <1>5, <3>1
  <2> QED
    BY <1>8, <2>2, <2>3, <2>4
<1> QED
  BY <1>9, <1>10

(* So is whatever is made of its elements, one of each.                    *)
LEMMA ImageFinite ==
  ASSUME NEW S, IsFiniteSet(S), NEW f, DOMAIN f = S,
         NEW T, \A t \in T : \E r \in S : t = f[r]
  PROVE  IsFiniteSet(T)
<1> DEFINE U == {f[r] : r \in S}
           g == [r \in S |-> f[r]]
<1>1. g \in Surjection(S, U)
  BY DEF Surjection
<1>2. IsFiniteSet(U)
  BY <1>1, FS_Surjection
<1>3. T \in SUBSET U
  OBVIOUS
<1> HIDE DEF U
<1> QED
  BY <1>2, <1>3, FS_Subset

LEMMA MaxIsGreatest ==
  ASSUME NEW S \in SUBSET Nat, S # {}, IsFiniteSet(S)
  PROVE  Max(S) \in S /\ \A k \in S : k <= Max(S)
<1> DEFINE R == {e \in S \X S : e[1] <= e[2]}
<1>1. \A x, y \in S : <<x, y>> \in R <=> x <= y
  OBVIOUS
<1>2. \E g \in S : \A x \in S : <<x, g>> \in R
  <2>1. \A x, y \in S : <<x, y>> \in R \/ <<y, x>> \in R
    <3>1. \A x, y \in S : x <= y \/ y <= x
      OBVIOUS
    <3> HIDE DEF R
    <3> QED
      BY <1>1, <3>1
  <2>2. \A x, y, z \in S : <<x, y>> \in R /\ <<y, z>> \in R => <<x, z>> \in R
    <3>1. \A x, y, z \in S : x <= y /\ y <= z => x <= z
      OBVIOUS
    <3> HIDE DEF R
    <3> QED
      BY <1>1, <3>1
  <2> HIDE DEF R
  <2> QED
    BY <2>1, <2>2, FiniteHasGreatest
<1>3. \E g \in S : \A x \in S : g >= x
  BY <1>1, <1>2
<1>4. Max(S) \in S /\ \A x \in S : Max(S) >= x
  BY <1>3 DEF Max
<1> QED
  BY <1>4

LEMMA MinIsLeast ==
  ASSUME NEW S \in SUBSET Nat, S # {}, IsFiniteSet(S)
  PROVE  Min(S) \in S /\ \A k \in S : Min(S) <= k
<1> DEFINE R == {e \in S \X S : e[2] <= e[1]}
<1>1. \A x, y \in S : <<x, y>> \in R <=> y <= x
  OBVIOUS
<1>2. \E g \in S : \A x \in S : <<x, g>> \in R
  <2>1. \A x, y \in S : <<x, y>> \in R \/ <<y, x>> \in R
    <3>1. \A x, y \in S : x <= y \/ y <= x
      OBVIOUS
    <3> HIDE DEF R
    <3> QED
      BY <1>1, <3>1
  <2>2. \A x, y, z \in S : <<x, y>> \in R /\ <<y, z>> \in R => <<x, z>> \in R
    <3>1. \A x, y, z \in S : x <= y /\ y <= z => x <= z
      OBVIOUS
    <3> HIDE DEF R
    <3> QED
      BY <1>1, <3>1
  <2> HIDE DEF R
  <2> QED
    BY <2>1, <2>2, FiniteHasGreatest
<1> QED
  BY <1>1, <1>2 DEF Min

(* The newest revisions are greatest, the source revision first.           *)
LEMMA GreatestIsNewest ==
  ASSUME NEW rows \in SUBSET EventRow, IsFiniteSet(rows), NEW f, \E r \in rows : r.file = f
  PROVE  \E g \in Nat \X Nat : IsNewest(g, rows, f)
<1> DEFINE of == {r \in rows : r.file = f}
           R == {e \in of \X of : \/ e[1].srev < e[2].srev
                                  \/ e[1].srev = e[2].srev /\ e[1].prev <= e[2].prev}
<1>1. \A r \in of : r.srev \in Nat /\ r.prev \in Nat
  BY DEF EventRow
<1>2. \A x, y \in of : <<x, y>> \in R <=> x.srev < y.srev \/ (x.srev = y.srev /\ x.prev <= y.prev)
  OBVIOUS
<1>3. of # {} /\ IsFiniteSet(of)
  BY FS_Subset
<1>4. \E g \in of : \A x \in of : <<x, g>> \in R
  <2>1. \A x, y \in of : <<x, y>> \in R \/ <<y, x>> \in R
    <3> HIDE DEF R, of
    <3> TAKE x, y \in of
    <3>1. x.srev < y.srev \/ y.srev < x.srev \/ x.srev = y.srev
      BY <1>1
    <3>2. x.prev <= y.prev \/ y.prev <= x.prev
      BY <1>1
    <3> QED
      BY <1>2, <3>1, <3>2
  <2>2. \A x, y, z \in of : <<x, y>> \in R /\ <<y, z>> \in R => <<x, z>> \in R
    <3> HIDE DEF R, of
    <3> TAKE x, y, z \in of
    <3> HAVE <<x, y>> \in R /\ <<y, z>> \in R
    <3>1. \/ x.srev < y.srev
          \/ x.srev = y.srev /\ x.prev <= y.prev
      BY <1>2
    <3>2. \/ y.srev < z.srev
          \/ y.srev = z.srev /\ y.prev <= z.prev
      BY <1>2
    <3>3. \/ x.srev < z.srev
          \/ x.srev = z.srev /\ x.prev <= z.prev
      BY <1>1, <3>1, <3>2
    <3> QED
      BY <1>2, <3>3
  <2> HIDE DEF R, of
  <2> QED
    BY <1>3, <2>1, <2>2, FiniteHasGreatest
<1>5. PICK g \in of : \A x \in of : <<x, g>> \in R
  BY <1>4
<1>6. IsNewest(<<g.srev, g.prev>>, rows, f)
  <2>1. \A x \in of : x.srev < g.srev \/ (x.srev = g.srev /\ x.prev <= g.prev)
    BY <1>2, <1>5
  <2> QED
    BY <2>1 DEF IsNewest
<1> QED
  BY <1>1, <1>6

-----------------------------------------------------------------------------
(* Rows.                                                                   *)

(* What moving a row changes: the revisions its table did not have, and    *)
(* the time.                                                               *)
LEMMA MovedRowIs ==
  ASSUME NEW r \in EventRow, NEW from
  PROVE  LET m == MovedRow(r, from)
         IN  /\ m \in EventRow
             /\ m.off = r.off /\ m.file = r.file /\ m.seq = r.seq
             /\ m.env = r.env /\ m.event = r.event /\ m.ms = TRUE
             /\ from = "zero" => m.srev = 0
             /\ from # "zero" => m.srev = r.srev
             /\ from = "own" => m.prev = r.prev /\ m.aad = r.aad
             /\ from # "own" => m.prev = 0 /\ m.aad = 1
BY DEF MovedRow, EventRow

LEMMA MovedTyped ==
  ASSUME NEW rows \in SUBSET EventRow, NEW from
  PROVE  Moved(rows, from) \in SUBSET EventRow
BY MovedRowIs DEF Moved

LEMMA MovedFinite ==
  ASSUME NEW rows, IsFiniteSet(rows), NEW from
  PROVE  IsFiniteSet(Moved(rows, from))
<1> DEFINE f == [r \in rows |-> MovedRow(r, from)]
           T == Moved(rows, from)
<1>1. DOMAIN f = rows /\ \A r \in rows : f[r] = MovedRow(r, from)
  OBVIOUS
<1>2. \A t \in T : \E r \in rows : t = f[r]
  BY <1>1 DEF Moved
<1> HIDE DEF f, T
<1>3. IsFiniteSet(T)
  BY <1>1, <1>2, ImageFinite
<1> QED
  BY <1>3 DEF T

LEMMA AadTyped ==
  ASSUME NEW r \in EventRow
  PROVE  EventAad(r) \in Aad
<1>1. /\ r.file \in File /\ r.seq \in Nat /\ r.srev \in Nat /\ r.prev \in Nat
  BY DEF EventRow
<1> QED
  BY <1>1 DEF EventAad, Aad

(* Sealing changes nothing but the envelope.                               *)
LEMMA SealedIs ==
  ASSUME NEW r \in EventRow
  PROVE  Sealed(r).env = [by |-> "group", aad |-> EventAad(r)]
BY DEF Sealed, EventRow

(* A row is resealed as the row remembered at its offset, or left alone.   *)
LEMMA ResealedIs ==
  ASSUME NEW r \in EventRow, NEW old \in SUBSET EventRow
  PROVE  LET m == Resealed(r, old)
         IN  /\ m \in EventRow
             /\ m.off = r.off /\ m.file = r.file /\ m.seq = r.seq /\ m.srev = r.srev
             /\ m.prev = r.prev /\ m.aad = r.aad /\ m.event = r.event /\ m.ms = r.ms
             /\ \/ /\ m.env = r.env
                   /\ \A s \in old : s.off # r.off
                \/ \E s \in old : s.off = r.off /\ m.env = [by |-> "group", aad |-> EventAad(s)]
<1>1. CASE \E s \in old : s.off = r.off
  <2>1. PICK s \in old : s.off = r.off /\ s = (CHOOSE x \in old : x.off = r.off)
    BY <1>1
  <2>2. Resealed(r, old) = [r EXCEPT !.env = [by |-> "group", aad |-> EventAad(s)]]
    BY <1>1, <2>1, SealedIs DEF Resealed
  <2>3. [by |-> "group", aad |-> EventAad(s)] \in [by : {"plain", "master", "group"}, aad : Aad]
    BY AadTyped
  <2> QED
    BY <2>1, <2>2, <2>3 DEF EventRow
<1>2. CASE ~\E s \in old : s.off = r.off
  BY <1>2 DEF Resealed
<1> QED
  BY <1>1, <1>2

LEMMA ResealedFinite ==
  ASSUME NEW rows, IsFiniteSet(rows), NEW old
  PROVE  IsFiniteSet({Resealed(r, old) : r \in rows})
<1> DEFINE f == [r \in rows |-> Resealed(r, old)]
           T == {Resealed(r, old) : r \in rows}
<1>1. DOMAIN f = rows /\ \A r \in rows : f[r] = Resealed(r, old)
  OBVIOUS
<1>2. \A t \in T : \E r \in rows : t = f[r]
  BY <1>1
<1> HIDE DEF f, T
<1>3. IsFiniteSet(T)
  BY <1>1, <1>2, ImageFinite
<1> QED
  BY <1>3 DEF T

Timed(r) == [r EXCEPT !.ms = TRUE]

LEMMA TimedIs ==
  ASSUME NEW r \in EventRow
  PROVE  /\ Timed(r) \in EventRow
         /\ Timed(r).off = r.off /\ Timed(r).file = r.file /\ Timed(r).seq = r.seq
         /\ Timed(r).srev = r.srev /\ Timed(r).prev = r.prev /\ Timed(r).aad = r.aad
         /\ Timed(r).env = r.env /\ Timed(r).event = r.event
BY DEF Timed, EventRow

LEMMA TimedFinite ==
  ASSUME NEW rows, IsFiniteSet(rows)
  PROVE  IsFiniteSet({Timed(r) : r \in rows})
<1> DEFINE f == [r \in rows |-> Timed(r)]
           T == {Timed(r) : r \in rows}
<1>1. DOMAIN f = rows /\ \A r \in rows : f[r] = Timed(r)
  OBVIOUS
<1>2. \A t \in T : \E r \in rows : t = f[r]
  BY <1>1
<1> HIDE DEF f, T
<1>3. IsFiniteSet(T)
  BY <1>1, <1>2, ImageFinite
<1> QED
  BY <1>3 DEF T

LEMMA OffsetsFinite ==
  ASSUME NEW rows \in SUBSET EventRow, IsFiniteSet(rows)
  PROVE  /\ IsFiniteSet({0} \union {r.off : r \in rows})
         /\ {0} \union {r.off : r \in rows} \in SUBSET Nat
<1> DEFINE f == [r \in rows |-> r.off]
           T == {r.off : r \in rows}
<1>1. DOMAIN f = rows /\ \A r \in rows : f[r] = r.off
  OBVIOUS
<1>2. \A t \in T : \E r \in rows : t = f[r]
  BY <1>1
<1> HIDE DEF f, T
<1>3. IsFiniteSet(T)
  BY <1>1, <1>2, ImageFinite
<1>4. T \in SUBSET Nat
  BY DEF T, EventRow
<1>5. IsFiniteSet({0} \union T)
  BY <1>3, FS_Singleton, FS_Union
<1> QED
  BY <1>4, <1>5 DEF T

LEMMA SeqsFinite ==
  ASSUME NEW rows \in SUBSET EventRow, IsFiniteSet(rows)
  PROVE  /\ IsFiniteSet({0} \union {r.seq : r \in rows})
         /\ {0} \union {r.seq : r \in rows} \in SUBSET Nat
<1> DEFINE f == [r \in rows |-> r.seq]
           T == {r.seq : r \in rows}
<1>1. DOMAIN f = rows /\ \A r \in rows : f[r] = r.seq
  OBVIOUS
<1>2. \A t \in T : \E r \in rows : t = f[r]
  BY <1>1
<1> HIDE DEF f, T
<1>3. IsFiniteSet(T)
  BY <1>1, <1>2, ImageFinite
<1>4. T \in SUBSET Nat
  BY DEF T, EventRow
<1>5. IsFiniteSet({0} \union T)
  BY <1>3, FS_Singleton, FS_Union
<1> QED
  BY <1>4, <1>5 DEF T

-----------------------------------------------------------------------------
(* Where each program is, and what the tables look like then.  A table     *)
(* only ever becomes current, and one set aside is only ever taken back.   *)
Opened == {"coordinates", "ledger", "heads", "mark", "times", "keys", "legacy", "reseal",
           "validate", "open"}

Known(p) ==
  /\ At(p, "rewrite") => program[p].saw = raw.shape \/ raw.shape = "current"
  /\ program[p].at \in {"orphan", "recover", "column"} =>
       \/ raw.shape = "current"
       \/ raw.shape = "revisions" /\ program[p].saw = "revisions"
  /\ program[p].at \in Opened \union {"column"} => left = NoTable
  /\ program[p].at \in Opened => raw.shape = "current"

ShapeKnown == \A p \in Program : Known(p)

Sights == Shapes \union {"observers", "roots", None}
Tables == [shape : Shapes, rows : SUBSET EventRow]

Typed ==
  /\ raw \in Tables /\ left \in Tables
  /\ identity \in [observed : BOOLEAN, rows : SUBSET Sighting]
  /\ tables \subseteq Others /\ marks \subseteq Marks /\ keys \subseteq File
  /\ ledger \subseteq File \X Nat \X Nat
  /\ head \in [File -> (Nat \X Nat) \union {None}]
  /\ program \in [Program -> [at : Steps, saw : Sights, remembers : SUBSET EventRow]]
  /\ found \in Stores
  /\ twice \in BOOLEAN /\ writes \in Nat /\ crashes \in Nat

Finite ==
  /\ IsFiniteSet(raw.rows) /\ IsFiniteSet(left.rows) /\ IsFiniteSet(identity.rows)
  /\ raw.shape = "none" => raw = NoTable

ShapeInv == Typed /\ Finite /\ ShapeKnown

LEMMA TypedIsTypeOK == Typed <=> TypeOK
BY DEF Typed, TypeOK, StoreTypeOK, Tables, Sights

LEMMA GoIs ==
  ASSUME program \in [Program -> [at : Steps, saw : Sights, remembers : SUBSET EventRow]],
         NEW p \in Program, NEW step \in Steps, NEW saw \in Sights,
         NEW remembers \in SUBSET EventRow, Go(p, step, saw, remembers)
  PROVE  /\ (program \in [Program -> [at : Steps, saw : Sights, remembers : SUBSET EventRow]])'
         /\ program'[p].at = step /\ program'[p].saw = saw /\ program'[p].remembers = remembers
         /\ \A q \in Program : q # p => program'[q] = program[q]
BY DEF Go

LEMMA ClosedIs ==
  ASSUME program \in [Program -> [at : Steps, saw : Sights, remembers : SUBSET EventRow]],
         NEW p \in Program, program' = [program EXCEPT ![p] = Closed]
  PROVE  /\ (program \in [Program -> [at : Steps, saw : Sights, remembers : SUBSET EventRow]])'
         /\ program'[p].at = "closed"
         /\ \A q \in Program : q # p => program'[q] = program[q]
<1>1. Closed \in [at : Steps, saw : Sights, remembers : SUBSET EventRow]
  BY DEF Closed, Steps, Sights
<1> QED
  BY <1>1 DEF Closed

(* Every step is the actor's: for the others the tables only get better.   *)
LEMMA OthersKnow ==
  ASSUME ShapeKnown, NEW p \in Program,
         raw'.shape \in {raw.shape, "current"}, left' \in {left, NoTable},
         \A q \in Program : q # p => program'[q] = program[q],
         Known(p)'
  PROVE  ShapeKnown'
<1> SUFFICES ASSUME NEW q \in Program, q # p PROVE Known(q)'
  BY DEF ShapeKnown
<1>1. Known(q) /\ program'[q] = program[q]
  BY DEF ShapeKnown
<1> QED
  BY <1>1 DEF Known, At, Opened

(* A step that goes nowhere new: the transaction failed, the store was     *)
(* closed, or the program killed.                                          *)
LEMMA ClosedShape ==
  ASSUME ShapeInv, NEW p \in Program, program' = [program EXCEPT ![p] = Closed],
         UNCHANGED <<store, found, twice, writes>>, crashes' \in Nat
  PROVE  ShapeInv'
<1> USE DEF ShapeInv
<1>0. UNCHANGED <<raw, left, identity, tables, ledger, head, marks, keys, found, twice, writes>>
  BY DEF store
<1>1. /\ (program \in [Program -> [at : Steps, saw : Sights, remembers : SUBSET EventRow]])'
      /\ program'[p].at = "closed"
      /\ \A q \in Program : q # p => program'[q] = program[q]
  BY ClosedIs DEF Typed
<1>2. Known(p)'
  BY <1>0, <1>1 DEF Known, At, Opened
<1>3. ShapeKnown'
  BY <1>0, <1>1, <1>2, OthersKnow
<1>4. Typed'
  BY <1>0, <1>1 DEF Typed
<1>5. Finite'
  BY <1>0 DEF Finite
<1> QED
  BY <1>3, <1>4, <1>5

(* A step that only moves the program on, or writes what is neither of the *)
(* tables of events.                                                       *)
LEMMA QuietShape ==
  ASSUME ShapeInv, NEW p \in Program, NEW step \in Steps, NEW saw \in Sights,
         NEW remembers \in SUBSET EventRow, Go(p, step, saw, remembers),
         UNCHANGED <<raw, left, found, twice, writes, crashes>>,
         (identity \in [observed : BOOLEAN, rows : SUBSET Sighting])', IsFiniteSet(identity'.rows),
         tables' \subseteq Others, marks' \subseteq Marks, keys' \subseteq File,
         ledger' \subseteq File \X Nat \X Nat, (head \in [File -> (Nat \X Nat) \union {None}])',
         step = "rewrite" => saw = raw.shape,
         step \in {"orphan", "recover", "column"} =>
           \/ raw.shape = "current"
           \/ raw.shape = "revisions" /\ saw = "revisions",
         step \in Opened \union {"column"} => left = NoTable,
         step \in Opened => raw.shape = "current"
  PROVE  ShapeInv'
<1> USE DEF ShapeInv
<1>1. /\ (program \in [Program -> [at : Steps, saw : Sights, remembers : SUBSET EventRow]])'
      /\ program'[p].at = step /\ program'[p].saw = saw
      /\ \A q \in Program : q # p => program'[q] = program[q]
  BY GoIs DEF Typed
<1>2. Known(p)'
  BY <1>1 DEF Known, At
<1>3. ShapeKnown'
  BY <1>1, <1>2, OthersKnow
<1>4. Typed'
  BY <1>1 DEF Typed
<1>5. Finite'
  BY DEF Finite
<1> QED
  BY <1>3, <1>4, <1>5

(* A step that writes the table of events.                                 *)
LEMMA LoudShape ==
  ASSUME ShapeInv, NEW p \in Program, NEW step \in Steps, NEW saw \in Sights,
         Go(p, step, saw, {}),
         UNCHANGED <<identity, found, writes, crashes>>,
         raw' \in Tables, raw'.shape = "current", IsFiniteSet(raw'.rows),
         left' \in {left, NoTable}, twice' \in BOOLEAN,
         tables' = tables, marks' \subseteq Marks, keys' \subseteq File, ledger' = ledger, head' = head,
         step \in Opened \union {"column"} => left' = NoTable
  PROVE  ShapeInv'
<1> USE DEF ShapeInv
<1>1. /\ (program \in [Program -> [at : Steps, saw : Sights, remembers : SUBSET EventRow]])'
      /\ program'[p].at = step /\ program'[p].saw = saw
      /\ \A q \in Program : q # p => program'[q] = program[q]
  BY GoIs DEF Typed
<1>2. Known(p)'
  BY <1>1 DEF Known, At
<1>3. ShapeKnown'
  BY <1>1, <1>2, OthersKnow
<1>4. NoTable \in Tables /\ IsFiniteSet(NoTable.rows)
  BY FS_EmptySet DEF NoTable, Tables, Shapes
<1>5. Typed'
  BY <1>1, <1>4 DEF Typed
<1>6. Finite'
  BY <1>4 DEF Finite
<1> QED
  BY <1>3, <1>5, <1>6

-----------------------------------------------------------------------------
(* The actions keep it.                                                    *)
LEMMA ShapeInvInit == Init => ShapeInv
<1> SUFFICES ASSUME Init PROVE ShapeInv
  OBVIOUS
<1>1. PICK s \in Stores :
        /\ raw = s.raw /\ left = s.left /\ identity = s.identity
        /\ tables = s.tables /\ ledger = s.ledger /\ head = s.head
        /\ marks = s.marks /\ keys = s.keys
        /\ found = s
  BY DEF Init
<1>2. /\ StoreTypeOK(s) /\ Fits(s.raw)
      /\ IsFiniteSet(s.raw.rows) /\ IsFiniteSet(s.left.rows) /\ IsFiniteSet(s.identity.rows)
  BY MigrationAssumption
<1>3. program = [p \in Program |-> Closed] /\ twice = FALSE /\ writes = 0 /\ crashes = 0
  BY DEF Init
<1>4. Closed \in [at : Steps, saw : Sights, remembers : SUBSET EventRow]
  BY DEF Closed, Steps, Sights
<1>5. Typed
  BY <1>1, <1>2, <1>3, <1>4 DEF Typed, StoreTypeOK, Tables
<1>6. Finite
  <2>1. raw \in Tables /\ Fits(raw)
    BY <1>1, <1>2, <1>5 DEF Typed
  <2>2. raw.shape = "none" => raw = NoTable
    BY <2>1 DEF Fits, Tables, NoTable
  <2> QED
    BY <1>1, <1>2, <2>2 DEF Finite
<1>7. ShapeKnown
  BY <1>3 DEF ShapeKnown, Known, At, Closed, Opened
<1> QED
  BY <1>5, <1>6, <1>7 DEF ShapeInv

LEMMA SightingsFinite ==
  ASSUME NEW rows \in SUBSET Sighting, IsFiniteSet(rows)
  PROVE  /\ IsFiniteSet({i.first : i \in rows}) /\ {i.first : i \in rows} \in SUBSET Nat
         /\ IsFiniteSet({i.last : i \in rows}) /\ {i.last : i \in rows} \in SUBSET Nat
         /\ IsFiniteSet({i.root : i \in rows}) /\ {i.root : i \in rows} \in SUBSET STRING
<1> DEFINE f == [i \in rows |-> i.first]
           l == [i \in rows |-> i.last]
           x == [i \in rows |-> i.root]
           F == {i.first : i \in rows}
           L == {i.last : i \in rows}
           X == {i.root : i \in rows}
<1>1. F \in SUBSET Nat /\ L \in SUBSET Nat /\ X \in SUBSET STRING
  BY DEF Sighting
<1>2. DOMAIN f = rows /\ \A t \in F : \E r \in rows : t = f[r]
  OBVIOUS
<1>3. DOMAIN l = rows /\ \A t \in L : \E r \in rows : t = l[r]
  OBVIOUS
<1>4. DOMAIN x = rows /\ \A t \in X : \E r \in rows : t = x[r]
  OBVIOUS
<1> HIDE DEF f, l, x, F, L, X
<1>5. IsFiniteSet(F)
  BY <1>2, ImageFinite
<1>6. IsFiniteSet(L)
  BY <1>3, ImageFinite
<1>7. IsFiniteSet(X)
  BY <1>4, ImageFinite
<1> QED
  BY <1>1, <1>5, <1>6, <1>7 DEF F, L, X

(* What the merge makes of a root: its sightings, from first to last.      *)
SeenAt(x) == {j \in identity.rows : j.root = x}
Merged(x) == [root |-> x, by |-> None, first |-> Min({i.first : i \in SeenAt(x)}),
              last |-> Max({i.last : i \in SeenAt(x)})]

LEMMA MergeKeepsRoots ==
  ASSUME identity.rows \in SUBSET Sighting, IsFiniteSet(identity.rows)
  PROVE  /\ MergedIdentity \in [observed : BOOLEAN, rows : SUBSET Sighting]
         /\ IsFiniteSet(MergedIdentity.rows)
         /\ \A i \in identity.rows : \E j \in MergedIdentity.rows :
              i.root = j.root /\ j.first <= i.first /\ i.last <= j.last
<1> DEFINE roots == {i.root : i \in identity.rows}
           rows == {Merged(x) : x \in roots}
<1>1. MergedIdentity = [observed |-> FALSE, rows |-> rows]
  BY DEF MergedIdentity, Merged, SeenAt
<1>2. IsFiniteSet(roots) /\ roots \in SUBSET STRING
  BY SightingsFinite
<1>3. ASSUME NEW x \in roots
      PROVE  /\ Merged(x) \in Sighting
             /\ \A i \in SeenAt(x) : Merged(x).first <= i.first /\ i.last <= Merged(x).last
  <2> DEFINE F == {i.first : i \in SeenAt(x)}
             L == {i.last : i \in SeenAt(x)}
  <2>1. SeenAt(x) \in SUBSET Sighting /\ IsFiniteSet(SeenAt(x))
    BY FS_Subset DEF SeenAt
  <2>2. IsFiniteSet(F) /\ F \in SUBSET Nat /\ IsFiniteSet(L) /\ L \in SUBSET Nat
    BY <2>1, SightingsFinite
  <2>3. F # {} /\ L # {}
    BY DEF SeenAt
  <2>4. \A i \in SeenAt(x) : i.first \in F /\ i.last \in L
    OBVIOUS
  <2>5. Merged(x) = [root |-> x, by |-> None, first |-> Min(F), last |-> Max(L)]
    BY DEF Merged
  <2> HIDE DEF F, L
  <2>6. Min(F) \in F /\ \A k \in F : Min(F) <= k
    BY <2>2, <2>3, MinIsLeast
  <2>7. Max(L) \in L /\ \A k \in L : k <= Max(L)
    BY <2>2, <2>3, MaxIsGreatest
  <2>8. x \in STRING
    BY <1>2
  <2>9. Min(F) \in Nat /\ Max(L) \in Nat
    BY <2>2, <2>6, <2>7
  <2>10. Merged(x) \in Sighting
    BY <2>5, <2>8, <2>9 DEF Sighting
  <2>11. Merged(x).first = Min(F) /\ Merged(x).last = Max(L)
    BY <2>5
  <2> QED
    BY <2>4, <2>6, <2>7, <2>10, <2>11
<1>4. IsFiniteSet(rows)
  <2> DEFINE f == [x \in roots |-> Merged(x)]
  <2>1. DOMAIN f = roots /\ \A t \in rows : \E x \in roots : t = f[x]
    OBVIOUS
  <2> HIDE DEF f, rows, roots
  <2> QED
    BY <1>2, <2>1, ImageFinite
<1>5. rows \in SUBSET Sighting
  BY <1>3
<1>6. ASSUME NEW i \in identity.rows
      PROVE  \E j \in rows : i.root = j.root /\ j.first <= i.first /\ i.last <= j.last
  <2>1. i.root \in roots /\ i \in SeenAt(i.root)
    BY DEF SeenAt
  <2>2. Merged(i.root) \in rows /\ Merged(i.root).root = i.root
    BY <2>1 DEF Merged
  <2> HIDE DEF rows, roots
  <2> QED
    BY <1>3, <2>1, <2>2
<1> HIDE DEF rows, roots
<1> QED
  BY <1>1, <1>4, <1>5, <1>6

(* The steps that leave the tables of events alone.                        *)
LEMMA WalkShape ==
  ASSUME ShapeInv, NEW p \in Program,
         \/ Begin(p) \/ RewriteIdentity(p) \/ LookAtShape(p) \/ LookForOrphan(p)
         \/ MakeCoordinates(p) \/ FillLedger(p) \/ FillHeads(p) \/ MarkCoordinates(p)
         \/ MakeKeys(p) \/ ReadLegacy(p) \/ Validate(p) \/ Close(p) \/ Crash(p)
  PROVE  ShapeInv'
<1> USE DEF ShapeInv
<1>0. /\ Known(p) /\ {} \in SUBSET EventRow
      /\ raw.shape \in Sights /\ program[p].saw \in Sights /\ None \in Sights
      /\ IsFiniteSet(identity.rows) /\ Typed
  BY DEF ShapeKnown, Typed, Tables, Sights, Finite
<1>1. CASE Begin(p)
  <2>1. "identity" \in Steps /\ {"observers", "roots"} \subseteq Sights
    BY DEF Steps, Sights
  <2>2. (IF identity.observed THEN "observers" ELSE "roots") \in Sights
    BY <2>1
  <2> QED
    BY <1>0, <1>1, <2>1, <2>2, QuietShape DEF Begin, Typed, store, bounds, Opened
<1>2. CASE RewriteIdentity(p)
  <2>1. /\ identity'.rows \in SUBSET Sighting /\ IsFiniteSet(identity'.rows)
        /\ identity' \in [observed : BOOLEAN, rows : SUBSET Sighting]
    <3>1. identity.rows \in SUBSET Sighting
      BY DEF Typed
    <3>2. /\ MergedIdentity \in [observed : BOOLEAN, rows : SUBSET Sighting]
          /\ IsFiniteSet(MergedIdentity.rows)
      BY <1>0, <3>1, MergeKeepsRoots
    <3> QED
      BY <1>0, <1>2, <3>2 DEF RewriteIdentity, Typed
  <2>2. "look" \in Steps
    BY DEF Steps
  <2> QED
    BY <1>0, <1>2, <2>1, <2>2, QuietShape DEF RewriteIdentity, Continue, Typed, bounds, Opened
<1>3. CASE LookAtShape(p)
  <2>1. "rewrite" \in Steps
    BY DEF Steps
  <2> QED
    BY <1>0, <1>3, <2>1, QuietShape DEF LookAtShape, Typed, store, bounds, Opened
<1>4. CASE LookForOrphan(p)
  <2>1. {"column", "recover"} \subseteq Steps
    BY DEF Steps
  <2>2. raw.shape = "current" \/ (raw.shape = "revisions" /\ program[p].saw = "revisions")
    BY <1>0, <1>4 DEF LookForOrphan, Known, At
  <2>3. CASE left = NoTable
    BY <1>0, <1>4, <2>1, <2>2, <2>3, QuietShape DEF LookForOrphan, Typed, store, bounds, Opened
  <2>4. CASE left # NoTable
    BY <1>0, <1>4, <2>1, <2>2, <2>4, QuietShape DEF LookForOrphan, Typed, store, bounds, Opened
  <2> QED
    BY <2>3, <2>4
<1>5. ASSUME At(p, "coordinates") \/ At(p, "ledger") \/ At(p, "heads") \/ At(p, "mark")
             \/ At(p, "keys") \/ At(p, "legacy") \/ At(p, "validate")
      PROVE  raw.shape = "current" /\ left = NoTable
  BY <1>0, <1>5 DEF Known, At, Opened
<1>6. CASE MakeCoordinates(p)
  <2>1. {"times", "ledger"} \subseteq Steps
    BY DEF Steps
  <2>2. tables' \subseteq Others
    BY <1>6 DEF MakeCoordinates, Typed, Others
  <2>3. CASE "coords_backfilled" \in marks
    BY <1>0, <1>5, <1>6, <2>1, <2>2, <2>3, QuietShape DEF MakeCoordinates, Continue, Typed, bounds
  <2>4. CASE "coords_backfilled" \notin marks
    BY <1>0, <1>5, <1>6, <2>1, <2>2, <2>4, QuietShape DEF MakeCoordinates, Continue, Typed, bounds
  <2> QED
    BY <2>3, <2>4
<1>7. CASE FillLedger(p)
  <2>1. "heads" \in Steps
    BY DEF Steps
  <2>2. \A r \in raw.rows : Coordinates(r) \in File \X Nat \X Nat
    BY DEF Coordinates, Typed, Tables, EventRow
  <2>3. ledger' \subseteq File \X Nat \X Nat
    BY <1>7, <2>2 DEF FillLedger, Typed
  <2> QED
    BY <1>0, <1>5, <1>7, <2>1, <2>3, QuietShape DEF FillLedger, Continue, Typed, bounds
<1>8. CASE FillHeads(p)
  <2>1. "mark" \in Steps
    BY DEF Steps
  <2>2. ASSUME NEW f \in File PROVE FilledHead(f) \in (Nat \X Nat) \union {None}
    <3>1. CASE head[f] = None /\ \E r \in raw.rows : r.file = f
      <4> DEFINE of == {r \in raw.rows : r.file = f}
      <4>1. raw.rows \in SUBSET EventRow /\ IsFiniteSet(raw.rows)
        BY DEF Typed, Tables, Finite
      <4>2. PICK g \in Nat \X Nat : IsNewest(g, raw.rows, f)
        BY <3>1, <4>1, GreatestIsNewest
      <4>3. \E g2 \in {<<r.srev, r.prev>> : r \in of} :
              \A r \in of : r.srev < g2[1] \/ (r.srev = g2[1] /\ r.prev <= g2[2])
        BY <4>2 DEF IsNewest
      <4>4. Greatest(f) \in {<<r.srev, r.prev>> : r \in of}
        BY <4>3 DEF Greatest
      <4>5. Greatest(f) \in Nat \X Nat
        BY <4>1, <4>4 DEF EventRow
      <4> QED
        BY <3>1, <4>5 DEF FilledHead
    <3>2. CASE ~(head[f] = None /\ \E r \in raw.rows : r.file = f)
      BY <3>2 DEF FilledHead, Typed
    <3> QED
      BY <3>1, <3>2
  <2>3. head' \in [File -> (Nat \X Nat) \union {None}]
    BY <1>8, <2>2 DEF FillHeads
  <2> QED
    BY <1>0, <1>5, <1>8, <2>1, <2>3, QuietShape DEF FillHeads, Continue, Typed, bounds
<1>9. CASE MarkCoordinates(p)
  <2>1. "times" \in Steps
    BY DEF Steps
  <2>2. marks' \subseteq Marks
    BY <1>9 DEF MarkCoordinates, Typed, Marks
  <2> QED
    BY <1>0, <1>5, <1>9, <2>1, <2>2, QuietShape DEF MarkCoordinates, Continue, Typed, bounds
<1>10. CASE MakeKeys(p)
  <2>1. "legacy" \in Steps
    BY DEF Steps
  <2>2. tables' \subseteq Others
    BY <1>10 DEF MakeKeys, Typed, Others
  <2> QED
    BY <1>0, <1>5, <1>10, <2>1, <2>2, QuietShape DEF MakeKeys, Continue, Typed, bounds
<1>11. CASE ReadLegacy(p)
  <2>1. {"validate", "reseal"} \subseteq Steps
    BY DEF Steps
  <2>2. Legacy \in SUBSET EventRow
    BY DEF Legacy, Typed, Tables
  <2>3. CASE "encryption_version" \in marks
    BY <1>0, <1>5, <1>11, <2>1, <2>3, QuietShape DEF ReadLegacy, Continue, Typed, store, bounds
  <2>4. CASE "encryption_version" \notin marks /\ Legacy = {}
    <3>1. marks' \subseteq Marks
      BY <1>11, <2>4 DEF ReadLegacy, Typed, Marks
    <3> QED
      BY <1>0, <1>5, <1>11, <2>1, <2>4, <3>1, QuietShape DEF ReadLegacy, Continue, Typed, bounds
  <2>5. CASE "encryption_version" \notin marks /\ Legacy # {}
    BY <1>0, <1>5, <1>11, <2>1, <2>2, <2>5, QuietShape DEF ReadLegacy, Typed, store, bounds
  <2> QED
    BY <2>3, <2>4, <2>5
<1>12. CASE Validate(p)
  <2>1. "open" \in Steps
    BY DEF Steps
  <2>2. CASE FirstRowOpens
    BY <1>0, <1>5, <1>12, <2>1, <2>2, QuietShape DEF Validate, Continue, Typed, store, bounds
  <2>3. CASE ~FirstRowOpens
    BY <1>0, <1>12, <2>3, ClosedShape DEF Validate, Fail, Typed, bounds
  <2> QED
    BY <2>2, <2>3
<1>13. CASE Close(p)
  BY <1>0, <1>13, ClosedShape DEF Close, Typed, bounds
<1>14. CASE Crash(p)
  <2>1. crashes' \in Nat
    BY <1>14 DEF Crash, Typed
  <2> QED
    BY <1>14, <2>1, ClosedShape DEF Crash
<1> QED
  BY <1>1, <1>2, <1>3, <1>4, <1>6, <1>7, <1>8, <1>9, <1>10, <1>11, <1>12, <1>13, <1>14

(* The steps that write the table of events.                               *)
LEMMA RewriteShape ==
  ASSUME ShapeInv, NEW p \in Program, Rewrite(p)
  PROVE  ShapeInv'
<1> USE DEF ShapeInv
<1> DEFINE saw == program[p].saw
<1>0. /\ Known(p) /\ saw \in Sights /\ "orphan" \in Steps /\ {} \in SUBSET EventRow
      /\ saw = raw.shape \/ raw.shape = "current"
      /\ IsFiniteSet(identity.rows) /\ Typed
  BY DEF ShapeKnown, Known, At, Rewrite, Typed, Steps, Finite
<1>1. CASE saw = "none"
  <2>1. raw' \in Tables /\ raw'.shape = "current" /\ IsFiniteSet(raw'.rows)
    <3>1. raw = NoTable \/ raw.shape = "current"
      BY <1>0, <1>1 DEF Finite
    <3>2. EmptyTable \in Tables /\ EmptyTable.shape = "current" /\ IsFiniteSet(EmptyTable.rows)
      BY FS_EmptySet DEF EmptyTable, Tables, Shapes
    <3>3. raw' = IF raw = NoTable THEN EmptyTable ELSE raw
      BY <1>1 DEF Rewrite
    <3> QED
      BY <3>1, <3>2, <3>3 DEF Typed, Finite
  <2>2. Go(p, "orphan", saw, {}) /\ UNCHANGED <<left, identity, tables, ledger, head, marks, keys, bounds>>
    BY <1>1 DEF Rewrite
  <2> HIDE DEF saw
  <2> QED
    BY <1>0, <2>1, <2>2, LoudShape DEF Typed, bounds, Opened
<1>2. CASE saw # "none" /\ HasRevisions(saw)
  <2>1. Go(p, "orphan", saw, {}) /\ UNCHANGED <<store, bounds>>
    BY <1>2 DEF Rewrite
  <2>2. raw.shape = "current" \/ (raw.shape = "revisions" /\ saw = "revisions")
    BY <1>0, <1>2 DEF HasRevisions
  <2> HIDE DEF saw
  <2> QED
    BY <1>0, <2>1, <2>2, QuietShape DEF Typed, store, bounds, Opened
<1>3. CASE saw # "none" /\ ~HasRevisions(saw) /\ CanRewrite(saw)
  <2>1. raw' = [shape |-> "current", rows |-> Moved(raw.rows, RewriteFrom(saw))]
    BY <1>3 DEF Rewrite
  <2>2. raw' \in Tables /\ raw'.shape = "current" /\ IsFiniteSet(raw'.rows)
    <3>1. raw.rows \in SUBSET EventRow /\ IsFiniteSet(raw.rows)
      BY DEF Typed, Tables, Finite
    <3>2. /\ Moved(raw.rows, RewriteFrom(saw)) \in SUBSET EventRow
          /\ IsFiniteSet(Moved(raw.rows, RewriteFrom(saw)))
      BY <3>1, MovedTyped, MovedFinite
    <3> QED
      BY <2>1, <3>2 DEF Tables, Shapes
  <2>3. /\ Go(p, "orphan", saw, {}) /\ twice' \in BOOLEAN
        /\ UNCHANGED <<left, identity, tables, ledger, head, marks, keys, found, writes, crashes>>
    BY <1>3 DEF Rewrite, Typed
  <2> HIDE DEF saw
  <2> QED
    BY <1>0, <2>2, <2>3, LoudShape DEF Typed, Opened
<1>4. CASE saw # "none" /\ ~HasRevisions(saw) /\ ~CanRewrite(saw)
  <2>1. Fail(p)
    BY <1>4 DEF Rewrite
  <2> QED
    BY <2>1, ClosedShape DEF Fail, Typed, bounds
<1> QED
  BY <1>1, <1>2, <1>3, <1>4

LEMMA RecoverShape ==
  ASSUME ShapeInv, NEW p \in Program, Recover(p)
  PROVE  ShapeInv'
<1> USE DEF ShapeInv
<1> DEFINE rows == Moved(left.rows, OrphanFrom(left.shape))
           saw == program[p].saw
<1>1. CASE left = NoTable \/ raw.shape # "current"
  <2>1. Fail(p)
    BY <1>1 DEF Recover
  <2> QED
    BY <2>1, ClosedShape DEF Fail, Typed, bounds
<1>2. CASE left # NoTable /\ raw.shape = "current"
  <2>1. /\ raw' = [raw EXCEPT !.rows = @ \union Untaken(rows)]
        /\ left' = NoTable
        /\ Go(p, "column", saw, {})
        /\ UNCHANGED <<identity, tables, ledger, head, marks, keys, bounds>>
    BY <1>2 DEF Recover
  <2>2. rows \in SUBSET EventRow /\ IsFiniteSet(rows)
    <3>1. left.rows \in SUBSET EventRow /\ IsFiniteSet(left.rows)
      BY DEF Typed, Tables, Finite
    <3> QED
      BY <3>1, MovedTyped, MovedFinite
  <2> HIDE DEF rows
  <2>3. Untaken(rows) \in SUBSET rows
    BY DEF Untaken
  <2>4. IsFiniteSet(Untaken(rows))
    BY <2>2, <2>3, FS_Subset
  <2>5. IsFiniteSet(raw.rows \union Untaken(rows))
    BY <2>4, FS_Union DEF Finite
  <2>6. /\ raw' \in Tables /\ raw'.shape = "current"
        /\ raw'.rows = raw.rows \union Untaken(rows)
    BY <1>2, <2>1, <2>2, <2>3 DEF Typed, Tables
  <2>7. saw \in Sights /\ "column" \in Steps
    BY DEF Typed, Steps
  <2> HIDE DEF saw
  <2> QED
    BY <2>1, <2>5, <2>6, <2>7, LoudShape DEF Typed, bounds
<1> QED
  BY <1>1, <1>2

LEMMA AddColumnShape ==
  ASSUME ShapeInv, NEW p \in Program, AddColumn(p)
  PROVE  ShapeInv'
<1> USE DEF ShapeInv
<1>0. /\ Known(p) /\ None \in Sights /\ "coordinates" \in Steps /\ {} \in SUBSET EventRow
      /\ IsFiniteSet(identity.rows) /\ IsFiniteSet(raw.rows) /\ left = NoTable
  BY DEF ShapeKnown, Known, At, AddColumn, Typed, Steps, Sights, Finite
<1>1. CASE program[p].saw # "revisions"
  <2>1. raw.shape = "current"
    BY <1>0, <1>1 DEF Known, At, AddColumn
  <2> QED
    BY <1>0, <1>1, <2>1, QuietShape DEF AddColumn, Continue, Typed, store, bounds
<1>2. CASE program[p].saw = "revisions" /\ raw.shape = "current"
  <2>1. Fail(p)
    BY <1>2 DEF AddColumn
  <2> QED
    BY <2>1, ClosedShape DEF Fail, Typed, bounds
<1>3. CASE program[p].saw = "revisions" /\ raw.shape # "current"
  <2>1. /\ raw' = [raw EXCEPT !.shape = "current"]
        /\ Go(p, "coordinates", None, {})
        /\ UNCHANGED <<left, identity, tables, ledger, head, marks, keys, bounds>>
    BY <1>3 DEF AddColumn, Continue
  <2>2. raw' \in Tables /\ raw'.shape = "current" /\ raw'.rows = raw.rows
    BY <2>1 DEF Typed, Tables, Shapes
  <2> QED
    BY <1>0, <2>1, <2>2, LoudShape DEF Typed, bounds
<1> QED
  BY <1>1, <1>2, <1>3

LEMMA FillTimesShape ==
  ASSUME ShapeInv, NEW p \in Program, FillTimes(p)
  PROVE  ShapeInv'
<1> USE DEF ShapeInv
<1>0. /\ Known(p) /\ None \in Sights /\ "keys" \in Steps
      /\ raw.shape = "current" /\ left = NoTable
  BY DEF ShapeKnown, Known, At, FillTimes, Typed, Steps, Sights, Opened
<1>1. raw' = [raw EXCEPT !.rows = {Timed(r) : r \in raw.rows}]
  BY DEF FillTimes, Timed
<1>2. {Timed(r) : r \in raw.rows} \in SUBSET EventRow /\ IsFiniteSet({Timed(r) : r \in raw.rows})
  BY TimedIs, TimedFinite DEF Typed, Tables, Finite
<1>3. raw' \in Tables /\ raw'.shape = "current" /\ raw'.rows = {Timed(r) : r \in raw.rows}
  BY <1>0, <1>1, <1>2 DEF Typed, Tables
<1> QED
  BY <1>0, <1>2, <1>3, LoudShape DEF FillTimes, Continue, Typed, bounds

LEMMA ResealShape ==
  ASSUME ShapeInv, NEW p \in Program, Reseal(p)
  PROVE  ShapeInv'
<1> USE DEF ShapeInv
<1> DEFINE old == program[p].remembers
           rows == {Resealed(r, old) : r \in raw.rows}
<1>0. /\ Known(p) /\ None \in Sights /\ "validate" \in Steps /\ old \in SUBSET EventRow
      /\ raw.shape = "current" /\ left = NoTable
  BY DEF ShapeKnown, Known, At, Reseal, Typed, Steps, Sights, Opened
<1>1. CASE \E r \in old : ~Readable(r)
  <2>1. Fail(p)
    BY <1>1 DEF Reseal
  <2> QED
    BY <2>1, ClosedShape DEF Fail, Typed, bounds
<1>2. CASE ~\E r \in old : ~Readable(r)
  <2>1. /\ raw' = [raw EXCEPT !.rows = rows]
        /\ keys' = keys \union {r.file : r \in old}
        /\ marks' = marks \union {"encryption_version"}
        /\ Go(p, "validate", None, {})
        /\ UNCHANGED <<left, identity, tables, ledger, head, bounds>>
    BY <1>2 DEF Reseal, Continue
  <2>2. rows \in SUBSET EventRow /\ IsFiniteSet(rows)
    <3>1. raw.rows \in SUBSET EventRow /\ IsFiniteSet(raw.rows)
      BY DEF Typed, Tables, Finite
    <3> QED
      BY <1>0, <3>1, ResealedIs, ResealedFinite
  <2>3. keys' \subseteq File /\ marks' \subseteq Marks
    BY <1>0, <2>1 DEF Typed, EventRow, Marks
  <2> HIDE DEF rows, old
  <2>4. raw' \in Tables /\ raw'.shape = "current" /\ raw'.rows = rows
    BY <1>0, <2>1, <2>2 DEF Typed, Tables
  <2> QED
    BY <1>0, <2>1, <2>2, <2>3, <2>4, LoudShape DEF Typed, bounds
<1> QED
  BY <1>1, <1>2

(* A batch of one event: its row is one more, sealed, after all the others.*)
Written(f, to) ==
  Sealed([off |-> NextOffset, file |-> f, seq |-> NextSeq(f, to), srev |-> to[1],
          prev |-> to[2], aad |-> 2, ms |-> TRUE, env |-> None, event |-> <<"written", writes>>])

LEMMA WrittenIs ==
  ASSUME ShapeInv, NEW f \in File, NEW to \in Nat \X Nat
  PROVE  LET w == Written(f, to)
         IN  /\ w \in EventRow /\ w.file = f /\ w.srev = to[1] /\ w.prev = to[2]
             /\ w.off = NextOffset /\ w.event = <<"written", writes>>
             /\ w.env.by = "group" /\ w.env.aad = EventAad(w)
             /\ \A r \in raw.rows : r.off < w.off
<1> USE DEF ShapeInv
<1>1. raw.rows \in SUBSET EventRow /\ IsFiniteSet(raw.rows) /\ writes \in Nat
  BY DEF Typed, Tables, Finite
<1>2. NextOffset \in Nat /\ \A r \in raw.rows : r.off < NextOffset
  <2> DEFINE offs == {0} \union {r.off : r \in raw.rows}
  <2>1. offs \in SUBSET Nat /\ IsFiniteSet(offs)
    BY <1>1, OffsetsFinite
  <2>2. 0 \in offs /\ \A r \in raw.rows : r.off \in offs
    OBVIOUS
  <2>3. NextOffset = 1 + Max(offs)
    BY DEF NextOffset
  <2> HIDE DEF offs
  <2>4. Max(offs) \in offs /\ \A k \in offs : k <= Max(offs)
    BY <2>1, <2>2, MaxIsGreatest
  <2>5. Max(offs) \in Nat
    BY <2>1, <2>4
  <2>6. \A k \in offs : k \in Nat /\ k < 1 + Max(offs)
    BY <2>1, <2>4, <2>5
  <2> QED
    BY <2>2, <2>3, <2>5, <2>6
<1>3. NextSeq(f, to) \in Nat
  <2> DEFINE there == {r \in raw.rows : Coordinates(r) = <<f, to[1], to[2]>>}
             seqs == {0} \union {r.seq : r \in there}
  <2>1. there \in SUBSET EventRow /\ IsFiniteSet(there)
    BY <1>1, FS_Subset
  <2>2. seqs \in SUBSET Nat /\ IsFiniteSet(seqs)
    BY <2>1, SeqsFinite
  <2>3. NextSeq(f, to) = 1 + Max(seqs)
    BY DEF NextSeq
  <2>4. seqs # {}
    OBVIOUS
  <2> HIDE DEF seqs
  <2>5. Max(seqs) \in seqs
    BY <2>2, <2>4, MaxIsGreatest
  <2>6. Max(seqs) \in Nat
    BY <2>2, <2>5
  <2> QED
    BY <2>3, <2>6
<1> DEFINE row == [off |-> NextOffset, file |-> f, seq |-> NextSeq(f, to), srev |-> to[1],
                   prev |-> to[2], aad |-> 2, ms |-> TRUE, env |-> None, event |-> <<"written", writes>>]
           aad == <<2, f, NextSeq(f, to), to[1], to[2]>>
<1>4. EventAad(row) = aad
  BY DEF EventAad
<1>5. Written(f, to) = [off |-> NextOffset, file |-> f, seq |-> NextSeq(f, to), srev |-> to[1],
                        prev |-> to[2], aad |-> 2, ms |-> TRUE,
                        env |-> [by |-> "group", aad |-> aad], event |-> <<"written", writes>>]
  <2>1. Written(f, to) = [row EXCEPT !.env = [by |-> "group", aad |-> EventAad(row)]]
    BY DEF Written, Sealed
  <2> HIDE DEF aad
  <2> QED
    BY <1>4, <2>1
<1>6. aad \in Aad
  BY <1>3 DEF Aad
<1>7. EventAad(Written(f, to)) = aad
  BY <1>5 DEF EventAad
<1> HIDE DEF aad
<1>8. Written(f, to) \in EventRow
  <2>1. [by |-> "group", aad |-> aad] \in [by : {"plain", "master", "group"}, aad : Aad]
    BY <1>6
  <2>2. <<"written", writes>> \in Event
    BY <1>1 DEF Event
  <2>3. to[1] \in Nat /\ to[2] \in Nat
    OBVIOUS
  <2> QED
    BY <1>2, <1>3, <1>5, <2>1, <2>2, <2>3 DEF EventRow
<1> QED
  BY <1>2, <1>5, <1>7, <1>8

LEMMA WriteIs ==
  ASSUME ShapeInv, NEW p \in Program, NEW f \in File, Append(p, f) \/ Rollback(p, f)
  PROVE  \E to \in Nat \X Nat :
           /\ Write(p, f, to)
           /\ raw' = [raw EXCEPT !.rows = @ \union {Written(f, to)}]
           /\ raw'.rows = raw.rows \union {Written(f, to)}
           /\ HeadOf(f) = to \/ to = <<HeadOf(f)[1] + 1, 0>>
<1> USE DEF ShapeInv
<1>1. HeadOf(f) \in Nat \X Nat
  BY DEF HeadOf, Typed
<1>2. <<HeadOf(f)[1] + 1, 0>> \in Nat \X Nat
  BY <1>1
<1>3. PICK to \in Nat \X Nat : Write(p, f, to) /\ (HeadOf(f) = to \/ to = <<HeadOf(f)[1] + 1, 0>>)
  BY <1>1, <1>2 DEF Append, Rollback
<1>4. raw' = [raw EXCEPT !.rows = @ \union {Written(f, to)}]
  BY <1>3 DEF Write, Written
<1>5. raw'.rows = raw.rows \union {Written(f, to)}
  BY <1>4 DEF Typed, Tables
<1> QED
  BY <1>3, <1>4, <1>5

LEMMA WriteShape ==
  ASSUME ShapeInv, NEW p \in Program, NEW f \in File, Append(p, f) \/ Rollback(p, f)
  PROVE  ShapeInv'
<1> USE DEF ShapeInv
<1>1. PICK to \in Nat \X Nat :
        /\ Write(p, f, to)
        /\ raw' = [raw EXCEPT !.rows = @ \union {Written(f, to)}]
        /\ raw'.rows = raw.rows \union {Written(f, to)}
  BY WriteIs
<1>2. Written(f, to) \in EventRow
  BY WrittenIs
<1>3. raw' \in Tables /\ raw'.shape = raw.shape /\ IsFiniteSet(raw'.rows)
  <2>1. IsFiniteSet(raw.rows \union {Written(f, to)})
    BY FS_AddElement DEF Finite
  <2> QED
    BY <1>1, <1>2, <2>1 DEF Typed, Tables
<1>4. UNCHANGED <<left, identity, tables, marks, program, found, twice, crashes>>
  BY <1>1 DEF Write
<1>5. /\ ledger' \subseteq File \X Nat \X Nat /\ head' \in [File -> (Nat \X Nat) \union {None}]
      /\ keys' \subseteq File /\ writes' \in Nat
  BY <1>1 DEF Write, Typed
<1>6. Typed'
  BY <1>3, <1>4, <1>5 DEF Typed
<1>7. raw.shape = "current"
  BY <1>1 DEF Write, At, ShapeKnown, Known, Opened
<1>8. Finite'
  BY <1>3, <1>4, <1>7 DEF Finite
<1>9. ShapeKnown'
  BY <1>3, <1>4 DEF ShapeKnown, Known, At
<1> QED
  BY <1>6, <1>8, <1>9

(* Every step is one of these.                                             *)
Walks(p) ==
  \/ Begin(p) \/ RewriteIdentity(p) \/ LookAtShape(p) \/ LookForOrphan(p)
  \/ MakeCoordinates(p) \/ FillLedger(p) \/ FillHeads(p) \/ MarkCoordinates(p)
  \/ MakeKeys(p) \/ ReadLegacy(p) \/ Validate(p) \/ Close(p) \/ Crash(p)

LEMMA NextIs ==
  ASSUME Next
  PROVE  \E p \in Program :
           \/ Walks(p)
           \/ Rewrite(p) \/ Recover(p) \/ AddColumn(p) \/ FillTimes(p) \/ Reseal(p)
           \/ \E f \in File : Append(p, f) \/ Rollback(p, f)
BY DEF Next, Migrate, Walks

LEMMA ShapeInvNext == ShapeInv /\ [Next]_vars => ShapeInv'
<1> SUFFICES ASSUME ShapeInv, [Next]_vars PROVE ShapeInv'
  OBVIOUS
<1>1. CASE Next
  BY <1>1, NextIs, WalkShape, RewriteShape, RecoverShape, AddColumnShape, FillTimesShape,
     ResealShape, WriteShape DEF Walks
<1>2. CASE UNCHANGED vars
  BY <1>2 DEF vars, ShapeInv, Typed, Finite, ShapeKnown, Known, At
<1> QED
  BY <1>1, <1>2

LEMMA AlwaysShapeInv == Spec => []ShapeInv
<1>1. Init => ShapeInv
  BY ShapeInvInit
<1>2. ShapeInv /\ [Next]_vars => ShapeInv'
  BY ShapeInvNext
<1> QED
  BY <1>1, <1>2, PTL DEF Spec

(* The store keeps its types, whoever brings it from whatever shape, and   *)
(* programs remember nothing but shapes and rows (migrate).                *)
THEOREM MigrationTypeCorrect == Spec => []TypeOK
<1>1. ShapeInv => TypeOK
  BY TypedIsTypeOK DEF ShapeInv
<1> QED
  BY <1>1, AlwaysShapeInv, PTL

-----------------------------------------------------------------------------
(* Where rows are.  An offset is one row's, in the table and in the one    *)
(* set aside; a table that no second program rewrote has the rows its      *)
(* shape allows; and what a program remembers to reseal is still there.    *)
SamePlace(r, s) ==
  /\ r.off = s.off /\ r.file = s.file /\ r.seq = s.seq
  /\ r.srev = s.srev /\ r.prev = s.prev /\ r.aad = s.aad

Remembered ==
  \A p \in Program : At(p, "reseal") /\ ~twice =>
    \A s \in program[p].remembers : \E r \in raw.rows : SamePlace(r, s)

PlaceInv ==
  /\ Unclaimed(raw, left)
  /\ OffsetsUnique(raw.rows) /\ OffsetsUnique(left.rows)
  /\ Fits(left) /\ (~twice => Fits(raw))
  /\ Remembered

LEMMA NothingAside ==
  ASSUME NEW table
  PROVE  Unclaimed(table, NoTable) /\ Fits(NoTable) /\ OffsetsUnique(NoTable.rows)
BY DEF Unclaimed, NoTable, Moved, Fits, OffsetsUnique

LEMMA CurrentFits ==
  ASSUME NEW table, table.shape = "current"
  PROVE  Fits(table)
BY DEF Fits, HasRevisions

LEMMA MovedPlaces ==
  ASSUME NEW rows \in SUBSET EventRow, OffsetsUnique(rows), NEW from
  PROVE  OffsetsUnique(Moved(rows, from))
<1> SUFFICES ASSUME NEW m \in Moved(rows, from), NEW n \in Moved(rows, from), m.off = n.off
             PROVE  m = n
  BY DEF OffsetsUnique
<1>1. PICK r \in rows, s \in rows : m = MovedRow(r, from) /\ n = MovedRow(s, from)
  BY DEF Moved
<1>2. m.off = r.off /\ n.off = s.off
  BY <1>1, MovedRowIs
<1> QED
  BY <1>1, <1>2 DEF OffsetsUnique

(* Nobody remembers rows unless the table is current.                      *)
LEMMA NoneRemembered ==
  ASSUME ShapeKnown, raw.shape # "current", NEW q \in Program
  PROVE  ~At(q, "reseal")
BY DEF ShapeKnown, Known, Opened, At

(* What a program remembers it has read from the table, in that step.      *)
LEMMA WalkIs ==
  ASSUME ShapeInv, NEW p \in Program, Walks(p)
  PROVE  /\ UNCHANGED <<raw, left, found, twice, writes>>
         /\ \A q \in Program : q # p => program'[q] = program[q]
         /\ program'[p].at = "reseal" => program'[p].remembers = Legacy
         /\ keys' = keys
<1> USE DEF ShapeInv, Typed
<1>1. CASE Begin(p) \/ LookAtShape(p) \/ LookForOrphan(p)
  BY <1>1 DEF Begin, LookAtShape, LookForOrphan, Go, store, bounds
<1>2. CASE RewriteIdentity(p) \/ MakeCoordinates(p) \/ FillLedger(p)
  BY <1>2 DEF RewriteIdentity, MakeCoordinates, FillLedger, Continue, Go, bounds
<1>3. CASE FillHeads(p) \/ MarkCoordinates(p) \/ MakeKeys(p)
  BY <1>3 DEF FillHeads, MarkCoordinates, MakeKeys, Continue, Go, bounds
<1>4. CASE ReadLegacy(p)
  BY <1>4 DEF ReadLegacy, Continue, Go, store, bounds
<1>5. CASE Validate(p)
  BY <1>5 DEF Validate, Fail, Continue, Go, Closed, store, bounds
<1>6. CASE Close(p) \/ Crash(p)
  BY <1>6 DEF Close, Crash, Closed, store, bounds
<1> QED
  BY <1>1, <1>2, <1>3, <1>4, <1>5, <1>6 DEF Walks

(* A transaction that failed changes no table.                             *)
LEMMA FailIs ==
  ASSUME ShapeInv, NEW p \in Program, Fail(p)
  PROVE  /\ UNCHANGED <<raw, left, identity, tables, ledger, head, marks, keys, found, twice, writes, crashes>>
         /\ \A q \in Program : q # p => program'[q] = program[q]
         /\ program'[p].at = "closed"
BY DEF Fail, store, bounds, ShapeInv, Typed, Closed

LEMMA PlaceInvInit == Init => PlaceInv
<1> SUFFICES ASSUME Init PROVE PlaceInv
  OBVIOUS
<1>1. PICK s \in Stores : raw = s.raw /\ left = s.left
  BY DEF Init
<1>2. /\ Fits(s.raw) /\ Fits(s.left) /\ Unclaimed(s.raw, s.left)
      /\ OffsetsUnique(s.raw.rows) /\ OffsetsUnique(s.left.rows)
  BY MigrationAssumption
<1>3. Remembered
  BY DEF Init, Remembered, At, Closed
<1> QED
  BY <1>1, <1>2, <1>3 DEF PlaceInv

(* The tables do not change.                                               *)
LEMMA SamePlaces ==
  ASSUME ShapeInv, PlaceInv, NEW p \in Program, UNCHANGED <<raw, left, twice>>,
         \A q \in Program : q # p => program'[q] = program[q],
         program'[p].at = "reseal" => program'[p].remembers \subseteq raw.rows
  PROVE  PlaceInv'
<1>1. Remembered'
  <2> SUFFICES ASSUME NEW q \in Program, program'[q].at = "reseal", ~twice,
                      NEW s \in program'[q].remembers
               PROVE  \E r \in raw.rows : SamePlace(r, s)
    BY DEF Remembered, At
  <2>1. CASE q = p
    BY <2>1 DEF SamePlace
  <2>2. CASE q # p
    BY <2>2 DEF PlaceInv, Remembered, At
  <2> QED
    BY <2>1, <2>2
<1> QED
  BY <1>1 DEF PlaceInv

LEMMA RewritePlaces ==
  ASSUME ShapeInv, PlaceInv, NEW p \in Program, Rewrite(p)
  PROVE  PlaceInv'
<1> DEFINE saw == program[p].saw
<1>0. /\ \A q \in Program : q # p => program'[q] = program[q]
      /\ program'[p].at # "reseal"
  BY FailIs DEF Rewrite, Go, ShapeInv, Typed
<1>1. CASE saw = "none" /\ raw # NoTable
  <2>1. UNCHANGED <<raw, left, twice>>
    BY <1>1 DEF Rewrite, bounds
  <2> QED
    BY <1>0, <2>1, SamePlaces
<1>2. CASE saw = "none" /\ raw = NoTable
  <2>1. raw' = EmptyTable /\ left' = left
    BY <1>2 DEF Rewrite
  <2>2. Unclaimed(EmptyTable, left) /\ OffsetsUnique(EmptyTable.rows) /\ Fits(EmptyTable)
    BY CurrentFits DEF Unclaimed, EmptyTable, OffsetsUnique
  <2>3. \A q \in Program : program'[q].at # "reseal"
    <3>1. raw.shape # "current"
      BY <1>2 DEF NoTable
    <3> QED
      BY <1>0, <3>1, NoneRemembered DEF At, ShapeInv
  <2>4. Remembered'
    BY <2>3 DEF Remembered, At
  <2> QED
    BY <2>1, <2>2, <2>4 DEF PlaceInv
<1>3. CASE saw # "none" /\ HasRevisions(saw)
  <2>1. UNCHANGED <<raw, left, twice>>
    BY <1>3 DEF Rewrite, store, bounds
  <2> QED
    BY <1>0, <2>1, SamePlaces
<1>4. CASE saw # "none" /\ ~HasRevisions(saw) /\ CanRewrite(saw)
  <2>1. /\ raw' = [shape |-> "current", rows |-> Moved(raw.rows, RewriteFrom(saw))]
        /\ twice' = (twice \/ HasRevisions(raw.shape)) /\ left' = NoTable
    BY <1>4 DEF Rewrite, CanRewrite
  <2>2. OffsetsUnique(raw'.rows)
    BY <2>1, MovedPlaces DEF PlaceInv, ShapeInv, Typed, Tables
  <2>3. Fits(raw')
    BY <2>1, CurrentFits
  <2>4. Remembered'
    <3>1. CASE raw.shape = "current"
      BY <2>1, <3>1 DEF Remembered, HasRevisions
    <3>2. CASE raw.shape # "current"
      BY <1>0, <3>2, NoneRemembered DEF Remembered, At, ShapeInv
    <3> QED
      BY <3>1, <3>2
  <2>5. Unclaimed(raw', left') /\ Fits(left') /\ OffsetsUnique(left'.rows)
    BY <2>1, NothingAside
  <2> QED
    BY <2>2, <2>3, <2>4, <2>5 DEF PlaceInv
<1>5. CASE saw # "none" /\ ~HasRevisions(saw) /\ ~CanRewrite(saw)
  <2>1. Fail(p)
    BY <1>5 DEF Rewrite
  <2> QED
    BY <1>0, <2>1, FailIs, SamePlaces
<1> QED
  BY <1>1, <1>2, <1>3, <1>4, <1>5

LEMMA RecoverPlaces ==
  ASSUME ShapeInv, PlaceInv, NEW p \in Program, Recover(p)
  PROVE  PlaceInv'
<1> DEFINE rows == Moved(left.rows, OrphanFrom(left.shape))
<1>0. /\ \A q \in Program : q # p => program'[q] = program[q]
      /\ program'[p].at # "reseal"
  BY FailIs DEF Recover, Go, ShapeInv, Typed
<1>1. CASE left = NoTable \/ raw.shape # "current"
  <2>1. Fail(p)
    BY <1>1 DEF Recover
  <2> QED
    BY <1>0, <2>1, FailIs, SamePlaces
<1>2. CASE left # NoTable /\ raw.shape = "current"
  <2>1. /\ raw' = [raw EXCEPT !.rows = @ \union Untaken(rows)]
        /\ left' = NoTable /\ twice' = twice
    BY <1>2 DEF Recover, bounds
  <2>2. OffsetsUnique(rows)
    BY MovedPlaces DEF PlaceInv, ShapeInv, Typed, Tables
  <2> HIDE DEF rows
  <2>3. raw'.rows = raw.rows \union Untaken(rows) /\ raw'.shape = "current"
    BY <1>2, <2>1 DEF ShapeInv, Typed, Tables
  <2>4. OffsetsUnique(raw'.rows)
    BY <2>2, <2>3 DEF OffsetsUnique, Untaken, PlaceInv
  <2>5. Remembered'
    <3> SUFFICES ASSUME NEW q \in Program, program'[q].at = "reseal", ~twice,
                        NEW s \in program'[q].remembers
                 PROVE  \E r \in raw'.rows : SamePlace(r, s)
      BY <2>1 DEF Remembered, At
    <3>1. \E r \in raw.rows : SamePlace(r, s)
      BY <1>0 DEF PlaceInv, Remembered, At
    <3> QED
      BY <2>3, <3>1
  <2>6. Unclaimed(raw', left') /\ Fits(left') /\ OffsetsUnique(left'.rows) /\ Fits(raw')
    BY <2>1, <2>3, NothingAside, CurrentFits
  <2> QED
    BY <2>4, <2>5, <2>6 DEF PlaceInv
<1> QED
  BY <1>1, <1>2

(* With nothing aside, rows of which each stays in its place may change    *)
(* otherwise, and one may be added after them.                             *)
LEMMA RowsStay ==
  ASSUME ShapeInv, PlaceInv, NEW p \in Program, left = NoTable, left' = NoTable,
         raw'.shape = "current", twice' = twice,
         \A q \in Program : q # p => program'[q] = program[q],
         program'[p] = program[p] \/ program'[p].at # "reseal",
         NEW new, \A r \in raw.rows : SamePlace(new[r], r),
         NEW more, \A w \in more, r \in raw.rows : w.off # r.off, OffsetsUnique(more),
         raw'.rows = {new[r] : r \in raw.rows} \union more
  PROVE  PlaceInv'
<1>1. OffsetsUnique(raw'.rows)
  BY DEF PlaceInv, OffsetsUnique, SamePlace
<1>2. Remembered'
  <2> SUFFICES ASSUME NEW q \in Program, program'[q].at = "reseal", ~twice,
                      NEW s \in program'[q].remembers
               PROVE  \E r \in raw'.rows : SamePlace(r, s)
    BY DEF Remembered, At
  <2>1. PICK r \in raw.rows : SamePlace(r, s)
    BY DEF PlaceInv, Remembered, At
  <2>2. new[r] \in raw'.rows /\ SamePlace(new[r], s)
    BY <2>1 DEF SamePlace
  <2> QED
    BY <2>2
<1>3. Unclaimed(raw', left') /\ Fits(left') /\ OffsetsUnique(left'.rows) /\ Fits(raw')
  BY NothingAside, CurrentFits
<1> QED
  BY <1>1, <1>2, <1>3 DEF PlaceInv

(* The steps that only write rows in place, or one row more.               *)
LEMMA AddColumnPlaces ==
  ASSUME ShapeInv, PlaceInv, NEW p \in Program, AddColumn(p)
  PROVE  PlaceInv'
<1>0. /\ \A q \in Program : q # p => program'[q] = program[q]
      /\ program'[p].at # "reseal"
  BY FailIs DEF AddColumn, Continue, Go, ShapeInv, Typed
<1>1. CASE program[p].saw = "revisions" /\ raw.shape # "current"
  <2>1. /\ raw' = [raw EXCEPT !.shape = "current"] /\ left' = left /\ twice' = twice
    BY <1>1 DEF AddColumn, bounds
  <2>2. raw'.rows = raw.rows /\ raw'.shape = "current" /\ left = NoTable
    BY <2>1 DEF ShapeInv, Typed, Tables, ShapeKnown, Known, At, AddColumn
  <2>3. Unclaimed(raw', left') /\ Fits(left') /\ OffsetsUnique(left'.rows) /\ Fits(raw')
    BY <2>1, <2>2, NothingAside, CurrentFits
  <2>4. Remembered'
    BY <1>0, <2>1, <2>2 DEF Remembered, At, PlaceInv
  <2> QED
    BY <2>2, <2>3, <2>4 DEF PlaceInv
<1>2. CASE ~(program[p].saw = "revisions" /\ raw.shape # "current")
  <2>1. UNCHANGED <<raw, left, twice>>
    BY <1>2, FailIs DEF AddColumn, store, bounds
  <2> QED
    BY <1>0, <2>1, SamePlaces
<1> QED
  BY <1>1, <1>2

LEMMA FillTimesIs ==
  ASSUME ShapeInv, NEW p \in Program, FillTimes(p)
  PROVE  /\ raw'.rows = {Timed(r) : r \in raw.rows}
         /\ raw.shape = "current" /\ raw'.shape = "current"
         /\ left = NoTable /\ left' = NoTable /\ twice' = twice /\ keys' = keys
         /\ \A q \in Program : q # p => program'[q] = program[q]
         /\ program'[p].at = "keys"
<1>1. raw.shape = "current" /\ left = NoTable
  BY DEF ShapeInv, ShapeKnown, Known, At, FillTimes, Opened
<1>2. raw' = [raw EXCEPT !.rows = {Timed(r) : r \in raw.rows}]
  BY DEF FillTimes, Timed
<1>3. raw'.rows = {Timed(r) : r \in raw.rows} /\ raw'.shape = "current"
  BY <1>1, <1>2 DEF ShapeInv, Typed, Tables
<1>4. /\ \A q \in Program : q # p => program'[q] = program[q]
      /\ program'[p].at = "keys"
  BY DEF FillTimes, Continue, Go, ShapeInv, Typed
<1> QED
  BY <1>1, <1>3, <1>4 DEF FillTimes, bounds

LEMMA FillTimesPlaces ==
  ASSUME ShapeInv, PlaceInv, NEW p \in Program, FillTimes(p)
  PROVE  PlaceInv'
<1> DEFINE new == [r \in raw.rows |-> Timed(r)]
<1>1. \A r \in raw.rows : SamePlace(new[r], r)
  BY TimedIs DEF SamePlace, ShapeInv, Typed, Tables
<1>2. raw'.rows = {new[r] : r \in raw.rows} \union {}
  BY FillTimesIs
<1>3. \A w \in {} : \A r \in raw.rows : w.off # r.off
  OBVIOUS
<1>4. OffsetsUnique({})
  BY DEF OffsetsUnique
<1> HIDE DEF new
<1>5. /\ raw'.shape = "current" /\ left = NoTable /\ left' = NoTable /\ twice' = twice
      /\ \A q \in Program : q # p => program'[q] = program[q]
      /\ program'[p].at # "reseal"
  BY FillTimesIs
<1> QED
  BY <1>1, <1>2, <1>3, <1>4, <1>5, RowsStay

(* Reseal either fails or writes every row it remembers under its key.     *)
LEMMA ResealIs ==
  ASSUME ShapeInv, NEW p \in Program, Reseal(p)
  PROVE  /\ raw.shape = "current" /\ raw'.shape = "current"
         /\ left = NoTable /\ left' = NoTable /\ twice' = twice
         /\ \A q \in Program : q # p => program'[q] = program[q]
         /\ program'[p].at \in {"closed", "validate"}
         /\ program[p].remembers \in SUBSET EventRow
         /\ \/ /\ raw' = raw /\ keys' = keys
               /\ program'[p].at = "closed"
            \/ /\ raw'.rows = {Resealed(r, program[p].remembers) : r \in raw.rows}
               /\ keys' = keys \union {r.file : r \in program[p].remembers}
<1> DEFINE old == program[p].remembers
           rows == {Resealed(r, old) : r \in raw.rows}
<1>0. /\ raw.shape = "current" /\ left = NoTable
      /\ program[p].remembers \in SUBSET EventRow
  BY DEF ShapeInv, ShapeKnown, Known, At, Reseal, Opened, Typed
<1>1. CASE \E r \in old : ~Readable(r)
  <2>1. Fail(p)
    BY <1>1 DEF Reseal
  <2> QED
    BY <1>0, <2>1, FailIs
<1>2. CASE ~\E r \in old : ~Readable(r)
  <2>1. /\ raw' = [raw EXCEPT !.rows = rows]
        /\ keys' = keys \union {r.file : r \in old}
        /\ left' = left /\ twice' = twice
        /\ Go(p, "validate", None, {})
    BY <1>2 DEF Reseal, Continue, bounds
  <2>2. raw'.rows = rows /\ raw'.shape = "current"
    BY <1>0, <2>1 DEF ShapeInv, Typed, Tables
  <2>3. /\ \A q \in Program : q # p => program'[q] = program[q]
        /\ program'[p].at = "validate"
    BY <2>1 DEF Go, ShapeInv, Typed
  <2> QED
    BY <1>0, <2>1, <2>2, <2>3
<1> QED
  BY <1>1, <1>2

LEMMA ResealPlaces ==
  ASSUME ShapeInv, PlaceInv, NEW p \in Program, Reseal(p)
  PROVE  PlaceInv'
<1> DEFINE old == program[p].remembers
           new == [r \in raw.rows |-> Resealed(r, old)]
<1>0. /\ raw'.shape = "current" /\ left = NoTable /\ left' = NoTable /\ twice' = twice
      /\ \A q \in Program : q # p => program'[q] = program[q]
      /\ program'[p].at # "reseal"
      /\ old \in SUBSET EventRow
  BY ResealIs
<1>1. CASE raw' = raw
  BY <1>0, <1>1, SamePlaces
<1>2. CASE raw'.rows = {Resealed(r, old) : r \in raw.rows}
  <2>1. \A r \in raw.rows : SamePlace(new[r], r)
    BY <1>0, ResealedIs DEF SamePlace, ShapeInv, Typed, Tables
  <2>2. raw'.rows = {new[r] : r \in raw.rows} \union {}
    BY <1>2
  <2>3. \A w \in {} : \A r \in raw.rows : w.off # r.off
    OBVIOUS
  <2>4. OffsetsUnique({})
    BY DEF OffsetsUnique
  <2> HIDE DEF new
  <2> QED
    BY <1>0, <2>1, <2>2, <2>3, <2>4, RowsStay
<1> QED
  BY <1>1, <1>2, ResealIs

LEMMA WritePlaces ==
  ASSUME ShapeInv, PlaceInv, NEW p \in Program, NEW f \in File, Append(p, f) \/ Rollback(p, f)
  PROVE  PlaceInv'
<1> DEFINE new == [r \in raw.rows |-> r]
<1>1. PICK to \in Nat \X Nat :
        /\ Write(p, f, to)
        /\ raw' = [raw EXCEPT !.rows = @ \union {Written(f, to)}]
        /\ raw'.rows = raw.rows \union {Written(f, to)}
  BY WriteIs
<1> DEFINE more == {Written(f, to)}
<1>2. raw.shape = "current" /\ left = NoTable
  BY <1>1 DEF Write, At, ShapeInv, ShapeKnown, Known, Opened
<1>3. raw'.shape = "current" /\ left' = NoTable /\ twice' = twice /\ program' = program
  BY <1>1, <1>2 DEF Write, ShapeInv, Typed, Tables
<1>4. \A w \in more : \A r \in raw.rows : w.off # r.off
  <2>1. \A r \in raw.rows : r.off < Written(f, to).off
    BY WrittenIs
  <2>2. Written(f, to).off \in Nat /\ \A r \in raw.rows : r.off \in Nat
    BY WrittenIs DEF EventRow, ShapeInv, Typed, Tables
  <2> QED
    BY <2>1, <2>2
<1>5. OffsetsUnique(more)
  BY DEF OffsetsUnique
<1>6. \A r \in raw.rows : SamePlace(new[r], r)
  BY DEF SamePlace
<1>7. raw'.rows = {new[r] : r \in raw.rows} \union more
  BY <1>1
<1> HIDE DEF new, more
<1> QED
  BY <1>2, <1>3, <1>4, <1>5, <1>6, <1>7, RowsStay

LEMMA PlaceInvNext == ShapeInv /\ PlaceInv /\ [Next]_vars => PlaceInv'
<1> SUFFICES ASSUME ShapeInv, PlaceInv, [Next]_vars PROVE PlaceInv'
  OBVIOUS
<1>1. ASSUME NEW p \in Program, Walks(p) PROVE PlaceInv'
  BY <1>1, WalkIs, SamePlaces DEF Legacy
<1>2. CASE Next
  BY <1>1, <1>2, NextIs, RewritePlaces, RecoverPlaces, AddColumnPlaces, FillTimesPlaces,
     ResealPlaces, WritePlaces
<1>3. CASE UNCHANGED vars
  BY <1>3 DEF vars, PlaceInv, Remembered, At
<1> QED
  BY <1>2, <1>3

LEMMA AlwaysPlaceInv == Spec => []PlaceInv
<1>1. Init => PlaceInv
  BY PlaceInvInit
<1>2. ShapeInv /\ PlaceInv /\ [Next]_vars => PlaceInv'
  BY PlaceInvNext
<1> QED
  BY <1>1, <1>2, AlwaysShapeInv, PTL DEF Spec

-----------------------------------------------------------------------------
(* No event is lost: every step leaves the event of a row somewhere.       *)
EventsKept ==
  \A r \in raw.rows \union left.rows : \E s \in raw'.rows \union left'.rows : s.event = r.event
RootsKept ==
  \A i \in identity.rows : \E j \in identity'.rows :
    i.root = j.root /\ j.first <= i.first /\ i.last <= j.last

LEMMA RewriteKeeps ==
  ASSUME ShapeInv, NEW p \in Program, Rewrite(p)
  PROVE  EventsKept /\ identity' = identity /\ found' = found /\ writes' = writes
<1> DEFINE saw == program[p].saw
<1>1. CASE saw = "none"
  <2>1. NoTable.rows = {}
    BY DEF NoTable
  <2> QED
    BY <1>1, <2>1 DEF Rewrite, EventsKept, bounds
<1>2. CASE saw # "none" /\ HasRevisions(saw)
  BY <1>2 DEF Rewrite, EventsKept, store, bounds
<1>3. CASE saw # "none" /\ ~HasRevisions(saw) /\ CanRewrite(saw)
  <2>1. /\ raw' = [shape |-> "current", rows |-> Moved(raw.rows, RewriteFrom(saw))]
        /\ left' = left /\ identity' = identity /\ found' = found /\ writes' = writes
    BY <1>3 DEF Rewrite
  <2>2. \A r \in raw.rows : MovedRow(r, RewriteFrom(saw)) \in raw'.rows
    BY <2>1 DEF Moved
  <2>3. \A r \in raw.rows : MovedRow(r, RewriteFrom(saw)).event = r.event
    BY MovedRowIs DEF ShapeInv, Typed, Tables
  <2> QED
    BY <2>1, <2>2, <2>3 DEF EventsKept
<1>4. CASE saw # "none" /\ ~HasRevisions(saw) /\ ~CanRewrite(saw)
  <2>1. Fail(p)
    BY <1>4 DEF Rewrite
  <2> QED
    BY <2>1, FailIs DEF EventsKept
<1> QED
  BY <1>1, <1>2, <1>3, <1>4

(* What was set aside finds all its places free.                           *)
LEMMA RecoverIs ==
  ASSUME ShapeInv, PlaceInv, NEW p \in Program, Recover(p)
  PROVE  /\ UNCHANGED <<identity, tables, ledger, head, marks, keys, found, twice, writes, crashes>>
         /\ \/ UNCHANGED <<raw, left>>
            \/ /\ left # NoTable /\ left' = NoTable
               /\ raw.shape = "current" /\ raw'.shape = "current"
               /\ raw'.rows = raw.rows \union Moved(left.rows, OrphanFrom(left.shape))
<1> DEFINE rows == Moved(left.rows, OrphanFrom(left.shape))
<1>1. CASE left = NoTable \/ raw.shape # "current"
  <2>1. Fail(p)
    BY <1>1 DEF Recover
  <2> QED
    BY <2>1, FailIs
<1>2. CASE left # NoTable /\ raw.shape = "current"
  <2>1. /\ raw' = [raw EXCEPT !.rows = @ \union Untaken(rows)]
        /\ left' = NoTable
        /\ UNCHANGED <<identity, tables, ledger, head, marks, keys, bounds>>
    BY <1>2 DEF Recover
  <2>2. Untaken(rows) = rows
    <3>1. \A r \in rows : \A s \in raw.rows : s.off # r.off /\ ~SameEvent(s, r)
      BY DEF PlaceInv, Unclaimed
    <3>2. \A r \in rows : \A s \in raw.rows : s.off # r.off /\ ~SameEvent(r, s)
      BY <3>1 DEF SameEvent
    <3> HIDE DEF rows
    <3> QED
      BY <3>2 DEF Untaken
  <2> HIDE DEF rows
  <2>3. raw'.rows = raw.rows \union rows /\ raw'.shape = "current"
    BY <1>2, <2>1, <2>2 DEF ShapeInv, Typed, Tables
  <2> QED
    BY <1>2, <2>1, <2>3 DEF bounds, rows
<1> QED
  BY <1>1, <1>2

LEMMA RecoverKeeps ==
  ASSUME ShapeInv, PlaceInv, NEW p \in Program, Recover(p)
  PROVE  EventsKept /\ identity' = identity /\ found' = found /\ writes' = writes
<1> DEFINE from == OrphanFrom(left.shape)
<1>1. CASE UNCHANGED <<raw, left>>
  BY <1>1, RecoverIs DEF EventsKept
<1>2. CASE raw'.rows = raw.rows \union Moved(left.rows, from)
  <2>1. \A r \in left.rows : MovedRow(r, from) \in raw'.rows
    BY <1>2 DEF Moved
  <2>2. \A r \in left.rows : MovedRow(r, from).event = r.event
    BY MovedRowIs DEF ShapeInv, Typed, Tables
  <2> QED
    BY <1>2, <2>1, <2>2, RecoverIs DEF EventsKept
<1> QED
  BY <1>1, <1>2, RecoverIs

LEMMA InPlaceKeeps ==
  ASSUME ShapeInv, NEW p \in Program, AddColumn(p) \/ FillTimes(p) \/ Reseal(p)
  PROVE  EventsKept /\ identity' = identity /\ found' = found /\ writes' = writes
<1>1. CASE AddColumn(p)
  <2>1. raw'.rows = raw.rows /\ left' = left
    BY <1>1, FailIs DEF AddColumn, ShapeInv, Typed, Tables, store
  <2> QED
    BY <1>1, <2>1, FailIs DEF AddColumn, EventsKept, store, bounds
<1>2. CASE FillTimes(p)
  <2>1. /\ raw'.rows = {Timed(r) : r \in raw.rows} /\ left' = left
        /\ identity' = identity /\ found' = found /\ writes' = writes
    BY <1>2, FillTimesIs DEF FillTimes, bounds
  <2>2. \A r \in raw.rows : Timed(r).event = r.event /\ Timed(r) \in raw'.rows
    BY <2>1, TimedIs DEF ShapeInv, Typed, Tables
  <2> QED
    BY <2>1, <2>2 DEF EventsKept
<1>3. CASE Reseal(p)
  <2> DEFINE old == program[p].remembers
  <2>1. left' = left /\ identity' = identity /\ found' = found /\ writes' = writes
    BY <1>3, FailIs DEF Reseal, bounds
  <2>2. CASE raw' = raw
    BY <2>1, <2>2 DEF EventsKept
  <2>3. CASE raw'.rows = {Resealed(r, old) : r \in raw.rows}
    <3>1. \A r \in raw.rows : Resealed(r, old).event = r.event /\ Resealed(r, old) \in raw'.rows
      BY <1>3, <2>3, ResealIs, ResealedIs DEF ShapeInv, Typed, Tables
    <3> QED
      BY <2>1, <3>1 DEF EventsKept
  <2> QED
    BY <1>3, <2>2, <2>3, <2>1, ResealIs
<1> QED
  BY <1>1, <1>2, <1>3

LEMMA WalkKeepsRoots ==
  ASSUME ShapeInv, NEW p \in Program, Walks(p)
  PROVE  RootsKept
<1>0. identity.rows \in SUBSET Sighting /\ IsFiniteSet(identity.rows)
  BY DEF ShapeInv, Typed, Finite
<1>1. \A i \in identity.rows : i.first <= i.first /\ i.last <= i.last
  BY <1>0 DEF Sighting
<1>2. CASE identity' = identity
  BY <1>1, <1>2 DEF RootsKept
<1>3. CASE identity' = MergedIdentity
  BY <1>0, <1>3, MergeKeepsRoots DEF RootsKept
<1>4. identity' = identity \/ identity' = MergedIdentity
  <2>1. CASE RewriteIdentity(p)
    BY <2>1 DEF RewriteIdentity
  <2>2. CASE ~RewriteIdentity(p)
    BY <2>2 DEF Walks, Begin, LookAtShape, LookForOrphan, MakeCoordinates, FillLedger, FillHeads,
                MarkCoordinates, MakeKeys, ReadLegacy, Validate, Fail, Close, Crash, store
  <2> QED
    BY <2>1, <2>2
<1> QED
  BY <1>2, <1>3, <1>4

LEMMA NothingLostInit == Init => NothingLost
<1> SUFFICES ASSUME Init PROVE NothingLost
  OBVIOUS
<1>1. /\ raw = found.raw /\ left = found.left /\ identity = found.identity /\ writes = 0
      /\ found \in Stores
  BY DEF Init
<1>2. \A i \in identity.rows : i.first <= i.first /\ i.last <= i.last
  BY ShapeInvInit DEF ShapeInv, Typed, Sighting
<1>3. 0..writes - 1 = {}
  BY <1>1
<1> QED
  BY <1>1, <1>2, <1>3 DEF NothingLost

(* A step that keeps the events and the roots there are loses nothing.     *)
LEMMA KeepingLosesNothing ==
  ASSUME ShapeInv, ShapeInv', NothingLost, EventsKept, RootsKept, found' = found, writes' = writes
  PROVE  NothingLost'
<1>1. \A n \in 0..writes - 1 : \E s \in raw'.rows \union left'.rows : s.event = <<"written", n>>
  <2> TAKE n \in 0..writes - 1
  <2>1. PICK r \in raw.rows \union left.rows : r.event = <<"written", n>>
    BY DEF NothingLost
  <2> QED
    BY <2>1 DEF EventsKept
<1>2. \A r \in found.raw.rows \union found.left.rows :
        \E s \in raw'.rows \union left'.rows : s.event = r.event
  <2> TAKE r \in found.raw.rows \union found.left.rows
  <2>1. PICK q \in raw.rows \union left.rows : q.event = r.event
    BY DEF NothingLost
  <2> QED
    BY <2>1 DEF EventsKept
<1>3. \A i \in found.identity.rows : \E k \in identity'.rows :
        i.root = k.root /\ k.first <= i.first /\ i.last <= k.last
  <2> TAKE i \in found.identity.rows
  <2>1. PICK j \in identity.rows : i.root = j.root /\ j.first <= i.first /\ i.last <= j.last
    BY DEF NothingLost
  <2>2. PICK k \in identity'.rows : j.root = k.root /\ k.first <= j.first /\ j.last <= k.last
    BY DEF RootsKept
  <2>3. /\ i.first \in Nat /\ i.last \in Nat /\ j.first \in Nat /\ j.last \in Nat
        /\ k.first \in Nat /\ k.last \in Nat
    <3>1. found \in Stores
      BY DEF ShapeInv, Typed
    <3>2. found.identity.rows \in SUBSET Sighting
      BY <3>1, MigrationAssumption DEF StoreTypeOK
    <3>3. identity.rows \in SUBSET Sighting /\ identity'.rows \in SUBSET Sighting
      BY DEF ShapeInv, Typed
    <3> QED
      BY <3>2, <3>3 DEF Sighting
  <2> QED
    BY <2>1, <2>2, <2>3
<1> QED
  BY <1>1, <1>2, <1>3 DEF NothingLost

LEMMA WriteLosesNothing ==
  ASSUME ShapeInv, NothingLost, NEW p \in Program, NEW f \in File, Append(p, f) \/ Rollback(p, f)
  PROVE  NothingLost'
<1>1. PICK to \in Nat \X Nat :
        /\ Write(p, f, to)
        /\ raw'.rows = raw.rows \union {Written(f, to)}
  BY WriteIs
<1>2. left' = left /\ identity' = identity /\ found' = found /\ writes' = writes + 1
  BY <1>1 DEF Write
<1>3. Written(f, to).event = <<"written", writes>> /\ Written(f, to) \in raw'.rows
  BY <1>1, WrittenIs
<1>4. ASSUME NEW n \in 0..writes' - 1
      PROVE  \E s \in raw'.rows \union left'.rows : s.event = <<"written", n>>
  <2>1. writes \in Nat
    BY DEF ShapeInv, Typed
  <2>2. n = writes \/ n \in 0..writes - 1
    BY <1>2, <2>1
  <2>3. CASE n = writes
    BY <1>3, <2>3
  <2>4. CASE n \in 0..writes - 1
    BY <1>1, <1>2, <2>4 DEF NothingLost
  <2> QED
    BY <2>2, <2>3, <2>4
<1> QED
  BY <1>1, <1>2, <1>4 DEF NothingLost

LEMMA NothingLostNext ==
  ShapeInv /\ ShapeInv' /\ PlaceInv /\ NothingLost /\ [Next]_vars => NothingLost'
<1> SUFFICES ASSUME ShapeInv, ShapeInv', PlaceInv, NothingLost, [Next]_vars PROVE NothingLost'
  OBVIOUS
<1>0. identity' = identity => RootsKept
  BY DEF RootsKept, ShapeInv, Typed, Sighting
<1>1. ASSUME NEW p \in Program, Walks(p) PROVE NothingLost'
  <2>1. EventsKept /\ found' = found /\ writes' = writes
    BY <1>1, WalkIs DEF EventsKept
  <2> QED
    BY <1>1, <2>1, WalkKeepsRoots, KeepingLosesNothing
<1>2. ASSUME NEW p \in Program,
             Rewrite(p) \/ Recover(p) \/ AddColumn(p) \/ FillTimes(p) \/ Reseal(p)
      PROVE  NothingLost'
  <2>1. EventsKept /\ identity' = identity /\ found' = found /\ writes' = writes
    BY <1>2, RewriteKeeps, RecoverKeeps, InPlaceKeeps
  <2> QED
    BY <1>0, <2>1, KeepingLosesNothing
<1>3. CASE Next
  BY <1>1, <1>2, <1>3, NextIs, WriteLosesNothing
<1>4. CASE UNCHANGED vars
  BY <1>4 DEF vars, NothingLost
<1> QED
  BY <1>3, <1>4

(* No event the store was found with, or given since, is lost, and a root  *)
(* stays known from the first time any observer saw it to the last         *)
(* (migrate renames, copies and drops tables, and a program may be killed  *)
(* between any two steps).                                                 *)
THEOREM MigrationLosesNothing == Spec => []NothingLost
<1>1. Init => NothingLost
  BY NothingLostInit
<1>2. ShapeInv /\ ShapeInv' /\ PlaceInv /\ NothingLost /\ [Next]_vars => NothingLost'
  BY NothingLostNext
<1> QED
  BY <1>1, <1>2, AlwaysShapeInv, AlwaysPlaceInv, PTL DEF Spec

-----------------------------------------------------------------------------
(* Every envelope can still be opened where its row is.                    *)
BoundInv == ~twice => \A r \in raw.rows \union left.rows : Bound(r, keys)

(* Moving a row of a table that has what its shape allows leaves it where  *)
(* it was, with the envelope it had.                                       *)
RightFrom(shape, from) ==
  \/ HasRevisions(shape) /\ from = "own"
  \/ ~HasRevisions(shape) /\ from = "zero" /\ shape # "generation"
  \/ shape = "generation" /\ from = "generation"

LEMMA MovedStays ==
  ASSUME NEW table \in Tables, Fits(table), NEW from, RightFrom(table.shape, from),
         NEW r \in table.rows
  PROVE  SamePlace(MovedRow(r, from), r) /\ MovedRow(r, from).env = r.env
<1> DEFINE m == MovedRow(r, from)
<1>1. r \in EventRow
  BY DEF Tables
<1>2. /\ m.off = r.off /\ m.file = r.file /\ m.seq = r.seq /\ m.env = r.env
      /\ from = "zero" => m.srev = 0
      /\ from # "zero" => m.srev = r.srev
      /\ from = "own" => m.prev = r.prev /\ m.aad = r.aad
      /\ from # "own" => m.prev = 0 /\ m.aad = 1
  BY <1>1, MovedRowIs
<1> HIDE DEF m
<1>3. m.srev = r.srev /\ m.prev = r.prev /\ m.aad = r.aad
  <2>1. CASE from = "own"
    BY <1>2, <2>1
  <2>2. CASE from # "own"
    <3>1. r.prev = 0 /\ r.aad = 1 /\ (table.shape = "flat" => r.srev = 0)
      BY <2>2 DEF Fits, HasRevisions, RightFrom
    <3>2. from = "zero" => table.shape = "flat" \/ table.shape = "none"
      BY DEF Tables, Shapes, HasRevisions, RightFrom
    <3>3. table.shape # "none"
      BY DEF Fits
    <3> QED
      BY <1>2, <2>2, <3>1, <3>2, <3>3
  <2> QED
    BY <2>1, <2>2
<1> QED
  BY <1>2, <1>3 DEF SamePlace, m

LEMMA MovedBound ==
  ASSUME NEW table \in Tables, Fits(table), NEW from, RightFrom(table.shape, from),
         NEW withKey, \A r \in table.rows : Bound(r, withKey)
  PROVE  \A m \in Moved(table.rows, from) : Bound(m, withKey)
<1> TAKE m \in Moved(table.rows, from)
<1>1. PICK r \in table.rows : m = MovedRow(r, from)
  BY DEF Moved
<1>2. SamePlace(m, r) /\ m.env = r.env
  BY <1>1, MovedStays
<1>3. EventAad(m) = EventAad(r) /\ m.file = r.file
  BY <1>2 DEF EventAad, SamePlace
<1>4. Bound(r, withKey)
  OBVIOUS
<1> QED
  BY <1>2, <1>3, <1>4 DEF Bound, Readable

LEMMA RewriteRight ==
  ASSUME ShapeInv, PlaceInv, NEW p \in Program, Rewrite(p),
         ~HasRevisions(program[p].saw), ~twice, ~HasRevisions(raw.shape)
  PROVE  Fits(raw) /\ raw \in Tables /\ RightFrom(raw.shape, RewriteFrom(program[p].saw))
<1>1. program[p].saw = raw.shape
  BY DEF ShapeInv, ShapeKnown, Known, At, Rewrite, HasRevisions
<1> QED
  BY <1>1 DEF RightFrom, RewriteFrom, PlaceInv, ShapeInv, Typed

LEMMA RecoverRight ==
  ASSUME ShapeInv, PlaceInv
  PROVE  Fits(left) /\ left \in Tables /\ RightFrom(left.shape, OrphanFrom(left.shape))
BY DEF RightFrom, OrphanFrom, HasRevisions, PlaceInv, ShapeInv, Typed

LEMMA RewriteBound ==
  ASSUME ShapeInv, PlaceInv, BoundInv, NEW p \in Program, Rewrite(p)
  PROVE  BoundInv'
<1> DEFINE saw == program[p].saw
<1>0. saw = raw.shape \/ raw.shape = "current"
  BY DEF ShapeInv, ShapeKnown, Known, At, Rewrite
<1>1. CASE saw = "none"
  <2>1. EmptyTable.rows = {}
    BY DEF EmptyTable
  <2> QED
    BY <1>1, <2>1 DEF Rewrite, BoundInv, bounds, NoTable
<1>2. CASE saw # "none" /\ HasRevisions(saw)
  BY <1>2 DEF Rewrite, BoundInv, store, bounds
<1>3. CASE saw # "none" /\ ~HasRevisions(saw) /\ CanRewrite(saw)
  <2>1. /\ raw'.rows = Moved(raw.rows, RewriteFrom(saw))
        /\ left' = left /\ left.rows = {} /\ keys' = keys
        /\ twice' = (twice \/ HasRevisions(raw.shape))
    BY <1>3 DEF Rewrite, CanRewrite, NoTable
  <2> SUFFICES ASSUME ~twice'
               PROVE  \A r \in raw'.rows : Bound(r, keys)
    BY <2>1 DEF BoundInv
  <2>2. Fits(raw) /\ raw \in Tables /\ RightFrom(raw.shape, RewriteFrom(saw))
    BY <1>3, <2>1, RewriteRight
  <2>3. \A r \in raw.rows : Bound(r, keys)
    BY <2>1 DEF BoundInv
  <2> HIDE DEF saw
  <2> QED
    BY <2>1, <2>2, <2>3, MovedBound
<1>4. CASE saw # "none" /\ ~HasRevisions(saw) /\ ~CanRewrite(saw)
  <2>1. Fail(p)
    BY <1>4 DEF Rewrite
  <2> QED
    BY <2>1, FailIs DEF BoundInv
<1> QED
  BY <1>1, <1>2, <1>3, <1>4

LEMMA RecoverBound ==
  ASSUME ShapeInv, PlaceInv, BoundInv, NEW p \in Program, Recover(p)
  PROVE  BoundInv'
<1> DEFINE from == OrphanFrom(left.shape)
<1>0. keys' = keys /\ twice' = twice
  BY RecoverIs
<1>1. CASE UNCHANGED <<raw, left>>
  BY <1>0, <1>1 DEF BoundInv
<1>2. CASE left' = NoTable /\ raw'.rows = raw.rows \union Moved(left.rows, from)
  <2> SUFFICES ASSUME ~twice
               PROVE  \A r \in raw'.rows : Bound(r, keys)
    BY <1>0, <1>2 DEF BoundInv, NoTable
  <2>1. \A r \in raw.rows \union left.rows : Bound(r, keys)
    BY DEF BoundInv
  <2>2. Fits(left) /\ left \in Tables /\ RightFrom(left.shape, from)
    BY RecoverRight
  <2> HIDE DEF from
  <2>3. \A r \in Moved(left.rows, from) : Bound(r, keys)
    BY <2>1, <2>2, MovedBound
  <2> QED
    BY <1>2, <2>1, <2>3
<1> QED
  BY <1>1, <1>2, RecoverIs

LEMMA FillTimesBound ==
  ASSUME ShapeInv, BoundInv, NEW p \in Program, FillTimes(p)
  PROVE  BoundInv'
<1>1. /\ raw'.rows = {Timed(r) : r \in raw.rows}
      /\ left' = left /\ twice' = twice /\ keys' = keys
  BY FillTimesIs
<1>2. ASSUME NEW r \in raw.rows, Bound(r, keys) PROVE Bound(Timed(r), keys)
  <2>1. /\ Timed(r).file = r.file /\ Timed(r).seq = r.seq /\ Timed(r).srev = r.srev
        /\ Timed(r).prev = r.prev /\ Timed(r).aad = r.aad /\ Timed(r).env = r.env
    BY TimedIs DEF ShapeInv, Typed, Tables
  <2>2. EventAad(Timed(r)) = EventAad(r)
    BY <2>1 DEF EventAad
  <2> QED
    BY <1>2, <2>1, <2>2 DEF Bound, Readable
<1> QED
  BY <1>1, <1>2 DEF BoundInv

(* A row is resealed where the row remembered was, which is where it is.   *)
LEMMA ResealBound ==
  ASSUME ShapeInv, PlaceInv, BoundInv, NEW p \in Program, Reseal(p)
  PROVE  BoundInv'
<1> DEFINE old == program[p].remembers
<1>0. old \in SUBSET EventRow /\ left' = left /\ left.rows = {} /\ twice' = twice
  <2>1. old \in SUBSET EventRow /\ left = NoTable /\ left' = NoTable /\ twice' = twice
    BY ResealIs
  <2> QED
    BY <2>1 DEF NoTable
<1>1. CASE raw' = raw /\ keys' = keys
  BY <1>0, <1>1 DEF BoundInv
<1>2. CASE raw'.rows = {Resealed(r, old) : r \in raw.rows} /\ keys' = keys \union {r.file : r \in old}
  <2> SUFFICES ASSUME ~twice, NEW r \in raw.rows
               PROVE  Bound(Resealed(r, old), keys')
    BY <1>0, <1>2 DEF BoundInv
  <2> DEFINE m == Resealed(r, old)
  <2> SUFFICES Bound(m, keys')
    OBVIOUS
  <2>1. /\ r \in EventRow /\ Bound(r, keys)
    BY DEF BoundInv, ShapeInv, Typed, Tables
  <2>2. /\ m.file = r.file /\ m.seq = r.seq /\ m.srev = r.srev
        /\ m.prev = r.prev /\ m.aad = r.aad
        /\ \/ m.env = r.env
           \/ \E s \in old : s.off = r.off /\ m.env = [by |-> "group", aad |-> EventAad(s)]
    BY <1>0, <2>1, ResealedIs
  <2> HIDE DEF m
  <2>3. EventAad(m) = EventAad(r)
    BY <2>2 DEF EventAad
  <2>4. CASE m.env = r.env
    BY <1>2, <2>1, <2>2, <2>3, <2>4 DEF Bound, Readable
  <2>5. CASE \E s \in old : s.off = r.off /\ m.env = [by |-> "group", aad |-> EventAad(s)]
    <3>1. PICK s \in old : s.off = r.off /\ m.env = [by |-> "group", aad |-> EventAad(s)]
      BY <2>5
    <3>2. PICK q \in raw.rows : SamePlace(q, s)
      BY DEF PlaceInv, Remembered, At, Reseal
    <3>3. q = r
      BY <3>1, <3>2 DEF PlaceInv, OffsetsUnique, SamePlace
    <3>4. EventAad(s) = EventAad(r) /\ s.file = r.file
      BY <3>2, <3>3 DEF SamePlace, EventAad
    <3> QED
      BY <1>2, <2>2, <2>3, <3>1, <3>4 DEF Bound, Readable
  <2> QED
    BY <2>2, <2>4, <2>5
<1> QED
  BY <1>1, <1>2, ResealIs

LEMMA BoundInvNext ==
  ShapeInv /\ PlaceInv /\ BoundInv /\ [Next]_vars => BoundInv'
<1> SUFFICES ASSUME ShapeInv, PlaceInv, BoundInv, [Next]_vars PROVE BoundInv'
  OBVIOUS
<1>1. ASSUME NEW p \in Program, Walks(p) PROVE BoundInv'
  BY <1>1, WalkIs DEF BoundInv
<1>2. ASSUME NEW p \in Program, AddColumn(p) PROVE BoundInv'
  <2>1. raw'.rows = raw.rows /\ left' = left /\ keys' = keys /\ twice' = twice
    BY <1>2, FailIs DEF AddColumn, ShapeInv, Typed, Tables, store, bounds
  <2> QED
    BY <2>1 DEF BoundInv
<1>3. ASSUME NEW p \in Program, NEW f \in File, Append(p, f) \/ Rollback(p, f) PROVE BoundInv'
  <2>1. PICK to \in Nat \X Nat :
          /\ Write(p, f, to)
          /\ raw'.rows = raw.rows \union {Written(f, to)}
    BY <1>3, WriteIs
  <2>2. left' = left /\ keys' = keys \union {f} /\ twice' = twice
    BY <2>1 DEF Write
  <2>3. Bound(Written(f, to), keys')
    BY <2>2, WrittenIs DEF Bound, Readable
  <2>4. ASSUME NEW r, Bound(r, keys) PROVE Bound(r, keys')
    BY <2>2, <2>4 DEF Bound
  <2> QED
    BY <2>1, <2>2, <2>3, <2>4 DEF BoundInv
<1>4. CASE Next
  BY <1>1, <1>2, <1>3, <1>4, NextIs, RewriteBound, RecoverBound, FillTimesBound, ResealBound
<1>5. CASE UNCHANGED vars
  BY <1>5 DEF vars, BoundInv
<1> QED
  BY <1>4, <1>5

LEMMA BoundInvInit == Init => BoundInv
BY MigrationAssumption DEF Init, BoundInv

(* Every row opens, or waits to be resealed and its envelope can be: what  *)
(* moves and reseals rows never parts one from what it is bound to         *)
(* (migrate_event_envelopes, from rows read before), unless a second       *)
(* program rewrote the table again.                                        *)
THEOREM EnvelopesStayBound == Spec => []RowsStayBound
<1>1. Init => BoundInv
  BY BoundInvInit
<1>2. ShapeInv /\ PlaceInv /\ BoundInv /\ [Next]_vars => BoundInv'
  BY BoundInvNext
<1>3. BoundInv => RowsStayBound
  BY DEF BoundInv, RowsStayBound, Bound
<1> QED
  BY <1>1, <1>2, <1>3, AlwaysShapeInv, AlwaysPlaceInv, PTL DEF Spec

-----------------------------------------------------------------------------
(* What readers see of a store that was not open to them before: heads are *)
(* of the newest rows; once they were filled in, or data_keys made after   *)
(* that, none is missing; a plain row comes before all others; and whoever *)
(* reseals remembers every row that is not under its key.                  *)
FromBefore == "data_keys" \notin found.tables /\ ~twice

PastHeads == {"mark", "times", "keys", "legacy", "reseal", "validate", "open"}

MustBeFilled ==
  \/ "coords_backfilled" \in marks
  \/ "data_keys" \in tables
  \/ \E p \in Program : program[p].at \in PastHeads

HeadsNewest == \A f \in File : head[f] # None => left = NoTable /\ IsNewest(head[f], raw.rows, f)
HeadsFilled == MustBeFilled => \A r \in raw.rows \union left.rows : head[r.file] # None
LegacyRemembered ==
  \A p \in Program : At(p, "reseal") =>
    \A r \in raw.rows : r.env.by # "group" => \E s \in program[p].remembers : s.off = r.off

HeadInv ==
  FromBefore =>
    /\ HeadsNewest /\ HeadsFilled
    /\ PlainFirst(raw.rows \union left.rows)
    /\ LegacyRemembered

LEMMA HeadInvInit == Init => HeadInv
<1> SUFFICES ASSUME Init, FromBefore
             PROVE  /\ HeadsNewest /\ HeadsFilled
                    /\ PlainFirst(raw.rows \union left.rows)
                    /\ LegacyRemembered
  BY DEF HeadInv
<1>1. PICK s \in Stores :
        /\ raw = s.raw /\ left = s.left /\ tables = s.tables /\ head = s.head /\ marks = s.marks
        /\ found = s
  BY DEF Init
<1>2. "data_keys" \notin s.tables /\ HeadsRight(s) /\ PlainFirst(s.raw.rows \union s.left.rows)
  BY <1>1, MigrationAssumption DEF FromBefore
<1>3. \A p \in Program : program[p].at = "closed"
  BY DEF Init, Closed
<1>4. HeadsNewest /\ HeadsFilled
  BY <1>1, <1>2, <1>3 DEF HeadsNewest, HeadsFilled, HeadsRight, MustBeFilled, PastHeads
<1>5. LegacyRemembered
  BY <1>3 DEF LegacyRemembered, At
<1> QED
  BY <1>1, <1>2, <1>4, <1>5

(* What Greatest chooses is newest, and there is one newest.               *)
LEMMA GreatestIs ==
  ASSUME ShapeInv, NEW f \in File, \E r \in raw.rows : r.file = f
  PROVE  /\ Greatest(f) \in Nat \X Nat /\ IsNewest(Greatest(f), raw.rows, f)
         /\ \A g \in Nat \X Nat : IsNewest(g, raw.rows, f) => g = Greatest(f)
<1> DEFINE of == {r \in raw.rows : r.file = f}
           candidates == {<<r.srev, r.prev>> : r \in of}
           newest(g) == \A r \in of : r.srev < g[1] \/ (r.srev = g[1] /\ r.prev <= g[2])
<1>1. raw.rows \in SUBSET EventRow /\ IsFiniteSet(raw.rows)
  BY DEF ShapeInv, Typed, Tables, Finite
<1>2. \A g : IsNewest(g, raw.rows, f) <=> g \in candidates /\ newest(g)
  BY DEF IsNewest
<1>3. candidates \in SUBSET (Nat \X Nat)
  BY <1>1 DEF EventRow
<1>4. PICK g \in candidates : newest(g)
  BY <1>1, <1>2, GreatestIsNewest
<1>5. Greatest(f) \in candidates /\ newest(Greatest(f))
  BY <1>4 DEF Greatest
<1>6. ASSUME NEW h \in candidates, newest(h) PROVE h = Greatest(f)
  <2> DEFINE t == Greatest(f)
  <2>1. PICK r \in of, q \in of : h = <<r.srev, r.prev>> /\ t = <<q.srev, q.prev>>
    BY <1>5
  <2>2. /\ r.srev < t[1] \/ (r.srev = t[1] /\ r.prev <= t[2])
        /\ q.srev < h[1] \/ (q.srev = h[1] /\ q.prev <= h[2])
    BY <1>5, <1>6
  <2>3. r.srev \in Nat /\ r.prev \in Nat /\ q.srev \in Nat /\ q.prev \in Nat
    BY <1>1 DEF EventRow
  <2>4. r.srev = q.srev /\ r.prev = q.prev
    BY <2>1, <2>2, <2>3
  <2> QED
    BY <2>1, <2>4
<1> HIDE DEF candidates, newest
<1> QED
  BY <1>2, <1>3, <1>5, <1>6

(* Nothing but FillHeads makes a head required that was not.               *)
LEMMA FilledBefore ==
  ASSUME ShapeInv, NEW p \in Program, Walks(p), ~FillHeads(p)
  PROVE  head' = head /\ (MustBeFilled' => MustBeFilled)
<1>0. \A q \in Program : q # p => program'[q] = program[q]
  BY WalkIs
<1>1. /\ head' = head
      /\ "coords_backfilled" \in marks' => MustBeFilled
      /\ "data_keys" \in tables' => MustBeFilled
      /\ program'[p].at \in PastHeads => MustBeFilled
  <2> USE DEF ShapeInv, Typed
  <2>1. CASE Begin(p) \/ LookAtShape(p) \/ LookForOrphan(p)
    BY <2>1 DEF Begin, LookAtShape, LookForOrphan, Go, store, PastHeads, MustBeFilled
  <2>2. CASE RewriteIdentity(p) \/ FillLedger(p)
    BY <2>2 DEF RewriteIdentity, FillLedger, Continue, Go, PastHeads, MustBeFilled
  <2>3. CASE MakeCoordinates(p)
    BY <2>3 DEF MakeCoordinates, Continue, Go, PastHeads, MustBeFilled
  <2>4. CASE MarkCoordinates(p) \/ MakeKeys(p)
    BY <2>4 DEF MarkCoordinates, MakeKeys, At, PastHeads, MustBeFilled
  <2>5. CASE ReadLegacy(p)
    BY <2>5 DEF ReadLegacy, At, PastHeads, MustBeFilled, store
  <2>6. CASE Validate(p)
    BY <2>6 DEF Validate, Fail, At, PastHeads, MustBeFilled, store
  <2>7. CASE Close(p) \/ Crash(p)
    BY <2>7 DEF Close, Crash, Closed, PastHeads, MustBeFilled, store
  <2> QED
    BY <2>1, <2>2, <2>3, <2>4, <2>5, <2>6, <2>7 DEF Walks
<1> QED
  BY <1>0, <1>1 DEF MustBeFilled

LEMMA FillHeadsHeads ==
  ASSUME ShapeInv, HeadInv, NEW p \in Program, FillHeads(p), FromBefore
  PROVE  (HeadsNewest /\ HeadsFilled)'
<1>1. /\ raw' = raw /\ left' = left /\ left = NoTable
      /\ head' = [f \in File |-> FilledHead(f)]
  BY DEF FillHeads, ShapeInv, ShapeKnown, Known, At, Opened
<1>2. head \in [File -> (Nat \X Nat) \union {None}] /\ None \notin Nat \X Nat
      /\ raw.rows \in SUBSET EventRow
  BY MigrationAssumption DEF ShapeInv, Typed, Tables
<1>3. ASSUME NEW f \in File
      PROVE  /\ FilledHead(f) # None => IsNewest(FilledHead(f), raw.rows, f)
             /\ (\E r \in raw.rows : r.file = f) => FilledHead(f) # None
  <2>1. CASE head[f] = None /\ \E r \in raw.rows : r.file = f
    <3>1. FilledHead(f) = Greatest(f)
      BY <2>1 DEF FilledHead
    <3> QED
      BY <1>2, <2>1, <3>1, GreatestIs
  <2>2. CASE ~(head[f] = None /\ \E r \in raw.rows : r.file = f)
    <3>1. FilledHead(f) = head[f]
      BY <2>2 DEF FilledHead
    <3> QED
      BY <2>2, <3>1 DEF HeadInv, HeadsNewest
  <2> QED
    BY <2>1, <2>2
<1>4. HeadsNewest'
  BY <1>1, <1>3 DEF HeadsNewest
<1>5. \A r \in raw'.rows \union left'.rows : head'[r.file] # None
  <2>1. \A r \in raw.rows : r.file \in File
    BY <1>2 DEF EventRow
  <2> QED
    BY <1>1, <1>3, <2>1 DEF NoTable
<1> QED
  BY <1>4, <1>5 DEF HeadsFilled

LEMMA WalkHeads ==
  ASSUME ShapeInv, HeadInv, NEW p \in Program, Walks(p)
  PROVE  HeadInv'
<1>0. /\ UNCHANGED <<raw, left, found, twice>>
      /\ \A q \in Program : q # p => program'[q] = program[q]
      /\ program'[p].at = "reseal" => program'[p].remembers = Legacy
  BY WalkIs
<1> SUFFICES ASSUME FromBefore
             PROVE  (HeadsNewest /\ HeadsFilled /\ LegacyRemembered)'
  BY <1>0 DEF HeadInv, FromBefore
<1>1. HeadsNewest' /\ HeadsFilled'
  <2>1. CASE FillHeads(p)
    BY <2>1, FillHeadsHeads
  <2>2. CASE ~FillHeads(p)
    BY <1>0, <2>2, FilledBefore DEF HeadInv, HeadsNewest, HeadsFilled
  <2> QED
    BY <2>1, <2>2
<1>2. LegacyRemembered'
  <2> SUFFICES ASSUME NEW q \in Program, program'[q].at = "reseal",
                      NEW r \in raw.rows, r.env.by # "group"
               PROVE  \E s \in program'[q].remembers : s.off = r.off
    BY <1>0 DEF LegacyRemembered, At
  <2>1. CASE q = p
    BY <1>0, <2>1 DEF Legacy
  <2>2. CASE q # p
    BY <1>0, <2>2 DEF HeadInv, LegacyRemembered, At
  <2> QED
    BY <2>1, <2>2
<1> QED
  BY <1>1, <1>2

(* Tables with rows in the same places have the same newest.               *)
InTheSamePlaces(rows, old) ==
  /\ \A m \in rows : \E r \in old : SamePlace(m, r)
  /\ \A r \in old : \E m \in rows : SamePlace(m, r)

LEMMA NewestStays ==
  ASSUME NEW rows, NEW old, InTheSamePlaces(rows, old), NEW g, NEW f, IsNewest(g, old, f)
  PROVE  IsNewest(g, rows, f)
<1>1. PICK r \in old : r.file = f /\ g = <<r.srev, r.prev>>
  BY DEF IsNewest
<1>2. PICK m \in rows : SamePlace(m, r)
  BY DEF InTheSamePlaces
<1>3. m.file = f /\ g = <<m.srev, m.prev>>
  BY <1>1, <1>2 DEF SamePlace
<1>4. \A n \in rows : n.file = f => n.srev < g[1] \/ (n.srev = g[1] /\ n.prev <= g[2])
  <2> TAKE n \in rows
  <2> HAVE n.file = f
  <2>1. PICK q \in old : SamePlace(n, q)
    BY DEF InTheSamePlaces
  <2>2. q.file = f /\ q.srev = n.srev /\ q.prev = n.prev
    BY <2>1 DEF SamePlace
  <2> QED
    BY <2>2 DEF IsNewest
<1> QED
  BY <1>3, <1>4 DEF IsNewest

(* Rows that stay in their places with their envelopes keep the heads      *)
(* right, as long as nothing more is required to be filled in.             *)
LEMMA HeadsStay ==
  ASSUME HeadInv, FromBefore, head' = head, left' = left, left = NoTable,
         MustBeFilled' => MustBeFilled,
         \A m \in raw'.rows : \E r \in raw.rows : SamePlace(m, r) /\ m.env = r.env,
         \A r \in raw.rows : \E m \in raw'.rows : SamePlace(m, r) /\ m.env = r.env,
         \A q \in Program : program'[q].at = "reseal" => program'[q] = program[q]
  PROVE  /\ HeadsNewest' /\ HeadsFilled' /\ LegacyRemembered'
         /\ PlainFirst(raw'.rows \union left'.rows)
<1>1. InTheSamePlaces(raw'.rows, raw.rows)
  BY DEF InTheSamePlaces
<1>2. HeadsNewest'
  BY <1>1, NewestStays DEF HeadInv, HeadsNewest
<1>3. HeadsFilled'
  <2> SUFFICES ASSUME MustBeFilled', NEW m \in raw'.rows PROVE head[m.file] # None
    BY DEF HeadsFilled, NoTable
  <2>1. PICK r \in raw.rows : SamePlace(m, r)
    OBVIOUS
  <2> QED
    BY <2>1 DEF HeadInv, HeadsFilled, SamePlace
<1>4. LegacyRemembered'
  <2> SUFFICES ASSUME NEW q \in Program, program'[q].at = "reseal",
                      NEW m \in raw'.rows, m.env.by # "group"
               PROVE  \E s \in program'[q].remembers : s.off = m.off
    BY DEF LegacyRemembered, At
  <2>1. PICK r \in raw.rows : SamePlace(m, r) /\ m.env = r.env
    OBVIOUS
  <2>2. \E s \in program[q].remembers : s.off = r.off
    BY <2>1 DEF HeadInv, LegacyRemembered, At
  <2> QED
    BY <2>1, <2>2 DEF SamePlace
<1>5. PlainFirst(raw'.rows)
  <2> SUFFICES ASSUME NEW m \in raw'.rows, NEW n \in raw'.rows,
                      m.env.by = "plain", n.env.by # "plain"
               PROVE  m.off < n.off
    BY DEF PlainFirst
  <2>1. PICK r \in raw.rows, q \in raw.rows :
          SamePlace(m, r) /\ m.env = r.env /\ SamePlace(n, q) /\ n.env = q.env
    OBVIOUS
  <2>2. r.off < q.off
    BY <2>1 DEF HeadInv, PlainFirst
  <2> QED
    BY <2>1, <2>2 DEF SamePlace
<1> QED
  BY <1>2, <1>3, <1>4, <1>5 DEF NoTable

LEMMA SameTables ==
  ASSUME HeadInv, FromBefore, UNCHANGED <<raw, left, head>>, MustBeFilled' => MustBeFilled,
         \A q \in Program : program'[q].at = "reseal" => program'[q] = program[q]
  PROVE  /\ HeadsNewest' /\ HeadsFilled' /\ LegacyRemembered'
         /\ PlainFirst(raw'.rows \union left'.rows)
BY DEF HeadInv, HeadsNewest, HeadsFilled, LegacyRemembered, At

LEMMA RewriteHeads ==
  ASSUME ShapeInv, PlaceInv, HeadInv, NEW p \in Program, Rewrite(p)
  PROVE  HeadInv'
<1> DEFINE saw == program[p].saw
<1>0. /\ UNCHANGED <<head, tables, marks, found>>
      /\ twice => twice'
      /\ \A q \in Program : q # p => program'[q] = program[q]
      /\ program'[p].at \in {"orphan", "closed"}
  BY FailIs DEF Rewrite, Go, ShapeInv, Typed, store, bounds
<1> SUFFICES ASSUME FromBefore, ~twice'
             PROVE  /\ HeadsNewest' /\ HeadsFilled' /\ LegacyRemembered'
                    /\ PlainFirst(raw'.rows \union left'.rows)
  BY <1>0 DEF HeadInv, FromBefore
<1>1. /\ MustBeFilled' => MustBeFilled
      /\ \A q \in Program : program'[q].at = "reseal" => program'[q] = program[q]
  BY <1>0 DEF MustBeFilled, PastHeads
<1>2. CASE raw' = raw /\ left' = left
  BY <1>0, <1>1, <1>2, SameTables
<1>3. CASE raw = NoTable /\ raw' = EmptyTable /\ left' = left
  <2>1. \A f \in File : head[f] = None
    BY <1>3 DEF HeadInv, HeadsNewest, IsNewest, NoTable
  <2>2. HeadsNewest'
    BY <1>0, <2>1 DEF HeadsNewest
  <2>3. raw'.rows = raw.rows
    BY <1>3 DEF NoTable, EmptyTable
  <2> QED
    BY <1>0, <1>1, <1>3, <2>2, <2>3 DEF HeadInv, HeadsFilled, LegacyRemembered, At
<1>4. CASE saw # "none" /\ ~HasRevisions(saw) /\ CanRewrite(saw)
  <2>1. /\ raw'.rows = Moved(raw.rows, RewriteFrom(saw))
        /\ left' = left /\ left = NoTable
        /\ twice' = (twice \/ HasRevisions(raw.shape))
    BY <1>4 DEF Rewrite, CanRewrite
  <2>2. Fits(raw) /\ raw \in Tables /\ RightFrom(raw.shape, RewriteFrom(saw))
    BY <1>4, <2>1, RewriteRight
  <2> HIDE DEF saw
  <2>3. \A r \in raw.rows : /\ SamePlace(MovedRow(r, RewriteFrom(saw)), r)
                            /\ MovedRow(r, RewriteFrom(saw)).env = r.env
    BY <2>2, MovedStays
  <2>4. /\ \A m \in raw'.rows : \E r \in raw.rows : SamePlace(m, r) /\ m.env = r.env
        /\ \A r \in raw.rows : \E m \in raw'.rows : SamePlace(m, r) /\ m.env = r.env
    BY <2>1, <2>3 DEF Moved
  <2> QED
    BY <1>0, <1>1, <2>1, <2>4, HeadsStay
<1>5. \/ raw' = raw /\ left' = left
      \/ raw = NoTable /\ raw' = EmptyTable /\ left' = left
      \/ saw # "none" /\ ~HasRevisions(saw) /\ CanRewrite(saw)
  BY FailIs DEF Rewrite, store
<1> QED
  BY <1>2, <1>3, <1>4, <1>5

LEMMA RecoverHeads ==
  ASSUME ShapeInv, PlaceInv, HeadInv, NEW p \in Program, Recover(p)
  PROVE  HeadInv'
<1> DEFINE from == OrphanFrom(left.shape)
           rows == Moved(left.rows, from)
<1>0. /\ UNCHANGED <<head, tables, marks, found, twice>>
      /\ \A q \in Program : q # p => program'[q] = program[q]
      /\ program'[p].at \in {"column", "closed"}
  BY RecoverIs, FailIs DEF Recover, Go, ShapeInv, Typed
<1> SUFFICES ASSUME FromBefore
             PROVE  /\ HeadsNewest' /\ HeadsFilled' /\ LegacyRemembered'
                    /\ PlainFirst(raw'.rows \union left'.rows)
  BY <1>0 DEF HeadInv, FromBefore
<1>1. /\ MustBeFilled' => MustBeFilled
      /\ \A q \in Program : program'[q].at = "reseal" => program'[q] = program[q]
  BY <1>0 DEF MustBeFilled, PastHeads
<1>2. CASE raw' = raw /\ left' = left
  BY <1>0, <1>1, <1>2, SameTables
<1>3. CASE left # NoTable /\ left' = NoTable /\ raw'.rows = raw.rows \union rows
  <2>1. \A m \in rows : \E r \in left.rows : SamePlace(m, r) /\ m.env = r.env
    BY RecoverRight, MovedStays DEF Moved
  <2> HIDE DEF rows
  <2>2. \A m \in raw'.rows \union left'.rows : \E r \in raw.rows \union left.rows :
          SamePlace(m, r) /\ m.env = r.env
    BY <1>3, <2>1 DEF SamePlace, NoTable
  <2>3. HeadsNewest'
    BY <1>0, <1>3 DEF HeadInv, HeadsNewest
  <2>4. HeadsFilled'
    BY <1>0, <1>1, <2>2 DEF HeadInv, HeadsFilled, SamePlace
  <2>5. PlainFirst(raw'.rows \union left'.rows)
    <3> SUFFICES ASSUME NEW m \in raw'.rows \union left'.rows, NEW n \in raw'.rows \union left'.rows,
                        m.env.by = "plain", n.env.by # "plain"
                 PROVE  m.off < n.off
      BY DEF PlainFirst
    <3>1. PICK r \in raw.rows \union left.rows, q \in raw.rows \union left.rows :
            SamePlace(m, r) /\ m.env = r.env /\ SamePlace(n, q) /\ n.env = q.env
      BY <2>2
    <3>2. r.off < q.off
      BY <3>1 DEF HeadInv, PlainFirst
    <3> QED
      BY <3>1, <3>2 DEF SamePlace
  <2>6. LegacyRemembered'
    <3>1. \A q \in Program : ~At(q, "reseal")
      BY <1>3 DEF ShapeInv, ShapeKnown, Known, At, Opened
    <3> QED
      BY <1>1, <3>1 DEF LegacyRemembered, At
  <2> QED
    BY <2>3, <2>4, <2>5, <2>6
<1> QED
  BY <1>2, <1>3, RecoverIs

LEMMA AddColumnHeads ==
  ASSUME ShapeInv, HeadInv, NEW p \in Program, AddColumn(p)
  PROVE  HeadInv'
<1>0. /\ UNCHANGED <<left, head, tables, marks, found, twice>>
      /\ \A q \in Program : q # p => program'[q] = program[q]
      /\ program'[p].at \in {"coordinates", "closed"}
      /\ raw'.rows = raw.rows
  BY FailIs DEF AddColumn, Continue, Go, ShapeInv, Typed, Tables, store, bounds
<1>1. /\ MustBeFilled' => MustBeFilled
      /\ \A q \in Program : program'[q].at = "reseal" => program'[q] = program[q]
  BY <1>0 DEF MustBeFilled, PastHeads
<1> QED
  BY <1>0, <1>1 DEF HeadInv, FromBefore, HeadsNewest, HeadsFilled, LegacyRemembered, At

LEMMA FillTimesHeads ==
  ASSUME ShapeInv, HeadInv, NEW p \in Program, FillTimes(p)
  PROVE  HeadInv'
<1>0. /\ raw'.rows = {Timed(r) : r \in raw.rows}
      /\ left = NoTable /\ left' = NoTable /\ twice' = twice
      /\ \A q \in Program : q # p => program'[q] = program[q]
      /\ program'[p].at = "keys"
  BY FillTimesIs
<1>1. UNCHANGED <<head, tables, marks, found>> /\ program[p].at = "times"
  BY DEF FillTimes, At, bounds
<1>2. /\ MustBeFilled' => MustBeFilled
      /\ \A q \in Program : program'[q].at = "reseal" => program'[q] = program[q]
  BY <1>0, <1>1 DEF MustBeFilled, PastHeads
<1>3. \A r \in raw.rows : SamePlace(Timed(r), r) /\ Timed(r).env = r.env
  BY TimedIs DEF SamePlace, ShapeInv, Typed, Tables
<1>4. /\ \A m \in raw'.rows : \E r \in raw.rows : SamePlace(m, r) /\ m.env = r.env
      /\ \A r \in raw.rows : \E m \in raw'.rows : SamePlace(m, r) /\ m.env = r.env
  BY <1>0, <1>3
<1> QED
  BY <1>0, <1>1, <1>2, <1>4, HeadsStay DEF HeadInv, FromBefore

(* After a reseal no row is plain: every one not under its key was         *)
(* remembered.                                                             *)
LEMMA ResealHeads ==
  ASSUME ShapeInv, HeadInv, NEW p \in Program, Reseal(p)
  PROVE  HeadInv'
<1> DEFINE old == program[p].remembers
<1>0. /\ left = NoTable /\ left' = NoTable /\ twice' = twice
      /\ \A q \in Program : q # p => program'[q] = program[q]
      /\ program'[p].at \in {"closed", "validate"}
      /\ old \in SUBSET EventRow
  BY ResealIs
<1>1. /\ UNCHANGED <<head, tables, found>> /\ program[p].at = "reseal"
      /\ "coords_backfilled" \in marks' => "coords_backfilled" \in marks
  BY FailIs DEF Reseal, At, bounds
<1>2. /\ MustBeFilled' => MustBeFilled
      /\ \A q \in Program : program'[q].at = "reseal" => program'[q] = program[q]
  BY <1>0, <1>1 DEF MustBeFilled, PastHeads
<1> SUFFICES ASSUME FromBefore
             PROVE  /\ HeadsNewest' /\ HeadsFilled' /\ LegacyRemembered'
                    /\ PlainFirst(raw'.rows \union left'.rows)
  BY <1>0, <1>1 DEF HeadInv, FromBefore
<1>3. CASE raw' = raw
  BY <1>0, <1>1, <1>2, <1>3, SameTables
<1>4. CASE raw'.rows = {Resealed(r, old) : r \in raw.rows}
  <2>1. ASSUME NEW r \in raw.rows
        PROVE  SamePlace(Resealed(r, old), r) /\ Resealed(r, old).env.by = "group"
    <3> DEFINE m == Resealed(r, old)
    <3>1. r \in EventRow
      BY DEF ShapeInv, Typed, Tables
    <3>2. /\ SamePlace(m, r)
          /\ \/ m.env = r.env /\ \A s \in old : s.off # r.off
             \/ \E s \in old : s.off = r.off /\ m.env = [by |-> "group", aad |-> EventAad(s)]
      BY <1>0, <3>1, ResealedIs DEF SamePlace
    <3> HIDE DEF m
    <3>3. m.env.by = "group"
      <4>1. CASE m.env = r.env /\ \A s \in old : s.off # r.off
        BY <1>1, <4>1 DEF HeadInv, LegacyRemembered, At
      <4>2. CASE \E s \in old : s.off = r.off /\ m.env = [by |-> "group", aad |-> EventAad(s)]
        BY <4>2
      <4> QED
        BY <3>2, <4>1, <4>2
    <3> QED
      BY <3>2, <3>3 DEF m
  <2>2. InTheSamePlaces(raw'.rows, raw.rows) /\ \A m \in raw'.rows : m.env.by = "group"
    BY <1>4, <2>1 DEF InTheSamePlaces
  <2>3. HeadsNewest'
    BY <1>0, <1>1, <2>2, NewestStays DEF HeadInv, HeadsNewest
  <2>4. HeadsFilled'
    BY <1>0, <1>1, <1>2, <2>2 DEF HeadInv, HeadsFilled, InTheSamePlaces, SamePlace, NoTable
  <2>5. LegacyRemembered'
    BY <2>2 DEF LegacyRemembered
  <2>6. PlainFirst(raw'.rows \union left'.rows)
    BY <1>0, <2>2 DEF PlainFirst, NoTable
  <2> QED
    BY <2>3, <2>4, <2>5, <2>6
<1> QED
  BY <1>3, <1>4, ResealIs

(* A batch goes to the newest projection of its file or founds a newer     *)
(* one, and its head follows.                                              *)
LEMMA WriteHeads ==
  ASSUME ShapeInv, HeadInv, NEW p \in Program, NEW f \in File, Append(p, f) \/ Rollback(p, f)
  PROVE  HeadInv'
<1>1. PICK to \in Nat \X Nat :
        /\ Write(p, f, to)
        /\ raw' = [raw EXCEPT !.rows = @ \union {Written(f, to)}]
        /\ raw'.rows = raw.rows \union {Written(f, to)}
        /\ HeadOf(f) = to \/ to = <<HeadOf(f)[1] + 1, 0>>
  BY WriteIs
<1> DEFINE w == Written(f, to)
<1>2. /\ UNCHANGED <<left, tables, marks, program, found, twice>>
      /\ head' = [head EXCEPT ![f] = to]
      /\ program[p].at = "open"
  BY <1>1 DEF Write, At
<1>3. /\ w \in EventRow /\ w.file = f /\ w.srev = to[1] /\ w.prev = to[2]
      /\ w.env.by = "group" /\ \A r \in raw.rows : r.off < w.off
  BY WrittenIs
<1>4. /\ left = NoTable /\ raw.rows \in SUBSET EventRow
      /\ head \in [File -> (Nat \X Nat) \union {None}] /\ None \notin Nat \X Nat
  <2>1. p \in Program /\ Known(p)
    BY DEF ShapeInv, ShapeKnown
  <2> QED
    BY <1>2, <2>1, MigrationAssumption DEF ShapeInv, Typed, Tables, Known, Opened
<1>5. /\ raw'.rows = raw.rows \union {w}
      /\ head' \in [File -> (Nat \X Nat) \union {None}]
      /\ head'[f] = to /\ \A g \in File : g # f => head'[g] = head[g]
  BY <1>1, <1>2, <1>4
<1> HIDE DEF w
<1> SUFFICES ASSUME FromBefore
             PROVE  /\ HeadsNewest' /\ HeadsFilled' /\ LegacyRemembered'
                    /\ PlainFirst(raw'.rows \union left'.rows)
  BY <1>2 DEF HeadInv, FromBefore
<1>6. MustBeFilled
  BY <1>2 DEF MustBeFilled, PastHeads
<1>7. IsNewest(to, raw'.rows, f)
  <2>1. to = <<w.srev, w.prev>> /\ to[1] \in Nat /\ to[2] \in Nat
    BY <1>3
  <2>2. ASSUME NEW r \in raw.rows, r.file = f
        PROVE  r.srev < to[1] \/ (r.srev = to[1] /\ r.prev <= to[2])
    <3>1. head[f] # None
      BY <1>6, <2>2 DEF HeadInv, HeadsFilled
    <3>2. HeadOf(f) = head[f] /\ head[f] \in Nat \X Nat
      BY <1>4, <3>1 DEF HeadOf
    <3>3. r.srev < head[f][1] \/ (r.srev = head[f][1] /\ r.prev <= head[f][2])
      BY <2>2, <3>1 DEF HeadInv, HeadsNewest, IsNewest
    <3>4. r.srev \in Nat /\ r.prev \in Nat /\ head[f][1] \in Nat
      BY <1>4, <3>2 DEF EventRow
    <3>5. CASE to = head[f]
      BY <3>3, <3>5
    <3>6. CASE to[1] = head[f][1] + 1
      BY <3>3, <3>4, <3>6
    <3> QED
      BY <1>1, <3>2, <3>5, <3>6
  <2>3. w.srev < to[1] \/ (w.srev = to[1] /\ w.prev <= to[2])
    BY <2>1
  <2> QED
    BY <1>3, <1>5, <2>1, <2>2, <2>3 DEF IsNewest
<1>8. HeadsNewest'
  <2> SUFFICES ASSUME NEW g \in File, head'[g] # None
               PROVE  IsNewest(head'[g], raw'.rows, g)
    BY <1>2, <1>4 DEF HeadsNewest
  <2>1. CASE g = f
    BY <1>5, <1>7, <2>1
  <2>2. CASE g # f
    <3>1. IsNewest(head[g], raw.rows, g)
      BY <1>5, <2>2 DEF HeadInv, HeadsNewest
    <3> QED
      BY <1>3, <1>5, <2>2, <3>1 DEF IsNewest
  <2> QED
    BY <2>1, <2>2
<1>9. HeadsFilled'
  <2> SUFFICES ASSUME NEW r \in raw'.rows PROVE head'[r.file] # None
    BY <1>2, <1>4 DEF HeadsFilled, NoTable
  <2>1. to # None /\ r.file \in File
    BY <1>3, <1>4, <1>5 DEF EventRow
  <2>2. CASE r.file = f
    BY <1>5, <2>1, <2>2
  <2>3. CASE r.file # f
    <3>1. r \in raw.rows
      BY <1>3, <1>5, <2>3
    <3> QED
      BY <1>5, <1>6, <2>1, <2>3, <3>1 DEF HeadInv, HeadsFilled
  <2> QED
    BY <2>2, <2>3
<1>10. LegacyRemembered'
  BY <1>2, <1>3, <1>5 DEF HeadInv, LegacyRemembered, At
<1>11. PlainFirst(raw'.rows \union left'.rows)
  <2>1. PlainFirst(raw.rows) /\ left'.rows = {}
    BY <1>2, <1>4 DEF HeadInv, NoTable
  <2> QED
    BY <1>3, <1>5, <2>1 DEF PlainFirst
<1> QED
  BY <1>8, <1>9, <1>10, <1>11

LEMMA HeadInvNext == ShapeInv /\ PlaceInv /\ HeadInv /\ [Next]_vars => HeadInv'
<1> SUFFICES ASSUME ShapeInv, PlaceInv, HeadInv, [Next]_vars PROVE HeadInv'
  OBVIOUS
<1>1. CASE Next
  BY <1>1, NextIs, WalkHeads, RewriteHeads, RecoverHeads, AddColumnHeads, FillTimesHeads,
     ResealHeads, WriteHeads
<1>2. CASE UNCHANGED vars
  BY <1>2 DEF vars, HeadInv, FromBefore, HeadsNewest, HeadsFilled, MustBeFilled, LegacyRemembered, At
<1> QED
  BY <1>1, <1>2

(* Where the first row opens, no row is plain, so every row opens.         *)
LEMMA AllOpen ==
  ASSUME ShapeInv, BoundInv, HeadInv, FromBefore, FirstRowOpens
  PROVE  \A r \in raw.rows : Opens(r)
<1>1. raw.rows \in SUBSET EventRow /\ IsFiniteSet(raw.rows)
  BY DEF ShapeInv, Typed, Tables, Finite
<1>2. \A r \in raw.rows : r.env.by \in {"plain", "master", "group"} /\ r.off \in Nat
  BY <1>1 DEF EventRow
<1>3. ASSUME NEW r \in raw.rows PROVE r.env.by # "plain"
  <2> DEFINE offs == {0} \union {s.off : s \in raw.rows}
             used == {s.off : s \in raw.rows}
  <2>1. IsFiniteSet(used) /\ used \in SUBSET Nat
    <3>1. IsFiniteSet(offs) /\ offs \in SUBSET Nat
      BY <1>1, OffsetsFinite
    <3>2. used \in SUBSET offs
      OBVIOUS
    <3> HIDE DEF offs, used
    <3> QED
      BY <3>1, <3>2, FS_Subset
  <2>2. r.off \in used
    OBVIOUS
  <2> HIDE DEF used
  <2>3. Min(used) \in used /\ \A k \in used : Min(used) <= k
    BY <2>1, <2>2, MinIsLeast
  <2>4. PICK s \in raw.rows : s.off = Min(used)
    BY <2>3 DEF used
  <2>5. \A q \in raw.rows : s.off <= q.off
    BY <2>3, <2>4 DEF used
  <2>6. Opens(s)
    BY <2>5 DEF FirstRowOpens
  <2>7. s.env.by # "plain"
    BY <2>6 DEF Opens
  <2>8. s.off <= r.off /\ s.off \in Nat /\ r.off \in Nat
    BY <1>2, <2>5
  <2>9. ~(r.off < s.off)
    BY <2>8
  <2> QED
    BY <2>7, <2>9 DEF HeadInv, PlainFirst
<1>4. \A r \in raw.rows : Bound(r, keys)
  BY DEF BoundInv, FromBefore
<1> QED
  BY <1>2, <1>3, <1>4 DEF Bound, Readable, Opens

LEMMA ReadersSee ==
  ASSUME ShapeInv, BoundInv, HeadInv
  PROVE  ReadersSeeTheNewest
<1> SUFFICES ASSUME Admitted, ~twice, "data_keys" \notin found.tables,
                    NEW f \in File, \E r \in raw.rows : r.file = f
             PROVE  Shown(f) = Newest(f)
  BY DEF ReadersSeeTheNewest
<1>1. FromBefore /\ MustBeFilled /\ FirstRowOpens
  BY DEF FromBefore, MustBeFilled, Admitted, Others
<1>2. \A r \in raw.rows : Opens(r)
  BY <1>1, AllOpen
<1>3. head[f] # None
  BY <1>1 DEF HeadInv, HeadsFilled
<1>4. HeadOf(f) = Greatest(f) /\ HeadOf(f) \in Nat \X Nat
  <2>1. IsNewest(head[f], raw.rows, f) /\ head[f] \in Nat \X Nat
    BY <1>1, <1>3 DEF HeadInv, HeadsNewest, ShapeInv, Typed
  <2>2. head[f] = Greatest(f)
    BY <2>1, GreatestIs
  <2> QED
    BY <1>3, <2>1, <2>2 DEF HeadOf
<1>5. \A s \in raw.rows :
        Coordinates(s) = <<f, HeadOf(f)[1], HeadOf(f)[2]>> <=>
          s.file = f /\ <<s.srev, s.prev>> = Greatest(f)
  <2>1. PICK a \in Nat, b \in Nat : HeadOf(f) = <<a, b>>
    BY <1>4
  <2> QED
    BY <1>4, <2>1 DEF Coordinates
<1> QED
  BY <1>2, <1>5 DEF Shown, Newest

(* A reader that is let in sees, of every file, the newest generation and  *)
(* all of it, while the store is migrated and after (open_read_only and    *)
(* read_session against migrate), in a store that had no data keys before  *)
(* and was rewritten by one program.                                       *)
THEOREM ReadersAreAnsweredAsBefore == Spec => []ReadersSeeTheNewest
<1>1. Init => BoundInv /\ HeadInv
  BY BoundInvInit, HeadInvInit
<1>2. ShapeInv /\ PlaceInv /\ BoundInv /\ HeadInv /\ [Next]_vars => BoundInv' /\ HeadInv'
  BY BoundInvNext, HeadInvNext
<1>3. ShapeInv /\ BoundInv /\ HeadInv => ReadersSeeTheNewest
  BY ReadersSee
<1> QED
  BY <1>1, <1>2, <1>3, AlwaysShapeInv, AlwaysPlaceInv, PTL DEF Spec

=============================================================================
