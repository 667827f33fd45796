--------------------------- MODULE TotalStoreProofs ---------------------------
(* What holds of TotalStore for every number of processes, sources,        *)
(* sessions, roots and batches, and for every bound.                       *)
EXTENDS TotalStore, FiniteSetTheorems, TLAPS

-----------------------------------------------------------------------------
(* The inductive invariant.  Besides its type, a call in progress carries  *)
(* a finite batch, and an Append never carries a token.                    *)
FiniteStore ==
  /\ IsFiniteSet(rows)
  /\ \A h \in Handle : call[h] \in Applying => IsFiniteSet(call[h].batch)

TokensOpenGenerations ==
  \A h \in Handle : call[h] \in Applying /\ call[h].mode = "append" => call[h].op = NoOp

TypeInv == TypeOK /\ FiniteStore /\ TokensOpenGenerations

-----------------------------------------------------------------------------
(* Lemmas about the operators.                                             *)

(* A head is a pair of naturals, also for a source never projected.        *)
LEMMA HeadIsRev ==
  ASSUME TypeOK, NEW s \in Source
  PROVE  HeadOf(s) \in Rev
BY DEF HeadOf, TypeOK, Rev

(* Every mode opens or keeps a generation; only Append keeps it.           *)
LEMMA TargetIsRev ==
  ASSUME NEW m \in Mode, NEW v \in Rev
  PROVE  /\ Target(m, v) \in Rev
         /\ Target(m, v) = v <=> m = "append"
BY DEF Mode, Rev, Target

(* A handle that waits for the write lock is applying a batch.             *)
LEMMA BusyCallTyped ==
  ASSUME TypeOK, NEW h \in Handle
  PROVE  /\ call[h].step \in {"screening", "prepared", "queued"} => call[h] \in Applying
         /\ call[h].step = "reclaiming" => call[h] \in Reclaiming
         /\ call[h] \in Applying => call[h] # Idle
BY DEF TypeOK, Applying, Reclaiming, Idle

(* The rows of a generation are finitely many.                             *)
LEMMA GenerationFinite ==
  ASSUME IsFiniteSet(rows), NEW s, NEW v
  PROVE  /\ IsFiniteSet(At(s, v))
         /\ Cardinality(At(s, v)) \in Nat
<1>1. At(s, v) \subseteq rows
  BY DEF At
<1> QED
  BY <1>1, FS_Subset, FS_CardinalityType

(* What a transaction adds is part of the batch.                           *)
LEMMA AdmittedInBatch ==
  ASSUME NEW s, NEW v, NEW b
  PROVE  Admitted(s, v, b) \subseteq b
BY DEF Admitted

(* The image of a finite set under a function is finite.                   *)
LEMMA ImageFinite ==
  ASSUME NEW S, IsFiniteSet(S), NEW f, DOMAIN f = S
  PROVE  IsFiniteSet({f[r] : r \in S})
<1> DEFINE T == {f[r] : r \in S}
           g == [r \in S |-> f[r]]
<1>1. g \in Surjection(S, T)
  BY DEF Surjection
<1> QED
  BY <1>1, FS_Surjection

-----------------------------------------------------------------------------
(* Type correctness.                                                       *)
LEMMA TypeInvInit == Init => TypeInv
<1> SUFFICES ASSUME Init PROVE TypeInv
  OBVIOUS
<1>1. TypeOK
  BY DEF Init, TypeOK
<1>2. FiniteStore /\ TokensOpenGenerations
  BY FS_EmptySet DEF Init, FiniteStore, TokensOpenGenerations, Idle, Applying
<1> QED
  BY <1>1, <1>2 DEF TypeInv

(* A call that only returns leaves everything else typed.                  *)
LEMMA TypeInvReturn ==
  ASSUME TypeInv, NEW h \in Handle, Return(h), rows' \subseteq rows
  PROVE  /\ call' \in [Handle -> {Idle} \union Applying \union Reclaiming]
         /\ FiniteStore' /\ TokensOpenGenerations'
<1>1. call' = [call EXCEPT ![h] = Idle] /\ call \in [Handle -> {Idle} \union Applying \union Reclaiming]
  BY DEF Return, TypeInv, TypeOK
<1>2. \A g \in Handle : call'[g] \in Applying => call'[g] = call[g]
  BY <1>1 DEF Applying, Idle
<1>3. IsFiniteSet(rows')
  BY FS_Subset DEF TypeInv, FiniteStore
<1> QED
  BY <1>1, <1>2, <1>3 DEF TypeInv, FiniteStore, TokensOpenGenerations

LEMMA TypeInvBeginApply ==
  ASSUME TypeInv, NEW h \in Handle, NEW s \in Source, NEW mode \in Mode,
         NEW b \in Batch, NEW op \in Op \union {NoOp}, BeginApply(h, s, mode, b, op)
  PROVE  TypeInv'
<1> DEFINE c == [step |-> "queued", src |-> s, mode |-> mode, batch |-> b, op |-> op,
                 expect |-> NoExpect, moved |-> {}, head |-> HeadOf(s)]
<1>1. call' = [call EXCEPT ![h] = c] /\ UNCHANGED <<rows, ledger, head, feed, applied, tombstones, dataKeys>>
  BY DEF BeginApply, StoreUnchanged
<1>2. b \in SUBSET Event /\ IsFiniteSet(b)
  BY StoreAssumption
<1>3. c \in Applying
  BY <1>2, HeadIsRev DEF Applying, TypeInv
<1>4. TypeOK'
  BY <1>1, <1>3 DEF TypeInv, TypeOK
<1>5. FiniteStore' /\ TokensOpenGenerations'
  BY <1>1, <1>2 DEF TypeInv, TypeOK, FiniteStore, TokensOpenGenerations, BeginApply
<1> QED
  BY <1>4, <1>5 DEF TypeInv

LEMMA TypeInvCommitApply ==
  ASSUME TypeInv, NEW h \in Handle, CommitApply(h)
  PROVE  TypeInv'
<1> DEFINE c == call[h]
           v == Target(c.mode, c.head)
           added == Admitted(c.src, v, c.batch)
<1>1. c \in Applying
  BY BusyCallTyped DEF CommitApply, TypeInv
<1>2. /\ c.src \in Source /\ c.mode \in Mode /\ c.head \in Rev
      /\ c.batch \subseteq Event /\ IsFiniteSet(c.batch)
      /\ c.op \in Op \union {NoOp} \union RewriteOp
  BY <1>1 DEF Applying, TypeInv, FiniteStore
<1>3. v \in Rev
  BY <1>2, TargetIsRev
<1>4. added \subseteq Event /\ IsFiniteSet(added)
  BY <1>2, AdmittedInBatch, FS_Subset
<1> DEFINE new == {[src |-> c.src, rev |-> v, ev |-> e] : e \in added}
           kept == {r \in rows : ~(r.src = c.src /\ r.rev \in Superseded(c, added))}
<1>5. new \subseteq Row /\ IsFiniteSet(new)
  <2> DEFINE f == [e \in added |-> [src |-> c.src, rev |-> v, ev |-> e]]
  <2>1. new = {f[e] : e \in added} /\ DOMAIN f = added
    OBVIOUS
  <2>2. IsFiniteSet({f[e] : e \in added})
    <3> HIDE DEF f
    <3> QED
      BY <1>4, <2>1, ImageFinite
  <2>3. new \subseteq Row
    BY <1>2, <1>3, <1>4 DEF Row
  <2> QED
    BY <2>1, <2>2, <2>3
<1>6. kept \subseteq rows /\ IsFiniteSet(kept)
  BY FS_Subset DEF TypeInv, FiniteStore
<1>7. rows' = kept \union new
  BY DEF CommitApply
<1>8. rows' \subseteq Row /\ IsFiniteSet(rows')
  BY <1>5, <1>6, <1>7, FS_Union DEF TypeInv, TypeOK
<1>9. ledger' \subseteq LedgerEntry
  <2>1. Booked(c.src, v, c.mode) \subseteq LedgerEntry
    BY <1>2, <1>3 DEF Booked, LedgerEntry
  <2>2. ledger' \subseteq ledger \union Booked(c.src, v, c.mode)
    BY DEF CommitApply
  <2> QED
    BY <2>1, <2>2 DEF TypeInv, TypeOK
<1>10. DOMAIN head' \subseteq Source /\ \A s \in DOMAIN head' : head'[s] \in Rev
  BY <1>2, <1>3 DEF CommitApply, MovedHead, TypeInv, TypeOK
<1>11. feed' \in Seq(FeedEntry)
  <2> DEFINE entry == [src |-> c.src, old |-> c.head, new |-> v, reason |-> c.mode]
  <2>1. entry \in FeedEntry
    BY <1>2, <1>3 DEF FeedEntry
  <2>2. feed' = feed \/ feed' = Append(feed, entry)
    BY DEF CommitApply, Announced
  <2> HIDE DEF entry
  <2> QED
    BY <2>1, <2>2 DEF TypeInv, TypeOK
<1>12. applied' \subseteq AppliedToken
  BY <1>2, <1>3 DEF CommitApply, AppliedToken, TypeInv, TypeOK
<1>13. dataKeys' \subseteq Source \X (Root \union {NoRoot}) /\ tombstones' \subseteq Tombstone
  BY <1>2 DEF CommitApply, Event, TypeInv, TypeOK
<1>14. \A g \in Handle : call'[g] \in Applying => call'[g] = call[g]
  BY DEF CommitApply, Return, TypeInv, TypeOK, Applying, Idle
<1>15. call' \in [Handle -> {Idle} \union Applying \union Reclaiming]
  BY DEF CommitApply, Return, TypeInv, TypeOK
<1>16. FiniteStore' /\ TokensOpenGenerations'
  BY <1>8, <1>14 DEF TypeInv, FiniteStore, TokensOpenGenerations
<1> QED
  BY <1>8, <1>9, <1>10, <1>11, <1>12, <1>13, <1>15, <1>16 DEF TypeInv, TypeOK

(* What Prepare stores is a call that waits to rewrite a source.           *)
LEMMA TypeInvPrepare ==
  ASSUME TypeInv, NEW h \in Handle, NEW s \in Source, NEW what \in {"reattribute", "recompute"},
         NEW step \in {"screening", "prepared"}, NEW b \in SUBSET Event, IsFiniteSet(b),
         NEW moved \in SUBSET (Root \union {NoRoot}),
         Prepare(h, s, what, step, b, moved), StoreUnchanged
  PROVE  TypeInv'
<1> DEFINE n == Cardinality(Current(s))
           c == [step |-> step, src |-> s, mode |-> "reparse", batch |-> b,
                 op |-> <<what, HeadOf(s), n>>, expect |-> [rows |-> n, rev |-> HeadOf(s)],
                 moved |-> moved, head |-> HeadOf(s)]
<1>1. n \in Nat /\ HeadOf(s) \in Rev
  BY GenerationFinite, HeadIsRev DEF Current, TypeInv, FiniteStore
<1>2. call' = [call EXCEPT ![h] = c]
  BY DEF Prepare
<1>3. <<what, HeadOf(s), n>> \in RewriteOp /\ [rows |-> n, rev |-> HeadOf(s)] \in Expect
  BY <1>1 DEF RewriteOp, Expect
<1>4. c \in Applying
  BY <1>1, <1>3 DEF Applying, Mode
<1> HIDE DEF c
<1>5. TypeOK'
  BY <1>2, <1>4 DEF StoreUnchanged, TypeInv, TypeOK
<1>6. c.batch = b /\ c.mode # "append"
  BY DEF c
<1>7. FiniteStore' /\ TokensOpenGenerations'
  BY <1>2, <1>6 DEF StoreUnchanged, TypeInv, TypeOK, FiniteStore, TokensOpenGenerations
<1> QED
  BY <1>5, <1>7 DEF TypeInv

LEMMA TypeInvBeginReattribute ==
  ASSUME TypeInv, NEW h \in Handle, NEW s \in Source, NEW to \in [Root -> Root],
         BeginReattribute(h, s, to)
  PROVE  TypeInv'
<1> DEFINE f == [r \in Current(s) |-> IF r.ev.root \in Root
                   THEN [r.ev EXCEPT !.root = to[r.ev.root]] ELSE r.ev]
           b == {f[r] : r \in Current(s)}
<1>1. IsFiniteSet(Current(s)) /\ DOMAIN f = Current(s)
  BY GenerationFinite DEF Current, TypeInv, FiniteStore
<1>2. IsFiniteSet(b)
  <2> HIDE DEF f
  <2> QED
    BY <1>1, ImageFinite
<1>3. \A r \in Current(s) : r.ev \in Event
  BY DEF Current, At, TypeInv, TypeOK, Row
<1>4. b \in SUBSET Event
  BY <1>3 DEF Event
<1>5. Prepare(h, s, "reattribute", "prepared", b, {}) /\ StoreUnchanged
  BY DEF BeginReattribute
<1> QED
  BY <1>2, <1>4, <1>5, TypeInvPrepare

LEMMA TypeInvBeginRecompute ==
  ASSUME TypeInv, NEW h \in Handle, NEW s \in Source,
         NEW to \in [Current(s) -> Root \union {NoRoot}], BeginRecompute(h, s, to)
  PROVE  TypeInv'
<1> DEFINE f == [r \in Current(s) |-> [r.ev EXCEPT !.root = to[r]]]
           b == {f[r] : r \in Current(s)}
           moved == {to[r] : r \in {x \in Current(s) : to[x] # x.ev.root}}
<1>1. IsFiniteSet(Current(s)) /\ DOMAIN f = Current(s)
  BY GenerationFinite DEF Current, TypeInv, FiniteStore
<1>2. IsFiniteSet(b)
  <2> HIDE DEF f
  <2> QED
    BY <1>1, ImageFinite
<1>3. \A r \in Current(s) : r.ev \in Event
  BY DEF Current, At, TypeInv, TypeOK, Row
<1>4. b \in SUBSET Event /\ moved \in SUBSET (Root \union {NoRoot})
  BY <1>3 DEF Event
<1>5. Prepare(h, s, "recompute", "screening", b, moved) /\ StoreUnchanged
  BY DEF BeginRecompute
<1> QED
  BY <1>2, <1>4, <1>5, TypeInvPrepare

LEMMA TypeInvScreenErasedRoots ==
  ASSUME TypeInv, NEW h \in Handle, ScreenErasedRoots(h)
  PROVE  TypeInv'
<1>1. call[h] \in Applying /\ call[h].step = "screening"
  BY BusyCallTyped DEF ScreenErasedRoots, TypeInv
<1>2. [call[h] EXCEPT !.step = "prepared"] \in Applying
  BY <1>1 DEF Applying
<1>3. PICK c \in {Idle, [call[h] EXCEPT !.step = "prepared"]} : call' = [call EXCEPT ![h] = c]
  BY DEF ScreenErasedRoots
<1>4. c \in Applying => c.batch = call[h].batch /\ c.mode = call[h].mode /\ c.op = call[h].op
  BY <1>1, <1>3 DEF Applying, Idle
<1>5. c \in {Idle} \union Applying
  BY <1>2, <1>3
<1>6. TypeOK'
  BY <1>3, <1>5 DEF ScreenErasedRoots, StoreUnchanged, TypeInv, TypeOK
<1>7. FiniteStore' /\ TokensOpenGenerations'
  BY <1>1, <1>3, <1>4
  DEF ScreenErasedRoots, StoreUnchanged, TypeInv, TypeOK, FiniteStore, TokensOpenGenerations
<1> QED
  BY <1>6, <1>7 DEF TypeInv

LEMMA TypeInvQueueRewrite ==
  ASSUME TypeInv, NEW h \in Handle, QueueRewrite(h)
  PROVE  TypeInv'
<1>1. call[h] \in Applying
  BY BusyCallTyped DEF QueueRewrite, TypeInv
<1> DEFINE c == [call[h] EXCEPT !.step = "queued", !.head = HeadOf(call[h].src)]
<1>2. call[h].src \in Source
  BY <1>1 DEF Applying
<1>3. c \in Applying /\ c.batch = call[h].batch /\ c.mode = call[h].mode /\ c.op = call[h].op
  BY <1>1, <1>2, HeadIsRev DEF Applying, TypeInv
<1>4. call' = [call EXCEPT ![h] = c]
  BY <1>1 DEF QueueRewrite, TypeInv, TypeOK
<1> HIDE DEF c
<1>5. TypeOK'
  BY <1>3, <1>4 DEF QueueRewrite, StoreUnchanged, TypeInv, TypeOK
<1>6. FiniteStore' /\ TokensOpenGenerations'
  BY <1>1, <1>3, <1>4
  DEF QueueRewrite, StoreUnchanged, TypeInv, TypeOK, FiniteStore, TokensOpenGenerations
<1> QED
  BY <1>5, <1>6 DEF TypeInv

LEMMA TypeInvErase ==
  ASSUME TypeInv, NEW h \in Handle, NEW t \in Erasable, Erase(h, t)
  PROVE  TypeInv'
<1>1. t \in Tombstone /\ Covering(t) \subseteq Tombstone
  BY StoreAssumption DEF Covering, Tombstone
<1>2. rows' \subseteq rows /\ dataKeys' \subseteq dataKeys
  BY DEF Erase, NeededKeys
<1>3. IsFiniteSet(rows')
  BY <1>2, FS_Subset DEF TypeInv, FiniteStore
<1> QED
  BY <1>1, <1>2, <1>3 DEF Erase, TypeInv, TypeOK, FiniteStore, TokensOpenGenerations

LEMMA TypeInvGc ==
  ASSUME TypeInv, NEW h \in Handle, Gc(h)
  PROVE  TypeInv'
<1>1. rows' \subseteq rows /\ ledger' \subseteq ledger
  BY DEF Gc
<1>2. IsFiniteSet(rows')
  BY <1>1, FS_Subset DEF TypeInv, FiniteStore
<1> QED
  BY <1>1, <1>2 DEF Gc, TypeInv, TypeOK, FiniteStore, TokensOpenGenerations

LEMMA TypeInvBeginReclaim ==
  ASSUME TypeInv, NEW h \in Handle, BeginReclaim(h)
  PROVE  TypeInv'
<1>1. OldGenerations \subseteq OldGeneration
  BY GenerationFinite, HeadIsRev DEF OldGenerations, OldGeneration, TypeInv, TypeOK, FiniteStore, Row
<1>2. PICK plan \in SUBSET OldGenerations :
        call' = [call EXCEPT ![h] = [step |-> "reclaiming", plan |-> plan]]
  BY DEF BeginReclaim
<1> DEFINE c == [step |-> "reclaiming", plan |-> plan]
<1>3. c \in Reclaiming /\ c \notin Applying
  BY <1>1 DEF Reclaiming, Applying
<1> HIDE DEF c
<1>4. call' = [call EXCEPT ![h] = c]
  BY <1>2 DEF c
<1> QED
  BY <1>3, <1>4
  DEF BeginReclaim, StoreUnchanged, TypeInv, TypeOK, FiniteStore, TokensOpenGenerations

LEMMA TypeInvCommitReclaim ==
  ASSUME TypeInv, NEW h \in Handle, CommitReclaim(h)
  PROVE  TypeInv'
<1>1. rows' \subseteq rows /\ ledger' \subseteq ledger /\ Return(h)
  BY DEF CommitReclaim
<1> QED
  BY <1>1, TypeInvReturn DEF CommitReclaim, TypeInv, TypeOK

LEMMA TypeInvNext ==
  ASSUME TypeInv, [Next]_vars
  PROVE  TypeInv'
<1>1. ASSUME UNCHANGED vars PROVE TypeInv'
  BY <1>1 DEF vars, TypeInv, TypeOK, FiniteStore, TokensOpenGenerations
<1>2. ASSUME NEW h \in Handle, GiveUp(h) PROVE TypeInv'
  <2>1. rows' = rows /\ Return(h)
    BY <1>2 DEF GiveUp, StoreUnchanged
  <2> QED
    BY <1>2, <2>1, TypeInvReturn DEF GiveUp, StoreUnchanged, TypeInv, TypeOK
<1>3. ASSUME NEW h \in Handle, Apply(h) PROVE TypeInv'
  BY <1>2, <1>3, TypeInvBeginApply, TypeInvCommitApply DEF Apply
<1>4. ASSUME NEW h \in Handle, Rewrite(h) PROVE TypeInv'
  BY <1>4, TypeInvBeginReattribute, TypeInvBeginRecompute, TypeInvScreenErasedRoots,
     TypeInvQueueRewrite DEF Rewrite
<1>5. ASSUME NEW h \in Handle, Remove(h) PROVE TypeInv'
  BY <1>5, TypeInvErase, TypeInvGc, TypeInvBeginReclaim, TypeInvCommitReclaim DEF Remove
<1> QED
  BY <1>1, <1>3, <1>4, <1>5 DEF Next

(* Every reachable state of the store is well typed.                       *)
THEOREM TypeCorrect == Spec => []TypeOK
<1>1. Init => TypeInv
  BY TypeInvInit
<1>2. TypeInv /\ [Next]_vars => TypeInv'
  BY TypeInvNext
<1>3. TypeInv => TypeOK
  BY DEF TypeInv
<1> QED
  BY <1>1, <1>2, <1>3, PTL DEF Spec

-----------------------------------------------------------------------------
(* Steps that neither commit a projection nor remove rows only move a call *)
(* on; what they leave alone is stated once.                               *)
LEMMA OtherStepsKeepStore ==
  ASSUME [Next]_vars,
         \A h \in Handle : ~CommitApply(h) /\ ~Gc(h) /\ ~CommitReclaim(h),
         \A h \in Handle, t \in Erasable : ~Erase(h, t)
  PROVE  StoreUnchanged
BY DEF Next, Apply, Rewrite, Remove, vars, StoreUnchanged, BeginApply, GiveUp, BeginReattribute,
       BeginRecompute, ScreenErasedRoots, QueueRewrite, BeginReclaim

(* The state of the store after a commit, in the words of one transaction. *)
LEMMA CommitApplyRows ==
  ASSUME NEW h \in Handle, CommitApply(h)
  PROVE  LET c == call[h]
             v == Target(c.mode, c.head)
         IN  \A r \in rows' :
               \/ r \in rows
               \/ \E e \in Admitted(c.src, v, c.batch) : r = [src |-> c.src, rev |-> v, ev |-> e]
BY DEF CommitApply

(* What the user erased never comes back: not by a scan that read the file *)
(* before the erasure, nor by a rewrite prepared before it.                *)
LEMMA NoErasedRowNext ==
  ASSUME NoErasedRow, [Next]_vars
  PROVE  NoErasedRow'
<1>1. ASSUME NEW h \in Handle, CommitApply(h) PROVE NoErasedRow'
  <2>1. tombstones' = tombstones
    BY <1>1 DEF CommitApply
  <2> SUFFICES ASSUME NEW r \in rows' PROVE ~Erased(r.src, r.ev)
    BY <2>1 DEF NoErasedRow, Erased
  <2>2. CASE r \in rows
    BY <2>2 DEF NoErasedRow
  <2>3. CASE r \notin rows
    BY <1>1, <2>3, CommitApplyRows DEF Admitted
  <2> QED
    BY <2>2, <2>3
<1>2. ASSUME NEW h \in Handle, NEW t \in Erasable, Erase(h, t) PROVE NoErasedRow'
  BY <1>2 DEF Erase, NoErasedRow, Erased
<1>3. ASSUME NEW h \in Handle, Gc(h) \/ CommitReclaim(h) PROVE NoErasedRow'
  BY <1>3 DEF Gc, CommitReclaim, NoErasedRow, Erased
<1>4. ASSUME StoreUnchanged PROVE NoErasedRow'
  BY <1>4 DEF StoreUnchanged, NoErasedRow, Erased
<1> QED
  BY <1>1, <1>2, <1>3, <1>4, OtherStepsKeepStore

(* No row of an erased session, file or project root is in the store, for  *)
(* any number of processes.                                                *)
THEOREM ErasedStaysErased == Spec => []NoErasedRow
<1>1. Init => NoErasedRow
  BY DEF Init, NoErasedRow
<1>2. NoErasedRow /\ [Next]_vars => NoErasedRow'
  BY NoErasedRowNext
<1> QED
  BY <1>1, <1>2, PTL DEF Spec

(* A commit makes every key its batch needs; an erasure keeps every key    *)
(* that a row left in the store needs.                                     *)
LEMMA RowsDecodableNext ==
  ASSUME RowsDecodable, [Next]_vars
  PROVE  RowsDecodable'
<1>1. ASSUME NEW h \in Handle, CommitApply(h) PROVE RowsDecodable'
  <2> SUFFICES ASSUME NEW r \in rows' PROVE <<r.src, r.ev.root>> \in dataKeys'
    BY DEF RowsDecodable
  <2>1. CASE r \in rows
    BY <1>1, <2>1 DEF CommitApply, RowsDecodable
  <2>2. CASE r \notin rows
    <3>1. PICK e \in call[h].batch : /\ ~Erased(call[h].src, e)
                                     /\ r.src = call[h].src /\ r.ev = e
      BY <1>1, <2>2, CommitApplyRows DEF Admitted
    <3>2. dataKeys' = dataKeys \union
            {<<call[h].src, x.root>> : x \in {y \in call[h].batch : ~Erased(call[h].src, y)}}
      BY <1>1 DEF CommitApply
    <3> QED
      BY <3>1, <3>2
  <2> QED
    BY <2>1, <2>2
<1>2. ASSUME NEW h \in Handle, NEW t \in Erasable, Erase(h, t) PROVE RowsDecodable'
  BY <1>2 DEF Erase, NeededKeys, RowsDecodable
<1>3. ASSUME NEW h \in Handle, Gc(h) \/ CommitReclaim(h) PROVE RowsDecodable'
  BY <1>3 DEF Gc, CommitReclaim, RowsDecodable
<1>4. ASSUME StoreUnchanged PROVE RowsDecodable'
  BY <1>4 DEF StoreUnchanged, RowsDecodable
<1> QED
  BY <1>1, <1>2, <1>3, <1>4, OtherStepsKeepStore

(* Every stored row can be decrypted, for any number of processes.         *)
THEOREM RowsStayDecodable == Spec => []RowsDecodable
<1>1. Init => RowsDecodable
  BY DEF Init, RowsDecodable
<1>2. RowsDecodable /\ [Next]_vars => RowsDecodable'
  BY RowsDecodableNext
<1> QED
  BY <1>1, <1>2, PTL DEF Spec

(* Erasing a directory under one spelling removes its rows under all of    *)
(* them: a row's spelling has a data key, and Covering asks the data keys. *)
LEMMA ErasureCoversDirectoryStep ==
  ASSUME TypeOK, RowsDecodable, [Next]_vars
  PROVE  \A t \in tombstones' \ tombstones :
           t.scope = "project_root" =>
             \A r \in rows' : r.ev.root \in Root => DirOf[r.ev.root] # DirOf[t.key]
<1>1. ASSUME NEW h \in Handle, NEW o \in Erasable, Erase(h, o),
             NEW t \in tombstones' \ tombstones, t.scope = "project_root",
             NEW r \in rows', r.ev.root \in Root, DirOf[r.ev.root] = DirOf[t.key]
      PROVE  FALSE
  <2>1. t \in Covering(o) /\ r \in rows /\ \A u \in Covering(o) : ~Matches(u, r.src, r.ev)
    BY <1>1 DEF Erase
  <2>2. o.scope = "project_root" /\ DirOf[t.key] = DirOf[o.key]
    BY <1>1, <2>1 DEF Covering
  <2>3. <<r.src, r.ev.root>> \in dataKeys
    BY <2>1 DEF RowsDecodable
  <2> DEFINE u == [scope |-> "project_root", key |-> r.ev.root]
  <2>4. u \in Covering(o)
    BY <1>1, <2>2, <2>3 DEF Covering
  <2>5. Matches(u, r.src, r.ev)
    BY DEF Matches
  <2> QED
    BY <2>1, <2>4, <2>5
<1>2. ASSUME \A h \in Handle, o \in Erasable : ~Erase(h, o) PROVE tombstones' = tombstones
  BY <1>2, OtherStepsKeepStore DEF StoreUnchanged, CommitApply, Gc, CommitReclaim
<1> QED
  BY <1>1, <1>2

(* The erasure reaches every spelling, in every interleaving.              *)
THEOREM ErasureReachesEverySpelling == Spec => ErasureCoversDirectory
<1>1. TypeOK /\ RowsDecodable /\ [Next]_vars =>
        [\A t \in tombstones' \ tombstones :
           t.scope = "project_root" =>
             \A r \in rows' : r.ev.root \in Root => DirOf[r.ev.root] # DirOf[t.key]]_vars
  BY ErasureCoversDirectoryStep
<1> QED
  BY <1>1, TypeCorrect, RowsStayDecodable, PTL DEF Spec, ErasureCoversDirectory

-----------------------------------------------------------------------------
(* The generation a commit writes to is never the one it deletes.          *)
LEMMA TargetNotSuperseded ==
  ASSUME TypeInv, NEW h \in Handle, CommitApply(h)
  PROVE  LET c == call[h]
             v == Target(c.mode, c.head)
         IN  v \notin Superseded(c, Admitted(c.src, v, c.batch))
<1>1. call[h] \in Applying
  BY BusyCallTyped DEF CommitApply, TypeInv
<1> QED
  BY <1>1, TargetIsRev DEF Superseded, Applying

(* Rows and ledger lose the same generations, and gain one together.       *)
LEMMA LedgerCoversRowsNext ==
  ASSUME TypeInv, LedgerCoversRows, [Next]_vars
  PROVE  LedgerCoversRows'
<1>1. ASSUME NEW h \in Handle, CommitApply(h) PROVE LedgerCoversRows'
  <2> DEFINE c == call[h]
             v == Target(c.mode, c.head)
             dead == Superseded(c, Admitted(c.src, v, c.batch))
  <2>1. ledger' = {l \in ledger : ~(l.src = c.src /\ l.rev \in dead)}
                    \union Booked(c.src, v, c.mode)
    BY <1>1 DEF CommitApply
  <2> SUFFICES ASSUME NEW r \in rows' PROVE \E l \in ledger' : l.src = r.src /\ l.rev = r.rev
    BY DEF LedgerCoversRows
  <2>2. CASE r \in rows /\ ~(r.src = c.src /\ r.rev \in dead)
    BY <2>1, <2>2 DEF LedgerCoversRows
  <2>3. CASE ~(r \in rows /\ ~(r.src = c.src /\ r.rev \in dead))
    <3>1. r.src = c.src /\ r.rev = v
      BY <1>1, <2>3 DEF CommitApply
    <3>2. v \notin dead
      BY <1>1, TargetNotSuperseded
    <3> HIDE DEF v, dead
    <3>3. CASE \E l \in ledger : l.src = c.src /\ l.rev = v
      BY <2>1, <3>1, <3>2, <3>3
    <3>4. CASE ~\E l \in ledger : l.src = c.src /\ l.rev = v
      <4>1. [src |-> c.src, rev |-> v, origin |-> c.mode] \in ledger'
        BY <2>1, <3>4 DEF Booked
      <4> QED
        BY <3>1, <4>1
    <3> QED
      BY <3>3, <3>4
  <2> QED
    BY <2>2, <2>3
<1>2. ASSUME NEW h \in Handle, NEW t \in Erasable, Erase(h, t) PROVE LedgerCoversRows'
  BY <1>2 DEF Erase, LedgerCoversRows
<1>3. ASSUME NEW h \in Handle, Gc(h) \/ CommitReclaim(h) PROVE LedgerCoversRows'
  BY <1>3 DEF Gc, CommitReclaim, LedgerCoversRows
<1>4. ASSUME StoreUnchanged PROVE LedgerCoversRows'
  BY <1>4 DEF StoreUnchanged, LedgerCoversRows
<1> QED
  BY <1>1, <1>2, <1>3, <1>4, OtherStepsKeepStore

(* gc and the reclaiming of old sources see every generation that has rows.*)
THEOREM LedgerCoversEveryRow == Spec => []LedgerCoversRows
<1>1. Init => TypeInv /\ LedgerCoversRows
  BY TypeInvInit DEF Init, LedgerCoversRows
<1>2. TypeInv /\ LedgerCoversRows /\ [Next]_vars => (TypeInv /\ LedgerCoversRows)'
  BY TypeInvNext, LedgerCoversRowsNext
<1> QED
  BY <1>1, <1>2, PTL DEF Spec

(* A token that is recorded with a commit is never that of an Append, so   *)
(* its generation is a new one and the feed announces it.                  *)
LEMMA TokenNamesOpenedGenerationNext ==
  ASSUME TypeInv, TokenNamesOpenedGeneration, [Next]_vars
  PROVE  TokenNamesOpenedGeneration'
<1>1. ASSUME NEW h \in Handle, CommitApply(h) PROVE TokenNamesOpenedGeneration'
  <2> DEFINE c == call[h]
             v == Target(c.mode, c.head)
             entry == [src |-> c.src, old |-> c.head, new |-> v, reason |-> c.mode]
  <2>1. c \in Applying
    BY <1>1, BusyCallTyped DEF CommitApply, TypeInv
  <2>2. c.mode \in Mode /\ c.head \in Rev /\ feed \in Seq(FeedEntry)
    BY <2>1 DEF Applying, TypeInv, TypeOK
  <2>3. feed' = IF v = c.head THEN feed ELSE Append(feed, entry)
    BY <1>1 DEF CommitApply, Announced
  <2>4. \A i \in DOMAIN feed : i \in DOMAIN feed' /\ feed'[i] = feed[i]
    <3> HIDE DEF entry
    <3> QED
      BY <2>2, <2>3
  <2> SUFFICES ASSUME NEW t \in applied'
               PROVE  \E i \in DOMAIN feed' : feed'[i].src = t.src /\ feed'[i].new = t.at
    BY DEF TokenNamesOpenedGeneration
  <2>5. CASE t \in applied
    BY <2>4, <2>5 DEF TokenNamesOpenedGeneration
  <2>6. CASE t \notin applied
    <3>1. c.op # NoOp /\ t = [src |-> c.src, op |-> c.op, at |-> v]
      BY <1>1, <2>6 DEF CommitApply
    <3>2. v # c.head
      BY <2>1, <2>2, <3>1, TargetIsRev DEF TypeInv, TokensOpenGenerations
    <3>3. feed' = Append(feed, entry) /\ entry \in FeedEntry
      BY <2>1, <2>2, <2>3, <3>2, TargetIsRev DEF FeedEntry, Applying
    <3>4. Len(feed) + 1 \in DOMAIN feed' /\ feed'[Len(feed) + 1] = entry
      <4> HIDE DEF entry
      <4> QED
        BY <2>2, <3>3
    <3>5. entry.src = t.src /\ entry.new = t.at
      BY <3>1
    <3> HIDE DEF entry
    <3> QED
      BY <3>4, <3>5
  <2> QED
    BY <2>5, <2>6
<1>2. ASSUME UNCHANGED <<applied, feed>> PROVE TokenNamesOpenedGeneration'
  BY <1>2 DEF TokenNamesOpenedGeneration
<1>3. ASSUME NEW h \in Handle, NEW t \in Erasable, Erase(h, t) PROVE UNCHANGED <<applied, feed>>
  BY <1>3 DEF Erase
<1>4. ASSUME NEW h \in Handle, Gc(h) \/ CommitReclaim(h) PROVE UNCHANGED <<applied, feed>>
  BY <1>4 DEF Gc, CommitReclaim
<1>5. ASSUME StoreUnchanged PROVE UNCHANGED <<applied, feed>>
  BY <1>5 DEF StoreUnchanged
<1> QED
  BY <1>1, <1>2, <1>3, <1>4, <1>5, OtherStepsKeepStore

(* A token is never burnt without the generation and the change-feed       *)
(* record it stands for.                                                   *)
THEOREM TokensNameOpenedGenerations == Spec => []TokenNamesOpenedGeneration
<1>1. Init => TypeInv /\ TokenNamesOpenedGeneration
  BY TypeInvInit DEF Init, TokenNamesOpenedGeneration
<1>2. TypeInv /\ TokenNamesOpenedGeneration /\ [Next]_vars
        => (TypeInv /\ TokenNamesOpenedGeneration)'
  BY TypeInvNext, TokenNamesOpenedGenerationNext
<1> QED
  BY <1>1, <1>2, PTL DEF Spec

-----------------------------------------------------------------------------
(* Rewrites of attributions, by any number of processes.  Row count and    *)
(* head are all a transaction knows of what was read.  They are enough     *)
(* when nothing that was read has gone, because a generation holds a key   *)
(* once and a rewrite keeps the keys: it is then the same generation.      *)
OneRowPerKey ==
  \A q, r \in rows : q.src = r.src /\ q.rev = r.rev /\ Key(q.ev) = Key(r.ev) => q = r

(* A batch has a key once; a rewrite's has as many events as it has read.  *)
Whole(c) ==
  c \in Applying =>
    /\ \A e, f \in c.batch : Key(e) = Key(f) => e = f
    /\ c.expect # NoExpect => c.mode = "reparse" /\ Cardinality(c.batch) = c.expect.rows

RewriteInv == OneRowPerKey /\ \A h \in Handle : Whole(call[h])

LEMMA IdleIsWhole == Whole(Idle)
BY DEF Whole, Applying, Idle

LEMMA WholeMove ==
  ASSUME TypeInv, RewriteInv, rows' = rows, NEW h \in Handle, NEW c, Whole(c),
         call' = [call EXCEPT ![h] = c]
  PROVE  RewriteInv'
<1>1. \A g \in Handle : Whole(call'[g])
  BY DEF RewriteInv, TypeInv, TypeOK
<1> QED
  BY <1>1 DEF RewriteInv, OneRowPerKey, Whole

(* A rewrite prepares the image of the current rows under a function that  *)
(* keeps keys: as many events as there are rows.                           *)
LEMMA PreparedIsWhole ==
  ASSUME TypeInv, RewriteInv, NEW h \in Handle, NEW s \in Source, NEW what,
         NEW step \in {"screening", "prepared"}, NEW moved,
         NEW f, DOMAIN f = Current(s), \A r \in Current(s) : Key(f[r]) = Key(r.ev),
         NEW b, b = {f[r] : r \in Current(s)},
         StoreUnchanged, Prepare(h, s, what, step, b, moved)
  PROVE  RewriteInv'
<1> DEFINE n == Cardinality(Current(s))
           c == [step |-> step, src |-> s, mode |-> "reparse", batch |-> b,
                 op |-> <<what, HeadOf(s), n>>, expect |-> [rows |-> n, rev |-> HeadOf(s)],
                 moved |-> moved, head |-> HeadOf(s)]
<1>1. IsFiniteSet(Current(s))
  BY GenerationFinite DEF Current, TypeInv, FiniteStore
<1>2. \A q, r \in Current(s) : Key(f[q]) = Key(f[r]) => q = r
  BY DEF Current, At, RewriteInv, OneRowPerKey
<1>3. \A e, g \in b : Key(e) = Key(g) => e = g
  BY <1>2
<1>4. Cardinality(b) = n
  <2> DEFINE g == [r \in Current(s) |-> f[r]]
  <2>1. g \in Bijection(Current(s), b)
    BY <1>2 DEF Bijection, Injection, Surjection, IsInjective
  <2>2. ExistsBijection(Current(s), b)
    BY <2>1 DEF ExistsBijection
  <2> QED
    BY <1>1, <2>2, FS_Bijection
<1>5. Whole(c)
  BY <1>3, <1>4 DEF Whole
<1>6. call' = [call EXCEPT ![h] = c] /\ rows' = rows
  BY DEF Prepare, StoreUnchanged
<1> HIDE DEF c
<1> QED
  BY <1>5, <1>6, WholeMove

LEMMA RewriteInvRewrite ==
  ASSUME TypeInv, RewriteInv, NEW h \in Handle, Rewrite(h)
  PROVE  RewriteInv'
<1>1. \A s : \A r \in Current(s) : r.ev \in Event
  BY DEF Current, At, TypeInv, TypeOK, Row
<1>2. ASSUME NEW s \in Source, NEW to \in [Root -> Root], BeginReattribute(h, s, to)
      PROVE  RewriteInv'
  <2> DEFINE f == [r \in Current(s) |-> IF r.ev.root \in Root
                     THEN [r.ev EXCEPT !.root = to[r.ev.root]] ELSE r.ev]
             b == {f[r] : r \in Current(s)}
  <2>1. DOMAIN f = Current(s)
    OBVIOUS
  <2>2. \A r \in Current(s) : Key(f[r]) = Key(r.ev)
    BY <1>1 DEF Key, Event
  <2>3. StoreUnchanged /\ Prepare(h, s, "reattribute", "prepared", b, {})
    BY <1>2 DEF BeginReattribute
  <2> HIDE DEF f
  <2> QED
    BY <2>1, <2>2, <2>3, PreparedIsWhole
<1>3. ASSUME NEW s \in Source, NEW to \in [Current(s) -> Root \union {NoRoot}],
             BeginRecompute(h, s, to)
      PROVE  RewriteInv'
  <2> DEFINE f == [r \in Current(s) |-> [r.ev EXCEPT !.root = to[r]]]
             b == {f[r] : r \in Current(s)}
             moved == {to[r] : r \in {x \in Current(s) : to[x] # x.ev.root}}
  <2>1. DOMAIN f = Current(s)
    OBVIOUS
  <2>2. \A r \in Current(s) : Key(f[r]) = Key(r.ev)
    BY <1>1 DEF Key, Event
  <2>3. StoreUnchanged /\ Prepare(h, s, "recompute", "screening", b, moved)
    BY <1>3 DEF BeginRecompute
  <2> HIDE DEF f, moved
  <2> QED
    BY <2>1, <2>2, <2>3, PreparedIsWhole
<1>4. ASSUME ScreenErasedRoots(h) PROVE RewriteInv'
  <2>1. call[h] \in Applying /\ Whole(call[h])
    BY <1>4, BusyCallTyped DEF ScreenErasedRoots, TypeInv, RewriteInv
  <2> DEFINE c == [call[h] EXCEPT !.step = "prepared"]
  <2>2. Whole(c)
    BY <2>1 DEF Whole, Applying
  <2>3. PICK d \in {Idle, c} : call' = [call EXCEPT ![h] = d]
    BY <1>4 DEF ScreenErasedRoots
  <2>4. Whole(d)
    BY <2>2, <2>3, IdleIsWhole
  <2> QED
    BY <1>4, <2>3, <2>4, WholeMove DEF ScreenErasedRoots, StoreUnchanged
<1>5. ASSUME QueueRewrite(h) PROVE RewriteInv'
  <2>1. call[h] \in Applying /\ Whole(call[h])
    BY <1>5, BusyCallTyped DEF QueueRewrite, TypeInv, RewriteInv
  <2> DEFINE c == [call[h] EXCEPT !.step = "queued", !.head = HeadOf(call[h].src)]
  <2>2. Whole(c)
    BY <2>1 DEF Whole, Applying
  <2>3. call' = [call EXCEPT ![h] = c]
    BY <1>5, <2>1 DEF QueueRewrite, TypeInv, TypeOK
  <2> HIDE DEF c
  <2> QED
    BY <1>5, <2>2, <2>3, WholeMove DEF QueueRewrite, StoreUnchanged
<1> QED
  BY <1>2, <1>3, <1>4, <1>5 DEF Rewrite

(* A transaction adds no second row with the key of another.               *)
LEMMA CommitKeepsOneRow ==
  ASSUME TypeInv, RewriteInv, NEW h \in Handle, CommitApply(h)
  PROVE  OneRowPerKey'
<1> DEFINE c == call[h]
           v == Target(c.mode, c.head)
           added == Admitted(c.src, v, c.batch)
<1>1. c \in Applying /\ Whole(c)
  BY BusyCallTyped DEF CommitApply, TypeInv, RewriteInv
<1>2. \A e, f \in added : Key(e) = Key(f) => e = f
  BY <1>1, AdmittedInBatch DEF Whole
<1>3. \A e \in added : \A r \in rows : r.src = c.src /\ r.rev = v => Key(r.ev) # Key(e)
  BY DEF Admitted, At
<1>4. \A r \in rows' : \/ r \in rows
                       \/ \E e \in added : r = [src |-> c.src, rev |-> v, ev |-> e]
  BY DEF CommitApply
<1> SUFFICES ASSUME NEW q \in rows', NEW r \in rows',
                    q.src = r.src, q.rev = r.rev, Key(q.ev) = Key(r.ev)
             PROVE  q = r
  BY DEF OneRowPerKey, Key
<1>5. CASE q \in rows /\ r \in rows
  BY <1>5 DEF RewriteInv, OneRowPerKey
<1>6. ASSUME NEW x \in rows, NEW y, NEW e \in added, y = [src |-> c.src, rev |-> v, ev |-> e],
             x.src = y.src, x.rev = y.rev, Key(x.ev) = Key(y.ev)
      PROVE  FALSE
  BY <1>3, <1>6
<1>7. CASE q \notin rows /\ r \notin rows
  BY <1>2, <1>4, <1>7
<1> HIDE DEF added
<1> QED
  BY <1>4, <1>5, <1>6, <1>7

LEMMA RewriteInvNext ==
  ASSUME TypeInv, RewriteInv, [Next]_vars
  PROVE  RewriteInv'
<1>1. ASSUME NEW h \in Handle, NEW s \in Source, NEW mode \in Mode, NEW b \in Batch,
             NEW op \in Op \union {NoOp}, BeginApply(h, s, mode, b, op)
      PROVE  RewriteInv'
  <2> DEFINE c == [step |-> "queued", src |-> s, mode |-> mode, batch |-> b, op |-> op,
                   expect |-> NoExpect, moved |-> {}, head |-> HeadOf(s)]
  <2>1. Whole(c)
    BY StoreAssumption DEF Whole
  <2>2. call' = [call EXCEPT ![h] = c]
    BY <1>1 DEF BeginApply
  <2> HIDE DEF c
  <2> QED
    BY <1>1, <2>1, <2>2, WholeMove DEF BeginApply, StoreUnchanged
<1>2. ASSUME NEW h \in Handle, BeginReclaim(h) PROVE RewriteInv'
  <2> DEFINE c == [step |-> "reclaiming",
                   plan |-> {g \in OldGenerations : Covered(At(g.src, g.rev), Current(g.src))}]
  <2>1. Whole(c)
    BY DEF Whole, Applying
  <2>2. call' = [call EXCEPT ![h] = c]
    BY <1>2 DEF BeginReclaim
  <2> HIDE DEF c
  <2> QED
    BY <1>2, <2>1, <2>2, WholeMove DEF BeginReclaim, StoreUnchanged
<1>3. ASSUME NEW h \in Handle,
             CommitApply(h) \/ GiveUp(h) \/ CommitReclaim(h) \/ Gc(h)
               \/ \E t \in Erasable : Erase(h, t)
      PROVE  RewriteInv'
  <2>1. OneRowPerKey'
    <3>1. CASE CommitApply(h)
      BY <3>1, CommitKeepsOneRow
    <3>2. CASE ~CommitApply(h)
      <4>1. rows' \subseteq rows
        BY <1>3, <3>2 DEF GiveUp, StoreUnchanged, CommitReclaim, Gc, Erase
      <4> QED
        BY <4>1 DEF RewriteInv, OneRowPerKey, Key
    <3> QED
      BY <3>1, <3>2
  <2>2. \A g \in Handle : call'[g] = call[g] \/ call'[g] = Idle
    BY <1>3 DEF CommitApply, GiveUp, CommitReclaim, Gc, Erase, Return, TypeInv, TypeOK
  <2>3. \A g \in Handle : Whole(call'[g])
    BY <2>2, IdleIsWhole DEF RewriteInv
  <2> QED
    BY <2>1, <2>3 DEF RewriteInv, Whole
<1>4. ASSUME UNCHANGED vars PROVE RewriteInv'
  BY <1>4 DEF vars, RewriteInv, OneRowPerKey, Whole
<1> QED
  BY <1>1, <1>2, <1>3, <1>4, RewriteInvRewrite DEF Next, Apply, Remove

(* Nothing that was read has gone, and the count is what it was: every     *)
(* event of the generation is one that was read.                           *)
LEMMA CountTells ==
  ASSUME NEW G, IsFiniteSet(G), NEW b, IsFiniteSet(b), Cardinality(b) = Cardinality(G),
         \A e, f \in b : Key(e) = Key(f) => e = f,
         \A e \in b : \E r \in G : SameEvent(r.ev, e),
         NEW r \in G
  PROVE  \E e \in b : SameEvent(r.ev, e)
<1> DEFINE at(e) == CHOOSE q \in G : SameEvent(q.ev, e)
           g == [e \in b |-> at(e)]
           T == {at(e) : e \in b}
<1>1. \A e \in b : at(e) \in G /\ SameEvent(at(e).ev, e)
  OBVIOUS
<1>2. g \in Bijection(b, T)
  <2>1. \A e, f \in b : at(e) = at(f) => e = f
    BY <1>1 DEF SameEvent
  <2> HIDE DEF at
  <2> QED
    BY <2>1 DEF Bijection, Injection, Surjection, IsInjective
<1>3. T \subseteq G
  BY <1>1
<1>4. T = G
  <2>1. Cardinality(T) = Cardinality(b)
    <3>1. ExistsBijection(b, T)
      BY <1>2 DEF ExistsBijection
    <3> HIDE DEF T
    <3> QED
      BY <3>1, FS_Bijection
  <2> QED
    BY <1>3, <2>1, FS_Subset
<1> QED
  BY <1>1, <1>4

LEMMA RewriteKeepsEvents ==
  ASSUME TypeInv, RewriteInv, NEW h \in Handle, CommitApply(h),
         call[h].expect # NoExpect, ReadIsThere(call[h]), NEW r \in Current(call[h].src)
  PROVE  \/ \E q \in rows' : q.src = r.src /\ q.rev = head'[r.src] /\ SameEvent(q.ev, r.ev)
         \/ r \in rows' /\ NotTaken(call[h], r.ev)
<1> DEFINE c == call[h]
           v == Target(c.mode, c.head)
           added == Admitted(c.src, v, c.batch)
           G == At(c.src, c.head)
<1>1. c \in Applying /\ Whole(c) /\ IsFiniteSet(c.batch)
  BY BusyCallTyped DEF CommitApply, TypeInv, RewriteInv, FiniteStore
<1>2. /\ c.head = HeadOf(c.src) /\ c.head = c.expect.rev
      /\ Cardinality(G) = c.expect.rows
  BY DEF CommitApply, PremiseHolds
<1>3. /\ Cardinality(c.batch) = Cardinality(G)
      /\ \A e, f \in c.batch : Key(e) = Key(f) => e = f
  BY <1>1, <1>2 DEF Whole
<1>4. IsFiniteSet(G) /\ Cardinality(G) \in Nat
  BY GenerationFinite DEF TypeInv, FiniteStore
<1>5. r \in G /\ r \in rows /\ r.src = c.src /\ r.rev = c.head
  BY <1>2 DEF Current, At
<1>6. PICK e \in c.batch : SameEvent(r.ev, e)
  <2>1. \A x \in c.batch : \E q \in G : SameEvent(q.ev, x)
    BY <1>2 DEF ReadIsThere
  <2> HIDE DEF c, G
  <2> QED
    BY <1>1, <1>3, <1>4, <1>5, <2>1, CountTells
<1>7. CASE e \in added
  <2> DEFINE q == [src |-> c.src, rev |-> v, ev |-> e]
  <2>1. q \in rows'
    BY <1>7 DEF CommitApply
  <2>2. head'[r.src] = v
    BY <1>5 DEF CommitApply, MovedHead
  <2> QED
    BY <1>5, <1>6, <2>1, <2>2 DEF SameEvent
<1>8. CASE e \notin added
  <2>1. NotTaken(c, r.ev)
    BY <1>6, <1>8 DEF NotTaken, Admitted
  <2>2. c.head \notin Superseded(c, added)
    <3> SUFFICES ASSUME c.head \in Superseded(c, added) PROVE FALSE
      OBVIOUS
    <3>1. Cardinality(added) >= Cardinality(G)
      BY DEF Superseded
    <3>2. added \subseteq c.batch
      BY AdmittedInBatch
    <3>3. /\ Cardinality(added) <= Cardinality(c.batch)
          /\ Cardinality(c.batch) = Cardinality(added) => c.batch = added
          /\ IsFiniteSet(added)
      BY <1>1, <3>2, FS_Subset
    <3>4. Cardinality(added) \in Nat /\ Cardinality(c.batch) \in Nat
      BY <1>1, <3>3, FS_CardinalityType
    <3> QED
      BY <1>3, <1>4, <1>6, <1>8, <3>1, <3>3, <3>4
  <2>3. r \in rows'
    BY <1>5, <2>2 DEF CommitApply
  <2> QED
    BY <2>1, <2>3
<1> QED
  BY <1>7, <1>8

LEMMA RewriteLosesNothingStep ==
  ASSUME TypeInv, RewriteInv, [Next]_vars, NEW h \in Handle,
         RewriteCommits(h), ReadIsThere(call[h]), NEW r \in Current(call[h].src)
  PROVE  \/ \E q \in rows' : q.src = r.src /\ q.rev = head'[r.src] /\ SameEvent(q.ev, r.ev)
         \/ r \in rows' /\ NotTaken(call[h], r.ev)
<1>1. CASE CommitApply(h)
  BY <1>1, RewriteKeepsEvents DEF RewriteCommits
<1>2. ASSUME NEW g \in Handle, CommitApply(g) \/ CommitReclaim(g) PROVE g = h
  BY <1>2 DEF CommitApply, CommitReclaim, Return, TypeInv, TypeOK, RewriteCommits
<1>3. ASSUME CommitReclaim(h) PROVE FALSE
  BY <1>3 DEF CommitReclaim, RewriteCommits
<1>4. ASSUME NEW g \in Handle, Gc(g) PROVE FALSE
  BY <1>4 DEF Gc, RewriteCommits
<1>5. ASSUME NEW g \in Handle, NEW t \in Erasable, Erase(g, t) PROVE FALSE
  BY <1>5 DEF Erase, RewriteCommits
<1> QED
  BY <1>1, <1>2, <1>3, <1>4, <1>5, OtherStepsKeepStore DEF StoreUnchanged, RewriteCommits

(* A rewrite of attributions does not cover what other processes wrote     *)
(* since it read: what was current is current in the generation it opens,  *)
(* or stays where it was, unless something that it read has gone.          *)
THEOREM RewritesLoseNothing == Spec => RewriteLosesNothing
<1>1. Init => TypeInv /\ RewriteInv
  BY TypeInvInit, IdleIsWhole DEF Init, RewriteInv, OneRowPerKey
<1>2. TypeInv /\ RewriteInv /\ [Next]_vars => (TypeInv /\ RewriteInv)'
  BY TypeInvNext, RewriteInvNext
<1>3. TypeInv /\ RewriteInv /\ [Next]_vars =>
        [\A h \in Handle : RewriteCommits(h) /\ ReadIsThere(call[h]) =>
           \A r \in Current(call[h].src) :
             \/ \E q \in rows' : /\ q.src = r.src /\ q.rev = head'[r.src]
                                /\ SameEvent(q.ev, r.ev)
             \/ r \in rows' /\ NotTaken(call[h], r.ev)]_vars
  BY RewriteLosesNothingStep
<1> QED
  BY <1>1, <1>2, <1>3, PTL DEF Spec, RewriteLosesNothing

-----------------------------------------------------------------------------
(* One process.  What follows needs that no other process writes between   *)
(* what a call reads and the transaction it ends in; with two processes    *)
(* TLC finds both properties violated.                                     *)
OneProcess == \A g, h \in Handle : g = h

(* What a call has read is still so: the head of a queued apply, and the   *)
(* cover of the generations to be reclaimed.                               *)
Fresh(c) ==
  /\ c \in Applying /\ c.step = "queued" => c.head = HeadOf(c.src)
  /\ c \in Reclaiming =>
       \A g \in c.plan : /\ Covered(At(g.src, g.rev), Current(g.src))
                         /\ g.rev # HeadOf(g.src)

CallsFresh == \A h \in Handle : Fresh(call[h])

LEMMA IdleIsFresh == Fresh(Idle) /\ Fresh(Idle)'
BY DEF Fresh, Idle, Applying, Reclaiming

(* A step that only moves one call on keeps freshness if that call is.     *)
LEMMA CallsFreshMove ==
  ASSUME TypeOK, CallsFresh, StoreUnchanged, NEW h \in Handle, NEW c, Fresh(c),
         call' = [call EXCEPT ![h] = c]
  PROVE  CallsFresh'
<1>1. \A d : Fresh(d)' <=> Fresh(d)
  BY DEF StoreUnchanged, Fresh, HeadOf, Current, At
<1>2. \A g \in Handle : Fresh(call'[g])
  BY DEF TypeOK, CallsFresh
<1> SUFFICES ASSUME NEW g \in Handle PROVE Fresh(call[g])'
  BY DEF CallsFresh
<1>3. PICK d : d = call'[g]
  OBVIOUS
<1>4. Fresh(d)'
  BY <1>1, <1>2, <1>3
<1> QED
  BY <1>3, <1>4 DEF Fresh

LEMMA CallsFreshRewrite ==
  ASSUME TypeInv, CallsFresh, NEW h \in Handle, Rewrite(h)
  PROVE  CallsFresh'
<1>1. PICK c : call' = [call EXCEPT ![h] = c] /\ Fresh(c)
  <2>1. ASSUME NEW s, NEW what, NEW step \in {"screening", "prepared"}, NEW b, NEW moved,
               Prepare(h, s, what, step, b, moved)
        PROVE  \E c : call' = [call EXCEPT ![h] = c] /\ Fresh(c)
    <3> DEFINE n == Cardinality(Current(s))
               d == [step |-> step, src |-> s, mode |-> "reparse", batch |-> b,
                     op |-> <<what, HeadOf(s), n>>, expect |-> [rows |-> n, rev |-> HeadOf(s)],
                     moved |-> moved, head |-> HeadOf(s)]
    <3>1. Fresh(d)
      BY DEF Fresh, Reclaiming
    <3>2. call' = [call EXCEPT ![h] = d]
      BY <2>1 DEF Prepare
    <3> QED
      BY <3>1, <3>2
  <2>2. ASSUME ScreenErasedRoots(h)
        PROVE  \E c : call' = [call EXCEPT ![h] = c] /\ Fresh(c)
    <3>1. call[h] \in Applying
      BY <2>2, BusyCallTyped DEF ScreenErasedRoots, TypeInv
    <3> DEFINE d == [call[h] EXCEPT !.step = "prepared"]
    <3>2. Fresh(d)
      BY <3>1 DEF Fresh, Applying, Reclaiming
    <3> QED
      BY <2>2, <3>2, IdleIsFresh DEF ScreenErasedRoots
  <2>3. ASSUME QueueRewrite(h)
        PROVE  \E c : call' = [call EXCEPT ![h] = c] /\ Fresh(c)
    <3>1. call[h] \in Applying
      BY <2>3, BusyCallTyped DEF QueueRewrite, TypeInv
    <3> DEFINE d == [call[h] EXCEPT !.step = "queued", !.head = HeadOf(call[h].src)]
    <3>2. Fresh(d)
      BY <3>1 DEF Fresh, Applying, Reclaiming
    <3>3. call' = [call EXCEPT ![h] = d]
      BY <2>3, <3>1 DEF QueueRewrite, TypeInv, TypeOK
    <3> HIDE DEF d
    <3> QED
      BY <3>2, <3>3
  <2> QED
    BY <2>1, <2>2, <2>3 DEF Rewrite, BeginReattribute, BeginRecompute
<1>2. StoreUnchanged
  BY DEF Rewrite, BeginReattribute, BeginRecompute, ScreenErasedRoots, QueueRewrite
<1> QED
  BY <1>1, <1>2, CallsFreshMove DEF TypeInv

LEMMA CallsFreshNext ==
  ASSUME OneProcess, TypeInv, CallsFresh, [Next]_vars
  PROVE  CallsFresh'
<1>1. ASSUME NEW h \in Handle, call'[h] = Idle PROVE CallsFresh'
  BY <1>1, IdleIsFresh DEF OneProcess, CallsFresh, Fresh
<1>2. ASSUME NEW h \in Handle, NEW s \in Source, NEW mode \in Mode, NEW b \in Batch,
             NEW op \in Op \union {NoOp}, BeginApply(h, s, mode, b, op)
      PROVE  CallsFresh'
  <2> DEFINE c == [step |-> "queued", src |-> s, mode |-> mode, batch |-> b, op |-> op,
                   expect |-> NoExpect, moved |-> {}, head |-> HeadOf(s)]
  <2>1. Fresh(c)
    BY DEF Fresh, Reclaiming
  <2>2. call' = [call EXCEPT ![h] = c]
    BY <1>2 DEF BeginApply
  <2> HIDE DEF c
  <2> QED
    BY <1>2, <2>1, <2>2, CallsFreshMove DEF BeginApply, TypeInv
<1>3. ASSUME NEW h \in Handle, BeginReclaim(h) PROVE CallsFresh'
  <2> DEFINE plan == {g \in OldGenerations : Covered(At(g.src, g.rev), Current(g.src))}
             c == [step |-> "reclaiming", plan |-> plan]
  <2>1. \A g \in OldGenerations : g.rev[1] < HeadOf(g.src)[1]
    BY DEF OldGenerations
  <2>2. \A g \in OldGenerations : g.src \in Source /\ g.rev \in Rev
    BY DEF OldGenerations, TypeInv, TypeOK, Row
  <2>3. \A g \in plan : Covered(At(g.src, g.rev), Current(g.src)) /\ g.rev # HeadOf(g.src)
    <3> TAKE g \in plan
    <3>1. g.rev[1] < HeadOf(g.src)[1] /\ g.rev \in Rev
      BY <2>1, <2>2
    <3> QED
      BY <3>1 DEF Rev
  <2> HIDE DEF plan
  <2>4. Fresh(c)
    BY <2>3 DEF Fresh, Applying
  <2>5. call' = [call EXCEPT ![h] = c]
    BY <1>3 DEF BeginReclaim, plan
  <2> HIDE DEF c
  <2> QED
    BY <1>3, <2>4, <2>5, CallsFreshMove DEF BeginReclaim, TypeInv
<1>4. ASSUME NEW h \in Handle,
             CommitApply(h) \/ GiveUp(h) \/ CommitReclaim(h) \/ Gc(h)
               \/ \E t \in Erasable : Erase(h, t)
      PROVE  CallsFresh'
  <2>1. call'[h] = Idle
    BY <1>4 DEF CommitApply, GiveUp, CommitReclaim, Gc, Erase, Return, TypeInv, TypeOK
  <2> QED
    BY <1>1, <2>1
<1>5. ASSUME UNCHANGED vars PROVE CallsFresh'
  BY <1>5 DEF vars, CallsFresh, Fresh, HeadOf, Current, At
<1> QED
  BY <1>2, <1>3, <1>4, <1>5, CallsFreshRewrite DEF Next, Apply, Remove

LEMMA OneProcessInvariant ==
  ASSUME OneProcess
  PROVE  Spec => [](TypeInv /\ NoErasedRow /\ CallsFresh)
<1>1. Init => TypeInv /\ NoErasedRow /\ CallsFresh
  BY TypeInvInit, IdleIsFresh DEF Init, NoErasedRow, CallsFresh
<1>2. TypeInv /\ NoErasedRow /\ CallsFresh /\ [Next]_vars
        => (TypeInv /\ NoErasedRow /\ CallsFresh)'
  BY TypeInvNext, NoErasedRowNext, CallsFreshNext
<1> QED
  BY <1>1, <1>2, PTL DEF Spec

-----------------------------------------------------------------------------
(* The only copy.  A Reparse supersedes the head it read, gc stays within  *)
(* the source revision of the head, and reclaiming asks for cover first.   *)
LEMMA OnlyCopyKeptStep ==
  ASSUME TypeInv, CallsFresh, [Next]_vars,
         NEW r \in rows, r.rev[1] < HeadOf(r.src)[1], r \notin rows'
  PROVE  \/ \E t \in tombstones' : Matches(t, r.src, r.ev)
         \/ Covered(At(r.src, r.rev), Current(r.src))
<1>1. r.src \in Source /\ r.rev \in Rev /\ r.rev # HeadOf(r.src)
  BY HeadIsRev DEF TypeInv, TypeOK, Row, Rev
<1>2. ASSUME NEW h \in Handle, CommitApply(h) PROVE FALSE
  <2>1. call[h] \in Applying /\ call[h].head = HeadOf(call[h].src)
    BY <1>2, BusyCallTyped DEF CommitApply, TypeInv, CallsFresh, Fresh
  <2>2. r.src = call[h].src
        /\ r.rev \in Superseded(call[h], Admitted(call[h].src, Target(call[h].mode, call[h].head),
                                                  call[h].batch))
    BY <1>2 DEF CommitApply
  <2> QED
    BY <1>1, <2>1, <2>2 DEF Superseded
<1>3. ASSUME NEW h \in Handle, NEW o \in Erasable, Erase(h, o)
      PROVE  \E t \in tombstones' : Matches(t, r.src, r.ev)
  BY <1>3 DEF Erase
<1>4. ASSUME NEW h \in Handle, Gc(h) PROVE FALSE
  <2>1. PICK l \in Garbage : l.src = r.src /\ l.rev = r.rev
    BY <1>4 DEF Gc
  <2>2. r.rev[1] = HeadOf(r.src)[1]
    BY <2>1 DEF Garbage
  <2> QED
    BY <1>1, <2>2, HeadIsRev DEF Rev, TypeInv
<1>5. ASSUME NEW h \in Handle, CommitReclaim(h)
      PROVE  Covered(At(r.src, r.rev), Current(r.src))
  <2>1. call[h] \in Reclaiming /\ Fresh(call[h])
    BY <1>5, BusyCallTyped DEF CommitReclaim, TypeInv, CallsFresh
  <2>2. PICK g \in call[h].plan : g.src = r.src /\ g.rev = r.rev
    BY <1>5 DEF CommitReclaim
  <2>3. Covered(At(g.src, g.rev), Current(g.src))
    BY <2>1, <2>2 DEF Fresh
  <2> QED
    BY <2>2, <2>3
<1> QED
  BY <1>2, <1>3, <1>4, <1>5, OtherStepsKeepStore DEF StoreUnchanged

(* With one process, rows of an earlier source revision leave the store    *)
(* only when they are erased or when the current projection covers them.   *)
THEOREM OnlyCopiesAreKept ==
  ASSUME OneProcess
  PROVE  Spec => OnlyCopyKept
<1>1. TypeInv /\ CallsFresh /\ [Next]_vars =>
        [\A r \in rows :
           r.rev[1] < HeadOf(r.src)[1] /\ r \notin rows' =>
             \/ \E t \in tombstones' : Matches(t, r.src, r.ev)
             \/ Covered(At(r.src, r.rev), Current(r.src))]_vars
  BY OnlyCopyKeptStep
<1> QED
  BY <1>1, OneProcessInvariant, PTL DEF Spec, OnlyCopyKept

-----------------------------------------------------------------------------
(* The refinement: every step of one process is a step of SourceView.      *)

(* How many records about s the change-feed holds.                         *)
Announcements(s) == Cardinality({i \in DOMAIN feed : feed[i].src = s})

(* What a reader of s is shown.                                            *)
Shown(s) == {r.ev : r \in Current(s)}

LEMMA ViewVariables ==
  /\ View!vars = <<[s \in Source |-> Shown(s)], [s \in Source |-> Announcements(s)], tombstones>>
  /\ View!vars' = <<[s \in Source |-> Shown(s)'], [s \in Source |-> Announcements(s)'], tombstones'>>
BY DEF View!vars, Shown, Announcements

(* A record appended for s raises its version, and no other's.             *)
LEMMA AnnouncementAppended ==
  ASSUME feed \in Seq(FeedEntry), NEW entry \in FeedEntry, feed' = Append(feed, entry),
         NEW s
  PROVE  Announcements(s)' = IF s = entry.src THEN Announcements(s) + 1 ELSE Announcements(s)
<1> DEFINE S == {i \in DOMAIN feed : feed[i].src = s}
           n == Len(feed) + 1
<1>1. DOMAIN feed = 1 .. Len(feed) /\ Len(feed) \in Nat
  OBVIOUS
<1>2. IsFiniteSet(S) /\ n \notin S
  <2>1. IsFiniteSet(1 .. Len(feed)) /\ S \subseteq 1 .. Len(feed)
    BY <1>1, FS_Interval
  <2> QED
    BY <1>1, <2>1, FS_Subset
<1>3. DOMAIN feed' = DOMAIN feed \union {n} /\ feed'[n] = entry
      /\ \A i \in DOMAIN feed : feed'[i] = feed[i]
  BY <1>1
<1>4. {i \in DOMAIN feed' : feed'[i].src = s} = IF s = entry.src THEN S \union {n} ELSE S
  BY <1>1, <1>3
<1> QED
  BY <1>2, <1>4, FS_AddElement DEF Announcements

(* The abstract actions, in terms of what the store shows.                 *)
LEMMA ViewActions ==
  ASSUME NEW s \in Source
  PROVE  /\ View!Touches(s) <=>
              /\ Shown(s)' \subseteq Event
              /\ \A e \in Shown(s)' \ Shown(s) : ~\E t \in tombstones : Matches(t, s, e)
              /\ \A x \in Source \ {s} : Shown(x)' = Shown(x)
              /\ UNCHANGED tombstones
         /\ View!Extend(s) <=>
              /\ View!Touches(s)
              /\ Shown(s) \subseteq Shown(s)'
              /\ \A x \in Source : Announcements(x)' = Announcements(x)
         /\ View!Replace(s) <=>
              /\ View!Touches(s)
              /\ \A x \in Source :
                   Announcements(x)' = IF x = s THEN Announcements(x) + 1 ELSE Announcements(x)
<1> DEFINE shown == [x \in Source |-> Shown(x)]
           versions == [x \in Source |-> Announcements(x)]
<1>1. /\ shown' = [x \in Source |-> Shown(x)']
      /\ versions' = [x \in Source |-> Announcements(x)']
  OBVIOUS
<1>2. View!Touches(s) <=>
        /\ shown'[s] \subseteq Event
        /\ \A e \in shown'[s] \ shown[s] : ~\E t \in tombstones : Matches(t, s, e)
        /\ \A x \in Source \ {s} : shown'[x] = shown[x]
        /\ UNCHANGED tombstones
  BY DEF View!Touches, View!Forgotten, Shown
<1>3. View!Extend(s) <=> View!Touches(s) /\ shown[s] \subseteq shown'[s] /\ versions' = versions
  BY DEF View!Extend, Shown, Announcements
<1>4. View!Replace(s) <=> View!Touches(s) /\ versions' = [versions EXCEPT ![s] = @ + 1]
  BY DEF View!Replace, Shown, Announcements
<1>5. shown[s] = Shown(s) /\ shown'[s] = Shown(s)'
      /\ \A x \in Source : shown[x] = Shown(x) /\ shown'[x] = Shown(x)'
  BY <1>1
<1>6. versions' = versions <=> \A x \in Source : Announcements(x)' = Announcements(x)
  BY <1>1
<1>7. versions' = [versions EXCEPT ![s] = @ + 1] <=>
        \A x \in Source :
          Announcements(x)' = IF x = s THEN Announcements(x) + 1 ELSE Announcements(x)
  BY <1>1
<1> HIDE DEF shown, versions
<1> QED
  BY <1>2, <1>3, <1>4, <1>5, <1>6, <1>7

(* A committed projection touches the view of its source only.             *)
LEMMA CommitTouches ==
  ASSUME TypeInv, TypeInv', NoErasedRow, NoErasedRow', NEW h \in Handle, CommitApply(h),
         NEW s \in Source, s = call[h].src
  PROVE  View!Touches(s)
<1>1. tombstones' = tombstones
  BY DEF CommitApply
<1>2. \A r \in rows' : r.ev \in Event /\ ~\E t \in tombstones : Matches(t, r.src, r.ev)
  BY <1>1 DEF TypeInv, TypeOK, Row, NoErasedRow, Erased
<1>3. \A e \in Shown(s)' : \E r \in rows' : r.src = s /\ r.ev = e
  BY DEF Shown, Current, At
<1>4. Shown(s)' \subseteq Event
      /\ \A e \in Shown(s)' : ~\E t \in tombstones : Matches(t, s, e)
  BY <1>2, <1>3
<1>5. ASSUME NEW x \in Source \ {s} PROVE Shown(x)' = Shown(x)
  <2>1. HeadOf(x)' = HeadOf(x)
    BY <1>5 DEF CommitApply, MovedHead, HeadOf
  <2>2. \A r : r.src = x => (r \in rows' <=> r \in rows)
    <3> SUFFICES ASSUME NEW r, r.src = x PROVE r \in rows' <=> r \in rows
      OBVIOUS
    <3>1. r.src # call[h].src
      BY <1>5
    <3> QED
      BY <3>1 DEF CommitApply
  <2>3. Current(x)' = Current(x)
    BY <2>1, <2>2 DEF Current, At
  <2> QED
    BY <2>3 DEF Shown
<1> QED
  BY <1>1, <1>4, <1>5, ViewActions

(* An Append on the head that was read extends the view, silently.         *)
LEMMA AppendExtends ==
  ASSUME TypeInv, CallsFresh, NEW h \in Handle, CommitApply(h), call[h].mode = "append",
         NEW s, s = call[h].src
  PROVE  /\ Shown(s) \subseteq Shown(s)'
         /\ UNCHANGED feed
<1> DEFINE c == call[h]
           v == Target(c.mode, c.head)
<1>1. c \in Applying /\ c.head = HeadOf(s)
  BY BusyCallTyped DEF CommitApply, TypeInv, CallsFresh, Fresh
<1>2. v = c.head
  BY DEF Target
<1>3. feed' = feed
  BY <1>2 DEF CommitApply, Announced
<1>4. HeadOf(s)' = HeadOf(s)
  <2>1. head' = MovedHead(s, v)
    BY DEF CommitApply
  <2> HIDE DEF v
  <2>2. head'[s] = v /\ s \in DOMAIN head'
    BY <2>1 DEF MovedHead
  <2> QED
    BY <1>1, <1>2, <2>2 DEF HeadOf
<1>5. rows \subseteq rows'
  BY DEF CommitApply, Superseded
<1>6. Current(s) \subseteq Current(s)'
  BY <1>4, <1>5 DEF Current, At
<1> QED
  BY <1>3, <1>6 DEF Shown

(* A Rollback or Reparse is announced, once.                               *)
LEMMA NewGenerationAnnounced ==
  ASSUME TypeInv, NEW h \in Handle, CommitApply(h), call[h].mode # "append", NEW s \in Source
  PROVE  Announcements(s)' = IF s = call[h].src THEN Announcements(s) + 1 ELSE Announcements(s)
<1> DEFINE c == call[h]
           v == Target(c.mode, c.head)
           entry == [src |-> c.src, old |-> c.head, new |-> v, reason |-> c.mode]
<1>1. c \in Applying
  BY BusyCallTyped DEF CommitApply, TypeInv
<1>2. c.src \in Source /\ c.mode \in Mode /\ c.head \in Rev
  BY <1>1 DEF Applying
<1>3. v \in Rev /\ v # c.head
  BY <1>2, TargetIsRev
<1>4. entry \in FeedEntry /\ feed' = Append(feed, entry)
  BY <1>2, <1>3 DEF FeedEntry, CommitApply, Announced
<1>5. entry.src = c.src
  OBVIOUS
<1> HIDE DEF entry
<1> QED
  BY <1>4, <1>5, AnnouncementAppended DEF TypeInv, TypeOK

LEMMA CommitRefines ==
  ASSUME TypeInv, TypeInv', NoErasedRow, NoErasedRow', CallsFresh,
         NEW h \in Handle, CommitApply(h)
  PROVE  View!Next
<1>1. PICK s \in Source : s = call[h].src
  BY BusyCallTyped DEF CommitApply, Applying, TypeInv
<1>2. View!Touches(s)
  BY <1>1, CommitTouches
<1>3. CASE call[h].mode = "append"
  <2>1. Shown(s) \subseteq Shown(s)' /\ \A x : Announcements(x)' = Announcements(x)
    BY <1>1, <1>3, AppendExtends DEF Announcements
  <2>2. View!Extend(s)
    BY <1>2, <2>1, ViewActions
  <2> QED
    BY <2>2 DEF View!Next
<1>4. CASE call[h].mode # "append"
  <2>1. \A x \in Source :
          Announcements(x)' = IF x = s THEN Announcements(x) + 1 ELSE Announcements(x)
    BY <1>1, <1>4, NewGenerationAnnounced
  <2>2. View!Replace(s)
    BY <1>2, <2>1, ViewActions
  <2> QED
    BY <2>2 DEF View!Next
<1> QED
  BY <1>3, <1>4

(* An erasure leaves of every view what no tombstone hits.                 *)
LEMMA EraseRefines ==
  ASSUME TypeInv, NoErasedRow, NEW h \in Handle, NEW o \in Erasable, Erase(h, o)
  PROVE  View!Next
<1>1. tombstones' = tombstones \union Covering(o) /\ UNCHANGED <<head, feed>>
      /\ rows' = {r \in rows : ~\E u \in Covering(o) : Matches(u, r.src, r.ev)}
  BY DEF Erase
<1>2. \A r \in rows : r \in rows' <=> ~\E t \in tombstones' : Matches(t, r.src, r.ev)
  BY <1>1 DEF NoErasedRow, Erased
<1>3. ASSUME NEW s \in Source
      PROVE  Shown(s)' = {e \in Shown(s) : ~\E t \in tombstones' : Matches(t, s, e)}
  BY <1>1, <1>2 DEF Shown, Current, At, HeadOf
<1>4. \A s \in Source : Announcements(s)' = Announcements(s)
  BY <1>1 DEF Announcements
<1>5. View!Forget
  BY <1>1, <1>3, <1>4 DEF View!Forget, Shown, Announcements
<1> QED
  BY <1>5 DEF View!Next

(* gc and reclaiming never take a row of the current generation.           *)
LEMMA RemovalStutters ==
  ASSUME TypeInv, CallsFresh, NEW h \in Handle, Gc(h) \/ CommitReclaim(h)
  PROVE  UNCHANGED View!vars
<1>1. UNCHANGED <<head, feed, tombstones>> /\ rows' \subseteq rows
  BY DEF Gc, CommitReclaim
<1>2. ASSUME NEW r \in rows, r.rev = HeadOf(r.src) PROVE r \in rows'
  <2>1. CASE Gc(h)
    BY <1>2, <2>1 DEF Gc, Garbage
  <2>2. CASE CommitReclaim(h)
    <3>1. call[h] \in Reclaiming /\ Fresh(call[h])
      BY <2>2, BusyCallTyped DEF CommitReclaim, TypeInv, CallsFresh
    <3>2. \A g \in call[h].plan : g.rev # HeadOf(g.src)
      BY <3>1 DEF Fresh
    <3> QED
      BY <1>2, <2>2, <3>2 DEF CommitReclaim
  <2> QED
    BY <2>1, <2>2
<1>3. ASSUME NEW s \in Source PROVE Shown(s)' = Shown(s) /\ Announcements(s)' = Announcements(s)
  BY <1>1, <1>2 DEF Shown, Announcements, Current, At, HeadOf
<1> QED
  BY <1>1, <1>3, ViewVariables

LEMMA ViewNext ==
  ASSUME TypeInv, TypeInv', NoErasedRow, NoErasedRow', CallsFresh, [Next]_vars
  PROVE  [View!Next]_(View!vars)
<1>1. CASE StoreUnchanged
  <2>1. \A s \in Source : Shown(s)' = Shown(s) /\ Announcements(s)' = Announcements(s)
    BY <1>1 DEF StoreUnchanged, Shown, Announcements, Current, At, HeadOf
  <2>2. tombstones' = tombstones
    BY <1>1 DEF StoreUnchanged
  <2> QED
    BY <2>1, <2>2, ViewVariables
<1> QED
  BY <1>1, CommitRefines, EraseRefines, RemovalStutters, OtherStepsKeepStore

LEMMA ViewInit ==
  ASSUME Init
  PROVE  View!Init
<1>1. \A s : Current(s) = {} /\ {i \in DOMAIN feed : feed[i].src = s} = {}
  BY DEF Init, Current, At
<1> QED
  BY <1>1, FS_EmptySet DEF View!Init, Init

(* With one process, the store implements the contract its consumers rely  *)
(* on: between two records of the change-feed the view of a source only    *)
(* grows, and what was erased is never shown again.                        *)
THEOREM StoreImplementsSourceView ==
  ASSUME OneProcess
  PROVE  Spec => ImplementsSourceView
<1>1. Init => View!Init
  BY ViewInit
<1>2. (TypeInv /\ NoErasedRow /\ CallsFresh) /\ (TypeInv /\ NoErasedRow /\ CallsFresh)'
        /\ [Next]_vars => [View!Next]_(View!vars)
  BY ViewNext
<1> QED
  BY <1>1, <1>2, OneProcessInvariant, PTL DEF Spec, ImplementsSourceView, View!Spec

=============================================================================
