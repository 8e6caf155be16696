------------------------ MODULE DramSsdStorageProofs ------------------------
(***************************************************************************)
(* Proofs about DramSsdHashStorage: trainers, the cache thread, the        *)
(* evicting thread and the saver, in every interleaving.                   *)
(*                                                                         *)
(* Basics is inductive by itself.  Each of the other parts of IInv has a   *)
(* section of its own, which shows that every step preserves it, given     *)
(* Basics and the parts before it.                                         *)
(***************************************************************************)
EXTENDS DramSsdStorage, SequenceTheorems, FiniteSetTheorems, TLAPS

Embedding == 0..NoValue
Ops == {"update", "prefetch", "add"}

TrainerType ==
  [pc : {"idle", "ssd", "tryinsert", "reget", "create", "relook", "forward_done",
         "hold", "prefetched", "collected"},
   key : Keys \cup {NoKey}, ptr : Nat, step : {"none", "lookup", "apply", "prefetch"}]

EvictorType == [pc : {"idle", "chosen", "next", "remove"}, ids : Seq(Keys)]

SaverType ==
  [pc : {"idle", "shrunk", "dram", "ssd", "saved"}, ptrs : [Keys -> Nat],
   dram : [Keys -> Embedding], ssd : [Keys -> Embedding], floor : [Keys -> Embedding]]

OvertakenType == [evictions : Nat, shrinks : Nat, late : BOOLEAN]

\* The types of the state.
TypeOK ==
  /\ dram \in [Keys -> Nat]
  /\ val \in Seq(Nat)
  /\ ssd \in [Keys -> Embedding]
  /\ value_ptr_out_of_date_ \in Seq(Nat)
  /\ to_delete_ \in SUBSET Nat
  /\ lru \in Seq(Keys)
  /\ prefetch_id_table \in [Keys -> Nat]
  /\ tasks \in Seq(Ops \X Keys)
  /\ tr \in [Trainers -> TrainerType]
  /\ ev \in EvictorType
  /\ sv \in SaverType
  /\ up \in BOOLEAN
  /\ begun \in 0..MaxSteps
  /\ truth \in [Keys -> Embedding]
  /\ torn \in SUBSET Keys
  /\ overtaken \in [Trainers \cup {Saver} -> OvertakenType]

\* Which threads are on a key, and which keys are left to evict.
ThreadInv ==
  /\ \A t \in Trainers : tr[t].pc = "idle" <=> tr[t].key = NoKey
  /\ ev.pc = "idle" <=> ev.ids = <<>>

\* Every ValuePtr that anything refers to exists.
Using(t) == tr[t].pc \in {"hold", "prefetched", "collected"}
RangeInv ==
  /\ \A k \in Keys : dram[k] <= Len(val) /\ sv.ptrs[k] <= Len(val)
  /\ \A t \in Trainers : tr[t].ptr <= Len(val)
  /\ \A t \in Trainers : Using(t) \/ tr[t].pc = "tryinsert" => tr[t].ptr # NoPtr

\* A step adds at most one update to an embedding: no embedding reaches NoValue.
Active == {t \in Trainers : tr[t].pc # "idle"}
Room(x) == x + Cardinality(Active) <= begun
BoundInv ==
  /\ Cardinality(Active) <= begun
  /\ \A i \in 1..Len(val) : Room(val[i])
  /\ \A k \in Keys : ssd[k] # NoValue => Room(ssd[k])
  /\ \A k \in Keys : sv.dram[k] # NoValue => sv.dram[k] <= begun
  /\ \A k \in Keys : sv.ssd[k] # NoValue => sv.ssd[k] <= begun

Basics == TypeOK /\ ThreadInv /\ RangeInv /\ BoundInv

\* DramTracked without the trainers that have handed their key back.
Tracked(k) ==
  \/ Contains(lru, k) \/ IsPrefetched(k) \/ Contains(ev.ids, k)
  \/ \E i \in 1..Len(tasks) : tasks[i][2] = k
  \/ \E t \in Trainers : tr[t].key = k /\ tr[t].pc # "collected"
TrackInv == up => \A k \in Keys : dram[k] # NoPtr => Tracked(k)

\* Where the ValuePtr p, which thread t took, may be now: in DRAM, among the
\* evicted ones at a place that the evictions since then account for, or shrunk.
Kept(t, p) ==
  \/ \E k \in Keys : dram[k] = p
  \/ \E i \in 1..Len(value_ptr_out_of_date_) :
       /\ value_ptr_out_of_date_[i] = p
       /\ i + overtaken[t].evictions > Len(value_ptr_out_of_date_)
  \/ p \in to_delete_ /\ overtaken[t].shrinks > 0
KeptInv ==
  /\ \A t \in Trainers : Holds(t) /\ InTime(t) => Kept(t, tr[t].ptr)
  /\ \A k \in Keys : sv.ptrs[k] # NoPtr =>
       Holds(Saver) /\ (InTime(Saver) => Kept(Saver, sv.ptrs[k]))

\* Who may know which ValuePtr: a key has its own, a trainer that uses one uses
\* its key's, and a copy from SSD that is not inserted is its maker's.
PtrInv ==
  /\ \A j, k \in Keys : dram[j] # NoPtr /\ dram[j] = dram[k] => j = k
  /\ \A t \in Trainers : Using(t) =>
       \A k \in Keys : dram[k] = tr[t].ptr => k = tr[t].key
  /\ \A t \in Trainers : tr[t].pc = "tryinsert" =>
       /\ \A k \in Keys : dram[k] # tr[t].ptr
       /\ \A u \in Trainers \ {t} : tr[u].ptr # tr[t].ptr

\* What every step of a trainer and of an eviction relies on, as long as none of
\* them tore the other's key.
ValueInv ==
  /\ \A k \in Keys : truth[k] # NoValue => Visible(k) # NoValue
  /\ \A k \in Keys \ torn : Visible(k) = truth[k]
  /\ \A k \in Keys : BeingEvicted(k) =>
       /\ dram[k] # NoPtr /\ ssd[k] # NoValue
       /\ k \notin torn => ssd[k] = val[dram[k]] /\ ~Busy(k)
  /\ \A t \in Trainers : tr[t].key \notin torn =>
       /\ tr[t].pc = "tryinsert" => val[tr[t].ptr] = ssd[tr[t].key]
       /\ Using(t) => dram[tr[t].key] = tr[t].ptr
       /\ tr[t].pc \in {"create", "relook"} => ssd[tr[t].key] = NoValue

\* The checkpoint in the making: each key is above its floor in the tier it will
\* be saved from.
AtLeast(x, y) == x # NoValue /\ x >= y
SaveInv ==
  /\ sv.pc \in {"dram", "ssd"} =>
       \A k \in Keys \ torn : sv.floor[k] # NoValue =>
         /\ AtLeast(truth[k], sv.floor[k])
         /\ IF sv.ptrs[k] # NoPtr THEN val[sv.ptrs[k]] >= sv.floor[k]
            ELSE AtLeast(IF sv.pc = "dram" THEN ssd[k] ELSE sv.ssd[k], sv.floor[k])
  /\ CheckpointComplete

\* The reference counts, when one thread runs the tasks in their order: no prefix
\* of the tasks takes more references than it finds.
Places(s, x, n) == {i \in 1..n : s[i] = x}
Count(s, x, n) == Cardinality(Places(s, x, n))
Fetched(k) == {t \in Trainers : tr[t].pc = "prefetched" /\ tr[t].key = k}
RefInv ==
  up => \A k \in Keys :
    /\ \A n \in 0..Len(tasks) :
         prefetch_id_table[k] + Count(tasks, <<"prefetch", k>>, n)
           >= Count(tasks, <<"add", k>>, n)
    /\ prefetch_id_table[k] + Count(tasks, <<"prefetch", k>>, Len(tasks))
         = Count(tasks, <<"add", k>>, Len(tasks)) + Cardinality(Fetched(k))

\* The inductive invariant.
IInv ==
  /\ Basics
  /\ TrackInv /\ KeptInv
  /\ PtrInv /\ ValueInv /\ SaveInv
  /\ CacheThreads = 1 => RefInv
-----------------------------------------------------------------------------
(* Sequences and sets.                                                     *)

\* Dropping one element keeps the others (RemoveAt of SequencesExt).
LEMMA RemoveAtProperties ==
  ASSUME NEW S, NEW s \in Seq(S), NEW i \in 1..Len(s)
  PROVE  /\ RemoveAt(s, i) \in Seq(S)
         /\ Len(RemoveAt(s, i)) = Len(s) - 1
         /\ \A j \in 1..(Len(s) - 1) :
              RemoveAt(s, i)[j] = IF j < i THEN s[j] ELSE s[j + 1]
<1>1. Len(s) \in Nat
  BY LenProperties
<1>2. PICK a : a = SubSeq(s, 1, i - 1)
  OBVIOUS
<1>3. PICK b : b = SubSeq(s, i + 1, Len(s))
  OBVIOUS
<1>4. /\ a \in Seq(S) /\ Len(a) = i - 1
      /\ \A j \in 1..(i - 1) : a[j] = s[j]
  BY <1>1, <1>2, SubSeqProperties
<1>5. /\ b \in Seq(S) /\ Len(b) = Len(s) - i
      /\ \A j \in 1..(Len(s) - i) : b[j] = s[i + j]
  BY <1>1, <1>3, SubSeqProperties
<1>6. RemoveAt(s, i) = a \o b
  BY <1>2, <1>3 DEF RemoveAt
<1>7. /\ a \o b \in Seq(S) /\ Len(a \o b) = Len(s) - 1
      /\ \A j \in 1..(Len(s) - 1) :
           (a \o b)[j] = IF j <= i - 1 THEN a[j] ELSE b[j - (i - 1)]
  <2>1. /\ a \o b \in Seq(S) /\ Len(a \o b) = Len(a) + Len(b)
        /\ \A j \in 1..(Len(a) + Len(b)) :
             (a \o b)[j] = IF j <= Len(a) THEN a[j] ELSE b[j - Len(a)]
    BY <1>4, <1>5, ConcatProperties
  <2>2. Len(a) = i - 1 /\ Len(a) + Len(b) = Len(s) - 1
    BY <1>1, <1>4, <1>5
  <2> QED BY <2>1, <2>2
<1>8. ASSUME NEW j \in 1..(Len(s) - 1)
      PROVE  (a \o b)[j] = IF j < i THEN s[j] ELSE s[j + 1]
  <2>1. CASE j < i
    BY <1>1, <1>4, <1>7, <2>1
  <2>2. CASE ~(j < i)
    <3>1. j - (i - 1) \in 1..(Len(s) - i) /\ i + (j - (i - 1)) = j + 1
      BY <1>1, <2>2
    <3> QED BY <1>1, <1>5, <1>7, <2>2, <3>1
  <2> QED BY <2>1, <2>2
<1> QED BY <1>6, <1>7, <1>8

LEMMA RemoveAtKeeps ==
  ASSUME NEW S, NEW s \in Seq(S), NEW i \in 1..Len(s), NEW j \in 1..Len(s), j # i
  PROVE  \E m \in 1..Len(RemoveAt(s, i)) : RemoveAt(s, i)[m] = s[j]
<1>1. Len(s) \in Nat
  BY LenProperties
<1>2. CASE j < i
  <2>1. j \in 1..(Len(s) - 1)
    BY <1>1, <1>2
  <2>2. RemoveAt(s, i)[j] = s[j]
    BY <1>2, <2>1, RemoveAtProperties
  <2> QED BY <2>1, <2>2, RemoveAtProperties
<1>3. CASE i < j
  <2>1. j - 1 \in 1..(Len(s) - 1) /\ ~(j - 1 < i) /\ (j - 1) + 1 = j
    BY <1>1, <1>3
  <2>2. RemoveAt(s, i)[j - 1] = s[j]
    BY <2>1, RemoveAtProperties
  <2> QED BY <2>1, <2>2, RemoveAtProperties
<1> QED BY <1>1, <1>2, <1>3

LEMMA UnlinkedProperties ==
  ASSUME lru \in Seq(Keys), NEW k \in Keys
  PROVE  /\ Unlinked(k) \in Seq(Keys)
         /\ \A x \in Keys \ {k} : Contains(lru, x) => Contains(Unlinked(k), x)
<1>1. CASE Contains(lru, k)
  <2>1. PICK i : i = CHOOSE j \in 1..Len(lru) : lru[j] = k
    OBVIOUS
  <2>2. i \in 1..Len(lru) /\ lru[i] = k
    BY <1>1, <2>1 DEF Contains
  <2>3. Unlinked(k) = RemoveAt(lru, i)
    BY <1>1, <2>1 DEF Unlinked
  <2>4. RemoveAt(lru, i) \in Seq(Keys)
    BY <2>2, RemoveAtProperties
  <2>5. ASSUME NEW x \in Keys \ {k}, Contains(lru, x)
        PROVE  Contains(RemoveAt(lru, i), x)
    <3>1. PICK j \in 1..Len(lru) : lru[j] = x
      BY <2>5 DEF Contains
    <3>2. j # i
      BY <2>2, <3>1
    <3> QED BY <2>2, <3>1, <3>2, RemoveAtKeeps DEF Contains
  <2> QED BY <2>3, <2>4, <2>5
<1>2. CASE ~Contains(lru, k)
  BY <1>2 DEF Unlinked
<1> QED BY <1>1, <1>2

LEMMA TouchedProperties ==
  ASSUME lru \in Seq(Keys), NEW k \in Keys
  PROVE  /\ Touched(k) \in Seq(Keys)
         /\ Contains(Touched(k), k)
         /\ \A x \in Keys : Contains(lru, x) => Contains(Touched(k), x)
<1>1. PICK u : u = Unlinked(k)
  OBVIOUS
<1>2. u \in Seq(Keys) /\ Len(u) \in Nat
  BY <1>1, UnlinkedProperties, LenProperties
<1>3. Touched(k) = <<k>> \o u
  BY <1>1 DEF Touched
<1>4. <<k>> \in Seq(Keys) /\ Len(<<k>>) = 1 /\ <<k>>[1] = k
  OBVIOUS
<1>5. /\ <<k>> \o u \in Seq(Keys) /\ Len(<<k>> \o u) = 1 + Len(u)
      /\ \A j \in 1..(1 + Len(u)) :
           (<<k>> \o u)[j] = IF j <= 1 THEN k ELSE u[j - 1]
  BY <1>2, <1>4, ConcatProperties
<1>6. Contains(<<k>> \o u, k)
  BY <1>2, <1>5 DEF Contains
<1>7. ASSUME NEW x \in Keys, Contains(u, x)
      PROVE  Contains(<<k>> \o u, x)
  <2>1. PICK j \in 1..Len(u) : u[j] = x
    BY <1>7 DEF Contains
  <2>2. /\ j + 1 \in 1..(1 + Len(u)) /\ ~(j + 1 <= 1) /\ (j + 1) - 1 = j
    BY <1>2
  <2> QED BY <1>5, <2>1, <2>2 DEF Contains
<1> QED BY <1>1, <1>3, <1>5, <1>6, <1>7, UnlinkedProperties

\* get_evic_ids: no key of the list is dropped.
LEMMA EvicIdsProperties ==
  ASSUME lru \in Seq(Keys), NEW n \in 1..Len(lru)
  PROVE  /\ EvicIds(n) \in Seq(Keys) /\ EvicIds(n) # <<>>
         /\ SubSeq(lru, 1, Len(lru) - n) \in Seq(Keys)
         /\ \A x \in Keys : Contains(lru, x) =>
              Contains(SubSeq(lru, 1, Len(lru) - n), x) \/ Contains(EvicIds(n), x)
<1>1. Len(lru) \in Nat /\ n \in Nat
  BY LenProperties
<1>2. PICK a : a = SubSeq(lru, 1, Len(lru) - n)
  OBVIOUS
<1>3. PICK b : b = SubSeq(lru, Len(lru) - n + 1, Len(lru))
  OBVIOUS
<1>4. /\ a \in Seq(Keys) /\ Len(a) = Len(lru) - n
      /\ \A j \in 1..(Len(lru) - n) : a[j] = lru[j]
  BY <1>1, <1>2, SubSeqProperties
<1>5. /\ b \in Seq(Keys) /\ Len(b) = n
      /\ \A j \in 1..n : b[j] = lru[Len(lru) - n + j]
  BY <1>1, <1>3, SubSeqProperties
<1>6. PICK r : r = [j \in 1..n |-> b[(n - j) + 1]]
  OBVIOUS
<1>7. EvicIds(n) = r
  BY <1>3, <1>5, <1>6 DEF EvicIds, Reverse
<1>8. \A j \in 1..n : (n - j) + 1 \in 1..n /\ b[(n - j) + 1] \in Keys
  BY <1>1, <1>5, ElementOfSeq
<1>9. r \in Seq(Keys) /\ Len(r) = n
  <2>1. r \in [1..n -> Keys]
    BY <1>6, <1>8
  <2> QED BY <1>1, <2>1, SeqDef, LenProperties
<1>10. ASSUME NEW x \in Keys, Contains(lru, x) PROVE Contains(a, x) \/ Contains(r, x)
  <2>1. PICK j \in 1..Len(lru) : lru[j] = x
    BY <1>10 DEF Contains
  <2>2. CASE j <= Len(lru) - n
    BY <1>1, <1>4, <2>1, <2>2 DEF Contains
  <2>3. CASE ~(j <= Len(lru) - n)
    <3>1. PICK m \in 1..n : m = j - (Len(lru) - n)
      BY <1>1, <2>3
    <3>2. b[m] = x
      <4>1. Len(lru) - n + m = j
        BY <1>1, <3>1
      <4> QED BY <1>5, <2>1, <4>1
    <3>3. PICK q \in 1..n : q = (n - m) + 1
      BY <1>1
    <3>4. (n - q) + 1 = m
      BY <1>1, <3>3
    <3>5. r[q] = x
      BY <1>6, <3>2, <3>4
    <3> QED BY <1>9, <3>5 DEF Contains
  <2> QED BY <2>2, <2>3
<1>11. r # <<>>
  BY <1>1, <1>9
<1> QED BY <1>2, <1>4, <1>7, <1>9, <1>10, <1>11
-----------------------------------------------------------------------------
(* The types, and the numbers they are made of.                            *)

\* What the constants are.
LEMMA Constants ==
  /\ MaxSteps \in Nat /\ NoValue = MaxSteps + 1 /\ NoPtr = 0
  /\ IsFiniteSet(Keys) /\ NoKey \notin Keys
  /\ IsFiniteSet(Trainers) /\ Saver \notin Trainers
  /\ CacheCapacity \in Nat /\ CapInvalid \in Nat /\ CacheThreads \in Nat \ {0}
  BY MaxStepsAssumption, SetsAssumption, CapacityAssumption, CacheThreadsAssumption
     DEF NoValue, NoPtr

\* A trainer's key, once it has begun.
LEMMA TrainerKey ==
  ASSUME TypeOK, ThreadInv, NEW t \in Trainers, tr[t].pc # "idle"
  PROVE  tr[t].key \in Keys /\ tr[t] \in TrainerType
<1>1. tr[t] \in TrainerType
  BY DEF TypeOK
<1>2. tr[t].key # NoKey
  BY DEF ThreadInv
<1> QED BY <1>1, <1>2 DEF TrainerType

\* How the number of active trainers changes with one of them.
LEMMA ActiveMove ==
  ASSUME TypeOK, NEW t \in Trainers, NEW r, tr' = [tr EXCEPT ![t] = r]
  PROVE  /\ Cardinality(Active) \in Nat /\ Cardinality(Active') \in Nat
         /\ Cardinality(Active') = Cardinality(Active)
              + (IF r.pc # "idle" THEN 1 ELSE 0)
              - (IF tr[t].pc # "idle" THEN 1 ELSE 0)
<1>0. tr \in [Trainers -> TrainerType]
  BY DEF TypeOK
<1>1. PICK A : A = Active
  OBVIOUS
<1>2. PICK B : B = Active'
  OBVIOUS
<1>3. IsFiniteSet(A) /\ IsFiniteSet(B)
  BY <1>1, <1>2, Constants, FS_Subset DEF Active
<1>4. /\ t \in A <=> tr[t].pc # "idle"
      /\ t \in B <=> r.pc # "idle"
      /\ A \ {t} = B \ {t}
  BY <1>0, <1>1, <1>2 DEF Active
<1>5. ASSUME NEW C, IsFiniteSet(C)
      PROVE  /\ Cardinality(C) \in Nat /\ Cardinality(C \ {t}) \in Nat
             /\ Cardinality(C) = Cardinality(C \ {t}) +
                                   (IF t \in C THEN 1 ELSE 0)
  <2>1. Cardinality(C) \in Nat
    BY <1>5, FS_CardinalityType
  <2>2. IsFiniteSet(C \ {t}) /\ Cardinality(C \ {t}) =
          (IF t \in C THEN Cardinality(C) - 1 ELSE Cardinality(C))
    BY <1>5, FS_RemoveElement
  <2>3. Cardinality(C \ {t}) \in Nat
    BY <2>2, FS_CardinalityType
  <2> QED BY <2>1, <2>2, <2>3
<1>6. /\ Cardinality(A) \in Nat /\ Cardinality(B) \in Nat
      /\ Cardinality(A \ {t}) \in Nat
      /\ Cardinality(A) = Cardinality(A \ {t}) + (IF t \in A THEN 1 ELSE 0)
      /\ Cardinality(B) = Cardinality(A \ {t}) + (IF t \in B THEN 1 ELSE 0)
  BY <1>3, <1>4, <1>5
<1> QED BY ONLY <1>1, <1>2, <1>4, <1>6

LEMMA ActiveSame ==
  ASSUME tr' = tr PROVE Active' = Active
  BY DEF Active

\* No embedding reaches NoValue.
LEMMA ValBound ==
  ASSUME TypeOK, BoundInv
  PROVE  /\ Cardinality(Active) \in Nat /\ begun \in Nat /\ begun <= MaxSteps
         /\ Len(val) \in Nat
         /\ \A i \in 1..Len(val) : val[i] \in 0..MaxSteps /\ val[i] # NoValue
                                   /\ val[i] \in Embedding
<1>1. IsFiniteSet(Active)
  BY Constants, FS_Subset DEF Active
<1>2. Cardinality(Active) \in Nat
  BY <1>1, FS_CardinalityType
<1>3. begun \in Nat /\ begun <= MaxSteps
  BY Constants DEF TypeOK
<1>4. val \in Seq(Nat) /\ Len(val) \in Nat
  BY LenProperties DEF TypeOK
<1>5. ASSUME NEW i \in 1..Len(val)
      PROVE  val[i] \in 0..MaxSteps /\ val[i] # NoValue /\ val[i] \in Embedding
  <2>1. val[i] \in Nat /\ val[i] + Cardinality(Active) <= begun
    BY <1>4, ElementOfSeq DEF BoundInv, Room
  <2> QED BY <1>2, <1>3, <2>1, Constants DEF Embedding
<1> QED BY <1>2, <1>3, <1>4, <1>5

\* A trainer that is on a key leaves room for the update it will make.
LEMMA ActiveTrainer ==
  ASSUME TypeOK, NEW t \in Trainers, tr[t].pc # "idle"
  PROVE  Cardinality(Active) >= 1
<1>1. IsFiniteSet(Active) /\ t \in Active
  BY Constants, FS_Subset DEF Active
<1>2. Cardinality(Active) # 0
  BY <1>1, FS_EmptySet
<1> QED BY <1>1, <1>2, FS_CardinalityType
-----------------------------------------------------------------------------
(* Basics: the trainers.                                                   *)

\* A step of trainer t ends in the record r.
LEMMA TrainerRanges ==
  ASSUME Basics, NEW t \in Trainers, NEW r \in TrainerType,
         tr' = [tr EXCEPT ![t] = r], r.pc = "idle" <=> r.key = NoKey,
         Len(val') \in Nat, Len(val) <= Len(val'), r.ptr <= Len(val'),
         r.pc \in {"hold", "prefetched", "collected", "tryinsert"} => r.ptr # NoPtr,
         \A k \in Keys : dram'[k] <= Len(val'),
         UNCHANGED <<ev, sv>>
  PROVE  ThreadInv' /\ RangeInv'
<1>1. tr \in [Trainers -> TrainerType] /\ sv \in SaverType /\ Len(val) \in Nat
  BY LenProperties DEF Basics, TypeOK
<1>2. \A u \in Trainers : tr'[u] = IF u = t THEN r ELSE tr[u]
  BY <1>1
<1>3. ThreadInv'
  BY <1>2 DEF Basics, ThreadInv
<1>4. \A k \in Keys : sv'.ptrs[k] <= Len(val')
  <2>1. \A k \in Keys : sv.ptrs[k] \in Nat /\ sv.ptrs[k] <= Len(val)
    BY <1>1 DEF Basics, RangeInv, SaverType
  <2> QED BY <1>1, <2>1
<1>5. \A u \in Trainers : tr'[u].ptr <= Len(val')
  <2>1. \A u \in Trainers : tr[u].ptr \in Nat /\ tr[u].ptr <= Len(val)
    BY <1>1 DEF Basics, RangeInv, TrainerType
  <2> QED BY <1>1, <1>2, <2>1
<1>6. \A u \in Trainers :
        (Using(u) \/ tr[u].pc = "tryinsert")' => tr'[u].ptr # NoPtr
  BY <1>2 DEF Basics, RangeInv, Using
<1> QED BY <1>3, <1>4, <1>5, <1>6 DEF RangeInv

LEMMA TrainerTypes ==
  ASSUME TypeOK, NEW t \in Trainers, NEW r \in TrainerType,
         tr' = [tr EXCEPT ![t] = r],
         val' \in Seq(Nat), dram' \in [Keys -> Nat],
         tasks' \in Seq(Ops \X Keys), up' \in BOOLEAN, begun' \in 0..MaxSteps,
         truth' \in [Keys -> Embedding],
         overtaken' \in [Trainers \cup {Saver} -> OvertakenType],
         torn' = torn \cup Torn,
         UNCHANGED <<ssd, retiredVars, cacheVars, ev, saveVars>>
  PROVE  TypeOK'
<1>1. tr' \in [Trainers -> TrainerType]
  BY DEF TypeOK
<1>2. torn' \in SUBSET Keys
  BY DEF TypeOK, Torn
<1> QED BY <1>1, <1>2 DEF TypeOK, retiredVars, cacheVars, saveVars

\* Room for the updates to come does not shrink.
LEMMA BoundFrame ==
  ASSUME Basics, Cardinality(Active') \in Nat, begun' \in Nat, begun <= begun',
         Cardinality(Active') - Cardinality(Active) <= begun' - begun,
         \A i \in 1..Len(val') :
           val'[i] \in Nat /\ val'[i] + Cardinality(Active') <= begun',
         UNCHANGED <<ssd, sv>>
  PROVE  BoundInv'
<1>1. /\ Cardinality(Active) \in Nat /\ begun \in Nat
      /\ Cardinality(Active) <= begun
  BY ValBound DEF Basics, BoundInv
<1>2. Cardinality(Active') <= begun'
  BY <1>1
<1>3. \A k \in Keys : ssd'[k] # NoValue => Room(ssd[k])'
  <2> SUFFICES ASSUME NEW k \in Keys, ssd[k] # NoValue
               PROVE  ssd[k] + Cardinality(Active') <= begun'
    BY DEF Room
  <2>1. ssd[k] \in Nat /\ ssd[k] + Cardinality(Active) <= begun
    BY Constants DEF Basics, TypeOK, Embedding, BoundInv, Room
  <2> QED BY <1>1, <2>1
<1>4. \A k \in Keys : /\ sv'.dram[k] # NoValue => sv'.dram[k] <= begun'
                      /\ sv'.ssd[k] # NoValue => sv'.ssd[k] <= begun'
  <2>1. \A k \in Keys : sv.dram[k] \in Nat /\ sv.ssd[k] \in Nat
    BY Constants DEF Basics, TypeOK, SaverType, Embedding
  <2> QED BY <1>1, <2>1 DEF Basics, BoundInv
<1> QED BY <1>2, <1>3, <1>4 DEF BoundInv, Room

\* A step of a trainer that is on a key and stays on it, and writes nothing.
LEMMA StayBound ==
  ASSUME Basics, NEW t \in Trainers, tr[t].pc # "idle", NEW r, r.pc # "idle",
         tr' = [tr EXCEPT ![t] = r], begun' = begun, UNCHANGED <<ssd, sv>>,
         \/ val' = val
         \/ \E x \in Nat : val' = Append(val, x) /\ x + Cardinality(Active) <= begun
  PROVE  BoundInv'
<1>1. /\ Cardinality(Active') = Cardinality(Active) /\ Cardinality(Active) \in Nat
      /\ begun \in Nat
  <2>1. Cardinality(Active') = Cardinality(Active)
          + (IF r.pc # "idle" THEN 1 ELSE 0) - (IF tr[t].pc # "idle" THEN 1 ELSE 0)
    BY ActiveMove DEF Basics
  <2>2. Cardinality(Active) \in Nat /\ begun \in Nat
    BY ValBound DEF Basics
  <2> QED BY <2>1, <2>2
<1>2. val \in Seq(Nat) /\ Len(val) \in Nat
  BY LenProperties DEF Basics, TypeOK
<1>3. \A i \in 1..Len(val) :
        val[i] \in Nat /\ val[i] + Cardinality(Active) <= begun
  BY <1>2, ElementOfSeq DEF Basics, BoundInv, Room
<1>4. \A i \in 1..Len(val') :
        val'[i] \in Nat /\ val'[i] + Cardinality(Active) <= begun
  <2>1. CASE val' = val
    BY <1>3, <2>1
  <2>2. CASE \E x \in Nat : val' = Append(val, x) /\ x + Cardinality(Active) <= begun
    <3>1. PICK x \in Nat : val' = Append(val, x) /\ x + Cardinality(Active) <= begun
      BY <2>2
    <3>2. /\ Len(val') = Len(val) + 1 /\ val'[Len(val) + 1] = x
          /\ \A i \in 1..Len(val) : val'[i] = val[i]
      BY <1>2, <3>1, AppendProperties
    <3> QED BY <1>2, <1>3, <3>1, <3>2
  <2> QED BY <2>1, <2>2
<1> QED BY <1>1, <1>4, BoundFrame
\* DramGet begins a step, or its second half.
LEMMA DramGetBasics ==
  ASSUME Basics, NEW t \in Trainers, NEW k \in Keys,
         NEW step \in {"lookup", "apply", "prefetch"}, DramGet(t, k, step),
         torn' = torn \cup Torn
  PROVE  Basics'
<1>1. PICK p : p = dram[k]
  OBVIOUS
<1>2. p \in Nat /\ p <= Len(val) /\ val \in Seq(Nat) /\ Len(val) \in Nat
  BY <1>1, LenProperties DEF Basics, TypeOK, RangeInv
<1>3. PICK r : r = CASE p = NoPtr -> [pc |-> "ssd", key |-> k, ptr |-> NoPtr, step |-> step]
                [] p # NoPtr /\ step = "lookup" ->
                     [pc |-> "forward_done", key |-> k, ptr |-> NoPtr, step |-> step]
                [] OTHER -> [pc |-> "hold", key |-> k, ptr |-> p, step |-> step]
  OBVIOUS
<1>4. /\ tr' = [tr EXCEPT ![t] = r]
      /\ overtaken' = [overtaken EXCEPT ![t] = JustTaken]
      /\ UNCHANGED <<storeVars, retiredVars, cacheVars, tasks, ev, saveVars, up, truth>>
  BY <1>1, <1>3 DEF DramGet
<1>5. \/ tr[t].pc = "idle" /\ begun < MaxSteps /\ begun' = begun + 1
      \/ tr[t].pc = "forward_done" /\ begun' = begun
  BY DEF DramGet
<1>6. /\ r \in TrainerType /\ r.pc # "idle" /\ r.key # NoKey /\ r.ptr <= Len(val)
      /\ r.pc \in {"hold", "prefetched", "collected", "tryinsert"} => r.ptr # NoPtr
  <2>1. CASE p = NoPtr
    BY <1>2, <1>3, <2>1, Constants DEF TrainerType
  <2>2. CASE p # NoPtr /\ step = "lookup"
    BY <1>2, <1>3, <2>2, Constants DEF TrainerType
  <2>3. CASE p # NoPtr /\ step # "lookup"
    BY <1>2, <1>3, <2>3, Constants DEF TrainerType
  <2> QED BY <2>1, <2>2, <2>3
<1>7. ThreadInv' /\ RangeInv'
  <2>1. \A j \in Keys : dram'[j] <= Len(val')
    BY <1>4 DEF storeVars, Basics, RangeInv
  <2>2. UNCHANGED <<val, ev, sv>>
    BY <1>4 DEF storeVars, saveVars
  <2>3. /\ Len(val') \in Nat /\ Len(val) <= Len(val') /\ r.ptr <= Len(val')
        /\ r.pc = "idle" <=> r.key = NoKey
    BY <1>2, <1>6, <2>2
  <2> QED BY <1>4, <1>6, <2>1, <2>2, <2>3, TrainerRanges
<1>8. TypeOK'
  <2>1. overtaken' \in [Trainers \cup {Saver} -> OvertakenType]
    BY <1>4 DEF Basics, TypeOK, JustTaken, OvertakenType
  <2>2. begun' \in 0..MaxSteps
    BY <1>5, Constants DEF Basics, TypeOK
  <2>3. /\ val' \in Seq(Nat) /\ dram' \in [Keys -> Nat]
        /\ tasks' \in Seq(Ops \X Keys) /\ up' \in BOOLEAN
        /\ truth' \in [Keys -> Embedding] /\ ssd' = ssd
    BY <1>4 DEF storeVars, Basics, TypeOK
  <2> QED BY <1>4, <1>6, <2>1, <2>2, <2>3, TrainerTypes DEF Basics
<1>9. BoundInv'
  <2>1. /\ Cardinality(Active) \in Nat /\ Cardinality(Active') \in Nat
        /\ Cardinality(Active') = Cardinality(Active)
             + (IF r.pc # "idle" THEN 1 ELSE 0) - (IF tr[t].pc # "idle" THEN 1 ELSE 0)
    BY <1>4, ActiveMove DEF Basics
  <2>2. /\ begun \in Nat /\ begun' \in Nat /\ begun <= begun'
        /\ Cardinality(Active') - Cardinality(Active) = begun' - begun
    BY <1>5, <1>6, <2>1, ValBound DEF Basics
  <2>3. \A i \in 1..Len(val) :
          val[i] \in Nat /\ val[i] + Cardinality(Active) <= begun
    BY <1>2, ElementOfSeq DEF Basics, BoundInv, Room
  <2>4. \A i \in 1..Len(val') :
          val'[i] \in Nat /\ val'[i] + Cardinality(Active') <= begun'
    <3>1. val' = val
      BY <1>4 DEF storeVars
    <3>2. ASSUME NEW i \in 1..Len(val)
          PROVE  val[i] \in Nat /\ val[i] + Cardinality(Active') <= begun'
      BY SMTT(60), <2>1, <2>2, <2>3
    <3> QED BY <3>1, <3>2
  <2> QED BY <1>4, <2>1, <2>2, <2>4, BoundFrame DEF storeVars, saveVars
<1> QED BY <1>7, <1>8, <1>9 DEF Basics

\* A trainer stays on its key: the other steps that write no embedding.
LEMMA StayBasics ==
  ASSUME Basics, NEW t \in Trainers, tr[t].pc # "idle",
         NEW r, tr' = [tr EXCEPT ![t] = r], r.key = tr[t].key,
         r \in TrainerType, r.pc # "idle", r.ptr <= Len(val'),
         r.pc \in {"hold", "prefetched", "collected", "tryinsert"} => r.ptr # NoPtr,
         \/ val' = val
         \/ \E x \in Nat : val' = Append(val, x) /\ x + Cardinality(Active) <= begun,
         dram' \in [Keys -> Nat], \A k \in Keys : dram'[k] <= Len(val'),
         tasks' \in Seq(Ops \X Keys), up' \in BOOLEAN,
         truth' \in [Keys -> Embedding],
         overtaken' \in [Trainers \cup {Saver} -> OvertakenType],
         torn' = torn \cup Torn,
         UNCHANGED <<begun, ssd, retiredVars, cacheVars, ev, saveVars>>
  PROVE  Basics'
<1>1. val \in Seq(Nat) /\ Len(val) \in Nat
  BY LenProperties DEF Basics, TypeOK
<1>2. val' \in Seq(Nat) /\ Len(val') \in Nat /\ Len(val) <= Len(val')
  <2>1. CASE val' = val
    BY <1>1, <2>1
  <2>2. CASE \E x \in Nat : val' = Append(val, x) /\ x + Cardinality(Active) <= begun
    <3>1. PICK x \in Nat : val' = Append(val, x)
      BY <2>2
    <3>2. val' \in Seq(Nat) /\ Len(val') = Len(val) + 1
      BY <1>1, <3>1, AppendProperties
    <3> QED BY <1>1, <3>2
  <2> QED BY <2>1, <2>2
<1>3. UNCHANGED <<ev, sv>>
  BY DEF saveVars
<1>4. r.key # NoKey
  BY TrainerKey, Constants DEF Basics
<1>5. ThreadInv' /\ RangeInv'
  BY <1>2, <1>3, <1>4, TrainerRanges
<1>6. begun' \in 0..MaxSteps
  BY DEF Basics, TypeOK
<1>7. TypeOK'
  BY <1>2, <1>6, TrainerTypes DEF Basics
<1>8. BoundInv'
  BY <1>3, StayBound
<1> QED BY <1>5, <1>7, <1>8 DEF Basics
\* Where TryInsert, ReGet, Create and ReLook leave the trainer that found p.
HeldRecord(t, p) ==
  [pc |-> IF tr[t].step = "lookup" THEN "forward_done" ELSE "hold", key |-> tr[t].key,
   ptr |-> IF tr[t].step = "lookup" THEN NoPtr ELSE p, step |-> tr[t].step]

LEMMA HoldFacts ==
  ASSUME Basics, NEW t \in Trainers, tr[t].pc # "idle", NEW p \in Nat \ {0}, Hold(t, p)
  PROVE  /\ tr' = [tr EXCEPT ![t] = HeldRecord(t, p)]
         /\ HeldRecord(t, p) \in TrainerType
         /\ HeldRecord(t, p).pc # "idle" /\ HeldRecord(t, p).key = tr[t].key
         /\ HeldRecord(t, p).ptr <= p
         /\ HeldRecord(t, p).pc \in {"hold", "prefetched", "collected", "tryinsert"} =>
              HeldRecord(t, p).ptr # NoPtr
         /\ overtaken' \in [Trainers \cup {Saver} -> OvertakenType]
<1>1. tr \in [Trainers -> TrainerType] /\ tr[t] \in TrainerType
  BY DEF Basics, TypeOK
<1>2. tr' = [tr EXCEPT ![t] = HeldRecord(t, p)]
  <2>1. PICK pc : pc = IF tr[t].step = "lookup" THEN "forward_done" ELSE "hold"
    OBVIOUS
  <2>2. PICK q : q = IF tr[t].step = "lookup" THEN NoPtr ELSE p
    OBVIOUS
  <2>3. PICK r : r = [pc |-> pc, key |-> tr[t].key, ptr |-> q, step |-> tr[t].step]
    OBVIOUS
  <2>4. r = [tr[t] EXCEPT !.pc = pc, !.ptr = q]
    <3>1. PICK c \in TrainerType : c = tr[t]
      BY <1>1
    <3>2. PICK d : d = [c EXCEPT !.pc = pc]
      OBVIOUS
    <3>3. d = [pc |-> pc, key |-> c.key, ptr |-> c.ptr, step |-> c.step]
      BY <3>2 DEF TrainerType
    <3>4. r = [d EXCEPT !.ptr = q]
      BY <2>3, <3>1, <3>3
    <3> QED BY <3>1, <3>2, <3>4
  <2>5. tr' = [tr EXCEPT ![t] = r]
    BY <1>1, <2>1, <2>2, <2>4 DEF Hold
  <2> QED BY <2>1, <2>2, <2>3, <2>5 DEF HeldRecord
<1>3. overtaken' \in [Trainers \cup {Saver} -> OvertakenType]
  BY DEF Basics, TypeOK, JustTaken, OvertakenType, Hold
<1>4. CASE tr[t].step = "lookup"
  <2>1. HeldRecord(t, p) = [pc |-> "forward_done", key |-> tr[t].key, ptr |-> NoPtr,
                            step |-> tr[t].step]
    BY <1>4 DEF HeldRecord
  <2>2. /\ HeldRecord(t, p) \in TrainerType /\ HeldRecord(t, p).pc = "forward_done"
        /\ HeldRecord(t, p).key = tr[t].key /\ HeldRecord(t, p).ptr = 0
    BY <1>1, <2>1, Constants DEF TrainerType
  <2> QED BY <1>2, <1>3, <2>2
<1>5. CASE tr[t].step # "lookup"
  <2>1. HeldRecord(t, p) = [pc |-> "hold", key |-> tr[t].key, ptr |-> p,
                            step |-> tr[t].step]
    BY <1>5 DEF HeldRecord
  <2>2. /\ HeldRecord(t, p) \in TrainerType /\ HeldRecord(t, p).pc = "hold"
        /\ HeldRecord(t, p).key = tr[t].key /\ HeldRecord(t, p).ptr = p
    BY <1>1, <2>1 DEF TrainerType
  <2> QED BY <1>2, <1>3, <2>2, Constants
<1> QED BY <1>4, <1>5

\* Only the program counter moves.
MovedRecord(t, pc) ==
  [pc |-> pc, key |-> tr[t].key, ptr |-> tr[t].ptr, step |-> tr[t].step]

LEMMA GotoFacts ==
  ASSUME Basics, NEW t \in Trainers, NEW pc, Goto(t, pc),
         pc \in {"reget", "create", "relook", "forward_done", "prefetched", "collected"},
         pc \in {"prefetched", "collected"} => Using(t)
  PROVE  /\ tr' = [tr EXCEPT ![t] = MovedRecord(t, pc)]
         /\ MovedRecord(t, pc) \in TrainerType
         /\ MovedRecord(t, pc).pc # "idle" /\ MovedRecord(t, pc).key = tr[t].key
         /\ MovedRecord(t, pc).ptr <= Len(val)
         /\ MovedRecord(t, pc).pc \in {"hold", "prefetched", "collected", "tryinsert"} =>
              MovedRecord(t, pc).ptr # NoPtr
<1>1. tr \in [Trainers -> TrainerType] /\ tr[t] \in TrainerType
  BY DEF Basics, TypeOK
<1>2. tr' = [tr EXCEPT ![t] = MovedRecord(t, pc)]
  <2>1. PICK r : r = MovedRecord(t, pc)
    OBVIOUS
  <2>2. r = [tr[t] EXCEPT !.pc = pc]
    BY <1>1, <2>1 DEF MovedRecord, TrainerType
  <2>3. tr' = [tr EXCEPT ![t] = r]
    BY <1>1, <2>2 DEF Goto
  <2> QED BY <2>1, <2>3
<1>3. MovedRecord(t, pc) \in TrainerType /\ MovedRecord(t, pc).key = tr[t].key
      /\ MovedRecord(t, pc).ptr = tr[t].ptr /\ MovedRecord(t, pc).pc = pc
  BY <1>1 DEF MovedRecord, TrainerType
<1>4. tr[t].ptr <= Len(val) /\ (Using(t) => tr[t].ptr # NoPtr)
  BY DEF Basics, RangeInv
<1> QED BY <1>2, <1>3, <1>4

\* What does not change in a step that leaves the embeddings alone.
LEMMA Unmoved ==
  ASSUME Basics
  PROVE  /\ \A k \in Keys : dram[k] <= Len(val)
         /\ dram \in [Keys -> Nat] /\ val \in Seq(Nat) /\ Len(val) \in Nat
         /\ tasks \in Seq(Ops \X Keys) /\ up \in BOOLEAN
         /\ truth \in [Keys -> Embedding] /\ ssd \in [Keys -> Embedding]
         /\ overtaken \in [Trainers \cup {Saver} -> OvertakenType]
  BY LenProperties DEF Basics, RangeInv, TypeOK

\* SsdGet
LEMMA SsdGetBasics ==
  ASSUME Basics, NEW t \in Trainers, SsdGet(t), torn' = torn \cup Torn
  PROVE  Basics'
<1> USE DEF storeVars, historyVars
<1>0. tr[t].pc # "idle" /\ tr[t].key \in Keys /\ tr[t] \in TrainerType
  BY TrainerKey DEF SsdGet, Basics
<1>1. CASE ssd[tr[t].key] # NoValue
  <2>1. PICK x : x = ssd[tr[t].key]
    OBVIOUS
  <2>2. x \in Nat /\ x + Cardinality(Active) <= begun
    BY <1>0, <1>1, <2>1, Unmoved, Constants DEF Basics, BoundInv, Room, Embedding
  <2>3. PICK r : r = [pc |-> "tryinsert", key |-> tr[t].key, ptr |-> Len(val) + 1,
                      step |-> tr[t].step]
    OBVIOUS
  <2>4. tr' = [tr EXCEPT ![t] = r] /\ val' = Append(val, x)
    BY <1>0, <1>1, <2>1, <2>3 DEF SsdGet, Basics, TypeOK, TrainerType
  <2>5. /\ r \in TrainerType /\ r.pc = "tryinsert" /\ r.key = tr[t].key
        /\ r.ptr = Len(val) + 1
    BY <1>0, <2>3, Unmoved DEF TrainerType
  <2>6. Len(val') = Len(val) + 1
    BY <2>2, <2>4, Unmoved, AppendProperties
  <2>7. r.ptr <= Len(val') /\ r.ptr # NoPtr /\ \A k \in Keys : dram'[k] <= Len(val')
    <3>1. dram' = dram
      BY DEF SsdGet
    <3> QED BY <2>5, <2>6, <3>1, Unmoved, Constants
  <2>8. /\ UNCHANGED <<begun, dram, ssd, retiredVars, cacheVars, tasks, ev, saveVars,
                       up, truth, overtaken>>
    BY DEF SsdGet
  <2>9. /\ dram' \in [Keys -> Nat] /\ tasks' \in Seq(Ops \X Keys) /\ up' \in BOOLEAN
        /\ truth' \in [Keys -> Embedding]
        /\ overtaken' \in [Trainers \cup {Saver} -> OvertakenType]
    BY <2>8, Unmoved
  <2>10. \E y \in Nat : val' = Append(val, y) /\ y + Cardinality(Active) <= begun
    BY <2>2, <2>4
  <2> QED BY <1>0, <2>4, <2>5, <2>7, <2>8, <2>9, <2>10, StayBasics
<1>2. CASE ssd[tr[t].key] = NoValue
  <2>1. PICK pc \in {"forward_done", "create"} : Goto(t, pc) /\ val' = val
    BY <1>2 DEF SsdGet
  <2>2. /\ UNCHANGED <<begun, dram, ssd, retiredVars, cacheVars, tasks, ev, saveVars,
                       up, truth, overtaken>>
    BY DEF SsdGet
  <2>3. /\ dram' \in [Keys -> Nat] /\ tasks' \in Seq(Ops \X Keys) /\ up' \in BOOLEAN
        /\ truth' \in [Keys -> Embedding]
        /\ overtaken' \in [Trainers \cup {Saver} -> OvertakenType]
        /\ \A k \in Keys : dram'[k] <= Len(val')
    BY <2>1, <2>2, Unmoved
  <2>4. PICK r : r = MovedRecord(t, pc)
    OBVIOUS
  <2>5. /\ tr' = [tr EXCEPT ![t] = r] /\ r \in TrainerType
        /\ r.pc # "idle" /\ r.key = tr[t].key /\ r.ptr <= Len(val')
        /\ r.pc \in {"hold", "prefetched", "collected", "tryinsert"} => r.ptr # NoPtr
    BY <2>1, <2>4, GotoFacts
  <2> QED BY <1>0, <2>1, <2>2, <2>3, <2>5, StayBasics
<1> QED BY <1>1, <1>2
\* TryInsert
LEMMA TryInsertBasics ==
  ASSUME Basics, NEW t \in Trainers, TryInsert(t), torn' = torn \cup Torn
  PROVE  Basics'
<1>0. tr[t].pc # "idle" /\ tr[t].key \in Keys /\ tr[t] \in TrainerType
  BY TrainerKey DEF TryInsert, Basics
<1>1. /\ UNCHANGED <<begun, val, ssd, retiredVars, cacheVars, tasks, ev, saveVars, up,
                     truth>>
  BY DEF TryInsert
<1>2. /\ tasks' \in Seq(Ops \X Keys) /\ up' \in BOOLEAN /\ truth' \in [Keys -> Embedding]
  BY <1>1, Unmoved
<1>3. PICK p : p = tr[t].ptr
  OBVIOUS
<1>4. p \in Nat \ {0} /\ p <= Len(val)
  BY <1>0, <1>3, Constants DEF Basics, RangeInv, TryInsert, TrainerType
<1>5. CASE dram[tr[t].key] = NoPtr
  <2>1. dram' = [dram EXCEPT ![tr[t].key] = p] /\ Hold(t, p)
    BY <1>3, <1>5 DEF TryInsert
  <2>2. dram' \in [Keys -> Nat] /\ \A k \in Keys : dram'[k] <= Len(val')
    BY <1>1, <1>4, <2>1, Unmoved
  <2>3. PICK r : r = HeldRecord(t, p)
    OBVIOUS
  <2>4. /\ tr' = [tr EXCEPT ![t] = r] /\ r \in TrainerType
        /\ r.pc # "idle" /\ r.key = tr[t].key /\ r.ptr <= p
        /\ r.pc \in {"hold", "prefetched", "collected", "tryinsert"} => r.ptr # NoPtr
        /\ overtaken' \in [Trainers \cup {Saver} -> OvertakenType]
    BY <1>0, <1>4, <2>1, <2>3, HoldFacts
  <2>5. r.ptr <= Len(val')
    BY <1>1, <1>4, <2>4, Unmoved DEF TrainerType
  <2> QED BY <1>0, <1>1, <1>2, <2>2, <2>4, <2>5, StayBasics
<1>6. CASE dram[tr[t].key] # NoPtr
  <2>1. Goto(t, "reget") /\ UNCHANGED <<dram, overtaken>>
    BY <1>6 DEF TryInsert
  <2>2. PICK r : r = MovedRecord(t, "reget")
    OBVIOUS
  <2>3. /\ tr' = [tr EXCEPT ![t] = r] /\ r \in TrainerType
        /\ r.pc # "idle" /\ r.key = tr[t].key /\ r.ptr <= Len(val')
        /\ r.pc \in {"hold", "prefetched", "collected", "tryinsert"} => r.ptr # NoPtr
    BY <1>1, <2>1, <2>2, GotoFacts
  <2>4. /\ dram' \in [Keys -> Nat] /\ \A k \in Keys : dram'[k] <= Len(val')
        /\ overtaken' \in [Trainers \cup {Saver} -> OvertakenType]
    BY <1>1, <2>1, Unmoved
  <2> QED BY <1>0, <1>1, <1>2, <2>3, <2>4, StayBasics
<1> QED BY <1>5, <1>6

\* ReGet and ReLook find the key, or move on.
LEMMA FoundBasics ==
  ASSUME Basics, NEW t \in Trainers, tr[t].pc # "idle", torn' = torn \cup Torn,
         \/ dram[tr[t].key] # NoPtr /\ Hold(t, dram[tr[t].key])
         \/ (\E pc \in {"forward_done", "create"} : Goto(t, pc)) /\ UNCHANGED overtaken,
         UNCHANGED <<begun, storeVars, retiredVars, cacheVars, tasks, ev, saveVars, up,
                     truth>>
  PROVE  Basics'
<1>0. tr[t].key \in Keys /\ tr[t] \in TrainerType
  BY TrainerKey DEF Basics
<1>1. /\ tasks' \in Seq(Ops \X Keys) /\ up' \in BOOLEAN /\ truth' \in [Keys -> Embedding]
      /\ dram' \in [Keys -> Nat] /\ \A k \in Keys : dram'[k] <= Len(val')
      /\ val' = val /\ ssd' = ssd
  BY Unmoved DEF storeVars
<1>2. CASE dram[tr[t].key] # NoPtr /\ Hold(t, dram[tr[t].key])
  <2>1. PICK p : p = dram[tr[t].key]
    OBVIOUS
  <2>2. p \in Nat \ {0} /\ p <= Len(val) /\ Hold(t, p)
    BY <1>0, <1>2, <2>1, Unmoved, Constants
  <2>3. PICK r : r = HeldRecord(t, p)
    OBVIOUS
  <2>4. /\ tr' = [tr EXCEPT ![t] = r] /\ r \in TrainerType
        /\ r.pc # "idle" /\ r.key = tr[t].key /\ r.ptr <= p
        /\ r.pc \in {"hold", "prefetched", "collected", "tryinsert"} => r.ptr # NoPtr
        /\ overtaken' \in [Trainers \cup {Saver} -> OvertakenType]
    BY <2>2, <2>3, HoldFacts
  <2>5. r.ptr <= Len(val')
    BY <1>1, <2>2, <2>4, Unmoved DEF TrainerType
  <2> QED BY <1>1, <2>4, <2>5, StayBasics
<1>3. CASE (\E pc \in {"forward_done", "create"} : Goto(t, pc)) /\ UNCHANGED overtaken
  <2>1. PICK pc \in {"forward_done", "create"} : Goto(t, pc)
    BY <1>3
  <2>2. PICK r : r = MovedRecord(t, pc)
    OBVIOUS
  <2>3. /\ tr' = [tr EXCEPT ![t] = r] /\ r \in TrainerType
        /\ r.pc # "idle" /\ r.key = tr[t].key /\ r.ptr <= Len(val')
        /\ r.pc \in {"hold", "prefetched", "collected", "tryinsert"} => r.ptr # NoPtr
    BY <1>1, <2>1, <2>2, GotoFacts
  <2>4. overtaken' \in [Trainers \cup {Saver} -> OvertakenType]
    BY <1>3, Unmoved
  <2> QED BY <1>1, <2>3, <2>4, StayBasics
<1> QED BY <1>2, <1>3

LEMMA ReGetBasics ==
  ASSUME Basics, NEW t \in Trainers, ReGet(t), torn' = torn \cup Torn
  PROVE  Basics'
<1>1. /\ UNCHANGED <<begun, storeVars, retiredVars, cacheVars, tasks, ev, saveVars, truth>>
      /\ tr[t].pc # "idle"
  BY DEF ReGet
<1>2. CASE dram[tr[t].key] # NoPtr
  BY <1>1, <1>2, FoundBasics DEF ReGet
<1>3. CASE dram[tr[t].key] = NoPtr /\ tr[t].step = "lookup"
  BY <1>1, <1>3, FoundBasics DEF ReGet
<1>4. CASE dram[tr[t].key] = NoPtr /\ tr[t].step # "lookup"
  <2>1. up' = FALSE /\ UNCHANGED <<tr, overtaken>>
    BY <1>4 DEF ReGet
  <2>2. TypeOK'
    BY <1>1, <2>1 DEF storeVars, retiredVars, cacheVars, saveVars, Basics, TypeOK, Torn
  <2>3. ThreadInv' /\ RangeInv'
    BY <1>1, <2>1 DEF storeVars, saveVars, Basics, ThreadInv, RangeInv, Using
  <2>4. BoundInv'
    BY <1>1, <2>1, ActiveSame DEF storeVars, saveVars, Basics, BoundInv, Room
  <2> QED BY <2>2, <2>3, <2>4 DEF Basics
<1> QED BY <1>2, <1>3, <1>4

LEMMA ReLookBasics ==
  ASSUME Basics, NEW t \in Trainers, ReLook(t), torn' = torn \cup Torn
  PROVE  Basics'
<1>1. /\ UNCHANGED <<begun, storeVars, retiredVars, cacheVars, tasks, ev, saveVars, up, truth>>
      /\ tr[t].pc # "idle"
  BY DEF ReLook
<1>2. CASE dram[tr[t].key] # NoPtr
  BY <1>1, <1>2, FoundBasics DEF ReLook
<1>3. CASE dram[tr[t].key] = NoPtr
  BY <1>1, <1>3, FoundBasics DEF ReLook
<1> QED BY <1>2, <1>3

LEMMA CreateBasics ==
  ASSUME Basics, NEW t \in Trainers, Create(t), torn' = torn \cup Torn
  PROVE  Basics'
<1>0. tr[t].pc # "idle" /\ tr[t].key \in Keys /\ tr[t] \in TrainerType
  BY TrainerKey DEF Create, Basics
<1>1. UNCHANGED <<begun, ssd, retiredVars, cacheVars, tasks, ev, saveVars, up>>
  BY DEF Create
<1>2. tasks' \in Seq(Ops \X Keys) /\ up' \in BOOLEAN
  BY <1>1, Unmoved
<1>3. CASE dram[tr[t].key] = NoPtr
  <2>1. PICK p : p = Len(val) + 1
    OBVIOUS
  <2>2. /\ val' = Append(val, 0) /\ dram' = [dram EXCEPT ![tr[t].key] = p]
        /\ Hold(t, p) /\ truth' = [truth EXCEPT ![tr[t].key] = 0]
    BY <1>3, <2>1 DEF Create
  <2>3. p \in Nat \ {0} /\ Len(val') = p /\ Len(val) < p
    BY <2>1, <2>2, Unmoved, AppendProperties
  <2>4. /\ dram' \in [Keys -> Nat] /\ \A k \in Keys : dram'[k] <= Len(val')
    <3>1. dram' \in [Keys -> Nat]
      BY <2>2, <2>3, Unmoved
    <3>2. ASSUME NEW k \in Keys PROVE dram'[k] <= p
      <4>1. dram[k] \in Nat /\ dram[k] <= Len(val) /\ Len(val) \in Nat
        BY Unmoved
      <4>2. dram'[k] = IF k = tr[t].key THEN p ELSE dram[k]
        BY <2>2, Unmoved
      <4> QED BY <2>3, <4>1, <4>2
    <3> QED BY <2>3, <3>1, <3>2
  <2>5. PICK r : r = HeldRecord(t, p)
    OBVIOUS
  <2>6. /\ tr' = [tr EXCEPT ![t] = r] /\ r \in TrainerType
        /\ r.pc # "idle" /\ r.key = tr[t].key /\ r.ptr <= p
        /\ r.pc \in {"hold", "prefetched", "collected", "tryinsert"} => r.ptr # NoPtr
        /\ overtaken' \in [Trainers \cup {Saver} -> OvertakenType]
    BY <1>0, <2>2, <2>3, <2>5, HoldFacts
  <2>7. truth' \in [Keys -> Embedding]
    <3>1. 0 \in Embedding
      BY Constants DEF Embedding
    <3> QED BY <2>2, <3>1, Unmoved
  <2>8. \E x \in Nat : val' = Append(val, x) /\ x + Cardinality(Active) <= begun
    <3>1. 0 + Cardinality(Active) <= begun
      BY ValBound DEF Basics, BoundInv
    <3> QED BY <2>2, <3>1
  <2>9. r.ptr <= Len(val')
    BY <2>3, <2>6
  <2> QED BY <1>0, <1>1, <1>2, <2>4, <2>6, <2>7, <2>8, <2>9, StayBasics
<1>4. CASE dram[tr[t].key] # NoPtr
  <2>1. Goto(t, "relook") /\ UNCHANGED <<val, dram, overtaken, truth>>
    BY <1>4 DEF Create
  <2>2. PICK r : r = MovedRecord(t, "relook")
    OBVIOUS
  <2>3. /\ tr' = [tr EXCEPT ![t] = r] /\ r \in TrainerType
        /\ r.pc # "idle" /\ r.key = tr[t].key /\ r.ptr <= Len(val')
        /\ r.pc \in {"hold", "prefetched", "collected", "tryinsert"} => r.ptr # NoPtr
    BY <2>1, <2>2, GotoFacts
  <2>4. /\ dram' \in [Keys -> Nat] /\ \A k \in Keys : dram'[k] <= Len(val')
        /\ overtaken' \in [Trainers \cup {Saver} -> OvertakenType]
        /\ truth' \in [Keys -> Embedding]
    BY <2>1, Unmoved
  <2> QED BY <1>0, <1>1, <1>2, <2>1, <2>3, <2>4, StayBasics
<1> QED BY <1>3, <1>4
\* The gradient is written: one update more, one active trainer less.
LEMMA WriteBasics ==
  ASSUME Basics, NEW t \in Trainers, Using(t), Write(t), torn' = torn \cup Torn,
         tasks' \in Seq(Ops \X Keys),
         UNCHANGED <<begun, dram, ssd, retiredVars, cacheVars, ev, saveVars, up>>
  PROVE  Basics'
<1>0. tr[t].pc # "idle" /\ tr[t].key \in Keys /\ tr[t] \in TrainerType
  BY TrainerKey DEF Using, Basics
<1>1. PICK p : p = tr[t].ptr
  OBVIOUS
<1>2. p \in 1..Len(val) /\ Len(val) \in Nat /\ val \in Seq(Nat)
  BY <1>0, <1>1, Constants, Unmoved DEF Basics, RangeInv, TrainerType
<1>3. val[p] \in Nat /\ val[p] + 1 \in Nat
  BY <1>2, ElementOfSeq
<1>4. val' = [val EXCEPT ![p] = val[p] + 1] /\ tr' = [tr EXCEPT ![t] = Idle]
  BY <1>1 DEF Write
<1>5. /\ val' \in Seq(Nat) /\ Len(val') = Len(val)
      /\ \A i \in 1..Len(val) : val'[i] = IF i = p THEN val[p] + 1 ELSE val[i]
  BY <1>2, <1>3, <1>4, ExceptSeq
<1>6. /\ Idle \in TrainerType /\ Idle.pc = "idle" /\ Idle.key = NoKey /\ Idle.ptr = 0
  BY Constants DEF Idle, TrainerType
<1>7. ThreadInv' /\ RangeInv'
  <2>1. \A k \in Keys : dram'[k] <= Len(val')
    BY <1>5, Unmoved
  <2>2. /\ Len(val') \in Nat /\ Len(val) <= Len(val') /\ Idle.ptr <= Len(val')
        /\ Idle.pc = "idle" <=> Idle.key = NoKey
        /\ Idle.pc \in {"hold", "prefetched", "collected", "tryinsert"} => Idle.ptr # NoPtr
        /\ UNCHANGED <<ev, sv>>
    BY <1>2, <1>5, <1>6 DEF saveVars
  <2> QED BY <1>4, <1>6, <2>1, <2>2, TrainerRanges
<1>8. TypeOK'
  <2>1. overtaken' \in [Trainers \cup {Saver} -> OvertakenType]
    BY DEF Write, Basics, TypeOK, JustTaken, OvertakenType
  <2>2. truth' \in [Keys -> Embedding]
    <3>1. PICK x : x = IF truth[tr[t].key] = NoValue THEN truth[tr[t].key]
                       ELSE truth[tr[t].key] + 1
      OBVIOUS
    <3>2. x \in Embedding
      <4>1. PICK y \in Embedding : y = truth[tr[t].key]
        BY <1>0, Unmoved
      <4> QED BY <3>1, <4>1, Constants DEF Embedding
    <3>3. truth' = [truth EXCEPT ![tr[t].key] = x]
      BY <3>1 DEF Write
    <3> QED BY <3>2, <3>3, Unmoved
  <2>3. dram' \in [Keys -> Nat] /\ up' \in BOOLEAN /\ begun' \in 0..MaxSteps
    BY Unmoved DEF Basics, TypeOK
  <2> QED BY <1>4, <1>5, <1>6, <2>1, <2>2, <2>3, TrainerTypes DEF Basics
<1>9. BoundInv'
  <2>1. /\ Cardinality(Active) \in Nat /\ Cardinality(Active') \in Nat
        /\ Cardinality(Active') = Cardinality(Active)
             + (IF Idle.pc # "idle" THEN 1 ELSE 0) - (IF tr[t].pc # "idle" THEN 1 ELSE 0)
    BY <1>4, ActiveMove DEF Basics
  <2>2. /\ begun \in Nat /\ begun' = begun
        /\ Cardinality(Active') = Cardinality(Active) - 1
    BY <1>0, <1>6, <2>1, ValBound DEF Basics
  <2>3. \A i \in 1..Len(val) :
          val[i] \in Nat /\ val[i] + Cardinality(Active) <= begun
    BY <1>2, ElementOfSeq DEF Basics, BoundInv, Room
  <2>4. ASSUME NEW i \in 1..Len(val)
        PROVE  val'[i] \in Nat /\ val'[i] + Cardinality(Active') <= begun'
    <3>1. CASE i = p
      <4>1. val'[i] = val[p] + 1 /\ val[p] + Cardinality(Active) <= begun
        BY <1>2, <1>5, <2>3, <3>1
      <4>2. PICK a \in Nat : a = Cardinality(Active)
        BY <2>1
      <4>3. PICK b \in Nat : b = Cardinality(Active')
        BY <2>1
      <4>4. PICK v \in Nat : v = val[p]
        BY <1>3
      <4>5. PICK w : w = val'[i]
        OBVIOUS
      <4>6. b = a - 1 /\ w = v + 1 /\ v + a <= begun /\ begun \in Nat
        BY <2>2, <4>1, <4>2, <4>3, <4>4, <4>5
      <4>7. w \in Nat /\ w + b <= begun
        BY ONLY SMTT(60), <4>2, <4>3, <4>4, <4>6
      <4> QED BY <2>2, <4>3, <4>5, <4>7
    <3>2. CASE i # p
      <4>1. /\ val'[i] = val[i] /\ val[i] \in Nat
            /\ val[i] + Cardinality(Active) <= begun
        BY <1>5, <2>3, <3>2
      <4> QED BY <2>1, <2>2, <4>1
    <3> QED BY <3>1, <3>2
  <2>5. UNCHANGED <<ssd, sv>>
    BY DEF saveVars
  <2>6. /\ begun' \in Nat /\ begun <= begun'
        /\ Cardinality(Active') - Cardinality(Active) <= begun' - begun
    BY <2>1, <2>2
  <2> QED BY <1>5, <2>1, <2>4, <2>5, <2>6, BoundFrame
<1> QED BY <1>7, <1>8, <1>9 DEF Basics

\* A task is scheduled.
LEMMA ScheduleTask ==
  ASSUME Basics, NEW op \in Ops, NEW k \in Keys
  PROVE  Append(tasks, <<op, k>>) \in Seq(Ops \X Keys)
<1>1. <<op, k>> \in Ops \X Keys
  OBVIOUS
<1> QED BY <1>1, Unmoved, AppendProperties

LEMMA ApplyBasics ==
  ASSUME Basics, NEW t \in Trainers, Apply(t) \/ ApplyPointer(t), torn' = torn \cup Torn
  PROVE  Basics'
<1>0. Using(t) /\ tr[t].pc # "idle" /\ tr[t].key \in Keys
  BY TrainerKey DEF Using, Basics, Apply, ApplyPointer
<1>1. tasks' \in Seq(Ops \X Keys)
  <2>1. CASE Apply(t)
    BY <1>0, <2>1, ScheduleTask DEF Apply, Ops
  <2>2. CASE ApplyPointer(t)
    BY <2>2, Unmoved DEF ApplyPointer
  <2> QED BY <2>1, <2>2
<1>2. /\ Write(t)
      /\ UNCHANGED <<begun, dram, ssd, retiredVars, cacheVars, ev, saveVars, up>>
  BY DEF Apply, ApplyPointer
<1> QED BY <1>0, <1>1, <1>2, WriteBasics

LEMMA PrefetchBasics ==
  ASSUME Basics, NEW t \in Trainers, LookupID(t) \/ Collect(t), torn' = torn \cup Torn
  PROVE  Basics'
<1>0. Using(t) /\ tr[t].pc # "idle" /\ tr[t].key \in Keys
  BY TrainerKey DEF Using, Basics, LookupID, Collect
<1>1. PICK op \in Ops, pc \in {"prefetched", "collected"} :
        Goto(t, pc) /\ tasks' = Append(tasks, <<op, tr[t].key>>)
  BY DEF LookupID, Collect, Ops
<1>2. /\ UNCHANGED <<begun, dram, val, ssd, retiredVars, cacheVars, ev, saveVars, up,
                     truth, overtaken>>
  BY DEF LookupID, Collect, storeVars, historyVars
<1>3. PICK r : r = MovedRecord(t, pc)
  OBVIOUS
<1>4. /\ tr' = [tr EXCEPT ![t] = r] /\ r \in TrainerType
      /\ r.pc # "idle" /\ r.key = tr[t].key /\ r.ptr <= Len(val')
      /\ r.pc \in {"hold", "prefetched", "collected", "tryinsert"} => r.ptr # NoPtr
  BY <1>0, <1>1, <1>2, <1>3, GotoFacts
<1>5. /\ dram' \in [Keys -> Nat] /\ \A k \in Keys : dram'[k] <= Len(val')
      /\ overtaken' \in [Trainers \cup {Saver} -> OvertakenType]
      /\ truth' \in [Keys -> Embedding] /\ up' \in BOOLEAN
  BY <1>2, Unmoved
<1>6. tasks' \in Seq(Ops \X Keys)
  BY <1>0, <1>1, ScheduleTask
<1> QED BY <1>0, <1>2, <1>4, <1>5, <1>6, StayBasics

-----------------------------------------------------------------------------
(* Basics: the other threads.                                              *)

\* A step that moves no trainer and makes no embedding.
LEMMA OtherBasics ==
  ASSUME Basics, UNCHANGED <<val, tr, begun>>,
         tasks' \in Seq(Ops \X Keys), lru' \in Seq(Keys),
         prefetch_id_table' \in [Keys -> Nat],
         dram' \in [Keys -> Nat], \A k \in Keys : dram'[k] <= Len(val),
         ssd' \in [Keys -> Embedding],
         \A k \in Keys : ssd'[k] # NoValue => ssd'[k] + Cardinality(Active) <= begun,
         value_ptr_out_of_date_' \in Seq(Nat), to_delete_' \in SUBSET Nat,
         ev' \in EvictorType, ev'.pc = "idle" <=> ev'.ids = <<>>,
         sv' \in SaverType, \A k \in Keys : sv'.ptrs[k] <= Len(val),
         \A k \in Keys : /\ sv'.dram[k] # NoValue => sv'.dram[k] <= begun
                         /\ sv'.ssd[k] # NoValue => sv'.ssd[k] <= begun,
         up' \in BOOLEAN, truth' \in [Keys -> Embedding],
         overtaken' \in [Trainers \cup {Saver} -> OvertakenType],
         torn' = torn \cup Torn
  PROVE  Basics'
<1>0. UNCHANGED <<val, tr, begun>>
  OBVIOUS
<1>1. TypeOK'
  BY <1>0 DEF Basics, TypeOK, Torn
<1>2. ThreadInv'
  BY <1>0 DEF Basics, ThreadInv
<1>3. RangeInv'
  BY <1>0 DEF Basics, RangeInv, Using
<1>4. BoundInv'
  BY <1>0, ActiveSame DEF Basics, BoundInv, Room
<1> QED BY <1>1, <1>2, <1>3, <1>4 DEF Basics
LEMMA OtherTypes ==
  ASSUME Basics
  PROVE  /\ tasks \in Seq(Ops \X Keys) /\ lru \in Seq(Keys)
         /\ prefetch_id_table \in [Keys -> Nat]
         /\ dram \in [Keys -> Nat] /\ \A k \in Keys : dram[k] <= Len(val)
         /\ ssd \in [Keys -> Embedding]
         /\ \A k \in Keys : ssd[k] # NoValue => ssd[k] + Cardinality(Active) <= begun
         /\ value_ptr_out_of_date_ \in Seq(Nat) /\ to_delete_ \in SUBSET Nat
         /\ ev \in EvictorType /\ (ev.pc = "idle" <=> ev.ids = <<>>)
         /\ sv \in SaverType /\ \A k \in Keys : sv.ptrs[k] <= Len(val)
         /\ \A k \in Keys : /\ sv.dram[k] # NoValue => sv.dram[k] <= begun
                            /\ sv.ssd[k] # NoValue => sv.ssd[k] <= begun
         /\ up \in BOOLEAN /\ truth \in [Keys -> Embedding]
         /\ overtaken \in [Trainers \cup {Saver} -> OvertakenType]
<1>1. TypeOK /\ ThreadInv /\ RangeInv /\ BoundInv
  BY DEF Basics
<1>2. \A k \in Keys : dram[k] <= Len(val) /\ sv.ptrs[k] <= Len(val)
  BY <1>1 DEF RangeInv
<1>3. ev.pc = "idle" <=> ev.ids = <<>>
  BY <1>1 DEF ThreadInv
<1>4. /\ \A k \in Keys : ssd[k] # NoValue => ssd[k] + Cardinality(Active) <= begun
      /\ \A k \in Keys : /\ sv.dram[k] # NoValue => sv.dram[k] <= begun
                         /\ sv.ssd[k] # NoValue => sv.ssd[k] <= begun
  BY <1>1 DEF BoundInv, Room
<1> QED BY <1>1, <1>2, <1>3, <1>4 DEF TypeOK

\* RunTask: what it does to the cache, for each operation.
LEMMA RunTaskCache ==
  ASSUME Basics, NEW i \in 1..Len(tasks), RunTask(i)
  PROVE  /\ tasks[i][1] \in Ops /\ tasks[i][2] \in Keys
         /\ lru' \in Seq(Keys) /\ prefetch_id_table' \in [Keys -> Nat]
         /\ up' \in BOOLEAN
         /\ tasks' \in Seq(Ops \X Keys)
<1>1. tasks \in Seq(Ops \X Keys) /\ Len(tasks) \in Nat
  BY OtherTypes, LenProperties
<1>2. PICK k : k = tasks[i][2]
  OBVIOUS
<1>3. tasks[i][1] \in Ops /\ k \in Keys
  <2>1. tasks[i] \in Ops \X Keys
    BY <1>1, ElementOfSeq
  <2> QED BY <1>2, <2>1
<1>4. tasks' \in Seq(Ops \X Keys)
  BY <1>1, RemoveAtProperties DEF RunTask
<1>5. /\ lru \in Seq(Keys) /\ prefetch_id_table \in [Keys -> Nat] /\ up \in BOOLEAN
      /\ Touched(k) \in Seq(Keys) /\ Unlinked(k) \in Seq(Keys)
  BY <1>3, OtherTypes, TouchedProperties, UnlinkedProperties
<1>6. CASE tasks[i][1] = "update"
  <2>1. update(k) /\ up' = up
    BY <1>2, <1>6 DEF RunTask
  <2> QED BY <1>2, <1>3, <1>4, <1>5, <2>1 DEF update
<1>7. CASE tasks[i][1] = "prefetch"
  <2>1. add_to_prefetch_list(k) /\ up' = up
    BY <1>2, <1>7 DEF RunTask
  <2>2. lru' \in Seq(Keys) /\ prefetch_id_table' \in [Keys -> Nat]
    BY <1>3, <1>5, <2>1 DEF add_to_prefetch_list
  <2> QED BY <1>2, <1>3, <1>4, <1>5, <2>1, <2>2
<1>8. CASE tasks[i][1] = "add" /\ IsPrefetched(k)
  <2>1. add_to_cache(k) /\ up' = IsPrefetched(k)
    BY <1>2, <1>8 DEF RunTask
  <2>2. lru' \in Seq(Keys)
    BY <1>5, <2>1 DEF add_to_cache
  <2>3. prefetch_id_table' \in [Keys -> Nat]
    <3>1. prefetch_id_table[k] - 1 \in Nat
      BY <1>3, <1>5, <1>8 DEF IsPrefetched
    <3> QED BY <1>3, <1>5, <2>1, <3>1 DEF add_to_cache
  <2>4. up' \in BOOLEAN
    BY <1>8, <2>1
  <2> QED BY <1>2, <1>3, <1>4, <2>2, <2>3, <2>4
<1>9. CASE tasks[i][1] = "add" /\ ~IsPrefetched(k)
  <2>1. UNCHANGED cacheVars /\ up' = IsPrefetched(k)
    BY <1>2, <1>9 DEF RunTask
  <2>2. IsPrefetched(k) = FALSE
    BY <1>9 DEF IsPrefetched
  <2> QED BY <1>2, <1>3, <1>4, <1>5, <2>1, <2>2 DEF cacheVars
<1> QED BY <1>3, <1>6, <1>7, <1>8, <1>9 DEF Ops

LEMMA RunTaskBasics ==
  ASSUME Basics, NEW i \in 1..Len(tasks), RunTask(i), torn' = torn \cup Torn
  PROVE  Basics'
<1>1. UNCHANGED <<val, tr, begun, dram, ssd, value_ptr_out_of_date_, to_delete_, ev, sv,
                  truth, overtaken>>
  BY DEF RunTask, storeVars, retiredVars, saveVars, historyVars
<1>2. /\ lru' \in Seq(Keys) /\ prefetch_id_table' \in [Keys -> Nat]
      /\ up' \in BOOLEAN /\ tasks' \in Seq(Ops \X Keys)
  BY RunTaskCache
<1>3. /\ dram' \in [Keys -> Nat] /\ \A k \in Keys : dram'[k] <= Len(val)
      /\ ssd' \in [Keys -> Embedding]
      /\ \A k \in Keys : ssd'[k] # NoValue => ssd'[k] + Cardinality(Active) <= begun
      /\ value_ptr_out_of_date_' \in Seq(Nat) /\ to_delete_' \in SUBSET Nat
      /\ ev' \in EvictorType /\ (ev'.pc = "idle" <=> ev'.ids = <<>>)
      /\ sv' \in SaverType /\ \A k \in Keys : sv'.ptrs[k] <= Len(val)
      /\ \A k \in Keys : /\ sv'.dram[k] # NoValue => sv'.dram[k] <= begun
                         /\ sv'.ssd[k] # NoValue => sv'.ssd[k] <= begun
      /\ truth' \in [Keys -> Embedding]
      /\ overtaken' \in [Trainers \cup {Saver} -> OvertakenType]
  BY <1>1, OtherTypes
<1> QED BY <1>1, <1>2, <1>3, OtherBasics

\* What an eviction or a shrink does to the history.
LEMMA OvertakeTypes ==
  ASSUME Basics,
         \/ Overtake(LAMBDA o : [o EXCEPT !.late = @ \/ o.evictions > CapInvalid])
         \/ Overtake(LAMBDA o : [o EXCEPT !.evictions = @ + 1])
         \/ Overtake(LAMBDA o : [o EXCEPT !.shrinks = @ + 1])
  PROVE  overtaken' \in [Trainers \cup {Saver} -> OvertakenType]
<1>0. /\ overtaken \in [Trainers \cup {Saver} -> OvertakenType] /\ JustTaken \in OvertakenType
      /\ CapInvalid \in Nat
  BY OtherTypes, Constants DEF JustTaken, OvertakenType
<1>1. ASSUME NEW o \in OvertakenType
      PROVE  [o EXCEPT !.late = o.late \/ o.evictions > CapInvalid] \in OvertakenType
  <2>1. PICK b \in BOOLEAN : b = (o.late \/ o.evictions > CapInvalid)
    BY Zenon
  <2>2. [o EXCEPT !.late = b] \in OvertakenType
    BY <2>1 DEF OvertakenType
  <2> QED BY <2>1, <2>2
<1>2. ASSUME NEW o \in OvertakenType
      PROVE  [o EXCEPT !.evictions = o.evictions + 1] \in OvertakenType
  BY DEF OvertakenType
<1>3. ASSUME NEW o \in OvertakenType
      PROVE  [o EXCEPT !.shrinks = o.shrinks + 1] \in OvertakenType
  BY DEF OvertakenType
<1>4. CASE Overtake(LAMBDA o : [o EXCEPT !.late = @ \/ o.evictions > CapInvalid])
  BY <1>0, <1>1, <1>4 DEF Overtake
<1>5. CASE Overtake(LAMBDA o : [o EXCEPT !.evictions = @ + 1])
  BY <1>0, <1>2, <1>5 DEF Overtake
<1>6. CASE Overtake(LAMBDA o : [o EXCEPT !.shrinks = @ + 1])
  BY <1>0, <1>3, <1>6 DEF Overtake
<1> QED BY <1>4, <1>5, <1>6

LEMMA BatchEvictionBasics ==
  ASSUME Basics, BatchEviction, torn' = torn \cup Torn
  PROVE  Basics'
<1>1. UNCHANGED <<val, tr, begun, dram, ssd, value_ptr_out_of_date_, to_delete_, sv,
                  tasks, up, truth, overtaken, prefetch_id_table>>
  BY DEF BatchEviction, storeVars, retiredVars, saveVars, historyVars, get_evic_ids
<1>2. PICK n : n = Len(lru) - CacheCapacity
  OBVIOUS
<1>3. n \in 1..Len(lru)
  <2>1. Len(lru) \in Nat
    BY OtherTypes, LenProperties
  <2> QED BY <1>2, <2>1, Constants DEF BatchEviction
<1>4. /\ ev' = [pc |-> "chosen", ids |-> EvicIds(n)]
      /\ lru' = SubSeq(lru, 1, Len(lru) - n)
  BY <1>2 DEF BatchEviction, get_evic_ids
<1>5. /\ EvicIds(n) \in Seq(Keys) /\ EvicIds(n) # <<>>
      /\ SubSeq(lru, 1, Len(lru) - n) \in Seq(Keys)
  BY <1>3, OtherTypes, EvicIdsProperties
<1>6. /\ lru' \in Seq(Keys) /\ ev' \in EvictorType
      /\ ev'.pc = "idle" <=> ev'.ids = <<>>
  BY <1>4, <1>5 DEF EvictorType
<1>7. /\ dram' \in [Keys -> Nat] /\ \A k \in Keys : dram'[k] <= Len(val)
      /\ ssd' \in [Keys -> Embedding]
      /\ \A k \in Keys : ssd'[k] # NoValue => ssd'[k] + Cardinality(Active) <= begun
      /\ value_ptr_out_of_date_' \in Seq(Nat) /\ to_delete_' \in SUBSET Nat
      /\ sv' \in SaverType /\ \A k \in Keys : sv'.ptrs[k] <= Len(val)
      /\ \A k \in Keys : /\ sv'.dram[k] # NoValue => sv'.dram[k] <= begun
                         /\ sv'.ssd[k] # NoValue => sv'.ssd[k] <= begun
      /\ tasks' \in Seq(Ops \X Keys) /\ prefetch_id_table' \in [Keys -> Nat]
      /\ up' \in BOOLEAN /\ truth' \in [Keys -> Embedding]
      /\ overtaken' \in [Trainers \cup {Saver} -> OvertakenType]
  BY <1>1, OtherTypes
<1> QED BY <1>1, <1>6, <1>7, OtherBasics

LEMMA StillKeptType ==
  ASSUME Basics
  PROVE  StillKept \in Seq(Nat)
<1>1. PICK s : s = value_ptr_out_of_date_
  OBVIOUS
<1>2. s \in Seq(Nat) /\ Len(s) \in Nat /\ CapInvalid \in Nat
  BY <1>1, OtherTypes, LenProperties, Constants
<1>3. CASE Len(s) > CapInvalid
  <2>1. \A i \in (Len(s) - CapInvalid + 1)..Len(s) : s[i] \in Nat
    BY <1>2, <1>3, ElementOfSeq
  <2>2. SubSeq(s, Len(s) - CapInvalid + 1, Len(s)) \in Seq(Nat)
    BY <1>2, <2>1, SubSeqProperties
  <2> QED BY <1>1, <1>3, <2>2 DEF StillKept
<1>4. CASE ~(Len(s) > CapInvalid)
  BY <1>1, <1>2, <1>4 DEF StillKept
<1> QED BY <1>3, <1>4

LEMMA EvictionBeginBasics ==
  ASSUME Basics, EvictionBegin, torn' = torn \cup Torn
  PROVE  Basics'
<1>1. UNCHANGED <<val, tr, begun, dram, ssd, to_delete_, sv, lru, prefetch_id_table,
                  tasks, up, truth>>
  BY DEF EvictionBegin, storeVars, cacheVars, saveVars
<1>2. value_ptr_out_of_date_' \in Seq(Nat)
  BY StillKeptType DEF EvictionBegin
<1>3. ev' \in EvictorType /\ (ev'.pc = "idle" <=> ev'.ids = <<>>)
  <2>1. ev \in EvictorType /\ ev.ids # <<>> /\ ev' = [ev EXCEPT !.pc = "next"]
    BY OtherTypes DEF EvictionBegin
  <2> QED BY <2>1 DEF EvictorType
<1>4. overtaken' \in [Trainers \cup {Saver} -> OvertakenType]
  BY OvertakeTypes DEF EvictionBegin
<1>5. /\ dram' \in [Keys -> Nat] /\ \A k \in Keys : dram'[k] <= Len(val)
      /\ ssd' \in [Keys -> Embedding]
      /\ \A k \in Keys : ssd'[k] # NoValue => ssd'[k] + Cardinality(Active) <= begun
      /\ to_delete_' \in SUBSET Nat
      /\ sv' \in SaverType /\ \A k \in Keys : sv'.ptrs[k] <= Len(val)
      /\ \A k \in Keys : /\ sv'.dram[k] # NoValue => sv'.dram[k] <= begun
                         /\ sv'.ssd[k] # NoValue => sv'.ssd[k] <= begun
      /\ tasks' \in Seq(Ops \X Keys) /\ prefetch_id_table' \in [Keys -> Nat]
      /\ up' \in BOOLEAN /\ truth' \in [Keys -> Embedding] /\ lru' \in Seq(Keys)
  BY <1>1, OtherTypes
<1> QED BY <1>1, <1>2, <1>3, <1>4, <1>5, OtherBasics

\* The evicting thread goes on to the next key and forgets only the one it did.
LEMMA NextIdFacts ==
  ASSUME Basics, ev.pc # "idle"
  PROVE  /\ Head(ev.ids) \in Keys
         /\ NextId \in EvictorType /\ (NextId.pc = "idle" <=> NextId.ids = <<>>)
         /\ NextId.pc # "remove"
         /\ \A k \in Keys \ {Head(ev.ids)} :
              Contains(ev.ids, k) => Contains(NextId.ids, k)
<1>1. PICK s : s = ev.ids
  OBVIOUS
<1>2. s \in Seq(Keys) /\ s # <<>> /\ Len(s) \in Nat
  BY <1>1, OtherTypes, LenProperties DEF EvictorType
<1>3. /\ Head(s) \in Keys /\ Head(s) = s[1]
      /\ Tail(s) \in Seq(Keys) /\ Len(Tail(s)) = Len(s) - 1
      /\ \A i \in 1..Len(Tail(s)) : Tail(s)[i] = s[i + 1]
  BY <1>2, HeadTailProperties
<1>4. Len(s) # 0
  BY <1>2, EmptySeq
<1>5. CASE Len(s) = 1
  <2>1. NextId = [pc |-> "idle", ids |-> <<>>]
    BY <1>1, <1>5 DEF NextId, Resting
  <2>2. ASSUME NEW k \in Keys, Contains(s, k) PROVE k = Head(s)
    BY <1>3, <1>5, <2>2 DEF Contains
  <2>3. <<>> \in Seq(Keys)
    OBVIOUS
  <2>4. NextId \in EvictorType /\ NextId.pc = "idle" /\ NextId.ids = <<>>
    BY <2>1, <2>3 DEF EvictorType
  <2> QED BY <1>1, <1>3, <2>2, <2>4
<1>6. CASE Len(s) # 1
  <2>1. NextId = [pc |-> "next", ids |-> Tail(s)]
    BY <1>1, <1>6 DEF NextId
  <2>2. NextId \in EvictorType /\ NextId.pc = "next" /\ NextId.ids = Tail(s)
    BY <1>3, <2>1 DEF EvictorType
  <2>3. Tail(s) # <<>>
    <3>1. Len(Tail(s)) # 0
      BY <1>2, <1>3, <1>4, <1>6
    <3> QED BY <3>1, EmptySeq
  <2>4. ASSUME NEW k \in Keys, k # Head(s), Contains(s, k) PROVE Contains(Tail(s), k)
    <3>1. PICK i \in 1..Len(s) : s[i] = k
      BY <2>4 DEF Contains
    <3>2. i # 1
      BY <1>3, <2>4, <3>1
    <3>3. i - 1 \in 1..Len(Tail(s)) /\ (i - 1) + 1 = i
      BY <1>2, <1>3, <3>2
    <3>4. Tail(s)[i - 1] = k
      BY <1>3, <3>1, <3>3
    <3> QED BY <3>3, <3>4 DEF Contains
  <2> QED BY <1>1, <1>3, <2>2, <2>3, <2>4
<1> QED BY <1>5, <1>6

LEMMA EvictionCommitBasics ==
  ASSUME Basics, EvictionCommit, torn' = torn \cup Torn
  PROVE  Basics'
<1>1. UNCHANGED <<val, tr, begun, dram, value_ptr_out_of_date_, to_delete_, sv, lru,
                  prefetch_id_table, tasks, up, truth, overtaken>>
  BY DEF EvictionCommit, retiredVars, cacheVars, saveVars, historyVars
<1>2. PICK k : k = Head(ev.ids)
  OBVIOUS
<1>3. k \in Keys /\ ev.pc = "next" /\ ev.ids # <<>> /\ ev \in EvictorType
  BY <1>2, NextIdFacts, OtherTypes DEF EvictionCommit
<1>4. ev' \in EvictorType /\ (ev'.pc = "idle" <=> ev'.ids = <<>>)
  <2>1. CASE dram[k] # NoPtr
    <3>1. ev' = [ev EXCEPT !.pc = "remove"]
      BY <1>2, <2>1 DEF EvictionCommit
    <3> QED BY <1>3, <3>1 DEF EvictorType
  <2>2. CASE dram[k] = NoPtr
    BY <1>2, <1>3, <2>2, NextIdFacts DEF EvictionCommit
  <2> QED BY <2>1, <2>2
<1>5. /\ ssd' \in [Keys -> Embedding]
      /\ \A j \in Keys : ssd'[j] # NoValue => ssd'[j] + Cardinality(Active) <= begun
  <2>1. CASE dram[k] # NoPtr
    <3>1. PICK v : v = val[dram[k]]
      OBVIOUS
    <3>2. dram[k] \in 1..Len(val)
      BY <1>3, <2>1, OtherTypes, Constants, Unmoved
    <3>3. v \in Embedding /\ v + Cardinality(Active) <= begun
      BY <3>1, <3>2, ValBound DEF Basics, BoundInv, Room
    <3>4. ssd' = [ssd EXCEPT ![k] = v]
      BY <1>2, <2>1, <3>1 DEF EvictionCommit
    <3>5. \A j \in Keys : ssd'[j] = IF j = k THEN v ELSE ssd[j]
      BY <3>4, OtherTypes
    <3>6. ssd' \in [Keys -> Embedding]
      BY <3>3, <3>4, OtherTypes
    <3> QED BY <3>3, <3>5, <3>6, OtherTypes
  <2>2. CASE dram[k] = NoPtr
    BY <1>2, <2>2, OtherTypes DEF EvictionCommit
  <2> QED BY <2>1, <2>2
<1>6. /\ dram' \in [Keys -> Nat] /\ \A j \in Keys : dram'[j] <= Len(val)
      /\ value_ptr_out_of_date_' \in Seq(Nat) /\ to_delete_' \in SUBSET Nat
      /\ sv' \in SaverType /\ \A j \in Keys : sv'.ptrs[j] <= Len(val)
      /\ \A j \in Keys : /\ sv'.dram[j] # NoValue => sv'.dram[j] <= begun
                         /\ sv'.ssd[j] # NoValue => sv'.ssd[j] <= begun
      /\ tasks' \in Seq(Ops \X Keys) /\ prefetch_id_table' \in [Keys -> Nat]
      /\ up' \in BOOLEAN /\ truth' \in [Keys -> Embedding] /\ lru' \in Seq(Keys)
      /\ overtaken' \in [Trainers \cup {Saver} -> OvertakenType]
  BY <1>1, OtherTypes
<1> QED BY <1>1, <1>4, <1>5, <1>6, OtherBasics

LEMMA EvictionRemoveBasics ==
  ASSUME Basics, EvictionRemove, torn' = torn \cup Torn
  PROVE  Basics'
<1>1. UNCHANGED <<val, tr, begun, ssd, to_delete_, sv, lru, prefetch_id_table, tasks, up,
                  truth>>
  BY DEF EvictionRemove, cacheVars, saveVars
<1>2. PICK k : k = Head(ev.ids)
  OBVIOUS
<1>3. k \in Keys /\ ev.pc = "remove"
  BY <1>2, NextIdFacts DEF EvictionRemove
<1>4. ev' \in EvictorType /\ (ev'.pc = "idle" <=> ev'.ids = <<>>)
  BY <1>3, NextIdFacts DEF EvictionRemove
<1>5. overtaken' \in [Trainers \cup {Saver} -> OvertakenType]
  BY OvertakeTypes DEF EvictionRemove
<1>6. /\ dram' \in [Keys -> Nat] /\ \A j \in Keys : dram'[j] <= Len(val)
  <2>1. dram' = [dram EXCEPT ![k] = 0]
    BY <1>2 DEF EvictionRemove, NoPtr
  <2> QED BY <1>3, <2>1, Unmoved
<1>7. value_ptr_out_of_date_' \in Seq(Nat)
  <2>1. /\ dram[k] \in Nat
        /\ value_ptr_out_of_date_' = Append(value_ptr_out_of_date_, dram[k])
    BY <1>2, <1>3, OtherTypes DEF EvictionRemove
  <2> QED BY <2>1, OtherTypes, AppendProperties
<1>8. /\ ssd' \in [Keys -> Embedding]
      /\ \A j \in Keys : ssd'[j] # NoValue => ssd'[j] + Cardinality(Active) <= begun
      /\ to_delete_' \in SUBSET Nat
      /\ sv' \in SaverType /\ \A j \in Keys : sv'.ptrs[j] <= Len(val)
      /\ \A j \in Keys : /\ sv'.dram[j] # NoValue => sv'.dram[j] <= begun
                         /\ sv'.ssd[j] # NoValue => sv'.ssd[j] <= begun
      /\ tasks' \in Seq(Ops \X Keys) /\ prefetch_id_table' \in [Keys -> Nat]
      /\ up' \in BOOLEAN /\ truth' \in [Keys -> Embedding] /\ lru' \in Seq(Keys)
  BY <1>1, OtherTypes
<1> QED BY <1>1, <1>4, <1>5, <1>6, <1>7, <1>8, OtherBasics
-----------------------------------------------------------------------------
(* Basics: the saver, death and restart.                                   *)

\* What the saver's steps leave alone.
LEMMA SaverBasics ==
  ASSUME Basics, UNCHANGED <<val, tr, begun, ssd, value_ptr_out_of_date_, lru,
                             prefetch_id_table, tasks, ev, up>>,
         dram' \in [Keys -> Nat], \A k \in Keys : dram'[k] <= Len(val),
         to_delete_' \in SUBSET Nat,
         sv' \in SaverType, \A k \in Keys : sv'.ptrs[k] <= Len(val),
         \A k \in Keys : /\ sv'.dram[k] # NoValue => sv'.dram[k] <= begun
                         /\ sv'.ssd[k] # NoValue => sv'.ssd[k] <= begun,
         truth' \in [Keys -> Embedding],
         overtaken' \in [Trainers \cup {Saver} -> OvertakenType],
         torn' = torn \cup Torn
  PROVE  Basics'
<1>1. /\ ssd' \in [Keys -> Embedding]
      /\ \A j \in Keys : ssd'[j] # NoValue => ssd'[j] + Cardinality(Active) <= begun
      /\ value_ptr_out_of_date_' \in Seq(Nat)
      /\ tasks' \in Seq(Ops \X Keys) /\ prefetch_id_table' \in [Keys -> Nat]
      /\ up' \in BOOLEAN /\ lru' \in Seq(Keys)
      /\ ev' \in EvictorType /\ (ev'.pc = "idle" <=> ev'.ids = <<>>)
  BY OtherTypes
<1> QED BY <1>1, OtherBasics

\* What the saver keeps is made of embeddings that a step has reached.
LEMMA EmbeddingBound ==
  ASSUME Basics
  PROVE  /\ \A k \in Keys : ssd[k] # NoValue => ssd[k] <= begun
         /\ \A i \in 1..Len(val) : val[i] <= begun
<1>1. PICK a \in Nat : a = Cardinality(Active)
  BY ValBound DEF Basics
<1>2. begun \in Nat
  BY ValBound DEF Basics
<1>3. \A k \in Keys : ssd[k] \in Nat /\ (ssd[k] # NoValue => ssd[k] + a <= begun)
  BY <1>1, OtherTypes, Constants DEF Embedding
<1>4. \A i \in 1..Len(val) : val[i] \in Nat /\ val[i] + a <= begun
  BY <1>1, ValBound DEF Basics, BoundInv, Room
<1>5. \A x \in Nat : x + a <= begun => x <= begun
  BY <1>1, <1>2
<1> QED BY <1>3, <1>4, <1>5

LEMMA SaverMoves ==
  ASSUME Basics, NEW pc \in {"idle", "shrunk", "dram", "ssd", "saved"}
  PROVE  /\ [sv EXCEPT !.pc = pc] \in SaverType
         /\ [sv EXCEPT !.pc = pc].ptrs = sv.ptrs
         /\ [sv EXCEPT !.pc = pc].dram = sv.dram
         /\ [sv EXCEPT !.pc = pc].ssd = sv.ssd
         /\ [sv EXCEPT !.pc = pc].floor = sv.floor
         /\ [sv EXCEPT !.pc = pc].pc = pc
<1>1. sv \in SaverType
  BY OtherTypes
<1> QED BY <1>1 DEF SaverType

LEMMA ShrinkBasics ==
  ASSUME Basics, NEW eliminated \in SUBSET Keys, Shrink(eliminated),
         torn' = torn \cup Torn
  PROVE  Basics'
<1>1. UNCHANGED <<val, tr, begun, ssd, value_ptr_out_of_date_, lru, prefetch_id_table,
                  tasks, ev, up>>
  BY DEF Shrink, cacheVars
<1>2. dram' \in [Keys -> Nat] /\ \A k \in Keys : dram'[k] <= Len(val)
  <2>1. dram' = [k \in Keys |-> IF k \in eliminated THEN 0 ELSE dram[k]]
    BY DEF Shrink, NoPtr
  <2> QED BY <2>1, Unmoved
<1>3. to_delete_' \in SUBSET Nat
  BY OtherTypes DEF Shrink
<1>4. truth' \in [Keys -> Embedding]
  BY OtherTypes DEF Shrink
<1>5. /\ sv' \in SaverType /\ sv'.ptrs = sv.ptrs /\ sv'.dram = sv.dram /\ sv'.ssd = sv.ssd
  BY SaverMoves DEF Shrink
<1>6. overtaken' \in [Trainers \cup {Saver} -> OvertakenType]
  BY OvertakeTypes DEF Shrink
<1>7. /\ \A k \in Keys : sv'.ptrs[k] <= Len(val)
      /\ \A k \in Keys : /\ sv'.dram[k] # NoValue => sv'.dram[k] <= begun
                         /\ sv'.ssd[k] # NoValue => sv'.ssd[k] <= begun
  BY <1>5, OtherTypes
<1> QED BY <1>1, <1>2, <1>3, <1>4, <1>5, <1>6, <1>7, SaverBasics

LEMMA SnapshotDramBasics ==
  ASSUME Basics, SnapshotDram, torn' = torn \cup Torn
  PROVE  Basics'
<1>1. UNCHANGED <<val, tr, begun, ssd, value_ptr_out_of_date_, lru, prefetch_id_table,
                  tasks, ev, up, dram, to_delete_, truth>>
  BY DEF SnapshotDram, cacheVars, storeVars, retiredVars
<1>2. /\ sv' \in SaverType /\ sv'.ptrs = dram /\ sv'.dram = sv.dram /\ sv'.ssd = sv.ssd
  <2>1. /\ sv \in SaverType /\ dram \in [Keys -> Nat] /\ truth \in [Keys -> Embedding]
        /\ sv' = [sv EXCEPT !.pc = "dram", !.ptrs = dram, !.floor = truth]
    BY OtherTypes DEF SnapshotDram
  <2> QED BY <2>1 DEF SaverType
<1>3. overtaken' \in [Trainers \cup {Saver} -> OvertakenType]
  BY DEF SnapshotDram, Basics, TypeOK, JustTaken, OvertakenType
<1>4. /\ dram' \in [Keys -> Nat] /\ \A k \in Keys : dram'[k] <= Len(val)
      /\ to_delete_' \in SUBSET Nat /\ truth' \in [Keys -> Embedding]
      /\ \A k \in Keys : sv'.ptrs[k] <= Len(val)
      /\ \A k \in Keys : /\ sv'.dram[k] # NoValue => sv'.dram[k] <= begun
                         /\ sv'.ssd[k] # NoValue => sv'.ssd[k] <= begun
  BY <1>1, <1>2, OtherTypes
<1> QED BY <1>1, <1>2, <1>3, <1>4, SaverBasics

LEMMA SnapshotSsdBasics ==
  ASSUME Basics, SnapshotSsd, torn' = torn \cup Torn
  PROVE  Basics'
<1>1. UNCHANGED <<val, tr, begun, ssd, value_ptr_out_of_date_, lru, prefetch_id_table,
                  tasks, ev, up, dram, to_delete_, truth, overtaken>>
  BY DEF SnapshotSsd, cacheVars, storeVars, retiredVars, historyVars
<1>2. /\ sv' \in SaverType /\ sv'.ptrs = sv.ptrs /\ sv'.dram = sv.dram /\ sv'.ssd = ssd
  <2>1. /\ sv \in SaverType /\ ssd \in [Keys -> Embedding]
        /\ sv' = [sv EXCEPT !.pc = "ssd", !.ssd = ssd]
    BY OtherTypes DEF SnapshotSsd
  <2> QED BY <2>1 DEF SaverType
<1>3. /\ dram' \in [Keys -> Nat] /\ \A k \in Keys : dram'[k] <= Len(val)
      /\ to_delete_' \in SUBSET Nat /\ truth' \in [Keys -> Embedding]
      /\ overtaken' \in [Trainers \cup {Saver} -> OvertakenType]
      /\ \A k \in Keys : sv'.ptrs[k] <= Len(val)
      /\ \A k \in Keys : /\ sv'.dram[k] # NoValue => sv'.dram[k] <= begun
                         /\ sv'.ssd[k] # NoValue => sv'.ssd[k] <= begun
  BY <1>1, <1>2, OtherTypes, EmbeddingBound
<1> QED BY <1>1, <1>2, <1>3, SaverBasics

LEMMA NothingSaved ==
  /\ NotSaving \in SaverType /\ NotSaving.pc = "idle"
  /\ NotSaving.ptrs = [k \in Keys |-> NoPtr]
  /\ NotSaving.dram = [k \in Keys |-> NoValue] /\ NotSaving.ssd = [k \in Keys |-> NoValue]
  /\ NotSaving.floor = [k \in Keys |-> NoValue]
<1>1. [k \in Keys |-> NoPtr] \in [Keys -> Nat] /\ Nothing \in [Keys -> Embedding]
  BY Constants DEF Nothing, Embedding
<1> QED BY <1>1 DEF NotSaving, SaverType, Nothing

LEMMA SavedDramBound ==
  ASSUME Basics, NEW k \in Keys, NEW x \in SavedDram(k)
  PROVE  x \in Embedding /\ (x # NoValue => x <= begun)
<1>1. CASE sv.ptrs[k] = NoPtr
  BY <1>1, Constants DEF SavedDram, Embedding
<1>2. CASE sv.ptrs[k] # NoPtr
  <2>1. PICK p : p = sv.ptrs[k]
    OBVIOUS
  <2>2. p \in 1..Len(val)
    <3>1. p \in Nat /\ p <= Len(val) /\ Len(val) \in Nat
      BY <2>1, OtherTypes, Unmoved DEF SaverType
    <3> QED BY <1>2, <2>1, <3>1, Constants
  <2>3. val[p] \in Embedding /\ val[p] <= begun
    BY <2>2, ValBound, EmbeddingBound DEF Basics
  <2>4. x \in Readable(p)
    BY <1>2, <2>1 DEF SavedDram
  <2>5. CASE Alive(p)
    <3>1. x = val[p]
      BY <2>4, <2>5 DEF Readable
    <3> QED BY <2>3, <3>1
  <2>6. CASE ~Alive(p)
    <3>1. x \in 0..begun
      BY <2>4, <2>6 DEF Readable
    <3>2. begun \in 0..MaxSteps
      BY DEF Basics, TypeOK
    <3> QED BY <3>1, <3>2, Constants DEF Embedding
  <2> QED BY <2>5, <2>6
<1> QED BY <1>1, <1>2

LEMMA DumpBasics ==
  ASSUME Basics, DumpEmbeddingValues, torn' = torn \cup Torn
  PROVE  Basics'
<1>1. UNCHANGED <<val, tr, begun, ssd, value_ptr_out_of_date_, lru, prefetch_id_table,
                  tasks, ev, up, dram, to_delete_, truth, overtaken>>
  BY DEF DumpEmbeddingValues, cacheVars, storeVars, retiredVars, historyVars
<1>2. PICK f : f = [k \in Keys |-> Floor(k)]
  OBVIOUS
<1>3. PICK d \in [Keys -> 0..NoValue] :
        /\ \A k \in Keys : d[k] \in SavedDram(k)
        /\ sv' = [pc |-> "saved", ptrs |-> NotSaving.ptrs, dram |-> d, ssd |-> sv.ssd,
                  floor |-> f]
  BY <1>2 DEF DumpEmbeddingValues
<1>4. /\ d \in [Keys -> Embedding]
      /\ \A k \in Keys : d[k] # NoValue => d[k] <= begun
  BY <1>3, SavedDramBound
<1>5. /\ sv.ssd \in [Keys -> Embedding] /\ sv.floor \in [Keys -> Embedding]
      /\ f \in [Keys -> Embedding]
  <2>1. NoValue \in Embedding /\ sv \in SaverType
    BY Constants, OtherTypes DEF Embedding
  <2>2. sv.floor \in [Keys -> Embedding]
    BY <2>1 DEF SaverType
  <2>3. \A k \in Keys : Floor(k) \in Embedding
    BY <2>1, <2>2 DEF Floor
  <2> QED BY <1>2, <2>1, <2>2, <2>3 DEF SaverType
<1>6. /\ sv' \in SaverType /\ sv'.ptrs = [k \in Keys |-> 0] /\ sv'.dram = d /\ sv'.ssd = sv.ssd
  <2>1. NotSaving.ptrs = [k \in Keys |-> 0]
    BY NothingSaved, Constants
  <2> QED BY <1>3, <1>4, <1>5, <2>1 DEF SaverType
<1>7. /\ dram' \in [Keys -> Nat] /\ \A k \in Keys : dram'[k] <= Len(val)
      /\ to_delete_' \in SUBSET Nat /\ truth' \in [Keys -> Embedding]
      /\ overtaken' \in [Trainers \cup {Saver} -> OvertakenType]
      /\ \A k \in Keys : sv'.ptrs[k] <= Len(val)
      /\ \A k \in Keys : /\ sv'.dram[k] # NoValue => sv'.dram[k] <= begun
                         /\ sv'.ssd[k] # NoValue => sv'.ssd[k] <= begun
  BY <1>1, <1>4, <1>6, OtherTypes, Unmoved
<1> QED BY <1>1, <1>6, <1>7, SaverBasics

LEMMA SaveDoneBasics ==
  ASSUME Basics, SaveDone, torn' = torn \cup Torn
  PROVE  Basics'
<1>1. UNCHANGED <<val, tr, begun, ssd, value_ptr_out_of_date_, lru, prefetch_id_table,
                  tasks, ev, up, dram, to_delete_, truth, overtaken>>
  BY DEF SaveDone, cacheVars, storeVars, retiredVars, historyVars
<1>2. sv' \in SaverType
  BY NothingSaved DEF SaveDone
<1>3. /\ dram' \in [Keys -> Nat] /\ \A k \in Keys : dram'[k] <= Len(val)
      /\ to_delete_' \in SUBSET Nat /\ truth' \in [Keys -> Embedding]
      /\ overtaken' \in [Trainers \cup {Saver} -> OvertakenType]
  BY <1>1, OtherTypes
<1>4. /\ \A k \in Keys : sv'.ptrs[k] <= Len(val)
      /\ \A k \in Keys : /\ sv'.dram[k] # NoValue => sv'.dram[k] <= begun
                         /\ sv'.ssd[k] # NoValue => sv'.ssd[k] <= begun
  BY NothingSaved, Constants, Unmoved DEF SaveDone
<1> QED BY <1>1, <1>2, <1>3, <1>4, SaverBasics
\* The order of the list names each key of the DRAM tier once.
LEMMA OrderFacts ==
  ASSUME NEW S \in SUBSET Keys, NEW order \in SetToSeqs(S)
  PROVE  /\ order \in Seq(Keys) /\ Len(order) \in Nat
         /\ \A i \in 1..Len(order) : order[i] \in S
         /\ \A k \in Keys : Contains(order, k) <=> k \in S
<1>1. IsFiniteSet(S)
  BY Constants, FS_Subset
<1>2. PICK n : n = Cardinality(S)
  OBVIOUS
<1>3. n \in Nat
  BY <1>1, <1>2, FS_CardinalityType
<1>4. order \in [1..n -> S] /\ \A i, j \in 1..n : i # j => order[i] # order[j]
  BY <1>2 DEF SetToSeqs
<1>5. order \in Seq(S) /\ Len(order) = n
  BY <1>3, <1>4, SeqDef, LenProperties
<1>6. order \in Seq(Keys)
  BY <1>5, SeqMonotonic
<1>7. order \in Injection(1..n, S)
  BY <1>4 DEF Injection, IsInjective
<1>8. Cardinality(1..n) = n
  BY <1>3, FS_Interval
<1>9. order \in Surjection(1..n, S)
  BY <1>1, <1>2, <1>7, <1>8, FS_Injection
<1>10. \A k \in S : \E i \in 1..n : order[i] = k
  BY <1>9 DEF Surjection
<1> QED BY <1>3, <1>4, <1>5, <1>6, <1>10 DEF Contains

InDram == {k \in Keys : sv.dram[k] # NoValue}

\* KvResourceImportV3: the keys of the new DRAM tier, their embeddings, and where
\* the others are.
LEMMA RestoreFacts ==
  ASSUME Basics, NEW order \in SetToSeqs(InDram), Restore(order)
  PROVE  \E in \in Seq(Keys) :
           /\ lru' = in
           /\ val' \in Seq(Nat) /\ Len(val') = Len(in)
           /\ \A i \in 1..Len(in) : /\ val'[i] = sv.dram[in[i]] /\ in[i] \in Keys
                                    /\ sv.dram[in[i]] # NoValue
           /\ dram' \in [Keys -> Nat]
           /\ \A k \in Keys : Contains(in, k) =>
                dram'[k] \in 1..Len(in) /\ in[dram'[k]] = k
           /\ \A k \in Keys : ~Contains(in, k) => dram'[k] = NoPtr
           /\ \A k \in Keys : Contains(in, k) => sv.dram[k] # NoValue
           /\ ssd' = [k \in Keys |-> IF sv.dram[k] # NoValue /\ ~Contains(in, k)
                                       THEN sv.dram[k] ELSE sv.ssd[k]]
<1>0. PICK S \in SUBSET Keys : S = InDram
  BY DEF InDram
<1>1. /\ order \in Seq(Keys) /\ Len(order) \in Nat
      /\ \A i \in 1..Len(order) : order[i] \in S
      /\ \A k \in Keys : Contains(order, k) <=> k \in S
  BY <1>0, OrderFacts
<1>2. PICK in : in = IF Len(order) > CacheCapacity THEN SubSeq(order, 1, CacheCapacity)
                                                  ELSE order
  OBVIOUS
<1>3. in \in Seq(Keys) /\ Len(in) \in Nat /\ \A i \in 1..Len(in) : in[i] \in S
  <2>1. CASE Len(order) > CacheCapacity
    <3>1. CacheCapacity \in Nat
      BY Constants
    <3>2. PICK s : s = SubSeq(order, 1, CacheCapacity)
      OBVIOUS
    <3>3. \A i \in 1..CacheCapacity : order[i] \in S
      BY <1>1, <2>1, <3>1
    <3>4. s \in Seq(S)
      BY <3>1, <3>2, <3>3, SubSeqProperties
    <3>5. s \in Seq(Keys) /\ Len(s) \in Nat /\ \A i \in 1..Len(s) : s[i] \in S
      BY <3>4, SeqMonotonic, LenProperties, ElementOfSeq
    <3> QED BY <1>2, <2>1, <3>2, <3>5
  <2>2. CASE ~(Len(order) > CacheCapacity)
    BY <1>1, <1>2, <2>2
  <2> QED BY <2>1, <2>2
<1>4. \A k \in Keys : Contains(in, k) => k \in S
  BY <1>3 DEF Contains
<1>5. \A k \in S : k \in Keys /\ sv.dram[k] # NoValue /\ sv.dram[k] \in Nat
  BY <1>0, OtherTypes, Constants DEF InDram, SaverType, Embedding
<1>6. /\ dram' = [k \in Keys |-> IF Contains(in, k) THEN CHOOSE i \in 1..Len(in) : in[i] = k
                                                    ELSE NoPtr]
      /\ val' = [i \in 1..Len(in) |-> sv.dram[in[i]]]
      /\ ssd' = [k \in Keys |-> IF Contains(order, k) /\ ~Contains(in, k) THEN sv.dram[k]
                                                                         ELSE sv.ssd[k]]
      /\ lru' = in
  BY <1>2 DEF Restore
<1>7. val' \in Seq(Nat) /\ Len(val') = Len(in)
  <2>1. val' \in [1..Len(in) -> Nat]
    BY <1>3, <1>5, <1>6
  <2> QED BY <1>3, <2>1, SeqDef, LenProperties
<1>8. \A i \in 1..Len(in) : /\ val'[i] = sv.dram[in[i]] /\ in[i] \in Keys
                            /\ sv.dram[in[i]] # NoValue
  BY <1>3, <1>5, <1>6
<1>9. ASSUME NEW k \in Keys, Contains(in, k)
      PROVE  dram'[k] \in 1..Len(in) /\ in[dram'[k]] = k
  <2>1. dram'[k] = CHOOSE i \in 1..Len(in) : in[i] = k
    BY <1>6, <1>9
  <2>2. \E i \in 1..Len(in) : in[i] = k
    BY <1>9 DEF Contains
  <2> QED BY <2>1, <2>2
<1>10. ASSUME NEW k \in Keys, ~Contains(in, k) PROVE dram'[k] = NoPtr
  BY <1>6, <1>10
<1>11. dram' \in [Keys -> Nat]
  <2>1. \A k \in Keys : dram'[k] \in Nat
    BY <1>3, <1>9, <1>10, Constants
  <2> QED BY <1>6, <2>1
<1>12. \A k \in Keys : Contains(in, k) => sv.dram[k] # NoValue
  BY <1>4, <1>5
<1>13. ssd' = [k \in Keys |-> IF sv.dram[k] # NoValue /\ ~Contains(in, k)
                                THEN sv.dram[k] ELSE sv.ssd[k]]
  <2>1. \A k \in Keys : Contains(order, k) <=> sv.dram[k] # NoValue
    BY <1>0, <1>1 DEF InDram
  <2> QED BY <1>6, <2>1
<1> QED BY <1>3, <1>6, <1>7, <1>8, <1>9, <1>10, <1>11, <1>12, <1>13

LEMMA RestoreBasics ==
  ASSUME Basics, NEW order \in SetToSeqs(InDram), Restore(order)
  PROVE  Basics'
<1>1. PICK in \in Seq(Keys) :
        /\ lru' = in
        /\ val' \in Seq(Nat) /\ Len(val') = Len(in)
        /\ \A i \in 1..Len(in) : /\ val'[i] = sv.dram[in[i]] /\ in[i] \in Keys
                                 /\ sv.dram[in[i]] # NoValue
        /\ dram' \in [Keys -> Nat]
        /\ \A k \in Keys : Contains(in, k) =>
             dram'[k] \in 1..Len(in) /\ in[dram'[k]] = k
        /\ \A k \in Keys : ~Contains(in, k) => dram'[k] = NoPtr
        /\ \A k \in Keys : Contains(in, k) => sv.dram[k] # NoValue
        /\ ssd' = [k \in Keys |-> IF sv.dram[k] # NoValue /\ ~Contains(in, k)
                                    THEN sv.dram[k] ELSE sv.ssd[k]]
  BY RestoreFacts
<1>2. /\ prefetch_id_table' = [k \in Keys |-> 0]
      /\ value_ptr_out_of_date_' = <<>> /\ to_delete_' = {} /\ tasks' = <<>>
      /\ tr' = [t \in Trainers |-> Idle]
      /\ ev' = Resting
      /\ sv' = NotSaving
      /\ truth' = [k \in Keys |-> Restored(k)]
      /\ overtaken' = [t \in Trainers \cup {Saver} |-> JustTaken]
      /\ torn' = {}
      /\ UNCHANGED <<saves, begun, up>>
  BY DEF Restore
<1>3. /\ Idle \in TrainerType /\ Idle.pc = "idle" /\ Idle.key = NoKey /\ Idle.ptr = 0
      /\ Resting \in EvictorType /\ Resting.pc = "idle" /\ Resting.ids = <<>>
      /\ JustTaken \in OvertakenType
  BY Constants DEF Idle, TrainerType, Resting, EvictorType, JustTaken, OvertakenType
<1>4. \A k \in Keys : sv.dram[k] \in Embedding /\ sv.ssd[k] \in Embedding
  BY OtherTypes DEF SaverType
<1>5. ssd' \in [Keys -> Embedding] /\ truth' \in [Keys -> Embedding]
  BY <1>1, <1>2, <1>4 DEF Restored
<1>6. TypeOK'
  <2>1. begun' \in 0..MaxSteps /\ up' \in BOOLEAN
    BY <1>2 DEF Basics, TypeOK
  <2>2. NotSaving \in SaverType
    BY NothingSaved
  <2>3. /\ tr' \in [Trainers -> TrainerType] /\ ev' \in EvictorType
        /\ overtaken' \in [Trainers \cup {Saver} -> OvertakenType]
    BY <1>2, <1>3
  <2>4. /\ value_ptr_out_of_date_' \in Seq(Nat) /\ tasks' \in Seq(Ops \X Keys)
        /\ prefetch_id_table' \in [Keys -> Nat]
    BY <1>2
  <2> QED BY <1>1, <1>2, <1>5, <2>1, <2>2, <2>3, <2>4 DEF TypeOK
<1>7. ThreadInv'
  BY <1>2, <1>3 DEF ThreadInv
<1>8. Len(val') \in Nat
  BY <1>1, LenProperties
<1>9. RangeInv'
  <2>1. \A k \in Keys : dram'[k] <= Len(val')
    BY <1>1, <1>8, Constants
  <2>2. \A k \in Keys : sv'.ptrs[k] <= Len(val')
    BY <1>2, <1>8, NothingSaved, Constants
  <2>3. \A t \in Trainers : tr'[t].ptr <= Len(val') /\ tr'[t].pc = "idle"
    BY <1>2, <1>3, <1>8
  <2> QED BY <2>1, <2>2, <2>3 DEF RangeInv, Using
<1>10. BoundInv'
  <2>1. Cardinality(Active') = 0
    <3>1. Active' = {}
      BY <1>2, <1>3 DEF Active
    <3> QED BY <3>1, FS_EmptySet
  <2>2. begun \in Nat /\ begun' = begun
    BY <1>2, ValBound DEF Basics
  <2>3. \A k \in Keys : /\ sv.dram[k] \in Nat /\ sv.ssd[k] \in Nat
                        /\ sv.dram[k] # NoValue => sv.dram[k] <= begun
                        /\ sv.ssd[k] # NoValue => sv.ssd[k] <= begun
    BY <1>4, OtherTypes, Constants DEF Embedding
  <2>4. \A i \in 1..Len(val') : Room(val[i])'
    <3>1. ASSUME NEW i \in 1..Len(val') PROVE val'[i] + 0 <= begun
      <4>1. in[i] \in Keys /\ sv.dram[in[i]] # NoValue /\ val'[i] = sv.dram[in[i]]
        BY <1>1
      <4> QED BY <2>2, <2>3, <4>1
    <3> QED BY <2>1, <2>2, <3>1 DEF Room
  <2>5. \A k \in Keys : ssd'[k] # NoValue => Room(ssd[k])'
    <3>1. ASSUME NEW k \in Keys, ssd'[k] # NoValue PROVE ssd'[k] + 0 <= begun
      <4>1. ssd'[k] = sv.dram[k] \/ ssd'[k] = sv.ssd[k]
        BY <1>1
      <4> QED BY <2>2, <2>3, <3>1, <4>1
    <3> QED BY <2>1, <2>2, <3>1 DEF Room
  <2>6. \A k \in Keys : sv'.dram[k] = NoValue /\ sv'.ssd[k] = NoValue
    BY <1>2, NothingSaved
  <2> QED BY <2>1, <2>2, <2>4, <2>5, <2>6 DEF BoundInv
<1> QED BY <1>6, <1>7, <1>9, <1>10 DEF Basics

LEMMA InitBasics ==
  ASSUME Init PROVE Basics
<1>1. /\ Idle \in TrainerType /\ Idle.pc = "idle" /\ Idle.key = NoKey /\ Idle.ptr = 0
      /\ Resting \in EvictorType /\ Resting.pc = "idle" /\ Resting.ids = <<>>
      /\ JustTaken \in OvertakenType
  BY Constants DEF Idle, TrainerType, Resting, EvictorType, JustTaken, OvertakenType
<1>2. /\ 0 \in Embedding /\ NoValue \in Embedding /\ NoPtr \in Nat /\ 0 \in 0..MaxSteps
  BY Constants DEF Embedding
<1>3. TypeOK
  <2>1. /\ tr \in [Trainers -> TrainerType] /\ ev \in EvictorType
        /\ overtaken \in [Trainers \cup {Saver} -> OvertakenType]
    BY <1>1 DEF Init
  <2>2. sv \in SaverType
    BY NothingSaved DEF Init
  <2>3. ssd \in [Keys -> Embedding] /\ truth \in [Keys -> Embedding] /\ dram \in [Keys -> Nat]
    BY <1>2 DEF Init
  <2>4. /\ val \in Seq(Nat) /\ value_ptr_out_of_date_ \in Seq(Nat) /\ to_delete_ \in SUBSET Nat
        /\ tasks \in Seq(Ops \X Keys) /\ lru \in Seq(Keys)
        /\ prefetch_id_table \in [Keys -> Nat] /\ torn \in SUBSET Keys
    BY DEF Init, CacheInit
  <2>5. up \in BOOLEAN /\ begun \in 0..MaxSteps
    BY <1>2 DEF Init
  <2> QED BY <2>1, <2>2, <2>3, <2>4, <2>5 DEF TypeOK
<1>4. ThreadInv
  BY <1>1 DEF ThreadInv, Init
<1>5. Len(val) = 0 /\ begun = 0
  BY DEF Init
<1>6. RangeInv
  <2>1. \A k \in Keys : dram[k] = 0 /\ sv.ptrs[k] = 0
    BY NothingSaved, Constants DEF Init
  <2>2. \A t \in Trainers : tr[t].ptr = 0 /\ tr[t].pc = "idle"
    BY <1>1 DEF Init
  <2> QED BY <1>5, <2>1, <2>2 DEF RangeInv, Using
<1>7. BoundInv
  <2>1. Cardinality(Active) = 0
    <3>1. Active = {}
      BY <1>1 DEF Active, Init
    <3> QED BY <3>1, FS_EmptySet
  <2>2. \A k \in Keys : sv.dram[k] = NoValue /\ sv.ssd[k] = NoValue
    BY NothingSaved DEF Init
  <2>3. \A k \in Keys : ssd[k] # NoValue => ssd[k] = 0
    BY DEF Init
  <2> QED BY <1>5, <2>1, <2>2, <2>3 DEF BoundInv, Room
<1> QED BY <1>3, <1>4, <1>6, <1>7 DEF Basics

LEMMA StutterBasics ==
  ASSUME Basics, UNCHANGED vars PROVE Basics'
<1>1. UNCHANGED <<dram, val, ssd, value_ptr_out_of_date_, to_delete_, lru, prefetch_id_table,
                  tasks, tr, ev, sv, up, begun, truth, torn, overtaken>>
  BY DEF vars, storeVars, retiredVars, cacheVars, saveVars, historyVars
<1>2. Active' = Active
  BY <1>1 DEF Active
<1> QED BY <1>1, <1>2 DEF Basics, TypeOK, ThreadInv, RangeInv, Using, BoundInv, Room

\* Basics is preserved by every step of the program.
LEMMA BasicsStep ==
  ASSUME Basics, [Next]_vars PROVE Basics'
<1>1. ASSUME NEW t \in Trainers, TrainerNext(t), torn' = torn \cup Torn PROVE Basics'
  BY <1>1, DramGetBasics, SsdGetBasics, TryInsertBasics, ReGetBasics, CreateBasics,
     ReLookBasics, ApplyBasics, PrefetchBasics DEF TrainerNext
<1>2. ASSUME EvictorNext, torn' = torn \cup Torn PROVE Basics'
  BY <1>2, BatchEvictionBasics, EvictionBeginBasics, EvictionCommitBasics,
     EvictionRemoveBasics DEF EvictorNext
<1>3. ASSUME SaverNext, torn' = torn \cup Torn PROVE Basics'
  BY <1>3, ShrinkBasics, SnapshotDramBasics, SnapshotSsdBasics, DumpBasics, SaveDoneBasics
     DEF SaverNext
<1>4. CASE Running
  BY <1>1, <1>2, <1>3, <1>4, RunTaskBasics DEF Running
<1>5. CASE \E order \in SetToSeqs(InDram) : Restore(order)
  BY <1>5, RestoreBasics
<1>6. CASE UNCHANGED vars
  BY <1>6, StutterBasics
<1> QED BY <1>4, <1>5, <1>6 DEF Next, InDram

-----------------------------------------------------------------------------
(* What the steps of a trainer come to: it ends in the record r.           *)

TrainerFrame ==
  UNCHANGED <<ssd, value_ptr_out_of_date_, to_delete_, lru, prefetch_id_table, ev, sv>>

Retaken(t) == overtaken' = [overtaken EXCEPT ![t] = JustTaken]
Held(r, p) == r.pc \in {"hold", "forward_done"} /\ r.ptr = IF r.pc = "hold" THEN p ELSE NoPtr

\* It found its key in DRAM.
Took(t, r) ==
  /\ dram[r.key] # NoPtr /\ Held(r, dram[r.key])
  /\ UNCHANGED <<dram, val, truth, tasks>> /\ Retaken(t)

\* It did not find the key where it looked.
Moved(t, r) ==
  /\ r.pc \in {"ssd", "reget", "create", "relook", "forward_done"}
  /\ r.ptr \in {NoPtr, tr[t].ptr}
  /\ r.pc = "create" => ssd[r.key] = NoValue \/ tr[t].pc = "relook"
  /\ r.pc = "relook" => tr[t].pc = "create"
  /\ UNCHANGED <<dram, val, truth, tasks>> /\ (UNCHANGED overtaken \/ Retaken(t))

\* It copied the record of the SSD tier.
Copied(t, r) ==
  /\ r.pc = "tryinsert" /\ r.ptr = Len(val) + 1
  /\ ssd[r.key] # NoValue /\ val' = Append(val, ssd[r.key])
  /\ UNCHANGED <<dram, truth, tasks, overtaken>>

\* It inserted its copy.
Inserted(t, r) ==
  /\ tr[t].pc = "tryinsert" /\ dram[r.key] = NoPtr /\ Held(r, tr[t].ptr)
  /\ dram' = [dram EXCEPT ![r.key] = tr[t].ptr]
  /\ UNCHANGED <<val, truth, tasks>> /\ Retaken(t)

\* It created the key.
Created(t, r) ==
  /\ tr[t].pc = "create" /\ dram[r.key] = NoPtr /\ Held(r, Len(val) + 1)
  /\ dram' = [dram EXCEPT ![r.key] = Len(val) + 1]
  /\ val' = Append(val, 0) /\ truth' = [truth EXCEPT ![r.key] = 0]
  /\ UNCHANGED tasks /\ Retaken(t)

\* It scheduled the prefetch of its key, or its return.
Scheduled(t, r) ==
  /\ Using(t) /\ r.ptr = tr[t].ptr
  /\ \/ /\ tr[t].pc = "hold" /\ r.pc = "prefetched"
        /\ tasks' = Append(tasks, <<"prefetch", r.key>>)
     \/ /\ tr[t].pc = "prefetched" /\ r.pc = "collected"
        /\ tasks' = Append(tasks, <<"add", r.key>>)
  /\ UNCHANGED <<dram, val, truth, overtaken>>

\* It wrote the gradient and is done.
Wrote(t) ==
  /\ Using(t) /\ Write(t) /\ UNCHANGED dram
  /\ \/ tr[t].pc = "hold" /\ tasks' = Append(tasks, <<"update", tr[t].key>>)
     \/ tr[t].pc = "collected" /\ UNCHANGED tasks

OnKey(t, r) ==
  /\ r \in TrainerType /\ r.pc # "idle" /\ r.key \in Keys
  /\ tr' = [tr EXCEPT ![t] = r] /\ up' = up
  /\ tr[t].pc = "idle" \/ r.key = tr[t].key
  /\ \/ Took(t, r) \/ Moved(t, r) \/ Copied(t, r) \/ Inserted(t, r) \/ Created(t, r)
     \/ Scheduled(t, r)

\* The process died.
Died == up' = FALSE /\ UNCHANGED <<dram, val, truth, tasks, tr, overtaken>>

\* Hold, put as Held.
LEMMA HoldEffect ==
  ASSUME Basics, NEW t \in Trainers, tr[t].pc # "idle", NEW p \in Nat \ {0}, Hold(t, p)
  PROVE  \E r \in TrainerType :
           /\ r.pc # "idle" /\ r.key = tr[t].key /\ r.key \in Keys
           /\ tr' = [tr EXCEPT ![t] = r] /\ Held(r, p) /\ Retaken(t)
<1>1. PICK r : r = HeldRecord(t, p)
  OBVIOUS
<1>2. /\ tr' = [tr EXCEPT ![t] = r] /\ r \in TrainerType /\ r.pc # "idle"
      /\ r.key = tr[t].key
  BY <1>1, HoldFacts
<1>3. Held(r, p)
  BY <1>1 DEF HeldRecord, Held
<1>4. Retaken(t)
  BY DEF Hold, Retaken
<1>5. tr[t].key \in Keys
  BY TrainerKey DEF Basics
<1> QED BY <1>2, <1>3, <1>4, <1>5

\* Goto.
LEMMA GotoEffect ==
  ASSUME Basics, NEW t \in Trainers, tr[t].pc # "idle", NEW pc, Goto(t, pc),
         pc \in {"reget", "create", "relook", "forward_done", "prefetched", "collected"},
         pc \in {"prefetched", "collected"} => Using(t)
  PROVE  \E r \in TrainerType :
           /\ r.pc # "idle" /\ r.key = tr[t].key /\ r.key \in Keys
           /\ tr' = [tr EXCEPT ![t] = r] /\ r.pc = pc /\ r.ptr = tr[t].ptr
<1>1. PICK r : r = MovedRecord(t, pc)
  OBVIOUS
<1>2. /\ tr' = [tr EXCEPT ![t] = r] /\ r \in TrainerType /\ r.pc # "idle"
      /\ r.key = tr[t].key
  BY <1>1, GotoFacts
<1>3. r.pc = pc /\ r.ptr = tr[t].ptr
  BY <1>1 DEF MovedRecord
<1>4. tr[t].key \in Keys
  BY TrainerKey DEF Basics
<1> QED BY <1>2, <1>3, <1>4

LEMMA DramGetEffect ==
  ASSUME Basics, NEW t \in Trainers, NEW k \in Keys,
         NEW step \in {"lookup", "apply", "prefetch"}, DramGet(t, k, step)
  PROVE  TrainerFrame /\ \E r : OnKey(t, r)
<1>1. PICK p : p = dram[k]
  OBVIOUS
<1>2. p \in Nat
  BY <1>1, OtherTypes
<1>3. PICK r : r = CASE p = NoPtr -> [pc |-> "ssd", key |-> k, ptr |-> NoPtr, step |-> step]
                [] p # NoPtr /\ step = "lookup" ->
                     [pc |-> "forward_done", key |-> k, ptr |-> NoPtr, step |-> step]
                [] OTHER -> [pc |-> "hold", key |-> k, ptr |-> p, step |-> step]
  OBVIOUS
<1>4. tr' = [tr EXCEPT ![t] = r] /\ Retaken(t)
  BY <1>1, <1>3 DEF DramGet, Retaken
<1>5. /\ UNCHANGED <<dram, val, ssd, value_ptr_out_of_date_, to_delete_, lru,
                     prefetch_id_table, tasks, ev, sv, up, truth>>
      /\ tr[t].pc = "idle" \/ k = tr[t].key
  BY DEF DramGet, storeVars, retiredVars, cacheVars, saveVars
<1>6. TrainerFrame
  BY <1>5 DEF TrainerFrame
<1>7. CASE p = NoPtr
  <2>1. r = [pc |-> "ssd", key |-> k, ptr |-> NoPtr, step |-> step]
    BY <1>3, <1>7
  <2>2. r \in TrainerType /\ r.pc = "ssd" /\ r.key = k /\ r.ptr = NoPtr
    BY <2>1, Constants DEF TrainerType
  <2>3. Moved(t, r)
    BY <1>4, <1>5, <2>2 DEF Moved
  <2> QED BY <1>4, <1>5, <1>6, <2>2, <2>3 DEF OnKey
<1>8. CASE p # NoPtr /\ step = "lookup"
  <2>1. r = [pc |-> "forward_done", key |-> k, ptr |-> NoPtr, step |-> step]
    BY <1>3, <1>8
  <2>2. r \in TrainerType /\ r.pc = "forward_done" /\ r.key = k /\ r.ptr = NoPtr
    BY <2>1, Constants DEF TrainerType
  <2>3. Took(t, r)
    BY <1>1, <1>4, <1>5, <1>8, <2>2 DEF Took, Held
  <2> QED BY <1>4, <1>5, <1>6, <2>2, <2>3 DEF OnKey
<1>9. CASE p # NoPtr /\ step # "lookup"
  <2>1. r = [pc |-> "hold", key |-> k, ptr |-> p, step |-> step]
    BY <1>3, <1>9
  <2>2. r \in TrainerType /\ r.pc = "hold" /\ r.key = k /\ r.ptr = p
    BY <1>2, <2>1, Constants DEF TrainerType
  <2>3. Took(t, r)
    BY <1>1, <1>4, <1>5, <1>9, <2>2 DEF Took, Held
  <2> QED BY <1>4, <1>5, <1>6, <2>2, <2>3 DEF OnKey
<1> QED BY <1>7, <1>8, <1>9

LEMMA SsdGetEffect ==
  ASSUME Basics, NEW t \in Trainers, SsdGet(t)
  PROVE  TrainerFrame /\ \E r : OnKey(t, r)
<1>1. UNCHANGED <<dram, ssd, value_ptr_out_of_date_, to_delete_, lru, prefetch_id_table,
                  tasks, ev, sv, up, truth, overtaken>>
  BY DEF SsdGet, retiredVars, cacheVars, saveVars, historyVars
<1>2. TrainerFrame
  BY <1>1 DEF TrainerFrame
<1>3. tr[t].pc # "idle" /\ tr[t].key \in Keys /\ tr[t] \in TrainerType
  BY TrainerKey DEF SsdGet, Basics
<1>4. CASE ssd[tr[t].key] # NoValue
  <2>1. PICK r : r = [pc |-> "tryinsert", key |-> tr[t].key, ptr |-> Len(val) + 1,
                      step |-> tr[t].step]
    OBVIOUS
  <2>2. tr' = [tr EXCEPT ![t] = r] /\ val' = Append(val, ssd[tr[t].key])
    BY <1>3, <1>4, <2>1 DEF SsdGet, Basics, TypeOK, TrainerType
  <2>3. /\ r \in TrainerType /\ r.pc = "tryinsert" /\ r.key = tr[t].key
        /\ r.ptr = Len(val) + 1
    BY <1>3, <2>1, Unmoved DEF TrainerType
  <2>4. Copied(t, r)
    BY <1>1, <1>4, <2>2, <2>3 DEF Copied
  <2> QED BY <1>1, <1>2, <1>3, <2>2, <2>3, <2>4 DEF OnKey
<1>5. CASE ssd[tr[t].key] = NoValue
  <2>1. PICK pc \in {"forward_done", "create"} : Goto(t, pc) /\ val' = val
    BY <1>5 DEF SsdGet
  <2>2. PICK r \in TrainerType :
           /\ r.pc # "idle" /\ r.key = tr[t].key /\ r.key \in Keys
           /\ tr' = [tr EXCEPT ![t] = r] /\ r.pc = pc /\ r.ptr = tr[t].ptr
    BY <1>3, <2>1, GotoEffect
  <2>3. Moved(t, r)
    BY <1>1, <1>5, <2>1, <2>2 DEF Moved
  <2> QED BY <1>1, <1>2, <2>2, <2>3 DEF OnKey
<1> QED BY <1>4, <1>5

LEMMA TryInsertEffect ==
  ASSUME Basics, NEW t \in Trainers, TryInsert(t)
  PROVE  TrainerFrame /\ \E r : OnKey(t, r)
<1>1. UNCHANGED <<val, ssd, value_ptr_out_of_date_, to_delete_, lru, prefetch_id_table,
                  tasks, ev, sv, up, truth>>
  BY DEF TryInsert, retiredVars, cacheVars, saveVars
<1>2. TrainerFrame
  BY <1>1 DEF TrainerFrame
<1>3. /\ tr[t].pc = "tryinsert" /\ tr[t].pc # "idle" /\ tr[t].key \in Keys
      /\ tr[t] \in TrainerType /\ tr[t].ptr \in Nat \ {0}
  <2>1. tr[t].pc = "tryinsert" /\ tr[t].key \in Keys /\ tr[t] \in TrainerType
    BY TrainerKey DEF TryInsert, Basics
  <2>2. tr[t].ptr # NoPtr
    BY <2>1 DEF Basics, RangeInv
  <2> QED BY <2>1, <2>2, Constants DEF TrainerType
<1>4. CASE dram[tr[t].key] = NoPtr
  <2>1. dram' = [dram EXCEPT ![tr[t].key] = tr[t].ptr] /\ Hold(t, tr[t].ptr)
    BY <1>4 DEF TryInsert
  <2>2. PICK r \in TrainerType :
           /\ r.pc # "idle" /\ r.key = tr[t].key /\ r.key \in Keys
           /\ tr' = [tr EXCEPT ![t] = r] /\ Held(r, tr[t].ptr) /\ Retaken(t)
    BY <1>3, <2>1, HoldEffect
  <2>3. Inserted(t, r)
    BY <1>1, <1>3, <1>4, <2>1, <2>2 DEF Inserted
  <2> QED BY <1>1, <1>2, <2>2, <2>3 DEF OnKey
<1>5. CASE dram[tr[t].key] # NoPtr
  <2>1. Goto(t, "reget") /\ UNCHANGED <<dram, overtaken>>
    BY <1>5 DEF TryInsert
  <2>2. PICK r \in TrainerType :
           /\ r.pc # "idle" /\ r.key = tr[t].key /\ r.key \in Keys
           /\ tr' = [tr EXCEPT ![t] = r] /\ r.pc = "reget" /\ r.ptr = tr[t].ptr
    BY <1>3, <2>1, GotoEffect
  <2>3. Moved(t, r)
    BY <1>1, <2>1, <2>2 DEF Moved
  <2> QED BY <1>1, <1>2, <2>2, <2>3 DEF OnKey
<1> QED BY <1>4, <1>5

LEMMA ReGetEffect ==
  ASSUME Basics, NEW t \in Trainers, ReGet(t)
  PROVE  TrainerFrame /\ (Died \/ \E r : OnKey(t, r))
<1>1. UNCHANGED <<dram, val, ssd, value_ptr_out_of_date_, to_delete_, lru,
                  prefetch_id_table, tasks, ev, sv, truth>>
  BY DEF ReGet, storeVars, retiredVars, cacheVars, saveVars
<1>2. TrainerFrame
  BY <1>1 DEF TrainerFrame
<1>3. tr[t].pc = "reget" /\ tr[t].pc # "idle" /\ tr[t].key \in Keys
  BY TrainerKey DEF ReGet, Basics
<1>4. PICK p : p = dram[tr[t].key]
  OBVIOUS
<1>5. p \in Nat
  BY <1>3, <1>4, OtherTypes
<1>6. CASE p # NoPtr
  <2>1. Hold(t, p) /\ UNCHANGED up
    BY <1>4, <1>6 DEF ReGet
  <2>2. PICK r \in TrainerType :
           /\ r.pc # "idle" /\ r.key = tr[t].key /\ r.key \in Keys
           /\ tr' = [tr EXCEPT ![t] = r] /\ Held(r, p) /\ Retaken(t)
    BY <1>3, <1>5, <1>6, <2>1, HoldEffect, Constants
  <2>3. Took(t, r)
    BY <1>1, <1>4, <1>6, <2>2 DEF Took
  <2> QED BY <1>2, <2>1, <2>2, <2>3 DEF OnKey
<1>7. CASE p = NoPtr /\ tr[t].step = "lookup"
  <2>1. Goto(t, "forward_done") /\ UNCHANGED <<overtaken, up>>
    BY <1>4, <1>7 DEF ReGet
  <2>2. PICK r \in TrainerType :
           /\ r.pc # "idle" /\ r.key = tr[t].key /\ r.key \in Keys
           /\ tr' = [tr EXCEPT ![t] = r] /\ r.pc = "forward_done" /\ r.ptr = tr[t].ptr
    BY <1>3, <2>1, GotoEffect
  <2>3. Moved(t, r)
    BY <1>1, <2>1, <2>2 DEF Moved
  <2> QED BY <1>2, <2>1, <2>2, <2>3 DEF OnKey
<1>8. CASE p = NoPtr /\ tr[t].step # "lookup"
  BY <1>1, <1>2, <1>4, <1>8 DEF ReGet, Died
<1> QED BY <1>6, <1>7, <1>8

LEMMA ReLookEffect ==
  ASSUME Basics, NEW t \in Trainers, ReLook(t)
  PROVE  TrainerFrame /\ \E r : OnKey(t, r)
<1>1. UNCHANGED <<dram, val, ssd, value_ptr_out_of_date_, to_delete_, lru,
                  prefetch_id_table, tasks, ev, sv, truth, up>>
  BY DEF ReLook, storeVars, retiredVars, cacheVars, saveVars
<1>2. TrainerFrame
  BY <1>1 DEF TrainerFrame
<1>3. tr[t].pc = "relook" /\ tr[t].pc # "idle" /\ tr[t].key \in Keys
  BY TrainerKey DEF ReLook, Basics
<1>4. PICK p : p = dram[tr[t].key]
  OBVIOUS
<1>5. p \in Nat
  BY <1>3, <1>4, OtherTypes
<1>6. CASE p # NoPtr
  <2>1. Hold(t, p)
    BY <1>4, <1>6 DEF ReLook
  <2>2. PICK r \in TrainerType :
           /\ r.pc # "idle" /\ r.key = tr[t].key /\ r.key \in Keys
           /\ tr' = [tr EXCEPT ![t] = r] /\ Held(r, p) /\ Retaken(t)
    BY <1>3, <1>5, <1>6, <2>1, HoldEffect, Constants
  <2>3. Took(t, r)
    BY <1>1, <1>4, <1>6, <2>2 DEF Took
  <2> QED BY <1>1, <1>2, <2>2, <2>3 DEF OnKey
<1>7. CASE p = NoPtr
  <2>1. Goto(t, "create") /\ UNCHANGED overtaken
    BY <1>4, <1>7 DEF ReLook
  <2>2. PICK r \in TrainerType :
           /\ r.pc # "idle" /\ r.key = tr[t].key /\ r.key \in Keys
           /\ tr' = [tr EXCEPT ![t] = r] /\ r.pc = "create" /\ r.ptr = tr[t].ptr
    BY <1>3, <2>1, GotoEffect
  <2>3. Moved(t, r)
    BY <1>1, <1>3, <2>1, <2>2 DEF Moved
  <2> QED BY <1>1, <1>2, <2>2, <2>3 DEF OnKey
<1> QED BY <1>6, <1>7

LEMMA CreateEffect ==
  ASSUME Basics, NEW t \in Trainers, Create(t)
  PROVE  TrainerFrame /\ \E r : OnKey(t, r)
<1>1. UNCHANGED <<ssd, value_ptr_out_of_date_, to_delete_, lru, prefetch_id_table,
                  tasks, ev, sv, up>>
  BY DEF Create, retiredVars, cacheVars, saveVars
<1>2. TrainerFrame
  BY <1>1 DEF TrainerFrame
<1>3. tr[t].pc = "create" /\ tr[t].pc # "idle" /\ tr[t].key \in Keys
  BY TrainerKey DEF Create, Basics
<1>4. CASE dram[tr[t].key] = NoPtr
  <2>1. PICK p : p = Len(val) + 1
    OBVIOUS
  <2>2. /\ val' = Append(val, 0) /\ dram' = [dram EXCEPT ![tr[t].key] = p]
        /\ Hold(t, p) /\ truth' = [truth EXCEPT ![tr[t].key] = 0]
    BY <1>4, <2>1 DEF Create
  <2>3. p \in Nat \ {0}
    BY <2>1, Unmoved
  <2>4. PICK r \in TrainerType :
           /\ r.pc # "idle" /\ r.key = tr[t].key /\ r.key \in Keys
           /\ tr' = [tr EXCEPT ![t] = r] /\ Held(r, p) /\ Retaken(t)
    BY <1>3, <2>2, <2>3, HoldEffect
  <2>5. Created(t, r)
    BY <1>1, <1>3, <1>4, <2>1, <2>2, <2>4 DEF Created
  <2> QED BY <1>1, <1>2, <2>4, <2>5 DEF OnKey
<1>5. CASE dram[tr[t].key] # NoPtr
  <2>1. Goto(t, "relook") /\ UNCHANGED <<val, dram, overtaken, truth>>
    BY <1>5 DEF Create
  <2>2. PICK r \in TrainerType :
           /\ r.pc # "idle" /\ r.key = tr[t].key /\ r.key \in Keys
           /\ tr' = [tr EXCEPT ![t] = r] /\ r.pc = "relook" /\ r.ptr = tr[t].ptr
    BY <1>3, <2>1, GotoEffect
  <2>3. Moved(t, r)
    BY <1>1, <1>3, <2>1, <2>2 DEF Moved
  <2> QED BY <1>1, <1>2, <2>2, <2>3 DEF OnKey
<1> QED BY <1>4, <1>5

LEMMA ScheduleEffect ==
  ASSUME Basics, NEW t \in Trainers, LookupID(t) \/ Collect(t)
  PROVE  TrainerFrame /\ \E r : OnKey(t, r)
<1>1. UNCHANGED <<dram, val, ssd, value_ptr_out_of_date_, to_delete_, lru,
                  prefetch_id_table, ev, sv, truth, overtaken, up>>
  BY DEF LookupID, Collect, storeVars, retiredVars, cacheVars, saveVars, historyVars
<1>2. TrainerFrame
  BY <1>1 DEF TrainerFrame
<1>3. Using(t) /\ tr[t].pc # "idle"
  BY DEF Using, LookupID, Collect
<1>4. CASE LookupID(t)
  <2>1. PICK r \in TrainerType :
           /\ r.pc # "idle" /\ r.key = tr[t].key /\ r.key \in Keys
           /\ tr' = [tr EXCEPT ![t] = r] /\ r.pc = "prefetched" /\ r.ptr = tr[t].ptr
    BY <1>3, <1>4, GotoEffect DEF LookupID
  <2>2. Scheduled(t, r)
    BY <1>1, <1>3, <1>4, <2>1 DEF LookupID, Scheduled
  <2> QED BY <1>1, <1>2, <2>1, <2>2 DEF OnKey
<1>5. CASE Collect(t)
  <2>1. PICK r \in TrainerType :
           /\ r.pc # "idle" /\ r.key = tr[t].key /\ r.key \in Keys
           /\ tr' = [tr EXCEPT ![t] = r] /\ r.pc = "collected" /\ r.ptr = tr[t].ptr
    BY <1>3, <1>5, GotoEffect DEF Collect
  <2>2. Scheduled(t, r)
    BY <1>1, <1>3, <1>5, <2>1 DEF Collect, Scheduled
  <2> QED BY <1>1, <1>2, <2>1, <2>2 DEF OnKey
<1> QED BY <1>4, <1>5

LEMMA TrainerEffect ==
  ASSUME Basics, NEW t \in Trainers, TrainerNext(t)
  PROVE  /\ TrainerFrame
         /\ Died \/ (Wrote(t) /\ up' = up) \/ \E r : OnKey(t, r)
<1>1. CASE Apply(t) \/ ApplyPointer(t)
  <2>1. TrainerFrame
    BY <1>1 DEF Apply, ApplyPointer, TrainerFrame, retiredVars, cacheVars, saveVars
  <2>2. Wrote(t) /\ up' = up
    BY <1>1 DEF Apply, ApplyPointer, Wrote, Using
  <2> QED BY <2>1, <2>2
<1>2. CASE \E k \in Keys, step \in {"lookup", "apply", "prefetch"} : DramGet(t, k, step)
  BY <1>2, DramGetEffect
<1> QED BY <1>1, <1>2, SsdGetEffect, TryInsertEffect, ReGetEffect, CreateEffect,
           ReLookEffect, ScheduleEffect DEF TrainerNext

-----------------------------------------------------------------------------
(* TrackInv: no key of the DRAM tier is forgotten by the cache.            *)

\* A task that is scheduled leaves the others where they are.
LEMMA TasksGrow ==
  ASSUME Basics, NEW op \in Ops, NEW j \in Keys, tasks' = Append(tasks, <<op, j>>)
  PROVE  /\ Len(tasks) \in Nat /\ Len(tasks') = Len(tasks) + 1
         /\ \A i \in 1..Len(tasks) : tasks'[i] = tasks[i]
         /\ tasks'[Len(tasks) + 1] = <<op, j>>
         /\ \E i \in 1..Len(tasks') : tasks'[i][2] = j
         /\ \A k : (\E i \in 1..Len(tasks) : tasks[i][2] = k) =>
                   (\E i \in 1..Len(tasks') : tasks'[i][2] = k)
<1>1. tasks \in Seq(Ops \X Keys) /\ Len(tasks) \in Nat /\ <<op, j>> \in Ops \X Keys
  BY OtherTypes, LenProperties
<1>2. /\ Len(tasks') = Len(tasks) + 1
      /\ \A i \in 1..Len(tasks) : tasks'[i] = tasks[i]
      /\ tasks'[Len(tasks) + 1] = <<op, j>>
  BY <1>1, AppendProperties
<1>3. \A i \in 1..Len(tasks) : i \in 1..Len(tasks')
  BY <1>1, <1>2
<1>4. Len(tasks) + 1 \in 1..Len(tasks') /\ <<op, j>>[2] = j
  BY <1>1, <1>2
<1> QED BY <1>1, <1>2, <1>3, <1>4

\* A key that is in DRAM after a step of a trainer and that the cache knew about.
LEMMA TrainerTrack ==
  ASSUME Basics, NEW t \in Trainers, NEW r, TrainerFrame, tr' = [tr EXCEPT ![t] = r],
         \/ UNCHANGED tasks
         \/ \E op \in Ops, j \in Keys : tasks' = Append(tasks, <<op, j>>),
         NEW k \in Keys, Tracked(k),
         tr[t].key = k /\ tr[t].pc # "collected" =>
           \/ r.key = k /\ r.pc # "collected"
           \/ \E op \in Ops : tasks' = Append(tasks, <<op, k>>)
  PROVE  Tracked(k)'
<1>1. UNCHANGED <<lru, prefetch_id_table, ev>>
  BY DEF TrainerFrame
<1>2. tr \in [Trainers -> TrainerType]
  BY DEF Basics, TypeOK
<1>3. CASE \E i \in 1..Len(tasks) : tasks[i][2] = k
  <2>1. \E i \in 1..Len(tasks') : tasks'[i][2] = k
    BY <1>3, TasksGrow
  <2> QED BY <2>1 DEF Tracked
<1>4. CASE \E u \in Trainers : tr[u].key = k /\ tr[u].pc # "collected"
  <2>1. PICK u \in Trainers : tr[u].key = k /\ tr[u].pc # "collected"
    BY <1>4
  <2>2. CASE u = t
    <3>1. CASE r.key = k /\ r.pc # "collected"
      <4>1. tr'[t] = r
        BY <1>2
      <4> QED BY <3>1, <4>1 DEF Tracked
    <3>2. CASE \E op \in Ops : tasks' = Append(tasks, <<op, k>>)
      <4>1. \E i \in 1..Len(tasks') : tasks'[i][2] = k
        BY <3>2, TasksGrow
      <4> QED BY <4>1 DEF Tracked
    <3> QED BY <2>1, <2>2, <3>1, <3>2
  <2>3. CASE u # t
    <3>1. tr'[u] = tr[u]
      BY <1>2, <2>3
    <3> QED BY <2>1, <3>1 DEF Tracked
  <2> QED BY <2>2, <2>3
<1>5. CASE Contains(lru, k) \/ IsPrefetched(k) \/ Contains(ev.ids, k)
  BY <1>1, <1>5 DEF Tracked, IsPrefetched, Contains
<1> QED BY <1>3, <1>4, <1>5 DEF Tracked

LEMMA OnKeyTrack ==
  ASSUME Basics, TrackInv, NEW t \in Trainers, NEW r, TrainerFrame, OnKey(t, r)
  PROVE  TrackInv'
<1> SUFFICES ASSUME up', NEW k \in Keys, dram'[k] # NoPtr PROVE Tracked(k)'
  BY DEF TrackInv
<1>1. /\ r \in TrainerType /\ r.pc # "idle" /\ r.key \in Keys
      /\ tr' = [tr EXCEPT ![t] = r] /\ up' = up
      /\ tr[t].pc = "idle" \/ r.key = tr[t].key
  BY DEF OnKey
<1>2. tr \in [Trainers -> TrainerType] /\ tr'[t] = r
  BY <1>1 DEF Basics, TypeOK
<1>3. \/ UNCHANGED tasks
      \/ \E op \in Ops, j \in Keys : tasks' = Append(tasks, <<op, j>>)
  BY <1>1 DEF OnKey, Took, Moved, Copied, Inserted, Created, Scheduled, Ops
<1>4. CASE dram[k] # NoPtr
  <2>1. Tracked(k)
    BY <1>1, <1>4 DEF TrackInv
  <2>2. r.pc # "collected" \/ \E op \in Ops : tasks' = Append(tasks, <<op, r.key>>)
    BY <1>1 DEF OnKey, Took, Moved, Copied, Inserted, Created, Scheduled, Held, Ops
  <2>3. tr[t].key = k => r.key = k
    BY <1>1, Constants DEF Basics, ThreadInv
  <2> QED BY <1>1, <1>3, <2>1, <2>2, <2>3, TrainerTrack
<1>5. CASE dram[k] = NoPtr
  <2>1. r.key = k /\ r.pc # "collected"
    <3>1. \/ Inserted(t, r) \/ Created(t, r)
      BY <1>5 DEF OnKey, Took, Moved, Copied, Scheduled
    <3> QED BY <1>1, <1>5, <3>1, OtherTypes DEF Inserted, Created, Held
  <2> QED BY <1>2, <2>1 DEF Tracked
<1> QED BY <1>4, <1>5

LEMMA WroteTrack ==
  ASSUME Basics, TrackInv, NEW t \in Trainers, TrainerFrame, Wrote(t), up' = up
  PROVE  TrackInv'
<1> SUFFICES ASSUME up', NEW k \in Keys, dram'[k] # NoPtr PROVE Tracked(k)'
  BY DEF TrackInv
<1>1. Tracked(k) /\ tr' = [tr EXCEPT ![t] = Idle]
  BY DEF TrackInv, Wrote, Write
<1>2. \/ UNCHANGED tasks /\ tr[t].pc = "collected"
      \/ tasks' = Append(tasks, <<"update", tr[t].key>>)
  BY DEF Wrote
<1>3. tr[t].key \in Keys
  BY TrainerKey DEF Basics, Wrote, Using
<1> QED BY <1>1, <1>2, <1>3, TrainerTrack DEF Ops

LEMMA RunTaskTrack ==
  ASSUME Basics, TrackInv, NEW i \in 1..Len(tasks), RunTask(i)
  PROVE  TrackInv'
<1> SUFFICES ASSUME up', NEW k \in Keys, dram'[k] # NoPtr PROVE Tracked(k)'
  BY DEF TrackInv
<1>1. UNCHANGED <<dram, tr, ev>> /\ up /\ Tracked(k)
  BY DEF RunTask, storeVars, TrackInv
<1>2. PICK j : j = tasks[i][2]
  OBVIOUS
<1>3. tasks[i][1] \in Ops /\ j \in Keys
  BY <1>2, RunTaskCache
<1>4. /\ tasks \in Seq(Ops \X Keys) /\ Len(tasks) \in Nat /\ lru \in Seq(Keys)
      /\ prefetch_id_table \in [Keys -> Nat]
  BY OtherTypes, LenProperties
<1>5. CASE k = j
  <2>1. CASE tasks[i][1] = "update"
    <3>1. lru' = Touched(k)
      BY <1>2, <1>5, <2>1 DEF RunTask, update
    <3> QED BY <1>4, <3>1, TouchedProperties DEF Tracked
  <2>2. CASE tasks[i][1] = "prefetch"
    <3>1. prefetch_id_table' = [prefetch_id_table EXCEPT ![k] = prefetch_id_table[k] + 1]
      BY <1>2, <1>5, <2>2 DEF RunTask, add_to_prefetch_list
    <3>2. prefetch_id_table'[k] > 0
      BY <1>4, <3>1
    <3> QED BY <3>2 DEF Tracked, IsPrefetched
  <2>3. CASE tasks[i][1] = "add"
    <3>1. up' = IsPrefetched(k)
      BY <1>2, <1>5, <2>3 DEF RunTask
    <3>2. IsPrefetched(k)
      BY <3>1
    <3>3. add_to_cache(k)
      BY <1>2, <1>5, <2>3, <3>2 DEF RunTask
    <3>4. CASE prefetch_id_table[k] = 1
      <4>1. lru' = Touched(k)
        BY <3>3, <3>4 DEF add_to_cache
      <4> QED BY <1>4, <4>1, TouchedProperties DEF Tracked
    <3>5. CASE prefetch_id_table[k] # 1
      <4>1. prefetch_id_table' = [prefetch_id_table EXCEPT ![k] = prefetch_id_table[k] - 1]
        BY <3>3 DEF add_to_cache
      <4>2. prefetch_id_table'[k] > 0
        BY <1>4, <3>2, <3>5, <4>1 DEF IsPrefetched
      <4> QED BY <4>2 DEF Tracked, IsPrefetched
    <3> QED BY <3>4, <3>5
  <2> QED BY <1>3, <2>1, <2>2, <2>3 DEF Ops
<1>6. CASE k # j
  <2>1. prefetch_id_table'[k] = prefetch_id_table[k]
    BY <1>2, <1>4, <1>6
       DEF RunTask, update, add_to_prefetch_list, add_to_cache, cacheVars
  <2>2. lru' \in {lru, Touched(j), Unlinked(j)}
    BY <1>2 DEF RunTask, update, add_to_prefetch_list, add_to_cache, cacheVars
  <2>3. Contains(lru, k) => Contains(lru', k)
    BY <1>3, <1>4, <1>6, <2>2, TouchedProperties, UnlinkedProperties
  <2>4. ASSUME NEW m \in 1..Len(tasks), tasks[m][2] = k
        PROVE  \E n \in 1..Len(tasks') : tasks'[n][2] = k
    <3>1. m # i
      BY <1>2, <1>6, <2>4
    <3>2. tasks' = RemoveAt(tasks, i)
      BY DEF RunTask
    <3>3. \E n \in 1..Len(tasks') : tasks'[n] = tasks[m]
      BY <1>4, <3>1, <3>2, RemoveAtKeeps
    <3> QED BY <2>4, <3>3
  <2> QED BY <1>1, <2>1, <2>3, <2>4 DEF Tracked, IsPrefetched
<1> QED BY <1>5, <1>6

\* A step that leaves the cache, the tasks and the trainers alone.
LEMMA OtherTrack ==
  ASSUME TrackInv, up' => up, UNCHANGED <<prefetch_id_table, tasks, tr>>,
         \A k \in Keys : dram'[k] # NoPtr =>
           /\ dram[k] # NoPtr
           /\ Contains(lru, k) => Contains(lru', k) \/ Contains(ev'.ids, k)
           /\ Contains(ev.ids, k) => Contains(ev'.ids, k)
  PROVE  TrackInv'
<1> SUFFICES ASSUME up', NEW k \in Keys, dram'[k] # NoPtr PROVE Tracked(k)'
  BY DEF TrackInv
<1>1. Tracked(k)
  BY DEF TrackInv
<1> QED BY <1>1 DEF Tracked, IsPrefetched

LEMMA EvictorTrack ==
  ASSUME Basics, TrackInv, EvictorNext
  PROVE  TrackInv'
<1>1. CASE BatchEviction
  <2>1. UNCHANGED <<prefetch_id_table, tasks, tr, dram, up>>
    BY <1>1 DEF BatchEviction, storeVars, get_evic_ids
  <2>2. PICK n : n = Len(lru) - CacheCapacity
    OBVIOUS
  <2>3. n \in 1..Len(lru) /\ lru \in Seq(Keys)
    <3>1. Len(lru) \in Nat /\ lru \in Seq(Keys)
      BY OtherTypes, LenProperties
    <3> QED BY <1>1, <2>2, <3>1, Constants DEF BatchEviction
  <2>4. lru' = SubSeq(lru, 1, Len(lru) - n) /\ ev'.ids = EvicIds(n)
    BY <1>1, <2>2 DEF BatchEviction, get_evic_ids
  <2>5. \A k \in Keys : Contains(lru, k) => Contains(lru', k) \/ Contains(ev'.ids, k)
    BY <2>3, <2>4, EvicIdsProperties
  <2>6. \A k \in Keys : ~Contains(ev.ids, k)
    <3>1. ev.ids = <<>>
      BY <1>1, OtherTypes DEF BatchEviction
    <3> QED BY <3>1 DEF Contains
  <2> QED BY <2>1, <2>5, <2>6, OtherTrack
<1>2. CASE EvictionBegin
  <2>1. UNCHANGED <<prefetch_id_table, tasks, tr, dram, up, lru>> /\ ev'.ids = ev.ids
    BY <1>2, OtherTypes DEF EvictionBegin, storeVars, cacheVars, EvictorType
  <2> QED BY <2>1, OtherTrack
<1>3. CASE EvictionCommit
  <2>1. UNCHANGED <<prefetch_id_table, tasks, tr, dram, up, lru>> /\ ev.pc # "idle"
    BY <1>3 DEF EvictionCommit, cacheVars
  <2>2. CASE dram[Head(ev.ids)] # NoPtr
    <3>1. ev'.ids = ev.ids
      BY <1>3, <2>2, OtherTypes DEF EvictionCommit, EvictorType
    <3> QED BY <2>1, <3>1, OtherTrack
  <2>3. CASE dram[Head(ev.ids)] = NoPtr
    <3>1. ev' = NextId
      BY <1>3, <2>3 DEF EvictionCommit
    <3>2. \A k \in Keys : dram'[k] # NoPtr => k # Head(ev.ids)
      BY <2>1, <2>3
    <3> QED BY <2>1, <3>1, <3>2, NextIdFacts, OtherTrack
  <2> QED BY <2>2, <2>3
<1>4. CASE EvictionRemove
  <2>1. UNCHANGED <<prefetch_id_table, tasks, tr, up, lru>> /\ ev.pc # "idle" /\ ev' = NextId
        /\ dram' = [dram EXCEPT ![Head(ev.ids)] = NoPtr]
    BY <1>4 DEF EvictionRemove, cacheVars
  <2>2. Head(ev.ids) \in Keys /\ dram \in [Keys -> Nat]
    BY <2>1, NextIdFacts, OtherTypes
  <2>3. \A k \in Keys : dram'[k] # NoPtr => k # Head(ev.ids) /\ dram[k] # NoPtr
    BY <2>1, <2>2
  <2> QED BY <2>1, <2>3, NextIdFacts, OtherTrack
<1> QED BY <1>1, <1>2, <1>3, <1>4 DEF EvictorNext

LEMMA SaverTrack ==
  ASSUME Basics, TrackInv, SaverNext
  PROVE  TrackInv'
<1>1. CASE \E eliminated \in SUBSET Keys : Shrink(eliminated)
  <2>1. UNCHANGED <<prefetch_id_table, tasks, tr, up, lru, ev>>
    BY <1>1 DEF Shrink, cacheVars
  <2>2. \A k \in Keys : dram'[k] # NoPtr => dram[k] # NoPtr
    BY <1>1 DEF Shrink
  <2> QED BY <2>1, <2>2, OtherTrack
<1>2. CASE SnapshotDram \/ SnapshotSsd \/ DumpEmbeddingValues \/ SaveDone
  <2>1. UNCHANGED <<prefetch_id_table, tasks, tr, up, lru, ev, dram>>
    BY <1>2 DEF SnapshotDram, SnapshotSsd, DumpEmbeddingValues, SaveDone, cacheVars, storeVars
  <2> QED BY <2>1, OtherTrack
<1> QED BY <1>1, <1>2 DEF SaverNext

LEMMA RestoreTrack ==
  ASSUME Basics, NEW order \in SetToSeqs(InDram), Restore(order)
  PROVE  TrackInv'
<1>1. PICK in \in Seq(Keys) :
        lru' = in /\ \A k \in Keys : ~Contains(in, k) => dram'[k] = NoPtr
  BY RestoreFacts
<1> QED BY <1>1 DEF TrackInv, Tracked

LEMMA TrackStep ==
  ASSUME Basics, TrackInv, [Next]_vars
  PROVE  TrackInv'
<1>1. ASSUME NEW t \in Trainers, TrainerNext(t) PROVE TrackInv'
  <2>1. CASE Died
    BY <2>1 DEF Died, TrackInv
  <2> QED BY <1>1, <2>1, TrainerEffect, OnKeyTrack, WroteTrack
<1>2. CASE Running
  BY <1>1, <1>2, RunTaskTrack, EvictorTrack, SaverTrack DEF Running
<1>3. CASE \E order \in SetToSeqs(InDram) : Restore(order)
  BY <1>3, RestoreTrack
<1>4. CASE UNCHANGED vars
  <2>1. UNCHANGED <<prefetch_id_table, tasks, tr, up, lru, ev, dram>>
    BY <1>4 DEF vars, cacheVars, storeVars
  <2> QED BY <2>1, OtherTrack
<1> QED BY <1>2, <1>3, <1>4 DEF Next, InDram

-----------------------------------------------------------------------------
(* KeptInv: a ValuePtr in use is not freed before its time.                *)

LEMMA HoldsUsing ==
  ASSUME NEW t \in Trainers
  PROVE  (Holds(t) <=> Using(t)) /\ (Holds(t)' <=> Using(t)')
  BY Constants DEF Holds, Using

Threads == Trainers \cup {Saver}

\* A thread that the step leaves alone keeps the pointer p, if no key loses its own.
LEMMA KeptStays ==
  ASSUME NEW u \in Threads, NEW p, p # NoPtr, Kept(u, p),
         UNCHANGED <<value_ptr_out_of_date_, to_delete_>>,
         overtaken'[u] = overtaken[u],
         \A k \in Keys : dram[k] # NoPtr => dram'[k] = dram[k]
  PROVE  Kept(u, p)'
  BY DEF Kept

\* Only the history of thread t begins again.
LEMMA RetakenFacts ==
  ASSUME Basics, NEW t \in Trainers, UNCHANGED overtaken \/ Retaken(t)
  PROVE  \A u \in Threads \ {t} : overtaken'[u] = overtaken[u]
<1>1. overtaken \in [Trainers \cup {Saver} -> OvertakenType]
  BY OtherTypes
<1> QED BY <1>1 DEF Retaken, Threads

\* The other threads, and the saver, in a step of trainer t.
LEMMA TrainerKept ==
  ASSUME Basics, KeptInv, NEW t \in Trainers, NEW r, TrainerFrame,
         tr' = [tr EXCEPT ![t] = r], UNCHANGED overtaken \/ Retaken(t),
         \A k \in Keys : dram[k] # NoPtr => dram'[k] = dram[k],
         Using(t)' /\ InTime(t)' => Kept(t, tr[t].ptr)'
  PROVE  KeptInv'
<1>1. UNCHANGED <<value_ptr_out_of_date_, to_delete_, sv>>
  BY DEF TrainerFrame
<1>2. \A u \in Threads \ {t} : overtaken'[u] = overtaken[u]
  BY RetakenFacts
<1>3. tr \in [Trainers -> TrainerType]
  BY DEF Basics, TypeOK
<1>4. ASSUME NEW u \in Trainers, Holds(u)', InTime(u)' PROVE Kept(u, tr[u].ptr)'
  <2>1. CASE u = t
    BY <1>4, <2>1, HoldsUsing
  <2>2. CASE u # t
    <3>1. tr'[u] = tr[u] /\ overtaken'[u] = overtaken[u] /\ u \in Threads
      BY <1>2, <1>3, <2>2 DEF Threads
    <3>2. Using(u) /\ InTime(u)
      BY <1>4, <3>1, HoldsUsing DEF Using, InTime
    <3>3. Kept(u, tr[u].ptr) /\ tr[u].ptr # NoPtr
      BY <3>2, HoldsUsing DEF KeptInv, Basics, RangeInv
    <3>4. PICK p : p = tr[u].ptr
      OBVIOUS
    <3>5. Kept(u, p)'
      BY <1>1, <3>1, <3>3, <3>4, KeptStays
    <3>6. tr'[u].ptr = p
      BY <3>1, <3>4
    <3> QED BY <3>5, <3>6 DEF Kept
  <2> QED BY <2>1, <2>2
<1>5. ASSUME NEW k \in Keys, sv'.ptrs[k] # NoPtr
      PROVE  Holds(Saver)' /\ (InTime(Saver)' => Kept(Saver, sv.ptrs[k])')
  <2>1. Holds(Saver) /\ (InTime(Saver) => Kept(Saver, sv.ptrs[k]))
    BY <1>1, <1>5 DEF KeptInv
  <2>2. Saver \in Threads \ {t}
    BY Constants DEF Threads
  <2>3. overtaken'[Saver] = overtaken[Saver]
    BY <1>2, <2>2
  <2>4. PICK p : p = sv.ptrs[k]
    OBVIOUS
  <2>5. InTime(Saver)' => Kept(Saver, p)'
    BY <1>1, <1>5, <2>1, <2>2, <2>3, <2>4, KeptStays DEF InTime
  <2>6. sv'.ptrs[k] = p
    BY <1>1, <2>4
  <2> QED BY <1>1, <2>1, <2>5, <2>6 DEF Holds, Kept
<1> QED BY <1>4, <1>5 DEF KeptInv

\* The steps of a trainer: the ValuePtrs of the keys stay, and one is taken from DRAM.
LEMMA OnKeyKept ==
  ASSUME Basics, KeptInv, NEW t \in Trainers, NEW r, TrainerFrame, OnKey(t, r)
  PROVE  KeptInv'
<1>1. /\ r \in TrainerType /\ r.key \in Keys /\ tr' = [tr EXCEPT ![t] = r]
  BY DEF OnKey
<1>2. tr'[t] = r /\ dram \in [Keys -> Nat]
  BY <1>1 DEF Basics, TypeOK
<1>3. UNCHANGED overtaken \/ Retaken(t)
  BY DEF OnKey, Took, Moved, Copied, Inserted, Created, Scheduled
<1>4. \A k \in Keys : dram[k] # NoPtr => dram'[k] = dram[k]
  BY <1>1, <1>2 DEF OnKey, Took, Moved, Copied, Inserted, Created, Scheduled
<1>5. ASSUME Using(t)', InTime(t)' PROVE Kept(t, tr[t].ptr)'
  <2>1. r.pc \in {"hold", "prefetched", "collected"}
    BY <1>2, <1>5 DEF Using
  <2>2. CASE Scheduled(t, r)
    <3>1. overtaken'[t] = overtaken[t] /\ Using(t) /\ tr'[t].ptr = tr[t].ptr
      BY <1>2, <2>2 DEF Scheduled
    <3>2. PICK p : p = tr[t].ptr
      OBVIOUS
    <3>3. Kept(t, p) /\ p # NoPtr
      BY <1>5, <3>1, <3>2, HoldsUsing DEF KeptInv, InTime, Basics, RangeInv
    <3>4. Kept(t, p)'
      BY <1>4, <3>1, <3>3, KeptStays DEF TrainerFrame, Threads
    <3> QED BY <3>1, <3>2, <3>4 DEF Kept
  <2>3. CASE ~Scheduled(t, r)
    <3>1. Took(t, r) \/ Inserted(t, r) \/ Created(t, r)
      BY <2>1, <2>3 DEF OnKey, Moved, Copied
    <3>2. r.pc = "hold"
      BY <2>1, <3>1 DEF Took, Inserted, Created, Held
    <3>3. dram'[r.key] = r.ptr
      BY <1>1, <1>2, <3>1, <3>2 DEF Took, Inserted, Created, Held
    <3> QED BY <1>1, <1>2, <3>3 DEF Kept
  <2> QED BY <2>2, <2>3
<1> QED BY <1>1, <1>3, <1>4, <1>5, TrainerKept

LEMMA WroteKept ==
  ASSUME Basics, KeptInv, NEW t \in Trainers, TrainerFrame, Wrote(t)
  PROVE  KeptInv'
<1>1. tr' = [tr EXCEPT ![t] = Idle] /\ Retaken(t) /\ dram' = dram
  BY DEF Wrote, Write, Retaken
<1>2. tr'[t] = Idle
  BY <1>1 DEF Basics, TypeOK
<1>3. ~Using(t)'
  BY <1>2 DEF Using, Idle
<1> QED BY <1>1, <1>3, TrainerKept

\* A step that changes neither the retired ValuePtrs, the threads nor the keys'.
LEMMA SameKept ==
  ASSUME KeptInv, UNCHANGED <<value_ptr_out_of_date_, to_delete_, tr, sv, overtaken, dram>>
  PROVE  KeptInv'
  BY DEF KeptInv, Kept, InTime, Holds

\* An eviction or a shrink: it is enough to look at what happens to one pointer.
LEMMA OvertakenKept ==
  ASSUME Basics, KeptInv, UNCHANGED tr, sv'.ptrs = sv.ptrs,
         \A u \in Threads : Holds(u) => Holds(u)',
         \A u \in Threads : Holds(u) /\ InTime(u)' => InTime(u),
         \A u \in Threads : \A p \in Nat :
           Holds(u) /\ InTime(u)' /\ Kept(u, p) => Kept(u, p)'
  PROVE  KeptInv'
<1>0. \A u \in Trainers : tr[u].ptr \in Nat
  BY DEF Basics, TypeOK, TrainerType
<1>1. ASSUME NEW u \in Trainers, Holds(u)', InTime(u)' PROVE Kept(u, tr[u].ptr)'
  <2>1. Holds(u) /\ u \in Threads
    BY <1>1, HoldsUsing DEF Using, Threads
  <2>2. InTime(u)
    BY <1>1, <2>1
  <2>3. PICK p \in Nat : p = tr[u].ptr
    BY <1>0
  <2>4. Kept(u, p)
    BY <2>1, <2>2, <2>3 DEF KeptInv
  <2>5. Kept(u, p)'
    BY <1>1, <2>1, <2>4
  <2> QED BY <2>3, <2>5 DEF Kept
<1>2. ASSUME NEW k \in Keys, sv'.ptrs[k] # NoPtr
      PROVE  Holds(Saver)' /\ (InTime(Saver)' => Kept(Saver, sv.ptrs[k])')
  <2>1. Saver \in Threads /\ Holds(Saver)
    BY <1>2 DEF KeptInv, Threads
  <2>2. PICK p \in Nat : p = sv.ptrs[k]
    BY OtherTypes DEF SaverType
  <2>3. InTime(Saver) => Kept(Saver, p)
    BY <1>2, <2>2 DEF KeptInv
  <2>4. InTime(Saver)' => Kept(Saver, p)'
    BY <2>1, <2>3
  <2> QED BY <2>1, <2>2, <2>4 DEF Kept
<1> QED BY <1>1, <1>2 DEF KeptInv

\* The event of a thread in each of the three.
LEMMA OvertakeEvents ==
  ASSUME Basics, NEW u \in Threads, Holds(u)
  PROVE  /\ Overtake(LAMBDA o : [o EXCEPT !.late = @ \/ o.evictions > CapInvalid]) =>
              /\ overtaken'[u].evictions = overtaken[u].evictions
              /\ overtaken'[u].shrinks = overtaken[u].shrinks
              /\ overtaken'[u].late <=> overtaken[u].late \/ overtaken[u].evictions > CapInvalid
         /\ Overtake(LAMBDA o : [o EXCEPT !.evictions = @ + 1]) =>
              /\ overtaken'[u].evictions = overtaken[u].evictions + 1
              /\ overtaken'[u].shrinks = overtaken[u].shrinks
              /\ overtaken'[u].late = overtaken[u].late
         /\ Overtake(LAMBDA o : [o EXCEPT !.shrinks = @ + 1]) =>
              /\ overtaken'[u].evictions = overtaken[u].evictions
              /\ overtaken'[u].shrinks = overtaken[u].shrinks + 1
              /\ overtaken'[u].late = overtaken[u].late
         /\ overtaken[u].evictions \in Nat /\ overtaken[u].shrinks \in Nat
<1>1. PICK o \in OvertakenType : o = overtaken[u]
  BY OtherTypes DEF Threads
<1>2. o.evictions \in Nat /\ o.shrinks \in Nat
  BY <1>1 DEF OvertakenType
<1>3. ASSUME Overtake(LAMBDA x : [x EXCEPT !.late = @ \/ x.evictions > CapInvalid])
      PROVE  /\ overtaken'[u].evictions = o.evictions
             /\ overtaken'[u].shrinks = o.shrinks
             /\ overtaken'[u].late <=> o.late \/ o.evictions > CapInvalid
  <2>1. overtaken'[u] = [o EXCEPT !.late = o.late \/ o.evictions > CapInvalid]
    BY <1>1, <1>3 DEF Overtake, Threads
  <2> QED BY <1>1, <2>1 DEF OvertakenType
<1>4. ASSUME Overtake(LAMBDA x : [x EXCEPT !.evictions = @ + 1])
      PROVE  /\ overtaken'[u].evictions = o.evictions + 1
             /\ overtaken'[u].shrinks = o.shrinks
             /\ overtaken'[u].late = o.late
  <2>1. overtaken'[u] = [o EXCEPT !.evictions = o.evictions + 1]
    BY <1>1, <1>4 DEF Overtake, Threads
  <2> QED BY <1>1, <2>1 DEF OvertakenType
<1>5. ASSUME Overtake(LAMBDA x : [x EXCEPT !.shrinks = @ + 1])
      PROVE  /\ overtaken'[u].evictions = o.evictions
             /\ overtaken'[u].shrinks = o.shrinks + 1
             /\ overtaken'[u].late = o.late
  <2>1. overtaken'[u] = [o EXCEPT !.shrinks = o.shrinks + 1]
    BY <1>1, <1>5 DEF Overtake, Threads
  <2> QED BY <1>1, <2>1 DEF OvertakenType
<1> QED BY <1>1, <1>2, <1>3, <1>4, <1>5
\* ReleaseValuePtrs frees the oldest: those that too many evictions followed.
LEMMA EvictionBeginKept ==
  ASSUME Basics, KeptInv, EvictionBegin
  PROVE  KeptInv'
<1>1. /\ UNCHANGED <<tr, sv, dram, to_delete_>> /\ value_ptr_out_of_date_' = StillKept
      /\ Overtake(LAMBDA o : [o EXCEPT !.late = @ \/ o.evictions > CapInvalid])
  BY DEF EvictionBegin, storeVars, saveVars
<1>2. \A u \in Threads : Holds(u) => Holds(u)'
  BY <1>1 DEF Holds
<1>3. ASSUME NEW u \in Threads, Holds(u), InTime(u)'
      PROVE  /\ overtaken'[u].evictions = overtaken[u].evictions
             /\ overtaken'[u].shrinks = overtaken[u].shrinks
             /\ overtaken[u].evictions \in Nat /\ overtaken[u].evictions <= CapInvalid
             /\ ~overtaken[u].late
  <2>1. /\ overtaken'[u].evictions = overtaken[u].evictions
        /\ overtaken'[u].shrinks = overtaken[u].shrinks
        /\ overtaken'[u].late <=> overtaken[u].late \/ overtaken[u].evictions > CapInvalid
        /\ overtaken[u].evictions \in Nat
    BY <1>1, <1>3, OvertakeEvents
  <2>2. ~overtaken'[u].late
    BY <1>3 DEF InTime
  <2>3. ~(overtaken[u].evictions > CapInvalid)
    BY <2>1, <2>2
  <2> QED BY <2>1, <2>2, <2>3, Constants
<1>4. \A u \in Threads : Holds(u) /\ InTime(u)' => InTime(u)
  BY <1>3 DEF InTime
<1>5. ASSUME NEW u \in Threads, NEW p \in Nat, Holds(u), InTime(u)', Kept(u, p)
      PROVE  Kept(u, p)'
  <2>1. CASE \E k \in Keys : dram[k] = p
    BY <1>1, <2>1 DEF Kept
  <2>2. CASE p \in to_delete_ /\ overtaken[u].shrinks > 0
    <3>1. overtaken'[u].shrinks = overtaken[u].shrinks
      BY <1>3, <1>5
    <3> QED BY <1>1, <2>2, <3>1 DEF Kept
  <2>3. CASE \E i \in 1..Len(value_ptr_out_of_date_) :
               /\ value_ptr_out_of_date_[i] = p
               /\ i + overtaken[u].evictions > Len(value_ptr_out_of_date_)
    <3>1. PICK s : s = value_ptr_out_of_date_
      OBVIOUS
    <3>2. s \in Seq(Nat) /\ Len(s) \in Nat /\ CapInvalid \in Nat
      BY <3>1, OtherTypes, LenProperties, Constants
    <3>3. PICK i \in 1..Len(s) : s[i] = p /\ i + overtaken[u].evictions > Len(s)
      BY <2>3, <3>1
    <3>4. PICK n \in Nat : n = overtaken[u].evictions
      BY <1>3, <1>5
    <3>5. n <= CapInvalid /\ overtaken'[u].evictions = n /\ i + n > Len(s)
      BY <1>3, <1>5, <3>3, <3>4
    <3>6. CASE Len(s) > CapInvalid
      <4>1. PICK q : q = SubSeq(s, Len(s) - CapInvalid + 1, Len(s))
        OBVIOUS
      <4>2. value_ptr_out_of_date_' = q
        BY <1>1, <3>1, <3>6, <4>1 DEF StillKept
      <4>3. \A j \in (Len(s) - CapInvalid + 1)..Len(s) : s[j] \in Nat
        BY <3>2, <3>6, ElementOfSeq
      <4>0. PICK L \in Nat, C \in Nat : L = Len(s) /\ C = CapInvalid
        BY <3>2
      <4>4. PICK m : m = Len(s) - CapInvalid + 1
        OBVIOUS
      <4>9. m = L - C + 1 /\ m \in Int /\ L > C /\ i \in 1..L /\ i + n > L /\ n <= C
        BY <3>3, <3>5, <3>6, <4>0, <4>4
      <4>5. /\ Len(SubSeq(s, m, Len(s))) = IF m <= Len(s) THEN Len(s) - m + 1 ELSE 0
            /\ \A j \in 1..(Len(s) - m + 1) : SubSeq(s, m, Len(s))[j] = s[m + j - 1]
        BY <3>2, <4>3, <4>4, <4>9, SubSeqProperties
      <4>6. Len(q) = CapInvalid
        BY <4>0, <4>1, <4>4, <4>5, <4>9
      <4>10. PICK j : j = i - m + 1
        OBVIOUS
      <4>11. j \in 1..C /\ j + n > C /\ m + j - 1 = i /\ j \in 1..(L - m + 1)
        BY ONLY SMTT(60), <3>4, <4>0, <4>9, <4>10
      <4>7. j \in 1..CapInvalid
        BY <4>0, <4>11
      <4>8. q[j] = p /\ j + n > CapInvalid
        <5>1. j \in 1..(Len(s) - m + 1) /\ m + j - 1 = i
          BY <4>0, <4>11
        <5>2. q[j] = s[i]
          BY <4>1, <4>4, <4>5, <5>1
        <5>3. j + n > CapInvalid
          BY <4>0, <4>11
        <5> QED BY <3>3, <5>2, <5>3
      <4> QED BY <3>5, <4>2, <4>6, <4>7, <4>8 DEF Kept
    <3>7. CASE ~(Len(s) > CapInvalid)
      <4>1. value_ptr_out_of_date_' = s
        BY <1>1, <3>1, <3>7 DEF StillKept
      <4> QED BY <3>3, <3>5, <4>1 DEF Kept
    <3> QED BY <3>6, <3>7
  <2> QED BY <1>5, <2>1, <2>2, <2>3 DEF Kept
<1> QED BY <1>1, <1>2, <1>4, <1>5, OvertakenKept

\* KeepInvalidValuePtr: the ValuePtr of the evicted key is the newest one kept.
LEMMA EvictionRemoveKept ==
  ASSUME Basics, KeptInv, EvictionRemove
  PROVE  KeptInv'
<1>0. PICK h : h = Head(ev.ids)
  OBVIOUS
<1>1. /\ UNCHANGED <<tr, sv, to_delete_>>
      /\ value_ptr_out_of_date_' = Append(value_ptr_out_of_date_, dram[h])
      /\ dram' = [dram EXCEPT ![h] = NoPtr]
      /\ Overtake(LAMBDA o : [o EXCEPT !.evictions = @ + 1])
  BY <1>0 DEF EvictionRemove, saveVars
<1>2. \A u \in Threads : Holds(u) => Holds(u)'
  BY <1>1 DEF Holds
<1>3. ASSUME NEW u \in Threads, Holds(u)
      PROVE  /\ overtaken'[u].evictions = overtaken[u].evictions + 1
             /\ overtaken'[u].shrinks = overtaken[u].shrinks
             /\ overtaken'[u].late = overtaken[u].late
             /\ overtaken[u].evictions \in Nat
  BY <1>1, <1>3, OvertakeEvents
<1>4. \A u \in Threads : Holds(u) /\ InTime(u)' => InTime(u)
  BY <1>3 DEF InTime
<1>5. PICK s : s = value_ptr_out_of_date_
  OBVIOUS
<1>6. h \in Keys /\ dram \in [Keys -> Nat] /\ s \in Seq(Nat) /\ Len(s) \in Nat
  BY <1>0, <1>5, OtherTypes, LenProperties, NextIdFacts DEF EvictionRemove
<1>7. PICK q : q = Append(s, dram[h])
  OBVIOUS
<1>8. /\ value_ptr_out_of_date_' = q /\ Len(q) = Len(s) + 1 /\ q[Len(s) + 1] = dram[h]
      /\ \A i \in 1..Len(s) : q[i] = s[i]
  BY <1>1, <1>5, <1>6, <1>7, AppendProperties
<1>9. ASSUME NEW u \in Threads, NEW p \in Nat, Holds(u), InTime(u)', Kept(u, p)
      PROVE  Kept(u, p)'
  <2>0. PICK n \in Nat : n = overtaken[u].evictions /\ overtaken'[u].evictions = n + 1
    BY <1>3, <1>9
  <2>1. CASE \E k \in Keys : dram[k] = p
    <3>1. PICK k \in Keys : dram[k] = p
      BY <2>1
    <3>2. CASE k = h
      <4>1. Len(s) + 1 \in 1..Len(q) /\ q[Len(s) + 1] = p
            /\ Len(s) + 1 + (n + 1) > Len(q)
        BY <1>6, <1>8, <3>1, <3>2
      <4> QED BY <1>8, <2>0, <4>1 DEF Kept
    <3>3. CASE k # h
      BY <1>1, <1>6, <3>1, <3>3 DEF Kept
    <3> QED BY <3>2, <3>3
  <2>2. CASE p \in to_delete_ /\ overtaken[u].shrinks > 0
    <3>1. overtaken'[u].shrinks = overtaken[u].shrinks
      BY <1>3, <1>9
    <3> QED BY <1>1, <2>2, <3>1 DEF Kept
  <2>3. CASE \E i \in 1..Len(value_ptr_out_of_date_) :
               /\ value_ptr_out_of_date_[i] = p
               /\ i + overtaken[u].evictions > Len(value_ptr_out_of_date_)
    <3>1. PICK i \in 1..Len(s) : s[i] = p /\ i + n > Len(s)
      BY <1>5, <2>0, <2>3
    <3>2. i \in 1..Len(q) /\ q[i] = p /\ i + (n + 1) > Len(q)
      BY <1>6, <1>8, <3>1
    <3> QED BY <1>8, <2>0, <3>2 DEF Kept
  <2> QED BY <1>9, <2>1, <2>2, <2>3 DEF Kept
<1> QED BY <1>1, <1>2, <1>4, <1>9, OvertakenKept

\* Shrink frees what the Shrink before it left, and no more.
LEMMA ShrinkKept ==
  ASSUME Basics, KeptInv, NEW eliminated \in SUBSET Keys, Shrink(eliminated)
  PROVE  KeptInv'
<1>1. /\ UNCHANGED <<tr, value_ptr_out_of_date_>>
      /\ to_delete_' = {dram[k] : k \in eliminated}
      /\ dram' = [k \in Keys |-> IF k \in eliminated THEN NoPtr ELSE dram[k]]
      /\ Overtake(LAMBDA o : [o EXCEPT !.shrinks = @ + 1])
      /\ sv.pc = "idle"
  BY DEF Shrink
<1>2. sv'.ptrs = sv.ptrs /\ ~Holds(Saver)
  BY <1>1, SaverMoves DEF Shrink, Holds
<1>3. \A u \in Threads : Holds(u) => Holds(u)'
  BY <1>1, <1>2 DEF Holds, Threads
<1>4. ASSUME NEW u \in Threads, Holds(u)
      PROVE  /\ overtaken'[u].evictions = overtaken[u].evictions
             /\ overtaken'[u].shrinks = overtaken[u].shrinks + 1
             /\ overtaken'[u].late = overtaken[u].late
             /\ overtaken[u].shrinks \in Nat
  BY <1>1, <1>4, OvertakeEvents
<1>5. \A u \in Threads : Holds(u) /\ InTime(u)' =>
        InTime(u) /\ overtaken[u].shrinks = 0 /\ overtaken'[u].shrinks > 0
  BY <1>4 DEF InTime
<1>6. ASSUME NEW u \in Threads, NEW p \in Nat, Holds(u), InTime(u)', Kept(u, p)
      PROVE  Kept(u, p)'
  <2>1. overtaken[u].shrinks = 0 /\ overtaken'[u].shrinks > 0
        /\ overtaken'[u].evictions = overtaken[u].evictions
    BY <1>4, <1>5, <1>6
  <2>2. CASE \E k \in Keys : dram[k] = p
    <3>1. PICK k \in Keys : dram[k] = p
      BY <2>2
    <3>2. CASE k \in eliminated
      BY <1>1, <2>1, <3>1, <3>2 DEF Kept
    <3>3. CASE k \notin eliminated
      BY <1>1, <3>1, <3>3 DEF Kept
    <3> QED BY <3>2, <3>3
  <2>3. CASE \E i \in 1..Len(value_ptr_out_of_date_) :
               /\ value_ptr_out_of_date_[i] = p
               /\ i + overtaken[u].evictions > Len(value_ptr_out_of_date_)
    BY <1>1, <2>1, <2>3 DEF Kept
  <2>4. ~(overtaken[u].shrinks > 0)
    BY <2>1
  <2> QED BY <1>6, <2>2, <2>3, <2>4 DEF Kept
<1> QED BY <1>1, <1>2, <1>3, <1>5, <1>6, OvertakenKept

\* The saver's own steps: it takes its pointers from DRAM, and lets them go.
LEMMA SaverKept ==
  ASSUME Basics, KeptInv,
         SnapshotDram \/ SnapshotSsd \/ DumpEmbeddingValues \/ SaveDone
  PROVE  KeptInv'
<1>1. UNCHANGED <<tr, value_ptr_out_of_date_, to_delete_, dram>>
  BY DEF SnapshotDram, SnapshotSsd, DumpEmbeddingValues, SaveDone, storeVars, retiredVars
<1>2. sv \in SaverType
  BY OtherTypes
<1>3. \A t \in Trainers : overtaken'[t] = overtaken[t]
  <2>1. Saver \notin Trainers /\ overtaken \in [Trainers \cup {Saver} -> OvertakenType]
    BY Constants, OtherTypes
  <2> QED BY <2>1 DEF SnapshotDram, SnapshotSsd, DumpEmbeddingValues, SaveDone, historyVars
<1>4. ASSUME NEW t \in Trainers, Holds(t)', InTime(t)' PROVE Kept(t, tr[t].ptr)'
  <2>1. Holds(t) /\ InTime(t)
    BY <1>1, <1>3, <1>4, HoldsUsing DEF Using, InTime
  <2>2. Kept(t, tr[t].ptr)
    BY <2>1 DEF KeptInv
  <2> QED BY <1>1, <1>3, <2>2 DEF Kept
<1>5. ASSUME NEW k \in Keys, sv'.ptrs[k] # NoPtr
      PROVE  Holds(Saver)' /\ (InTime(Saver)' => Kept(Saver, sv.ptrs[k])')
  <2>1. CASE SnapshotDram
    <3>1. sv'.pc = "dram" /\ sv'.ptrs = dram
      BY <1>2, <2>1 DEF SnapshotDram, SaverType
    <3> QED BY <1>1, <3>1 DEF Holds, Kept
  <2>2. CASE SnapshotSsd
    <3>1. sv'.pc = "ssd" /\ sv'.ptrs = sv.ptrs /\ overtaken' = overtaken
      BY <1>2, <2>2 DEF SnapshotSsd, SaverType, historyVars
    <3>2. InTime(Saver) => Kept(Saver, sv.ptrs[k])
      BY <1>5, <3>1 DEF KeptInv
    <3> QED BY <1>1, <3>1, <3>2 DEF Holds, Kept, InTime
  <2>3. CASE DumpEmbeddingValues \/ SaveDone
    <3>1. sv'.ptrs = [j \in Keys |-> NoPtr]
      BY <2>3, NothingSaved DEF DumpEmbeddingValues, SaveDone
    <3> QED BY <1>5, <3>1
  <2> QED BY <2>1, <2>2, <2>3
<1> QED BY <1>4, <1>5 DEF KeptInv

\* A state in which no thread holds a pointer.
LEMMA NoneHeld ==
  ASSUME tr = [t \in Trainers |-> Idle], sv = NotSaving
  PROVE  KeptInv
<1>1. \A t \in Trainers : ~Holds(t)
  BY HoldsUsing DEF Using, Idle
<1>2. \A k \in Keys : sv.ptrs[k] = NoPtr
  BY NothingSaved
<1> QED BY <1>1, <1>2 DEF KeptInv

LEMMA NoneHeldNext ==
  ASSUME tr' = [t \in Trainers |-> Idle], sv' = NotSaving
  PROVE  KeptInv'
<1>1. \A t \in Trainers : ~Holds(t)'
  BY HoldsUsing DEF Using, Idle
<1>2. \A k \in Keys : sv'.ptrs[k] = NoPtr
  BY NothingSaved
<1> QED BY <1>1, <1>2 DEF KeptInv

LEMMA KeptStep ==
  ASSUME Basics, KeptInv, [Next]_vars
  PROVE  KeptInv'
<1>1. ASSUME NEW t \in Trainers, TrainerNext(t) PROVE KeptInv'
  <2>1. CASE TrainerFrame /\ Died
    BY <2>1, SameKept DEF Died, TrainerFrame
  <2> QED BY <1>1, <2>1, TrainerEffect, OnKeyKept, WroteKept
<1>2. ASSUME NEW i \in 1..Len(tasks), RunTask(i) PROVE KeptInv'
  BY <1>2, SameKept DEF RunTask, storeVars, retiredVars, saveVars, historyVars
<1>3. CASE EvictorNext
  <2>1. CASE BatchEviction \/ EvictionCommit
    BY <2>1, SameKept DEF BatchEviction, EvictionCommit, storeVars, retiredVars, saveVars,
                          historyVars
  <2> QED BY <1>3, <2>1, EvictionBeginKept, EvictionRemoveKept DEF EvictorNext
<1>4. CASE SaverNext
  BY <1>4, ShrinkKept, SaverKept DEF SaverNext
<1>5. CASE \E order \in SetToSeqs(InDram) : Restore(order)
  BY <1>5, NoneHeldNext DEF Restore
<1>6. CASE UNCHANGED vars
  BY <1>6, SameKept DEF vars, storeVars, retiredVars, saveVars, historyVars
<1> QED BY <1>1, <1>2, <1>3, <1>4, <1>5, <1>6 DEF Next, Running, InDram

-----------------------------------------------------------------------------
(* PtrInv: a ValuePtr belongs to one key, a copy to its maker.             *)

\* The pointers that a state knows exist (RangeInv), so the next one is new.
LEMMA FreshPtr ==
  ASSUME Basics
  PROVE  /\ Len(val) + 1 \in Nat \ {0}
         /\ \A k \in Keys : dram[k] \in Nat /\ dram[k] # Len(val) + 1 /\ dram[k] <= Len(val)
         /\ \A t \in Trainers : tr[t].ptr \in Nat /\ tr[t].ptr # Len(val) + 1
                                /\ tr[t].ptr <= Len(val)
         /\ \A t \in Trainers : Using(t) \/ tr[t].pc = "tryinsert" => tr[t].ptr # NoPtr
         /\ tr \in [Trainers -> TrainerType] /\ dram \in [Keys -> Nat]
<1>1. tr \in [Trainers -> TrainerType] /\ dram \in [Keys -> Nat] /\ Len(val) \in Nat
  BY LenProperties DEF Basics, TypeOK
<1>2. \A k \in Keys : dram[k] \in Nat /\ dram[k] <= Len(val)
  BY <1>1 DEF Basics, RangeInv
<1>3. \A t \in Trainers : tr[t].ptr \in Nat /\ tr[t].ptr <= Len(val)
  BY <1>1 DEF Basics, RangeInv, TrainerType
<1>4. \A t \in Trainers : Using(t) \/ tr[t].pc = "tryinsert" => tr[t].ptr # NoPtr
  BY DEF Basics, RangeInv
<1>5. \A x \in Nat : x <= Len(val) => x # Len(val) + 1
  BY <1>1
<1> QED BY <1>1, <1>2, <1>3, <1>4, <1>5

\* A step in which no key gets a ValuePtr, and trainer t one that is known.
LEMMA QuietPtr ==
  ASSUME Basics, PtrInv, NEW t \in Trainers, NEW r, tr' = [tr EXCEPT ![t] = r],
         UNCHANGED dram,
         r.pc # "tryinsert",
         \A u \in Trainers \ {t} : tr[u].pc = "tryinsert" => r.ptr # tr[u].ptr,
         r.pc \in {"hold", "prefetched", "collected"} =>
           \A k \in Keys : dram[k] = r.ptr => k = r.key
  PROVE  PtrInv'
<1>1. \A u \in Trainers : tr'[u] = IF u = t THEN r ELSE tr[u]
  BY FreshPtr
<1>2. \A j, k \in Keys : dram'[j] # NoPtr /\ dram'[j] = dram'[k] => j = k
  BY DEF PtrInv
<1>3. \A u \in Trainers : Using(u)' =>
        \A k \in Keys : dram'[k] = tr'[u].ptr => k = tr'[u].key
  BY <1>1 DEF PtrInv, Using
<1>4. ASSUME NEW u \in Trainers, tr'[u].pc = "tryinsert"
      PROVE  /\ \A k \in Keys : dram'[k] # tr'[u].ptr
             /\ \A v \in Trainers \ {u} : tr'[v].ptr # tr'[u].ptr
  <2>1. u # t /\ tr'[u] = tr[u] /\ tr[u].pc = "tryinsert"
    BY <1>1, <1>4
  <2>2. /\ \A k \in Keys : dram[k] # tr[u].ptr
        /\ \A v \in Trainers \ {u} : tr[v].ptr # tr[u].ptr
    BY <2>1 DEF PtrInv
  <2> QED BY <1>1, <2>1, <2>2
<1> QED BY <1>2, <1>3, <1>4 DEF PtrInv

LEMMA OnKeyPtr ==
  ASSUME Basics, PtrInv, NEW t \in Trainers, NEW r, OnKey(t, r)
  PROVE  PtrInv'
<1>1. /\ r \in TrainerType /\ r.key \in Keys /\ tr' = [tr EXCEPT ![t] = r]
      /\ tr[t].pc = "idle" \/ r.key = tr[t].key
  BY DEF OnKey
<1>2. \A u \in Trainers : tr'[u] = IF u = t THEN r ELSE tr[u]
  BY <1>1, FreshPtr
<1>3. CASE Took(t, r)
  <2>1. \A u \in Trainers \ {t} : tr[u].pc = "tryinsert" => r.ptr # tr[u].ptr
    BY <1>1, <1>3, FreshPtr DEF Took, Held, PtrInv
  <2>2. r.pc \in {"hold", "prefetched", "collected"} =>
          \A k \in Keys : dram[k] = r.ptr => k = r.key
    BY <1>1, <1>3 DEF Took, Held, PtrInv
  <2> QED BY <1>1, <1>3, <2>1, <2>2, QuietPtr DEF Took, Held
<1>4. CASE Moved(t, r)
  <2>1. \A u \in Trainers \ {t} : tr[u].pc = "tryinsert" => r.ptr # tr[u].ptr
    BY <1>4, FreshPtr DEF Moved, PtrInv
  <2> QED BY <1>1, <1>4, <2>1, QuietPtr DEF Moved
<1>5. CASE Scheduled(t, r)
  <2>1. \A u \in Trainers \ {t} : tr[u].pc = "tryinsert" => r.ptr # tr[u].ptr
    BY <1>5 DEF Scheduled, PtrInv
  <2>2. \A k \in Keys : dram[k] = r.ptr => k = r.key
    BY <1>1, <1>5 DEF Scheduled, PtrInv, Using
  <2> QED BY <1>1, <1>5, <2>1, <2>2, QuietPtr DEF Scheduled
<1>6. CASE Copied(t, r)
  <2>1. dram' = dram /\ r.pc = "tryinsert" /\ r.ptr = Len(val) + 1
    BY <1>6 DEF Copied
  <2>2. \A j, k \in Keys : dram'[j] # NoPtr /\ dram'[j] = dram'[k] => j = k
    BY <2>1 DEF PtrInv
  <2>3. \A u \in Trainers : Using(u)' =>
          \A k \in Keys : dram'[k] = tr'[u].ptr => k = tr'[u].key
    BY <1>2, <2>1 DEF PtrInv, Using
  <2>4. \A u \in Trainers : tr'[u].pc = "tryinsert" =>
          /\ \A k \in Keys : dram'[k] # tr'[u].ptr
          /\ \A v \in Trainers \ {u} : tr'[v].ptr # tr'[u].ptr
    BY <1>2, <2>1, FreshPtr DEF PtrInv
  <2> QED BY <2>2, <2>3, <2>4 DEF PtrInv
<1>7. CASE Inserted(t, r) \/ Created(t, r)
  <2>1. PICK p : p = IF Inserted(t, r) THEN tr[t].ptr ELSE Len(val) + 1
    OBVIOUS
  <2>2. /\ dram' = [dram EXCEPT ![r.key] = p] /\ dram[r.key] = NoPtr
        /\ r.pc \in {"hold", "forward_done"} /\ r.ptr \in {NoPtr, p}
        /\ r.pc = "hold" => r.ptr = p
    BY <1>7, <2>1 DEF Inserted, Created, Held
  <2>3. /\ p # NoPtr /\ \A k \in Keys : dram[k] # p
        /\ \A u \in Trainers \ {t} : tr[u].ptr # p
    <3>1. CASE Inserted(t, r)
      BY <2>1, <3>1, FreshPtr DEF Inserted, PtrInv
    <3>2. CASE ~Inserted(t, r)
      <4>1. p = Len(val) + 1
        BY <2>1, <3>2
      <4> QED BY <4>1, FreshPtr, Constants
    <3> QED BY <3>1, <3>2
  <2>4. \A k \in Keys : dram'[k] = IF k = r.key THEN p ELSE dram[k]
    BY <1>1, <2>2, FreshPtr
  <2>5. \A j, k \in Keys : dram'[j] # NoPtr /\ dram'[j] = dram'[k] => j = k
    BY <2>3, <2>4 DEF PtrInv
  <2>6. ASSUME NEW u \in Trainers, Using(u)', NEW k \in Keys, dram'[k] = tr'[u].ptr
        PROVE  k = tr'[u].key
    <3>1. CASE u = t
      <4>1. tr'[u] = r /\ r.ptr = p
        BY <1>2, <2>2, <2>6, <3>1 DEF Using
      <4> QED BY <2>3, <2>4, <2>6, <4>1
    <3>2. CASE u # t
      <4>1. tr'[u] = tr[u] /\ Using(u)
        BY <1>2, <2>6, <3>2 DEF Using
      <4> QED BY <2>3, <2>4, <2>6, <3>2, <4>1 DEF PtrInv
    <3> QED BY <3>1, <3>2
  <2>7. ASSUME NEW u \in Trainers, tr'[u].pc = "tryinsert"
        PROVE  /\ \A k \in Keys : dram'[k] # tr'[u].ptr
               /\ \A v \in Trainers \ {u} : tr'[v].ptr # tr'[u].ptr
    <3>1. u # t /\ tr'[u] = tr[u]
      BY <1>2, <2>2, <2>7
    <3>2. /\ \A k \in Keys : dram[k] # tr[u].ptr
          /\ \A v \in Trainers \ {u} : tr[v].ptr # tr[u].ptr
          /\ tr[u].ptr # NoPtr /\ tr[u].ptr # p
      BY <2>3, <2>7, <3>1, FreshPtr DEF PtrInv
    <3> QED BY <1>2, <2>2, <2>4, <3>1, <3>2
  <2> QED BY <2>5, <2>6, <2>7 DEF PtrInv
<1> QED BY <1>3, <1>4, <1>5, <1>6, <1>7 DEF OnKey

LEMMA WrotePtr ==
  ASSUME Basics, PtrInv, NEW t \in Trainers, Wrote(t)
  PROVE  PtrInv'
<1>1. tr' = [tr EXCEPT ![t] = Idle] /\ dram' = dram
  BY DEF Wrote, Write
<1>2. Idle.pc = "idle" /\ Idle.ptr = NoPtr
  BY DEF Idle
<1>3. \A u \in Trainers \ {t} : tr[u].pc = "tryinsert" => Idle.ptr # tr[u].ptr
  BY <1>2, FreshPtr
<1> QED BY <1>1, <1>2, <1>3, QuietPtr

\* Keys leave DRAM, or nothing happens to it; the trainers stand still.
LEMMA LeavePtr ==
  ASSUME Basics, PtrInv, UNCHANGED tr,
         \A k \in Keys : dram'[k] \in {NoPtr, dram[k]}
  PROVE  PtrInv'
<1>1. \A j, k \in Keys : dram'[j] # NoPtr /\ dram'[j] = dram'[k] => j = k
  BY DEF PtrInv
<1>2. \A u \in Trainers : Using(u)' =>
        \A k \in Keys : dram'[k] = tr'[u].ptr => k = tr'[u].key
  BY FreshPtr DEF PtrInv, Using
<1>3. \A u \in Trainers : tr'[u].pc = "tryinsert" =>
        /\ \A k \in Keys : dram'[k] # tr'[u].ptr
        /\ \A v \in Trainers \ {u} : tr'[v].ptr # tr'[u].ptr
  BY FreshPtr DEF PtrInv
<1> QED BY <1>1, <1>2, <1>3 DEF PtrInv

LEMMA PtrStep ==
  ASSUME Basics, PtrInv, [Next]_vars
  PROVE  PtrInv'
<1>1. ASSUME NEW t \in Trainers, TrainerNext(t) PROVE PtrInv'
  <2>1. CASE Died
    BY <2>1, LeavePtr DEF Died
  <2> QED BY <1>1, <2>1, TrainerEffect, OnKeyPtr, WrotePtr
<1>2. ASSUME NEW i \in 1..Len(tasks), RunTask(i) PROVE PtrInv'
  BY <1>2, LeavePtr DEF RunTask, storeVars
<1>3. CASE EvictorNext
  <2>1. CASE BatchEviction \/ EvictionBegin \/ EvictionCommit
    BY <2>1, LeavePtr DEF BatchEviction, EvictionBegin, EvictionCommit, storeVars
  <2>2. CASE EvictionRemove
    BY <2>2, FreshPtr, LeavePtr DEF EvictionRemove
  <2> QED BY <1>3, <2>1, <2>2 DEF EvictorNext
<1>4. CASE SaverNext
  <2>1. CASE \E eliminated \in SUBSET Keys : Shrink(eliminated)
    BY <2>1, LeavePtr DEF Shrink
  <2>2. CASE SnapshotDram \/ SnapshotSsd \/ DumpEmbeddingValues \/ SaveDone
    BY <2>2, LeavePtr
       DEF SnapshotDram, SnapshotSsd, DumpEmbeddingValues, SaveDone, storeVars
  <2> QED BY <1>4, <2>1, <2>2 DEF SaverNext
<1>5. CASE \E order \in SetToSeqs(InDram) : Restore(order)
  <2>1. PICK order \in SetToSeqs(InDram) : Restore(order)
    BY <1>5
  <2>2. PICK in \in Seq(Keys) :
          /\ \A k \in Keys : Contains(in, k) =>
               dram'[k] \in 1..Len(in) /\ in[dram'[k]] = k
          /\ \A k \in Keys : ~Contains(in, k) => dram'[k] = NoPtr
    BY <2>1, RestoreFacts
  <2>3. \A j, k \in Keys : dram'[j] # NoPtr /\ dram'[j] = dram'[k] => j = k
    BY <2>2
  <2>4. \A t \in Trainers : tr'[t].pc = "idle"
    BY <2>1 DEF Restore, Idle
  <2> QED BY <2>3, <2>4 DEF PtrInv, Using
<1>6. CASE UNCHANGED vars
  BY <1>6, LeavePtr DEF vars, storeVars
<1> QED BY <1>1, <1>2, <1>3, <1>4, <1>5, <1>6 DEF Next, Running, InDram

-----------------------------------------------------------------------------
(* ValueInv: what a lookup finds is what the trainers wrote.               *)

\* What it means for a key not to be torn by a step.
LEMMA TornFacts ==
  ASSUME torn' = torn \cup Torn
  PROVE  /\ \A k : k \notin torn' => k \notin torn
         /\ \A k \in Keys \ torn' :
              /\ ~(BeingEvicted(k)' /\ Busy(k)')
              /\ ~(dram[k] # NoPtr /\ dram'[k] = NoPtr /\ Busy(k))
  BY DEF Torn

\* Every ValuePtr of a key has an embedding, before and after a step.
LEMMA ValueOf ==
  ASSUME Basics
  PROVE  /\ \A k \in Keys : dram[k] # NoPtr => dram[k] \in 1..Len(val) /\ val[dram[k]] # NoValue
         /\ \A t \in Trainers : Using(t) \/ tr[t].pc = "tryinsert" =>
              tr[t].ptr \in 1..Len(val) /\ val[tr[t].ptr] # NoValue
<1>1. \A k \in Keys : dram[k] # NoPtr => dram[k] \in 1..Len(val)
  BY Constants, Unmoved
<1>2. \A t \in Trainers : Using(t) \/ tr[t].pc = "tryinsert" => tr[t].ptr \in 1..Len(val)
  BY Constants, FreshPtr, Unmoved
<1>3. \A i \in 1..Len(val) : val[i] # NoValue
  BY ValBound DEF Basics
<1> QED BY <1>1, <1>2, <1>3

LEMMA ValueOfNext ==
  ASSUME Basics'
  PROVE  /\ \A k \in Keys : dram'[k] # NoPtr =>
              dram'[k] \in 1..Len(val') /\ val'[dram'[k]] # NoValue
         /\ \A i \in 1..Len(val') : val'[i] \in Nat /\ val'[i] <= MaxSteps
<1>1. /\ dram' \in [Keys -> Nat] /\ val' \in Seq(Nat) /\ Len(val') \in Nat
      /\ begun' \in 0..MaxSteps
  BY LenProperties DEF Basics, TypeOK
<1>2. \A k \in Keys : dram'[k] <= Len(val')
  BY DEF Basics, RangeInv
<1>3. \A k \in Keys : dram'[k] # NoPtr => dram'[k] \in 1..Len(val')
  BY <1>1, <1>2, Constants
<1>4. IsFiniteSet(Active')
  BY Constants, FS_Subset DEF Active
<1>5. PICK a \in Nat : a = Cardinality(Active')
  BY <1>4, FS_CardinalityType
<1>6. \A i \in 1..Len(val') : val'[i] \in Nat /\ val'[i] + a <= begun'
  BY <1>1, <1>5, ElementOfSeq DEF Basics, BoundInv, Room
<1>7. begun' \in Nat /\ begun' <= MaxSteps
  BY <1>1, Constants
<1>8. \A x \in Nat : x + a <= begun' => x <= MaxSteps /\ x # NoValue
  BY <1>5, <1>7, Constants
<1> QED BY <1>3, <1>6, <1>8

\* What a step of a trainer other than the write does to the tiers.
LEMMA OnKeyFacts ==
  ASSUME Basics, NEW t \in Trainers, NEW r, OnKey(t, r)
  PROVE  /\ \A u \in Trainers : tr'[u] = IF u = t THEN r ELSE tr[u]
         /\ \A k \in Keys : dram[k] # NoPtr => dram'[k] = dram[k] /\ truth'[k] = truth[k]
         /\ \A k \in Keys : dram'[k] = NoPtr => truth'[k] = truth[k]
         /\ \A k \in Keys : dram[k] = NoPtr /\ dram'[k] # NoPtr =>
              k = r.key /\ (Inserted(t, r) \/ Created(t, r))
         /\ \A i \in 1..Len(val) : val'[i] = val[i]
<1>1. /\ r \in TrainerType /\ r.key \in Keys /\ tr' = [tr EXCEPT ![t] = r]
  BY DEF OnKey
<1>2. \A u \in Trainers : tr'[u] = IF u = t THEN r ELSE tr[u]
  BY <1>1, FreshPtr
<1>3. /\ truth \in [Keys -> Embedding] /\ dram \in [Keys -> Nat] /\ val \in Seq(Nat)
      /\ Len(val) \in Nat
  BY Unmoved
<1>4. CASE Took(t, r) \/ Moved(t, r) \/ Scheduled(t, r)
  BY <1>2, <1>4 DEF Took, Moved, Scheduled
<1>5. CASE Copied(t, r)
  <2>1. UNCHANGED <<dram, truth>> /\ val' = Append(val, ssd[r.key])
    BY <1>5 DEF Copied
  <2>2. ssd[r.key] \in Nat
    BY <1>1, OtherTypes, Constants DEF Embedding
  <2>3. \A i \in 1..Len(val) : val'[i] = val[i]
    BY <1>3, <2>1, <2>2, AppendProperties
  <2> QED BY <1>2, <2>1, <2>3
<1>6. CASE Inserted(t, r)
  <2>1. /\ dram' = [dram EXCEPT ![r.key] = tr[t].ptr] /\ UNCHANGED <<truth, val>>
        /\ dram[r.key] = NoPtr
    BY <1>6 DEF Inserted
  <2> QED BY <1>1, <1>2, <1>3, <1>6, <2>1
<1>7. CASE Created(t, r)
  <2>1. /\ dram' = [dram EXCEPT ![r.key] = Len(val) + 1] /\ val' = Append(val, 0)
        /\ truth' = [truth EXCEPT ![r.key] = 0] /\ dram[r.key] = NoPtr
    BY <1>7 DEF Created
  <2>2. \A i \in 1..Len(val) : val'[i] = val[i]
    BY <1>3, <2>1, AppendProperties
  <2>3. Len(val) + 1 # NoPtr
    BY FreshPtr, Constants
  <2> QED BY <1>1, <1>2, <1>3, <1>7, <2>1, <2>2, <2>3
<1> QED BY <1>4, <1>5, <1>6, <1>7 DEF OnKey

\* The new ValuePtr of a key, in the two steps that give it one.
LEMMA NewPtr ==
  ASSUME Basics, NEW t \in Trainers, NEW r, OnKey(t, r),
         Inserted(t, r) \/ Created(t, r)
  PROVE  /\ Inserted(t, r) => /\ dram'[r.key] = tr[t].ptr /\ val' = val /\ truth' = truth
                              /\ tr[t].key = r.key
         /\ Created(t, r) => /\ dram'[r.key] = Len(val) + 1 /\ val'[Len(val) + 1] = 0
                             /\ truth'[r.key] = 0 /\ tr[t].key = r.key
<1>1. r.key \in Keys /\ (tr[t].pc = "idle" \/ r.key = tr[t].key)
  BY DEF OnKey
<1>2. /\ truth \in [Keys -> Embedding] /\ dram \in [Keys -> Nat] /\ val \in Seq(Nat)
      /\ Len(val) \in Nat
  BY Unmoved
<1>3. ASSUME Inserted(t, r)
      PROVE  /\ dram'[r.key] = tr[t].ptr /\ val' = val /\ truth' = truth
             /\ tr[t].key = r.key
  BY <1>1, <1>2, <1>3 DEF Inserted
<1>4. ASSUME Created(t, r)
      PROVE  /\ dram'[r.key] = Len(val) + 1 /\ val'[Len(val) + 1] = 0
             /\ truth'[r.key] = 0 /\ tr[t].key = r.key
  <2>1. val' = Append(val, 0)
    BY <1>4 DEF Created
  <2>2. val'[Len(val) + 1] = 0
    BY <1>2, <2>1, AppendProperties
  <2> QED BY <1>1, <1>2, <1>4, <2>2 DEF Created
<1> QED BY <1>3, <1>4

LEMMA OnKeyValue ==
  ASSUME Basics, Basics', PtrInv, ValueInv, NEW t \in Trainers, NEW r, TrainerFrame,
         OnKey(t, r), torn' = torn \cup Torn
  PROVE  ValueInv'
<1>0. /\ UNCHANGED <<ssd, ev>> /\ r.key \in Keys /\ r \in TrainerType
      /\ tr[t].pc = "idle" \/ r.key = tr[t].key
  BY DEF TrainerFrame, OnKey
<1>1. /\ \A u \in Trainers : tr'[u] = IF u = t THEN r ELSE tr[u]
      /\ \A k \in Keys : dram[k] # NoPtr => dram'[k] = dram[k] /\ truth'[k] = truth[k]
      /\ \A k \in Keys : dram'[k] = NoPtr => truth'[k] = truth[k]
      /\ \A k \in Keys : dram[k] = NoPtr /\ dram'[k] # NoPtr =>
           k = r.key /\ (Inserted(t, r) \/ Created(t, r))
      /\ \A i \in 1..Len(val) : val'[i] = val[i]
  BY OnKeyFacts
<1>2. ASSUME NEW k \in Keys, dram[k] # NoPtr
      PROVE  Visible(k)' = Visible(k) /\ truth'[k] = truth[k]
             /\ dram'[k] = dram[k] /\ val'[dram'[k]] = val[dram[k]]
  <2>1. dram[k] \in 1..Len(val) /\ dram'[k] = dram[k] /\ truth'[k] = truth[k]
    BY <1>1, <1>2, ValueOf
  <2>2. val'[dram[k]] = val[dram[k]]
    BY <1>1, <2>1
  <2> QED BY <1>2, <2>1, <2>2 DEF Visible
<1>3. ASSUME NEW k \in Keys, truth'[k] # NoValue PROVE Visible(k)' # NoValue
  <2>1. CASE dram'[k] # NoPtr
    BY <2>1, ValueOfNext DEF Visible
  <2>2. CASE dram'[k] = NoPtr
    <3>1. dram[k] = NoPtr /\ truth[k] # NoValue
      BY <1>1, <1>3, <2>2
    <3>2. Visible(k) # NoValue
      BY <3>1 DEF ValueInv
    <3> QED BY <1>0, <2>2, <3>1, <3>2 DEF Visible
  <2> QED BY <2>1, <2>2
<1>4. ASSUME NEW k \in Keys \ torn' PROVE Visible(k)' = truth'[k]
  <2>0. Visible(k) = truth[k] /\ k \notin torn
    BY TornFacts DEF ValueInv
  <2>1. CASE dram[k] # NoPtr
    BY <1>2, <2>0, <2>1
  <2>2. CASE dram[k] = NoPtr /\ dram'[k] = NoPtr
    BY <1>0, <1>1, <2>0, <2>2 DEF Visible
  <2>3. CASE dram[k] = NoPtr /\ dram'[k] # NoPtr
    <3>1. k = r.key /\ (Inserted(t, r) \/ Created(t, r))
      BY <1>1, <2>3
    <3>2. CASE Inserted(t, r)
      <4>1. dram'[k] = tr[t].ptr /\ val' = val /\ truth' = truth /\ tr[t].key = k
        BY <3>1, <3>2, NewPtr
      <4>2. val[tr[t].ptr] = ssd[k]
        BY <2>0, <3>2, <4>1 DEF ValueInv, Inserted
      <4>3. Visible(k) = ssd[k]
        BY <2>3 DEF Visible
      <4> QED BY <2>0, <2>3, <4>1, <4>2, <4>3 DEF Visible
    <3>3. CASE Created(t, r)
      <4>1. dram'[k] = Len(val) + 1 /\ val'[Len(val) + 1] = 0 /\ truth'[k] = 0
        BY <3>1, <3>3, NewPtr
      <4> QED BY <2>3, <4>1 DEF Visible
    <3> QED BY <3>1, <3>2, <3>3
  <2> QED BY <2>1, <2>2, <2>3
<1>5. ASSUME NEW k \in Keys, BeingEvicted(k)'
      PROVE  /\ dram'[k] # NoPtr /\ ssd'[k] # NoValue
             /\ k \notin torn' => ssd'[k] = val'[dram'[k]] /\ ~Busy(k)'
  <2>1. BeingEvicted(k)
    BY <1>0, <1>5 DEF BeingEvicted
  <2>2. /\ dram[k] # NoPtr /\ ssd[k] # NoValue
        /\ k \notin torn => ssd[k] = val[dram[k]]
    BY <2>1 DEF ValueInv
  <2>3. k \notin torn' => k \notin torn /\ ~Busy(k)'
    BY <1>5, TornFacts
  <2> QED BY <1>0, <1>2, <2>2, <2>3
<1>6. ASSUME NEW u \in Trainers, tr'[u].key \notin torn'
      PROVE  /\ tr'[u].pc = "tryinsert" => val'[tr'[u].ptr] = ssd'[tr'[u].key]
             /\ Using(u)' => dram'[tr'[u].key] = tr'[u].ptr
             /\ tr'[u].pc \in {"create", "relook"} => ssd'[tr'[u].key] = NoValue
  <2>1. CASE u # t
    <3>1. tr'[u] = tr[u] /\ tr[u].key \notin torn
      BY <1>1, <1>6, <2>1, TornFacts
    <3>2. /\ tr[u].pc = "tryinsert" => val[tr[u].ptr] = ssd[tr[u].key]
          /\ Using(u) => dram[tr[u].key] = tr[u].ptr
          /\ tr[u].pc \in {"create", "relook"} => ssd[tr[u].key] = NoValue
      BY <3>1 DEF ValueInv
    <3>3. tr[u].pc = "tryinsert" => val'[tr[u].ptr] = val[tr[u].ptr]
      BY <1>1, ValueOf
    <3>4. Using(u) => dram'[tr[u].key] = tr[u].ptr
      <4>1. Using(u) => tr[u].key \in Keys /\ tr[u].ptr # NoPtr
        BY TrainerKey, FreshPtr DEF Using, Basics
      <4> QED BY <1>1, <3>2, <4>1
    <3> QED BY <1>0, <3>1, <3>2, <3>3, <3>4 DEF Using
  <2>2. CASE u = t
    <3>0. tr'[u] = r /\ r.key \notin torn
      BY <1>1, <1>6, <2>2, TornFacts
    <3>1. CASE Took(t, r)
      BY <3>0, <3>1 DEF Took, Held, Using
    <3>2. CASE Moved(t, r)
      <4>1. tr[t].pc \in {"create", "relook"} => ssd[r.key] = NoValue
        BY <1>0, <3>0 DEF ValueInv
      <4> QED BY <1>0, <3>0, <3>2, <4>1 DEF Moved, Using
    <3>3. CASE Copied(t, r)
      <4>1. val' = Append(val, ssd[r.key]) /\ r.ptr = Len(val) + 1 /\ r.pc = "tryinsert"
        BY <3>3 DEF Copied
      <4>2. ssd[r.key] \in Nat
        BY <1>0, OtherTypes, Constants DEF Embedding
      <4>3. val'[r.ptr] = ssd[r.key]
        BY <4>1, <4>2, Unmoved, AppendProperties
      <4> QED BY <1>0, <3>0, <4>1, <4>3 DEF Using
    <3>4. CASE Inserted(t, r) \/ Created(t, r)
      <4>1. r.pc \in {"hold", "forward_done"} /\ (r.pc = "hold" => dram'[r.key] = r.ptr)
        BY <3>4, NewPtr DEF Inserted, Created, Held
      <4> QED BY <3>0, <4>1 DEF Using
    <3>5. CASE Scheduled(t, r)
      <4>1. /\ Using(t) /\ r.ptr = tr[t].ptr /\ r.key = tr[t].key /\ dram' = dram
            /\ r.pc \in {"prefetched", "collected"}
        BY <1>0, <3>5 DEF Scheduled, Using
      <4>2. dram[r.key] = r.ptr
        BY <3>0, <4>1 DEF ValueInv
      <4> QED BY <3>0, <4>1, <4>2
    <3> QED BY <3>1, <3>2, <3>3, <3>4, <3>5 DEF OnKey
  <2> QED BY <2>1, <2>2
<1> QED BY <1>3, <1>4, <1>5, <1>6 DEF ValueInv
\* What the write does to the tiers: the embedding of p, and the truth of the key.
LEMMA WroteFacts ==
  ASSUME Basics, NEW t \in Trainers, Wrote(t)
  PROVE  /\ \A u \in Trainers : tr'[u] = IF u = t THEN Idle ELSE tr[u]
         /\ dram' = dram /\ Using(t) /\ tr[t].key \in Keys /\ tr[t].ptr \in 1..Len(val)
         /\ Len(val') = Len(val)
         /\ \A i \in 1..Len(val) : val'[i] = IF i = tr[t].ptr THEN val[i] + 1 ELSE val[i]
         /\ \A k \in Keys : truth'[k] = IF k = tr[t].key /\ truth[k] # NoValue
                                          THEN truth[k] + 1 ELSE truth[k]
<1>1. Using(t) /\ dram' = dram /\ Write(t)
  BY DEF Wrote
<1>2. tr[t].key \in Keys /\ tr[t].ptr \in 1..Len(val)
  BY <1>1, TrainerKey, ValueOf DEF Basics, Using
<1>3. \A u \in Trainers : tr'[u] = IF u = t THEN Idle ELSE tr[u]
  BY <1>1, FreshPtr DEF Write
<1>4. PICK p : p = tr[t].ptr
  OBVIOUS
<1>5. p \in 1..Len(val) /\ val \in Seq(Nat) /\ val[p] \in Nat /\ val[p] + 1 \in Nat
  BY <1>2, <1>4, Unmoved, ElementOfSeq
<1>6. val' = [val EXCEPT ![p] = val[p] + 1]
  BY <1>1, <1>4 DEF Write
<1>7. /\ Len(val') = Len(val)
      /\ \A i \in 1..Len(val) : val'[i] = IF i = p THEN val[p] + 1 ELSE val[i]
  BY <1>5, <1>6, ExceptSeq
<1>8. \A k \in Keys : truth'[k] = IF k = tr[t].key /\ truth[k] # NoValue
                                    THEN truth[k] + 1 ELSE truth[k]
  BY <1>1, <1>2, Unmoved DEF Write
<1> QED BY <1>1, <1>2, <1>3, <1>4, <1>7, <1>8

LEMMA WroteValue ==
  ASSUME Basics, Basics', PtrInv, ValueInv, NEW t \in Trainers, TrainerFrame, Wrote(t),
         torn' = torn \cup Torn
  PROVE  ValueInv'
<1>0. UNCHANGED <<ssd, ev>>
  BY DEF TrainerFrame
<1>1. /\ \A u \in Trainers : tr'[u] = IF u = t THEN Idle ELSE tr[u]
      /\ dram' = dram /\ Using(t) /\ tr[t].key \in Keys /\ tr[t].ptr \in 1..Len(val)
      /\ \A i \in 1..Len(val) : val'[i] = IF i = tr[t].ptr THEN val[i] + 1 ELSE val[i]
      /\ \A k \in Keys : truth'[k] = IF k = tr[t].key /\ truth[k] # NoValue
                                       THEN truth[k] + 1 ELSE truth[k]
  BY WroteFacts
<1>2. ASSUME NEW k \in Keys, k # tr[t].key, dram[k] # NoPtr
      PROVE  val'[dram[k]] = val[dram[k]]
  <2>1. dram[k] # tr[t].ptr /\ dram[k] \in 1..Len(val)
    BY <1>1, <1>2, ValueOf DEF PtrInv
  <2> QED BY <1>1, <2>1
<1>3. ASSUME NEW k \in Keys, truth'[k] # NoValue PROVE Visible(k)' # NoValue
  <2>1. CASE dram[k] # NoPtr
    BY <1>1, <2>1, ValueOfNext DEF Visible
  <2>2. CASE dram[k] = NoPtr
    <3>1. truth[k] # NoValue
      BY <1>1, <1>3
    <3>2. Visible(k) # NoValue
      BY <3>1 DEF ValueInv
    <3> QED BY <1>0, <1>1, <2>2, <3>2 DEF Visible
  <2> QED BY <2>1, <2>2
<1>4. ASSUME NEW k \in Keys \ torn' PROVE Visible(k)' = truth'[k]
  <2>0. Visible(k) = truth[k] /\ k \notin torn
    BY TornFacts DEF ValueInv
  <2>1. CASE k = tr[t].key
    <3>1. dram[k] = tr[t].ptr
      BY <1>1, <2>0, <2>1 DEF ValueInv
    <3>2. dram[k] # NoPtr /\ val[dram[k]] # NoValue
      <4>1. tr[t].ptr # NoPtr
        BY <1>1, FreshPtr
      <4>2. val[tr[t].ptr] # NoValue
        BY <1>1, ValueOf
      <4> QED BY <3>1, <4>1, <4>2
    <3>3. truth[k] = val[dram[k]]
      BY <2>0, <3>2 DEF Visible
    <3>4. val'[dram[k]] = val[dram[k]] + 1 /\ truth'[k] = truth[k] + 1
      BY <1>1, <2>1, <3>1, <3>2, <3>3
    <3> QED BY <1>1, <3>2, <3>3, <3>4 DEF Visible
  <2>2. CASE k # tr[t].key
    <3>1. Visible(k)' = Visible(k)
      BY <1>0, <1>1, <1>2, <2>2 DEF Visible
    <3> QED BY <1>1, <2>0, <2>2, <3>1
  <2> QED BY <2>1, <2>2
<1>5. ASSUME NEW k \in Keys, BeingEvicted(k)'
      PROVE  /\ dram'[k] # NoPtr /\ ssd'[k] # NoValue
             /\ k \notin torn' => ssd'[k] = val'[dram'[k]] /\ ~Busy(k)'
  <2>1. BeingEvicted(k)
    BY <1>0, <1>5 DEF BeingEvicted
  <2>2. /\ dram[k] # NoPtr /\ ssd[k] # NoValue
        /\ k \notin torn => ssd[k] = val[dram[k]] /\ ~Busy(k)
    BY <2>1 DEF ValueInv
  <2>3. k \notin torn' => k \notin torn /\ ~Busy(k)'
    BY <1>5, TornFacts
  <2>4. Busy(tr[t].key)
    BY <1>1 DEF Busy, Using
  <2>5. k \notin torn' => k # tr[t].key
    BY <2>2, <2>3, <2>4
  <2> QED BY <1>0, <1>1, <1>2, <2>2, <2>3, <2>5
<1>6. ASSUME NEW u \in Trainers, tr'[u].key \notin torn'
      PROVE  /\ tr'[u].pc = "tryinsert" => val'[tr'[u].ptr] = ssd'[tr'[u].key]
             /\ Using(u)' => dram'[tr'[u].key] = tr'[u].ptr
             /\ tr'[u].pc \in {"create", "relook"} => ssd'[tr'[u].key] = NoValue
  <2>1. CASE u = t
    <3>1. tr'[u].pc = "idle"
      BY <1>1, <2>1 DEF Idle
    <3> QED BY <3>1 DEF Using
  <2>2. CASE u # t
    <3>1. tr'[u] = tr[u] /\ tr[u].key \notin torn
      BY <1>1, <1>6, <2>2, TornFacts
    <3>2. /\ tr[u].pc = "tryinsert" => val[tr[u].ptr] = ssd[tr[u].key]
          /\ Using(u) => dram[tr[u].key] = tr[u].ptr
          /\ tr[u].pc \in {"create", "relook"} => ssd[tr[u].key] = NoValue
      BY <3>1 DEF ValueInv
    <3>3. ASSUME tr[u].pc = "tryinsert" PROVE val'[tr[u].ptr] = val[tr[u].ptr]
      <4>1. tr[t].ptr # tr[u].ptr /\ tr[u].ptr \in 1..Len(val)
        BY <2>2, <3>3, ValueOf DEF PtrInv
      <4> QED BY <1>1, <4>1
    <3> QED BY <1>0, <1>1, <3>1, <3>2, <3>3 DEF Using
  <2> QED BY <2>1, <2>2
<1> QED BY <1>3, <1>4, <1>5, <1>6 DEF ValueInv

\* A step that touches neither the tiers, the trainers nor the key being evicted.
LEMMA SameValue ==
  ASSUME ValueInv, UNCHANGED <<dram, val, ssd, truth, tr>>, torn' = torn \cup Torn,
         \A k \in Keys : BeingEvicted(k)' => BeingEvicted(k)
  PROVE  ValueInv'
<1>1. \A k \in Keys : Visible(k)' = Visible(k) /\ (Busy(k)' <=> Busy(k))
  BY DEF Visible, Busy
<1>2. \A k : k \notin torn' => k \notin torn
  BY TornFacts
<1>3. \A k \in Keys : truth'[k] # NoValue => Visible(k)' # NoValue
  BY <1>1 DEF ValueInv
<1>4. \A k \in Keys \ torn' : Visible(k)' = truth'[k]
  BY <1>1, <1>2 DEF ValueInv
<1>5. \A k \in Keys : BeingEvicted(k)' =>
        /\ dram'[k] # NoPtr /\ ssd'[k] # NoValue
        /\ k \notin torn' => ssd'[k] = val'[dram'[k]] /\ ~Busy(k)'
  BY <1>1, <1>2 DEF ValueInv
<1>6. \A t \in Trainers : tr'[t].key \notin torn' =>
        /\ tr'[t].pc = "tryinsert" => val'[tr'[t].ptr] = ssd'[tr'[t].key]
        /\ Using(t)' => dram'[tr'[t].key] = tr'[t].ptr
        /\ tr'[t].pc \in {"create", "relook"} => ssd'[tr'[t].key] = NoValue
  BY <1>2 DEF ValueInv, Using
<1> QED BY <1>3, <1>4, <1>5, <1>6 DEF ValueInv

\* Commit: the record on SSD is the embedding of the moment, and nobody is on the key
\* unless it is torn.
LEMMA EvictionCommitValue ==
  ASSUME Basics, Basics', ValueInv, EvictionCommit, torn' = torn \cup Torn
  PROVE  ValueInv'
<1>1. PICK h : h = Head(ev.ids)
  OBVIOUS
<1>2. /\ h \in Keys /\ ev.pc = "next" /\ UNCHANGED <<dram, val, truth, tr>>
      /\ ev \in EvictorType /\ ssd \in [Keys -> Embedding]
  BY <1>1, NextIdFacts, OtherTypes DEF EvictionCommit, historyVars
<1>3. CASE dram[h] = NoPtr
  <2>1. ssd' = ssd /\ ev' = NextId
    BY <1>1, <1>3 DEF EvictionCommit
  <2>2. \A k \in Keys : ~BeingEvicted(k)'
    BY <1>2, <2>1, NextIdFacts DEF BeingEvicted
  <2> QED BY <1>2, <2>1, <2>2, SameValue
<1>4. CASE dram[h] # NoPtr
  <2>1. /\ \A k \in Keys : ssd'[k] = IF k = h THEN val[dram[h]] ELSE ssd[k]
        /\ ev'.pc = "remove" /\ ev'.ids = ev.ids
    BY <1>1, <1>2, <1>4 DEF EvictionCommit, EvictorType
  <2>2. val[dram[h]] # NoValue
    BY <1>2, <1>4, ValueOf
  <2>3. \A k \in Keys : BeingEvicted(k)' <=> k = h
    BY <1>1, <2>1 DEF BeingEvicted
  <2>4. \A k \in Keys : Visible(k)' = Visible(k)
    BY <1>2, <1>4, <2>1 DEF Visible
  <2>5. h \notin torn' => ~Busy(h)'
    BY <1>2, <2>3, TornFacts
  <2>6. \A k \in Keys : truth'[k] # NoValue => Visible(k)' # NoValue
    BY <1>2, <2>4 DEF ValueInv
  <2>7. \A k \in Keys \ torn' : Visible(k)' = truth'[k]
    BY <1>2, <2>4, TornFacts DEF ValueInv
  <2>8. \A k \in Keys : BeingEvicted(k)' =>
          /\ dram'[k] # NoPtr /\ ssd'[k] # NoValue
          /\ k \notin torn' => ssd'[k] = val'[dram'[k]] /\ ~Busy(k)'
    BY <1>2, <1>4, <2>1, <2>2, <2>3, <2>5
  <2>9. ASSUME NEW t \in Trainers, tr'[t].key \notin torn'
        PROVE  /\ tr'[t].pc = "tryinsert" => val'[tr'[t].ptr] = ssd'[tr'[t].key]
               /\ Using(t)' => dram'[tr'[t].key] = tr'[t].ptr
               /\ tr'[t].pc \in {"create", "relook"} => ssd'[tr'[t].key] = NoValue
    <3>1. tr[t].key \notin torn /\ tr'[t] = tr[t]
      BY <1>2, <2>9, TornFacts
    <3>2. CASE tr[t].key = h
      <4>1. tr'[t].pc \notin {"tryinsert", "create", "relook", "hold", "prefetched", "collected"}
        BY <2>5, <2>9, <3>1, <3>2 DEF Busy
      <4> QED BY <4>1 DEF Using
    <3>3. CASE tr[t].key # h
      <4>1. tr[t].pc \in {"tryinsert", "create", "relook"} => ssd'[tr[t].key] = ssd[tr[t].key]
        BY <2>1, <3>3, TrainerKey DEF Basics
      <4> QED BY <1>2, <3>1, <4>1 DEF ValueInv, Using
    <3> QED BY <3>2, <3>3
  <2> QED BY <2>6, <2>7, <2>8, <2>9 DEF ValueInv
<1> QED BY <1>3, <1>4

\* Keys leave DRAM for what SSD holds of them, at a time when no thread is on them
\* unless they are torn.
LEMMA LeaveValue ==
  ASSUME Basics, ValueInv, torn' = torn \cup Torn, UNCHANGED <<val, ssd, tr>>,
         NEW gone \in SUBSET Keys,
         \A k \in gone : dram[k] # NoPtr /\ dram'[k] = NoPtr,
         \A k \in Keys \ gone : dram'[k] = dram[k] /\ truth'[k] = truth[k],
         \A k \in gone : truth'[k] # NoValue => ssd[k] # NoValue,
         \A k \in gone \ torn' : truth'[k] = ssd[k],
         \A k \in Keys : ~BeingEvicted(k)'
  PROVE  ValueInv'
<1>1. \A k \in gone : Visible(k)' = ssd[k]
  BY DEF Visible
<1>2. \A k \in Keys \ gone : Visible(k)' = Visible(k)
  BY DEF Visible
<1>3. \A k \in Keys : truth'[k] # NoValue => Visible(k)' # NoValue
  BY <1>1, <1>2 DEF ValueInv
<1>4. \A k \in Keys \ torn' : Visible(k)' = truth'[k]
  BY <1>1, <1>2, TornFacts DEF ValueInv
<1>5. ASSUME NEW t \in Trainers, tr'[t].key \notin torn'
      PROVE  /\ tr'[t].pc = "tryinsert" => val'[tr'[t].ptr] = ssd'[tr'[t].key]
             /\ Using(t)' => dram'[tr'[t].key] = tr'[t].ptr
             /\ tr'[t].pc \in {"create", "relook"} => ssd'[tr'[t].key] = NoValue
  <2>1. tr[t].key \notin torn /\ tr'[t] = tr[t]
    BY <1>5, TornFacts
  <2>2. ASSUME Using(t) PROVE dram'[tr[t].key] = tr[t].ptr
    <3>1. tr[t].key \in Keys /\ dram[tr[t].key] = tr[t].ptr
      BY <2>1, <2>2, TrainerKey DEF Using, Basics, ValueInv
    <3>2. Busy(tr[t].key)
      BY <2>2 DEF Busy, Using
    <3>3. tr[t].key \notin gone
      BY <1>5, <2>1, <3>1, <3>2, TornFacts
    <3> QED BY <3>1, <3>3
  <2> QED BY <2>1, <2>2 DEF ValueInv, Using
<1> QED BY <1>3, <1>4, <1>5 DEF ValueInv

LEMMA EvictionRemoveValue ==
  ASSUME Basics, ValueInv, EvictionRemove, torn' = torn \cup Torn
  PROVE  ValueInv'
<1>1. PICK h : h = Head(ev.ids)
  OBVIOUS
<1>2. /\ h \in Keys /\ BeingEvicted(h) /\ UNCHANGED <<val, ssd, truth, tr>>
      /\ \A k \in Keys : dram'[k] = IF k = h THEN NoPtr ELSE dram[k]
      /\ \A k \in Keys : ~BeingEvicted(k)'
  BY <1>1, NextIdFacts, OtherTypes DEF EvictionRemove, BeingEvicted
<1>3. /\ dram[h] # NoPtr /\ ssd[h] # NoValue
      /\ h \notin torn => ssd[h] = val[dram[h]] /\ Visible(h) = truth[h]
  BY <1>2 DEF ValueInv
<1>4. h \notin torn' => truth[h] = ssd[h]
  BY <1>3, TornFacts DEF Visible
<1>5. PICK gone \in SUBSET Keys : gone = {h}
  BY <1>2
<1> QED BY <1>2, <1>3, <1>4, <1>5, LeaveValue

LEMMA ShrinkValue ==
  ASSUME Basics, ValueInv, NEW eliminated \in SUBSET Keys, Shrink(eliminated),
         torn' = torn \cup Torn
  PROVE  ValueInv'
<1>1. /\ UNCHANGED <<val, ssd, tr, ev>> /\ \A k \in Keys : ~BeingEvicted(k)
  BY DEF Shrink, MutexesFree, BeingEvicted
<1>2. \A k \in Keys : ~BeingEvicted(k)'
  BY <1>1 DEF BeingEvicted
<1>3. \A k \in eliminated : dram[k] # NoPtr /\ dram'[k] = NoPtr /\ truth'[k] = ssd[k]
  BY DEF Shrink
<1>4. \A k \in Keys \ eliminated : dram'[k] = dram[k] /\ truth'[k] = truth[k]
  BY DEF Shrink
<1> QED BY <1>1, <1>2, <1>3, <1>4, LeaveValue

LEMMA RestoreValue ==
  ASSUME Basics, NEW order \in SetToSeqs(InDram), Restore(order)
  PROVE  ValueInv'
<1>1. PICK in \in Seq(Keys) :
        /\ Len(val') = Len(in)
        /\ \A i \in 1..Len(in) : val'[i] = sv.dram[in[i]]
        /\ \A k \in Keys : Contains(in, k) =>
             dram'[k] \in 1..Len(in) /\ in[dram'[k]] = k
        /\ \A k \in Keys : ~Contains(in, k) => dram'[k] = NoPtr
        /\ \A k \in Keys : Contains(in, k) => sv.dram[k] # NoValue
        /\ ssd' = [k \in Keys |-> IF sv.dram[k] # NoValue /\ ~Contains(in, k)
                                    THEN sv.dram[k] ELSE sv.ssd[k]]
  BY RestoreFacts
<1>2. /\ ev' = Resting /\ tr' = [t \in Trainers |-> Idle]
      /\ truth' = [k \in Keys |-> Restored(k)]
  BY DEF Restore
<1>3. ASSUME NEW k \in Keys PROVE Visible(k)' = truth'[k]
  <2>0. truth'[k] = IF sv.dram[k] # NoValue THEN sv.dram[k] ELSE sv.ssd[k]
    BY <1>2 DEF Restored
  <2>1. CASE Contains(in, k)
    <3>1. dram'[k] \in 1..Len(in) /\ dram'[k] # NoPtr /\ val'[dram'[k]] = sv.dram[k]
      <4>1. dram'[k] \in 1..Len(in) /\ in[dram'[k]] = k
        BY <1>1, <2>1
      <4>2. val'[dram'[k]] = sv.dram[in[dram'[k]]]
        BY <1>1, <4>1
      <4> QED BY <4>1, <4>2, Constants
    <3>2. sv.dram[k] # NoValue
      BY <1>1, <2>1
    <3> QED BY <2>0, <3>1, <3>2 DEF Visible
  <2>2. CASE ~Contains(in, k)
    <3>1. dram'[k] = NoPtr /\ ssd'[k] = IF sv.dram[k] # NoValue THEN sv.dram[k] ELSE sv.ssd[k]
      BY <1>1, <2>2
    <3> QED BY <2>0, <3>1 DEF Visible
  <2> QED BY <2>1, <2>2
<1>4. \A t \in Trainers : tr'[t].pc = "idle"
  BY <1>2 DEF Idle
<1>5. \A k \in Keys : ~BeingEvicted(k)'
  BY <1>2 DEF BeingEvicted, Resting
<1> QED BY <1>3, <1>4, <1>5 DEF ValueInv, Using

LEMMA ValueStep ==
  ASSUME Basics, Basics', PtrInv, ValueInv, [Next]_vars
  PROVE  ValueInv'
<1>1. ASSUME NEW t \in Trainers, TrainerNext(t), torn' = torn \cup Torn PROVE ValueInv'
  <2>1. CASE TrainerFrame /\ Died
    BY <1>1, <2>1, SameValue DEF Died, TrainerFrame, BeingEvicted
  <2> QED BY <1>1, <2>1, TrainerEffect, OnKeyValue, WroteValue
<1>2. ASSUME NEW i \in 1..Len(tasks), RunTask(i), torn' = torn \cup Torn PROVE ValueInv'
  BY <1>2, SameValue DEF RunTask, storeVars, historyVars, BeingEvicted
<1>3. ASSUME EvictorNext, torn' = torn \cup Torn PROVE ValueInv'
  <2>1. CASE BatchEviction
    <3>1. \A k \in Keys : ~BeingEvicted(k)'
      BY <2>1 DEF BatchEviction, BeingEvicted
    <3> QED BY <1>3, <2>1, <3>1, SameValue DEF BatchEviction, storeVars, historyVars
  <2>2. CASE EvictionBegin
    <3>1. \A k \in Keys : ~BeingEvicted(k)'
      BY <2>2, OtherTypes DEF EvictionBegin, BeingEvicted, EvictorType
    <3> QED BY <1>3, <2>2, <3>1, SameValue DEF EvictionBegin, storeVars
  <2> QED BY <1>3, <2>1, <2>2, EvictionCommitValue, EvictionRemoveValue DEF EvictorNext
<1>4. ASSUME SaverNext, torn' = torn \cup Torn PROVE ValueInv'
  <2>1. CASE SnapshotDram \/ SnapshotSsd \/ DumpEmbeddingValues \/ SaveDone
    <3>1. UNCHANGED <<dram, val, ssd, truth, tr, ev>>
      BY <2>1 DEF SnapshotDram, SnapshotSsd, DumpEmbeddingValues, SaveDone, storeVars,
                  historyVars
    <3> QED BY <1>4, <3>1, SameValue DEF BeingEvicted
  <2> QED BY <1>4, <2>1, ShrinkValue DEF SaverNext
<1>5. CASE \E order \in SetToSeqs(InDram) : Restore(order)
  BY <1>5, RestoreValue
<1>6. CASE UNCHANGED vars
  BY <1>6 DEF vars, storeVars, historyVars, ValueInv, Visible, BeingEvicted, Busy, Using
<1> QED BY <1>1, <1>2, <1>3, <1>4, <1>5, <1>6 DEF Next, Running, InDram

-----------------------------------------------------------------------------
(* SaveInv: the checkpoint in the making misses nothing.                   *)

\* The values of the invariant are numbers.
LEMMA SaveTypes ==
  ASSUME Basics
  PROVE  /\ sv \in SaverType
         /\ \A k \in Keys : truth[k] \in Nat /\ ssd[k] \in Nat /\ sv.floor[k] \in Nat
                            /\ sv.ssd[k] \in Nat
         /\ \A k \in Keys : sv.ptrs[k] # NoPtr =>
              /\ sv.ptrs[k] \in 1..Len(val) /\ val[sv.ptrs[k]] \in Nat
              /\ val[sv.ptrs[k]] # NoValue
<1>1. sv \in SaverType
  BY OtherTypes
<1>2. Embedding \subseteq Nat
  BY Constants DEF Embedding
<1>3. \A k \in Keys : truth[k] \in Nat /\ ssd[k] \in Nat /\ sv.floor[k] \in Nat
                      /\ sv.ssd[k] \in Nat
  BY <1>1, <1>2, OtherTypes DEF SaverType
<1>4. ASSUME NEW k \in Keys, sv.ptrs[k] # NoPtr
      PROVE  /\ sv.ptrs[k] \in 1..Len(val) /\ val[sv.ptrs[k]] \in Nat
             /\ val[sv.ptrs[k]] # NoValue
  <2>1. sv.ptrs[k] \in Nat /\ sv.ptrs[k] <= Len(val) /\ Len(val) \in Nat
    BY <1>1, OtherTypes, Unmoved DEF SaverType
  <2>2. sv.ptrs[k] \in 1..Len(val)
    BY <1>4, <2>1, Constants
  <2> QED BY <2>2, ValBound DEF Basics
<1> QED BY <1>1, <1>3, <1>4

\* The saver stands still: the truth and the embeddings only grow, and a record on
\* SSD that the saver still has to list is not below the floor.
LEMMA SaveGrows ==
  ASSUME SaveInv, UNCHANGED sv, torn \subseteq torn',
         \A k \in Keys \ torn' : sv.floor[k] # NoValue /\ sv.pc \in {"dram", "ssd"} =>
           /\ AtLeast(truth'[k], sv.floor[k])
           /\ sv.ptrs[k] # NoPtr => val'[sv.ptrs[k]] >= sv.floor[k]
           /\ ssd'[k] = ssd[k] \/ AtLeast(ssd'[k], sv.floor[k])
  PROVE  SaveInv'
<1>1. CheckpointComplete'
  BY DEF SaveInv, CheckpointComplete, Restored
<1>2. ASSUME sv'.pc \in {"dram", "ssd"}, NEW k \in Keys \ torn', sv'.floor[k] # NoValue
      PROVE  /\ AtLeast(truth'[k], sv'.floor[k])
             /\ IF sv'.ptrs[k] # NoPtr THEN val'[sv'.ptrs[k]] >= sv'.floor[k]
                ELSE AtLeast(IF sv'.pc = "dram" THEN ssd'[k] ELSE sv'.ssd[k], sv'.floor[k])
  <2>1. IF sv.ptrs[k] # NoPtr THEN val[sv.ptrs[k]] >= sv.floor[k]
        ELSE AtLeast(IF sv.pc = "dram" THEN ssd[k] ELSE sv.ssd[k], sv.floor[k])
    BY <1>2 DEF SaveInv
  <2> QED BY <1>2, <2>1
<1> QED BY <1>1, <1>2 DEF SaveInv, AtLeast

\* A step that leaves the tiers and the truth alone too.
LEMMA SameSave ==
  ASSUME SaveInv, UNCHANGED <<sv, truth, val, ssd>>, torn \subseteq torn'
  PROVE  SaveInv'
<1>1. \A k \in Keys \ torn' : sv.floor[k] # NoValue /\ sv.pc \in {"dram", "ssd"} =>
        /\ AtLeast(truth'[k], sv.floor[k])
        /\ sv.ptrs[k] # NoPtr => val'[sv.ptrs[k]] >= sv.floor[k]
        /\ ssd'[k] = ssd[k] \/ AtLeast(ssd'[k], sv.floor[k])
  BY DEF SaveInv
<1> QED BY <1>1, SaveGrows

LEMMA OnKeySave ==
  ASSUME Basics, ValueInv, SaveInv, NEW t \in Trainers, NEW r, TrainerFrame,
         OnKey(t, r), torn \subseteq torn'
  PROVE  SaveInv'
<1>1. UNCHANGED <<sv, ssd>>
  BY DEF TrainerFrame
<1>2. \A i \in 1..Len(val) : val'[i] = val[i]
  BY OnKeyFacts
<1>3. ASSUME NEW k \in Keys \ torn', sv.floor[k] # NoValue, sv.pc \in {"dram", "ssd"}
      PROVE  /\ AtLeast(truth'[k], sv.floor[k])
             /\ sv.ptrs[k] # NoPtr => val'[sv.ptrs[k]] >= sv.floor[k]
  <2>1. k \notin torn /\ AtLeast(truth[k], sv.floor[k])
        /\ (sv.ptrs[k] # NoPtr => val[sv.ptrs[k]] >= sv.floor[k])
    BY <1>3 DEF SaveInv
  <2>2. sv.ptrs[k] # NoPtr => val'[sv.ptrs[k]] >= sv.floor[k]
    BY <1>2, <2>1, SaveTypes
  <2>3. truth'[k] = truth[k]
    <3>1. CASE dram[k] # NoPtr \/ dram'[k] = NoPtr
      BY <3>1, OnKeyFacts
    <3>2. CASE dram[k] = NoPtr /\ dram'[k] # NoPtr
      <4>1. k = r.key /\ (Inserted(t, r) \/ Created(t, r))
        BY <3>2, OnKeyFacts
      <4>2. CASE Inserted(t, r)
        BY <4>2 DEF Inserted
      <4>3. CASE Created(t, r)
        <5>1. tr[t].key = k /\ tr[t].pc = "create"
          BY <4>1, <4>3, NewPtr DEF Created
        <5>2. ssd[k] = NoValue /\ Visible(k) = truth[k]
          BY <2>1, <5>1 DEF ValueInv
        <5>3. truth[k] = NoValue
          BY <3>2, <5>2 DEF Visible
        <5> QED BY <2>1, <5>3 DEF AtLeast
      <4> QED BY <4>1, <4>2, <4>3
    <3> QED BY <3>1, <3>2
  <2> QED BY <2>1, <2>2, <2>3
<1> QED BY <1>1, <1>3, SaveGrows

LEMMA WroteSave ==
  ASSUME Basics, Basics', ValueInv, SaveInv, NEW t \in Trainers, TrainerFrame,
         Wrote(t), torn \subseteq torn'
  PROVE  SaveInv'
<1>1. UNCHANGED <<sv, ssd>>
  BY DEF TrainerFrame
<1>2. /\ dram' = dram /\ Using(t) /\ tr[t].key \in Keys /\ Len(val') = Len(val)
      /\ \A i \in 1..Len(val) : val'[i] = IF i = tr[t].ptr THEN val[i] + 1 ELSE val[i]
      /\ \A k \in Keys : truth'[k] = IF k = tr[t].key /\ truth[k] # NoValue
                                       THEN truth[k] + 1 ELSE truth[k]
  BY WroteFacts
<1>3. ASSUME NEW k \in Keys \ torn', sv.floor[k] # NoValue, sv.pc \in {"dram", "ssd"}
      PROVE  /\ AtLeast(truth'[k], sv.floor[k])
             /\ sv.ptrs[k] # NoPtr => val'[sv.ptrs[k]] >= sv.floor[k]
  <2>0. PICK f \in Nat : f = sv.floor[k]
    BY SaveTypes
  <2>1. k \notin torn /\ truth[k] # NoValue /\ truth[k] >= f
        /\ (sv.ptrs[k] # NoPtr => val[sv.ptrs[k]] >= f)
    BY <1>3, <2>0 DEF SaveInv, AtLeast
  <2>2. ASSUME sv.ptrs[k] # NoPtr PROVE val'[sv.ptrs[k]] >= f
    <3>1. PICK v \in Nat : v = val[sv.ptrs[k]]
      BY <2>2, SaveTypes
    <3>2. val'[sv.ptrs[k]] \in {v, v + 1} /\ v >= f
      BY <1>2, <2>1, <2>2, <3>1, SaveTypes
    <3> QED BY <2>0, <3>1, <3>2
  <2>3. AtLeast(truth'[k], f)
    <3>1. PICK v \in Nat : v = truth[k]
      BY SaveTypes
    <3>2. CASE k = tr[t].key
      <4>1. truth'[k] = v + 1
        BY <1>2, <2>1, <3>1, <3>2
      <4>2. dram[k] = tr[t].ptr /\ Visible(k) = truth[k]
        BY <1>2, <2>1, <3>2 DEF ValueInv
      <4>3. dram[k] # NoPtr /\ dram[k] \in 1..Len(val)
        BY <1>2, <4>2, FreshPtr, ValueOf
      <4>4. val[dram[k]] = v
        BY <3>1, <4>2, <4>3 DEF Visible
      <4>5. val'[dram[k]] = v + 1
        BY <1>2, <4>2, <4>3, <4>4
      <4>6. v + 1 # NoValue
        BY <1>2, <4>3, <4>5, ValueOfNext
      <4>7. v + 1 >= f
        BY <2>0, <2>1, <3>1
      <4> QED BY <4>1, <4>6, <4>7 DEF AtLeast
    <3>3. CASE k # tr[t].key
      BY <1>2, <2>1, <3>3 DEF AtLeast
    <3> QED BY <3>2, <3>3
  <2> QED BY <2>0, <2>2, <2>3
<1> QED BY <1>1, <1>3, SaveGrows

LEMMA EvictionCommitSave ==
  ASSUME Basics, ValueInv, SaveInv, EvictionCommit, torn \subseteq torn'
  PROVE  SaveInv'
<1>1. PICK h : h = Head(ev.ids)
  OBVIOUS
<1>2. h \in Keys /\ UNCHANGED <<dram, val, truth, sv>> /\ ssd \in [Keys -> Embedding]
  BY <1>1, NextIdFacts, OtherTypes DEF EvictionCommit, historyVars, saveVars
<1>3. ASSUME NEW k \in Keys \ torn', sv.floor[k] # NoValue, sv.pc \in {"dram", "ssd"}
      PROVE  /\ AtLeast(truth'[k], sv.floor[k])
             /\ sv.ptrs[k] # NoPtr => val'[sv.ptrs[k]] >= sv.floor[k]
             /\ ssd'[k] = ssd[k] \/ AtLeast(ssd'[k], sv.floor[k])
  <2>1. k \notin torn /\ AtLeast(truth[k], sv.floor[k])
        /\ (sv.ptrs[k] # NoPtr => val[sv.ptrs[k]] >= sv.floor[k])
    BY <1>3 DEF SaveInv
  <2>2. ssd'[k] = ssd[k] \/ (k = h /\ dram[h] # NoPtr /\ ssd'[k] = val[dram[h]])
    BY <1>1, <1>2 DEF EvictionCommit
  <2>3. Visible(k) = truth[k]
    BY <2>1 DEF ValueInv
  <2>4. k = h /\ dram[h] # NoPtr => val[dram[h]] = truth[k]
    BY <2>3 DEF Visible
  <2> QED BY <1>2, <2>1, <2>2, <2>4
<1> QED BY <1>2, <1>3, SaveGrows

\* The floor is what lookups find when the snapshot begins.
LEMMA SnapshotDramSave ==
  ASSUME Basics, ValueInv, SnapshotDram, torn \subseteq torn'
  PROVE  SaveInv'
<1>1. /\ UNCHANGED <<dram, val, ssd, truth>>
      /\ sv'.pc = "dram" /\ sv'.ptrs = dram /\ sv'.floor = truth
  BY SaveTypes DEF SnapshotDram, storeVars, SaverType
<1>2. CheckpointComplete'
  BY <1>1 DEF CheckpointComplete
<1>3. ASSUME NEW k \in Keys \ torn', truth[k] # NoValue
      PROVE  /\ AtLeast(truth[k], truth[k])
             /\ dram[k] # NoPtr => val[dram[k]] >= truth[k]
             /\ dram[k] = NoPtr => AtLeast(ssd[k], truth[k])
  <2>1. Visible(k) = truth[k] /\ truth[k] \in Nat
    BY SaveTypes DEF ValueInv
  <2>2. truth[k] >= truth[k]
    BY <2>1
  <2>3. /\ dram[k] # NoPtr => val[dram[k]] = truth[k]
        /\ dram[k] = NoPtr => ssd[k] = truth[k]
    BY <2>1 DEF Visible
  <2> QED BY <1>3, <2>2, <2>3 DEF AtLeast
<1> QED BY <1>1, <1>2, <1>3 DEF SaveInv

LEMMA SnapshotSsdSave ==
  ASSUME Basics, SaveInv, SnapshotSsd, torn \subseteq torn'
  PROVE  SaveInv'
<1>1. /\ UNCHANGED <<val, ssd, truth>> /\ sv.pc = "dram"
      /\ sv'.pc = "ssd" /\ sv'.ptrs = sv.ptrs /\ sv'.floor = sv.floor /\ sv'.ssd = ssd
  BY SaveTypes DEF SnapshotSsd, storeVars, historyVars, SaverType
<1>2. CheckpointComplete'
  BY <1>1 DEF CheckpointComplete
<1>3. ASSUME NEW k \in Keys \ torn', sv.floor[k] # NoValue
      PROVE  /\ AtLeast(truth[k], sv.floor[k])
             /\ IF sv.ptrs[k] # NoPtr THEN val[sv.ptrs[k]] >= sv.floor[k]
                ELSE AtLeast(ssd[k], sv.floor[k])
  BY <1>1, <1>3 DEF SaveInv
<1> QED BY <1>1, <1>2, <1>3 DEF SaveInv, AtLeast

\* A ValuePtr that is kept where it should be has not been freed.
LEMMA KeptAlive ==
  ASSUME value_ptr_out_of_date_ \in Seq(Nat), NEW t, NEW p, Kept(t, p)
  PROVE  Alive(p)
  BY DEF Kept, Alive, ToSet

LEMMA DumpSave ==
  ASSUME Basics, KeptInv, SaveInv, DumpEmbeddingValues
  PROVE  SaveInv'
<1>1. PICK f : f = [k \in Keys |-> Floor(k)]
  OBVIOUS
<1>2. PICK d \in [Keys -> 0..NoValue] :
        /\ \A k \in Keys : d[k] \in SavedDram(k)
        /\ sv' = [pc |-> "saved", ptrs |-> NotSaving.ptrs, dram |-> d, ssd |-> sv.ssd,
                  floor |-> f]
  BY <1>1 DEF DumpEmbeddingValues
<1>3. sv.pc = "ssd"
  BY DEF DumpEmbeddingValues
<1>4. sv'.pc = "saved" /\ sv'.dram = d /\ sv'.ssd = sv.ssd /\ sv'.floor = f
  BY <1>2
<1>5. ASSUME NEW k \in Keys, f[k] # NoValue
      PROVE  Restored(k)' # NoValue /\ Restored(k)' >= f[k]
  <2>1. /\ k \notin torn /\ f[k] = sv.floor[k]
        /\ sv.ptrs[k] # NoPtr => InTime(Saver)
    BY <1>1, <1>5 DEF Floor
  <2>2. IF sv.ptrs[k] # NoPtr THEN val[sv.ptrs[k]] >= sv.floor[k]
        ELSE AtLeast(sv.ssd[k], sv.floor[k])
    BY <1>3, <1>5, <2>1 DEF SaveInv
  <2>3. CASE sv.ptrs[k] # NoPtr
    <3>1. Kept(Saver, sv.ptrs[k])
      BY <2>1, <2>3 DEF KeptInv
    <3>2. value_ptr_out_of_date_ \in Seq(Nat)
      BY DEF Basics, TypeOK
    <3>3. Alive(sv.ptrs[k])
      BY <3>1, <3>2, KeptAlive
    <3>4. SavedDram(k) = {val[sv.ptrs[k]]}
      BY <2>3, <3>3 DEF SavedDram, Readable
    <3>5. d[k] = val[sv.ptrs[k]] /\ d[k] # NoValue
      BY <1>2, <2>3, <3>4, SaveTypes
    <3> QED BY <1>4, <2>1, <2>2, <2>3, <3>5 DEF Restored
  <2>4. CASE sv.ptrs[k] = NoPtr
    <3>1. d[k] = NoValue
      BY <1>2, <2>4 DEF SavedDram
    <3> QED BY <1>4, <2>1, <2>2, <2>4, <3>1 DEF Restored, AtLeast
  <2> QED BY <2>3, <2>4
<1>6. CheckpointComplete'
  BY <1>4, <1>5 DEF CheckpointComplete
<1> QED BY <1>4, <1>6 DEF SaveInv

\* No checkpoint is in the making.
LEMMA NoSave ==
  ASSUME sv'.pc \in {"idle", "shrunk"}
  PROVE  SaveInv'
  BY DEF SaveInv, CheckpointComplete

LEMMA SaveStep ==
  ASSUME Basics, Basics', KeptInv, ValueInv, SaveInv, [Next]_vars
  PROVE  SaveInv'
<1>1. ASSUME NEW t \in Trainers, TrainerNext(t), torn \subseteq torn' PROVE SaveInv'
  <2>1. CASE TrainerFrame /\ Died
    BY <1>1, <2>1, SameSave DEF Died, TrainerFrame
  <2> QED BY <1>1, <2>1, TrainerEffect, OnKeySave, WroteSave
<1>2. ASSUME NEW i \in 1..Len(tasks), RunTask(i), torn \subseteq torn' PROVE SaveInv'
  BY <1>2, SameSave DEF RunTask, storeVars, historyVars, saveVars
<1>3. ASSUME EvictorNext, torn \subseteq torn' PROVE SaveInv'
  <2>1. CASE BatchEviction \/ EvictionBegin \/ EvictionRemove
    <3>1. UNCHANGED <<sv, truth, val, ssd>>
      BY <2>1 DEF BatchEviction, EvictionBegin, EvictionRemove, storeVars, historyVars,
                  saveVars
    <3> QED BY <1>3, <3>1, SameSave
  <2> QED BY <1>3, <2>1, EvictionCommitSave DEF EvictorNext
<1>4. ASSUME SaverNext, torn \subseteq torn' PROVE SaveInv'
  <2>1. CASE \E eliminated \in SUBSET Keys : Shrink(eliminated)
    <3>1. sv'.pc = "shrunk"
      BY <2>1, SaverMoves DEF Shrink
    <3> QED BY <3>1, NoSave
  <2>2. CASE SaveDone
    <3>1. sv'.pc = "idle"
      BY <2>2, NothingSaved DEF SaveDone
    <3> QED BY <3>1, NoSave
  <2> QED BY <1>4, <2>1, <2>2, SnapshotDramSave, SnapshotSsdSave, DumpSave DEF SaverNext
<1>5. CASE \E order \in SetToSeqs(InDram) : Restore(order)
  <2>1. sv'.pc = "idle"
    BY <1>5, NothingSaved DEF Restore
  <2> QED BY <2>1, NoSave
<1>6. CASE UNCHANGED vars
  BY <1>6, SameSave DEF vars, storeVars, historyVars, saveVars
<1> QED BY <1>1, <1>2, <1>3, <1>4, <1>5, <1>6 DEF Next, Running, InDram

-----------------------------------------------------------------------------
(* RefInv: the references that the tasks release have been taken.          *)

LEMMA PlacesFinite ==
  ASSUME NEW s, NEW x, NEW n \in Nat
  PROVE  IsFiniteSet(Places(s, x, n)) /\ Count(s, x, n) \in Nat
<1>1. IsFiniteSet(1..n)
  BY FS_Interval
<1>2. Places(s, x, n) \subseteq 1..n
  BY DEF Places
<1>3. IsFiniteSet(Places(s, x, n))
  BY <1>1, <1>2, FS_Subset
<1> QED BY <1>3, FS_CardinalityType DEF Count

\* One place more.
LEMMA CountNext ==
  ASSUME NEW s, NEW x, NEW n \in Nat
  PROVE  Count(s, x, n + 1) = Count(s, x, n) + IF s[n + 1] = x THEN 1 ELSE 0
<1>1. IsFiniteSet(Places(s, x, n)) /\ Count(s, x, n) \in Nat
  BY PlacesFinite
<1>2. CASE s[n + 1] = x
  <2>1. Places(s, x, n + 1) = Places(s, x, n) \cup {n + 1} /\ n + 1 \notin Places(s, x, n)
    BY <1>2 DEF Places
  <2>2. Cardinality(Places(s, x, n) \cup {n + 1}) = Cardinality(Places(s, x, n)) + 1
    BY <1>1, <2>1, FS_AddElement
  <2> QED BY <1>2, <2>1, <2>2 DEF Count
<1>3. CASE s[n + 1] # x
  <2>1. Places(s, x, n + 1) = Places(s, x, n)
    BY <1>3 DEF Places
  <2> QED BY <1>1, <1>3, <2>1 DEF Count
<1> QED BY <1>2, <1>3

\* Only the places counted matter.
LEMMA CountSame ==
  ASSUME NEW s, NEW u, NEW x, NEW n \in Nat, \A i \in 1..n : s[i] = u[i]
  PROVE  Count(s, x, n) = Count(u, x, n)
<1>1. Places(s, x, n) = Places(u, x, n)
  BY DEF Places
<1> QED BY <1>1 DEF Count

\* The same places, one earlier.
LEMMA CountShift ==
  ASSUME NEW s, NEW u, NEW x, NEW n \in Nat, \A i \in 1..n : u[i] = s[i + 1]
  PROVE  Count(s, x, n + 1) = Count(u, x, n) + IF s[1] = x THEN 1 ELSE 0
<1>1. IsFiniteSet(Places(u, x, n)) /\ Count(u, x, n) \in Nat
  BY PlacesFinite
<1>2. PICK M : M = {i \in 2..(n + 1) : s[i] = x}
  OBVIOUS
<1>3. PICK f : f = [i \in Places(u, x, n) |-> i + 1]
  OBVIOUS
<1>4. f \in Bijection(Places(u, x, n), M)
  <2>1. \A i \in Places(u, x, n) : f[i] = i + 1 /\ i \in 1..n /\ s[i + 1] = x
    BY <1>3 DEF Places
  <2>2. f \in [Places(u, x, n) -> M]
    BY <1>2, <1>3, <2>1
  <2>3. \A i, j \in Places(u, x, n) : f[i] = f[j] => i = j
    BY <2>1
  <2>4. ASSUME NEW m \in M PROVE \E i \in Places(u, x, n) : f[i] = m
    <3>1. m \in 2..(n + 1) /\ s[m] = x
      BY <1>2, <2>4
    <3>2. m - 1 \in 1..n /\ (m - 1) + 1 = m
      BY <3>1
    <3>3. m - 1 \in Places(u, x, n)
      BY <3>1, <3>2 DEF Places
    <3>4. f[m - 1] = m
      BY <2>1, <3>2, <3>3
    <3> QED BY <3>3, <3>4
  <2> QED BY <2>2, <2>3, <2>4 DEF Bijection, Injection, Surjection, IsInjective
<1>5. IsFiniteSet(M) /\ Cardinality(M) = Count(u, x, n)
  <2>1. ExistsBijection(Places(u, x, n), M)
    BY <1>4 DEF ExistsBijection
  <2> QED BY <1>1, <2>1, FS_Bijection DEF Count
<1>6. CASE s[1] = x
  <2>1. Places(s, x, n + 1) = M \cup {1} /\ 1 \notin M
    BY <1>2, <1>6 DEF Places
  <2>2. Cardinality(M \cup {1}) = Cardinality(M) + 1
    BY <1>5, <2>1, FS_AddElement
  <2> QED BY <1>5, <1>6, <2>1, <2>2 DEF Count
<1>7. CASE s[1] # x
  <2>1. Places(s, x, n + 1) = M
    BY <1>2, <1>7 DEF Places
  <2> QED BY <1>1, <1>5, <1>7, <2>1 DEF Count
<1> QED BY <1>6, <1>7
LEMMA FetchedFinite ==
  ASSUME NEW k
  PROVE  /\ IsFiniteSet(Fetched(k)) /\ Cardinality(Fetched(k)) \in Nat
         /\ IsFiniteSet(Fetched(k)') /\ Cardinality(Fetched(k)') \in Nat
<1>1. Fetched(k) \subseteq Trainers /\ Fetched(k)' \subseteq Trainers
  BY DEF Fetched
<1>2. IsFiniteSet(Fetched(k)) /\ IsFiniteSet(Fetched(k)')
  BY <1>1, SetsAssumption, FS_Subset
<1> QED BY <1>2, FS_CardinalityType

\* A trainer's step as the counts see it.
LEMMA FetchedNext ==
  ASSUME Basics, NEW t \in Trainers, NEW r, tr' = [tr EXCEPT ![t] = r], NEW k
  PROVE  Fetched(k)' = (Fetched(k) \ {t}) \cup
                       (IF r.pc = "prefetched" /\ r.key = k THEN {t} ELSE {})
<1>1. tr \in [Trainers -> TrainerType]
  BY DEF Basics, TypeOK
<1>2. tr'[t] = r /\ \A u \in Trainers \ {t} : tr'[u] = tr[u]
  BY <1>1
<1> QED BY <1>2 DEF Fetched

LEMMA FetchedKept ==
  ASSUME Basics, NEW t \in Trainers, NEW r, tr' = [tr EXCEPT ![t] = r], NEW k,
         \/ tr[t].pc # "prefetched" /\ r.pc # "prefetched"
         \/ tr[t].key # k /\ r.key # k
  PROVE  Fetched(k)' = Fetched(k)
<1>1. Fetched(k)' = (Fetched(k) \ {t}) \cup
                    (IF r.pc = "prefetched" /\ r.key = k THEN {t} ELSE {})
  BY FetchedNext
<1>2. t \notin Fetched(k) /\ ~(r.pc = "prefetched" /\ r.key = k)
  BY DEF Fetched
<1> QED BY <1>1, <1>2

\* A step that leaves the tasks and the counts alone.
LEMMA RefSame ==
  ASSUME RefInv, up' => up, UNCHANGED <<prefetch_id_table, tasks>>,
         \A k \in Keys : Fetched(k)' = Fetched(k)
  PROVE  RefInv'
<1> SUFFICES ASSUME up', NEW k \in Keys
             PROVE  /\ \A n \in 0..Len(tasks') :
                         prefetch_id_table'[k] + Count(tasks', <<"prefetch", k>>, n)
                           >= Count(tasks', <<"add", k>>, n)
                    /\ prefetch_id_table'[k] + Count(tasks', <<"prefetch", k>>, Len(tasks'))
                         = Count(tasks', <<"add", k>>, Len(tasks')) + Cardinality(Fetched(k)')
  BY DEF RefInv
<1> QED BY DEF RefInv

\* A step that schedules a task.
LEMMA RefAppend ==
  ASSUME Basics, RefInv, up' = up, UNCHANGED prefetch_id_table,
         NEW op \in Ops, NEW j \in Keys, tasks' = Append(tasks, <<op, j>>),
         \A k \in Keys :
           /\ op = "prefetch" /\ k = j =>
                Cardinality(Fetched(k)') = Cardinality(Fetched(k)) + 1
           /\ op = "add" /\ k = j =>
                Cardinality(Fetched(k)) = Cardinality(Fetched(k)') + 1
           /\ op = "update" \/ k # j => Fetched(k)' = Fetched(k)
  PROVE  RefInv'
<1> SUFFICES ASSUME up', NEW k \in Keys
             PROVE  /\ \A n \in 0..Len(tasks') :
                         prefetch_id_table'[k] + Count(tasks', <<"prefetch", k>>, n)
                           >= Count(tasks', <<"add", k>>, n)
                    /\ prefetch_id_table'[k] + Count(tasks', <<"prefetch", k>>, Len(tasks'))
                         = Count(tasks', <<"add", k>>, Len(tasks')) + Cardinality(Fetched(k)')
  BY DEF RefInv
<1>1. PICK l : l = Len(tasks)
  OBVIOUS
<1>2. /\ l \in Nat /\ Len(tasks') = l + 1 /\ \A i \in 1..l : tasks'[i] = tasks[i]
      /\ tasks'[l + 1] = <<op, j>>
  BY <1>1, TasksGrow
<1>3. PICK p : p = prefetch_id_table[k]
  OBVIOUS
<1>4. p \in Nat /\ prefetch_id_table'[k] = p
  BY <1>3 DEF Basics, TypeOK
<1>5. /\ \A n \in 0..l : p + Count(tasks, <<"prefetch", k>>, n) >= Count(tasks, <<"add", k>>, n)
      /\ p + Count(tasks, <<"prefetch", k>>, l)
           = Count(tasks, <<"add", k>>, l) + Cardinality(Fetched(k))
  BY <1>1, <1>3 DEF RefInv
<1>6. \A x : \A n \in 0..l : Count(tasks', x, n) = Count(tasks, x, n)
  <2>1. ASSUME NEW x, NEW n \in 0..l PROVE Count(tasks', x, n) = Count(tasks, x, n)
    <3>1. n \in Nat /\ \A i \in 1..n : tasks'[i] = tasks[i]
      BY <1>2, <2>1
    <3>2. PICK u : u = tasks'
      OBVIOUS
    <3>3. Count(u, x, n) = Count(tasks, x, n)
      BY <3>1, <3>2, CountSame
    <3> QED BY <3>2, <3>3
  <2> QED BY <2>1
<1>7. \A x : Count(tasks', x, l + 1) = Count(tasks', x, l) + IF <<op, j>> = x THEN 1 ELSE 0
  <2>1. PICK u : u = tasks'
    OBVIOUS
  <2>2. \A x : Count(u, x, l + 1) = Count(u, x, l) + IF u[l + 1] = x THEN 1 ELSE 0
    BY <1>2, CountNext
  <2> QED BY <1>2, <2>1, <2>2
<1>8. PICK a \in Nat : a = Count(tasks, <<"add", k>>, l)
  BY <1>2, PlacesFinite
<1>9. PICK b \in Nat : b = Count(tasks, <<"prefetch", k>>, l)
  BY <1>2, PlacesFinite
<1>10. PICK f \in Nat : f = Cardinality(Fetched(k))
  BY FetchedFinite
<1>11. PICK g \in Nat : g = Cardinality(Fetched(k)')
  BY FetchedFinite
<1>12. p + b = a + f
  BY <1>5, <1>8, <1>9, <1>10
<1>13. l \in 0..l
  BY <1>2
<1>14. PICK a1 : a1 = Count(tasks', <<"add", k>>, l + 1)
  OBVIOUS
<1>15. PICK b1 : b1 = Count(tasks', <<"prefetch", k>>, l + 1)
  OBVIOUS
<1>16. a1 = a + IF <<op, j>> = <<"add", k>> THEN 1 ELSE 0
  BY <1>6, <1>7, <1>8, <1>13, <1>14
<1>17. b1 = b + IF <<op, j>> = <<"prefetch", k>> THEN 1 ELSE 0
  BY <1>6, <1>7, <1>9, <1>13, <1>15
<1>18. p + b1 = a1 + g /\ a1 \in Nat /\ b1 \in Nat
  <2>1. CASE op = "prefetch" /\ k = j
    <3>1. g = f + 1
      BY <1>10, <1>11, <2>1
    <3>2. a1 = a + 0 /\ b1 = b + 1
      BY <1>16, <1>17, <2>1
    <3> QED BY ONLY <1>4, <1>12, <3>1, <3>2, a \in Nat, b \in Nat, f \in Nat
  <2>2. CASE op = "add" /\ k = j
    <3>1. f = g + 1
      BY <1>10, <1>11, <2>2
    <3>2. a1 = a + 1 /\ b1 = b + 0
      BY <1>16, <1>17, <2>2
    <3> QED BY ONLY <1>4, <1>12, <3>1, <3>2, a \in Nat, b \in Nat, g \in Nat
  <2>3. CASE op = "update" \/ k # j
    <3>1. g = f
      BY <1>10, <1>11, <2>3
    <3>2. a1 = a + 0 /\ b1 = b + 0
      BY <1>16, <1>17, <2>3
    <3> QED BY ONLY <1>4, <1>12, <3>1, <3>2, a \in Nat, b \in Nat, f \in Nat
  <2> QED BY <2>1, <2>2, <2>3 DEF Ops
<1>19. p + b1 >= a1
  BY ONLY <1>4, <1>18, g \in Nat
<1>20. ASSUME NEW n \in 0..(l + 1)
       PROVE  p + Count(tasks', <<"prefetch", k>>, n) >= Count(tasks', <<"add", k>>, n)
  <2>1. CASE n \in 0..l
    BY <1>5, <1>6, <2>1
  <2>2. CASE n = l + 1
    BY <1>14, <1>15, <1>19, <2>2
  <2> QED BY <1>2, <2>1, <2>2
<1> QED BY <1>2, <1>4, <1>11, <1>14, <1>15, <1>18, <1>20

\* The one thread of the pool runs the oldest task.
LEMMA RefRun ==
  ASSUME Basics, RefInv, 1 \in 1..Len(tasks), RunTask(1)
  PROVE  RefInv'
<1> SUFFICES ASSUME up', NEW k \in Keys
             PROVE  /\ \A n \in 0..Len(tasks') :
                         prefetch_id_table'[k] + Count(tasks', <<"prefetch", k>>, n)
                           >= Count(tasks', <<"add", k>>, n)
                    /\ prefetch_id_table'[k] + Count(tasks', <<"prefetch", k>>, Len(tasks'))
                         = Count(tasks', <<"add", k>>, Len(tasks')) + Cardinality(Fetched(k)')
  BY DEF RefInv
<1>1. tasks \in Seq(Ops \X Keys) /\ Len(tasks) \in Nat
  BY LenProperties DEF Basics, TypeOK
<1>2. PICK l : l = Len(tasks) - 1
  OBVIOUS
<1>3. l \in Nat /\ l + 1 = Len(tasks)
  BY <1>1, <1>2
<1>4. Len(tasks') = l /\ \A i \in 1..l : tasks'[i] = tasks[i + 1]
  <2>1. tasks' = RemoveAt(tasks, 1)
    BY DEF RunTask
  <2>2. /\ Len(RemoveAt(tasks, 1)) = Len(tasks) - 1
        /\ \A j \in 1..(Len(tasks) - 1) :
             RemoveAt(tasks, 1)[j] = IF j < 1 THEN tasks[j] ELSE tasks[j + 1]
    BY <1>1, RemoveAtProperties
  <2> QED BY <1>2, <2>1, <2>2
<1>5. \A x : \A n \in 0..l :
        Count(tasks, x, n + 1) = Count(tasks', x, n) + IF tasks[1] = x THEN 1 ELSE 0
  <2>1. ASSUME NEW x, NEW n \in 0..l
        PROVE  Count(tasks, x, n + 1) = Count(tasks', x, n) + IF tasks[1] = x THEN 1 ELSE 0
    <3>1. n \in Nat /\ \A i \in 1..n : tasks'[i] = tasks[i + 1]
      BY <1>3, <1>4, <2>1
    <3> QED BY <3>1, CountShift
  <2> QED BY <2>1
<1>6. up /\ Fetched(k)' = Fetched(k)
  BY DEF RunTask, Fetched
<1>7. PICK p : p = prefetch_id_table[k]
  OBVIOUS
<1>8. PICK q : q = prefetch_id_table'[k]
  OBVIOUS
<1>9. p \in Nat /\ prefetch_id_table \in [Keys -> Nat]
  BY <1>7 DEF Basics, TypeOK
<1>10. PICK op \in Ops, j \in Keys : tasks[1] = <<op, j>>
  <2>1. tasks[1] \in Ops \X Keys
    BY <1>1, ElementOfSeq
  <2> QED BY <2>1
<1>11. tasks[1][1] = op /\ tasks[1][2] = j
  BY <1>10
<1>12. PICK d \in {0, 1} : d = IF tasks[1] = <<"prefetch", k>> THEN 1 ELSE 0
  OBVIOUS
<1>13. PICK e \in {0, 1} : e = IF tasks[1] = <<"add", k>> THEN 1 ELSE 0
  OBVIOUS
<1>14. q \in Nat /\ q + e = p + d
  <2>1. CASE op = "update"
    <3>1. d = 0 /\ e = 0
      BY <1>10, <1>12, <1>13, <2>1
    <3>2. q = p
      BY <1>7, <1>8, <1>11, <2>1 DEF RunTask, update
    <3> QED BY <1>9, <3>1, <3>2
  <2>2. CASE op = "prefetch"
    <3>1. d = (IF k = j THEN 1 ELSE 0) /\ e = 0
      BY <1>10, <1>12, <1>13, <2>2
    <3>2. prefetch_id_table' = [prefetch_id_table EXCEPT ![j] = @ + 1]
      BY <1>11, <2>2 DEF RunTask, add_to_prefetch_list
    <3>3. q = IF k = j THEN p + 1 ELSE p
      BY <1>7, <1>8, <1>9, <3>2
    <3> QED BY <1>9, <3>1, <3>3
  <2>3. CASE op = "add"
    <3>1. e = (IF k = j THEN 1 ELSE 0) /\ d = 0
      BY <1>10, <1>12, <1>13, <2>3
    <3>2. /\ prefetch_id_table' = [prefetch_id_table EXCEPT ![j] = @ - 1]
          /\ prefetch_id_table[j] > 0
      BY <1>11, <2>3 DEF RunTask, add_to_cache, IsPrefetched
    <3>3. q = (IF k = j THEN p - 1 ELSE p) /\ (k = j => p > 0)
      BY <1>7, <1>8, <1>9, <3>2
    <3> QED BY <1>9, <3>1, <3>3
  <2> QED BY <2>1, <2>2, <2>3 DEF Ops
<1>15. ASSUME NEW n \in 0..l
       PROVE  /\ q + Count(tasks', <<"prefetch", k>>, n) >= Count(tasks', <<"add", k>>, n)
              /\ n = l => q + Count(tasks', <<"prefetch", k>>, n)
                            = Count(tasks', <<"add", k>>, n) + Cardinality(Fetched(k)')
  <2>1. n \in Nat /\ n + 1 \in 0..Len(tasks)
    BY <1>3
  <2>2. PICK a \in Nat : a = Count(tasks', <<"add", k>>, n)
    BY <2>1, PlacesFinite
  <2>3. PICK b \in Nat : b = Count(tasks', <<"prefetch", k>>, n)
    BY <2>1, PlacesFinite
  <2>4. PICK f \in Nat : f = Cardinality(Fetched(k))
    BY FetchedFinite
  <2>5. Count(tasks, <<"add", k>>, n + 1) = a + e
    BY <1>5, <1>13, <2>2
  <2>6. Count(tasks, <<"prefetch", k>>, n + 1) = b + d
    BY <1>5, <1>12, <2>3
  <2>7. p + (b + d) >= a + e
    BY <1>6, <1>7, <2>1, <2>5, <2>6 DEF RefInv
  <2>8. n = l => p + (b + d) = (a + e) + f
    BY <1>3, <1>6, <1>7, <2>4, <2>5, <2>6 DEF RefInv
  <2>9. q + b >= a /\ (n = l => q + b = a + f)
    BY ONLY <1>9, <1>14, <2>7, <2>8, a \in Nat, b \in Nat, f \in Nat, d \in {0, 1}, e \in {0, 1}
  <2> QED BY <1>6, <2>2, <2>3, <2>4, <2>9
<1> QED BY <1>3, <1>4, <1>8, <1>15

LEMMA OnKeyRef ==
  ASSUME Basics, RefInv, NEW t \in Trainers, NEW r, TrainerFrame, OnKey(t, r),
         tr[t].pc = "prefetched" => tasks' # tasks
  PROVE  RefInv'
<1>1. /\ tr' = [tr EXCEPT ![t] = r] /\ up' = up /\ r.key \in Keys
      /\ UNCHANGED prefetch_id_table
      /\ tr[t].pc = "idle" \/ r.key = tr[t].key
  BY DEF OnKey, TrainerFrame
<1>2. CASE Scheduled(t, r)
  <2>1. tr[t].key = r.key
    BY <1>1, <1>2 DEF Scheduled
  <2>2. CASE tr[t].pc = "hold" /\ r.pc = "prefetched"
    <3>1. tasks' = Append(tasks, <<"prefetch", r.key>>)
      BY <1>2, <2>2 DEF Scheduled
    <3>2. \A k \in Keys : k # r.key => Fetched(k)' = Fetched(k)
      BY <1>1, <2>1, FetchedKept
    <3>3. Fetched(r.key)' = Fetched(r.key) \cup {t} /\ t \notin Fetched(r.key)
      <4>1. t \notin Fetched(r.key)
        BY <2>2 DEF Fetched
      <4>2. PICK k : k = r.key
        OBVIOUS
      <4>3. Fetched(k)' = (Fetched(k) \ {t}) \cup {t}
        BY <1>1, <2>2, <4>2, FetchedNext
      <4> QED BY <4>1, <4>2, <4>3 DEF Fetched
    <3>4. Cardinality(Fetched(r.key)') = Cardinality(Fetched(r.key)) + 1
      BY <3>3, FetchedFinite, FS_AddElement
    <3>5. "prefetch" \in Ops
      BY DEF Ops
    <3> QED BY <1>1, <3>1, <3>2, <3>4, <3>5, RefAppend
  <2>3. CASE tr[t].pc = "prefetched" /\ r.pc = "collected"
    <3>1. tasks' = Append(tasks, <<"add", r.key>>)
      BY <1>2, <2>3 DEF Scheduled
    <3>2. \A k \in Keys : k # r.key => Fetched(k)' = Fetched(k)
      BY <1>1, <2>1, FetchedKept
    <3>3. Fetched(r.key) = Fetched(r.key)' \cup {t} /\ t \notin Fetched(r.key)'
      <4>1. t \in Fetched(r.key)
        BY <2>1, <2>3 DEF Fetched
      <4>2. PICK k : k = r.key
        OBVIOUS
      <4>3. Fetched(k)' = (Fetched(k) \ {t}) \cup
                          (IF r.pc = "prefetched" /\ r.key = k THEN {t} ELSE {})
        BY <1>1, FetchedNext
      <4>4. ~(r.pc = "prefetched" /\ r.key = k)
        BY <2>3
      <4>5. Fetched(k)' = Fetched(k) \ {t}
        BY <4>3, <4>4
      <4> QED BY <4>1, <4>2, <4>5 DEF Fetched
    <3>4. Cardinality(Fetched(r.key)) = Cardinality(Fetched(r.key)') + 1
      BY <3>3, FetchedFinite, FS_AddElement
    <3>5. "add" \in Ops
      BY DEF Ops
    <3> QED BY <1>1, <3>1, <3>2, <3>4, <3>5, RefAppend
  <2> QED BY <1>2, <2>2, <2>3 DEF Scheduled
<1>3. CASE ~Scheduled(t, r)
  <2>1. UNCHANGED tasks /\ r.pc # "prefetched"
    BY <1>3 DEF OnKey, Took, Moved, Copied, Inserted, Created, Held
  <2>2. tr[t].pc # "prefetched"
    BY <2>1
  <2> QED BY <1>1, <2>1, <2>2, FetchedKept, RefSame
<1> QED BY <1>2, <1>3
LEMMA WroteRef ==
  ASSUME Basics, RefInv, NEW t \in Trainers, TrainerFrame, Wrote(t), up' = up
  PROVE  RefInv'
<1>1. PICK r : r = Idle
  OBVIOUS
<1>2. /\ tr' = [tr EXCEPT ![t] = r] /\ r.pc = "idle" /\ UNCHANGED prefetch_id_table
      /\ tr[t].pc # "prefetched"
  BY <1>1 DEF Wrote, Write, Idle, TrainerFrame
<1>3. \A k \in Keys : Fetched(k)' = Fetched(k)
  BY <1>2, FetchedKept
<1>4. CASE UNCHANGED tasks
  BY <1>2, <1>3, <1>4, RefSame
<1>5. CASE tr[t].pc = "hold" /\ tasks' = Append(tasks, <<"update", tr[t].key>>)
  <2>1. tr[t].key \in Keys
    BY <1>5, TrainerKey DEF Basics
  <2>2. "update" \in Ops
    BY DEF Ops
  <2> QED BY <1>2, <1>3, <1>5, <2>1, <2>2, RefAppend
<1> QED BY <1>4, <1>5 DEF Wrote

\* A trainer that prefetched its key goes on by collecting it.
LEMMA PrefetchedCollects ==
  ASSUME Basics, NEW t \in Trainers, TrainerNext(t), tr[t].pc = "prefetched"
  PROVE  tasks' # tasks
<1>1. Collect(t)
  BY DEF TrainerNext, DramGet, SsdGet, TryInsert, ReGet, Create, ReLook, Apply, LookupID,
         ApplyPointer
<1>2. tasks' = Append(tasks, <<"add", tr[t].key>>) /\ tr[t].key \in Keys /\ "add" \in Ops
  BY <1>1, TrainerKey DEF Collect, Basics, Ops
<1>3. Len(tasks) \in Nat /\ Len(tasks') = Len(tasks) + 1
  BY <1>2, TasksGrow
<1> QED BY <1>3

LEMMA OtherRef ==
  ASSUME RefInv, up' => up, UNCHANGED <<prefetch_id_table, tasks, tr>>
  PROVE  RefInv'
<1>1. \A k \in Keys : Fetched(k)' = Fetched(k)
  BY DEF Fetched
<1> QED BY <1>1, RefSame

LEMMA CountNone ==
  ASSUME NEW s, NEW x PROVE Count(s, x, 0) = 0
<1>1. Places(s, x, 0) = {}
  BY DEF Places
<1> QED BY <1>1, FS_EmptySet DEF Count

\* Nothing is scheduled and nothing prefetched, now ...
LEMMA NoReferences ==
  ASSUME tasks = <<>>, \A k \in Keys : prefetch_id_table[k] = 0, \A t \in Trainers : tr[t] = Idle
  PROVE  RefInv
<1>1. Len(tasks) = 0
  OBVIOUS
<1>2. \A k \in Keys : Fetched(k) = {}
  BY DEF Fetched, Idle
<1>3. \A k \in Keys : Cardinality(Fetched(k)) = 0
  BY <1>2, FS_EmptySet
<1> QED BY <1>1, <1>3, CountNone DEF RefInv

\* ... or after the step.
LEMMA NoReferencesNext ==
  ASSUME tasks' = <<>>, \A k \in Keys : prefetch_id_table'[k] = 0,
         \A t \in Trainers : tr'[t] = Idle
  PROVE  RefInv'
<1>1. Len(tasks') = 0
  OBVIOUS
<1>2. \A k \in Keys : Fetched(k)' = {}
  BY DEF Fetched, Idle
<1>3. \A k \in Keys : Cardinality(Fetched(k)') = 0
  BY <1>2, FS_EmptySet
<1>4. \A x : Count(tasks', x, 0) = 0
  BY CountNone
<1> QED BY <1>1, <1>3, <1>4 DEF RefInv

LEMMA RefStep ==
  ASSUME Basics, RefInv, CacheThreads = 1, [Next]_vars
  PROVE  RefInv'
<1>1. ASSUME NEW t \in Trainers, TrainerNext(t) PROVE RefInv'
  <2>1. CASE Died
    BY <2>1 DEF Died, RefInv
  <2>2. tr[t].pc = "prefetched" => tasks' # tasks
    BY <1>1, PrefetchedCollects
  <2> QED BY <1>1, <2>1, <2>2, TrainerEffect, OnKeyRef, WroteRef
<1>2. ASSUME NEW i \in 1..Len(tasks), i <= CacheThreads, RunTask(i) PROVE RefInv'
  <2>1. i = 1
    BY <1>2
  <2> QED BY <1>2, <2>1, RefRun
<1>3. CASE EvictorNext
  <2>1. UNCHANGED <<prefetch_id_table, tasks, tr, up>>
    BY <1>3 DEF EvictorNext, BatchEviction, EvictionBegin, EvictionCommit, EvictionRemove,
                cacheVars, get_evic_ids
  <2> QED BY <2>1, OtherRef
<1>4. CASE SaverNext
  <2>1. UNCHANGED <<prefetch_id_table, tasks, tr, up>>
    BY <1>4 DEF SaverNext, Shrink, SnapshotDram, SnapshotSsd, DumpEmbeddingValues, SaveDone,
                cacheVars
  <2> QED BY <2>1, OtherRef
<1>5. CASE \E order \in SetToSeqs(InDram) : Restore(order)
  BY <1>5, NoReferencesNext DEF Restore
<1>6. CASE UNCHANGED vars
  BY <1>6, OtherRef DEF vars, cacheVars
<1> QED BY <1>1, <1>2, <1>3, <1>4, <1>5, <1>6 DEF Next, Running, InDram

-----------------------------------------------------------------------------
(* The invariant holds at the start.                                       *)

LEMMA InitInvariant ==
  ASSUME Init PROVE IInv
<1>1. Basics
  BY InitBasics
<1>2. /\ \A k \in Keys : dram[k] = NoPtr /\ prefetch_id_table[k] = 0 /\ ssd[k] = truth[k]
      /\ \A t \in Trainers : tr[t] = Idle
      /\ tasks = <<>> /\ ev = Resting /\ sv = NotSaving /\ torn = {}
  BY DEF Init, CacheInit
<1>3. /\ \A t \in Trainers : tr[t].pc = "idle"
      /\ ev.pc = "idle" /\ sv.pc = "idle" /\ \A k \in Keys : sv.ptrs[k] = NoPtr
  BY <1>2 DEF Idle, Resting, NotSaving
<1>4. TrackInv
  BY <1>2 DEF TrackInv
<1>5. KeptInv
  BY <1>3, SetsAssumption DEF KeptInv, Holds
<1>6. PtrInv
  BY <1>2, <1>3 DEF PtrInv, Using
<1>7. ValueInv
  <2>1. \A k \in Keys : Visible(k) = truth[k] /\ ~BeingEvicted(k)
    BY <1>2, <1>3 DEF Visible, BeingEvicted
  <2> QED BY <1>3, <2>1 DEF ValueInv, Using
<1>8. SaveInv
  BY <1>3 DEF SaveInv, CheckpointComplete
<1>9. RefInv
  BY <1>2, NoReferences
<1> QED BY <1>1, <1>4, <1>5, <1>6, <1>7, <1>8, <1>9 DEF IInv

LEMMA InvariantStep ==
  ASSUME IInv, [Next]_vars PROVE IInv'
<1>1. Basics /\ Basics'
  BY BasicsStep DEF IInv
<1>2. TrackInv' /\ KeptInv'
  BY <1>1, TrackStep, KeptStep DEF IInv
<1>3. PtrInv'
  BY <1>1, PtrStep DEF IInv
<1>4. ValueInv'
  BY <1>1, ValueStep DEF IInv
<1>5. SaveInv'
  BY <1>1, SaveStep DEF IInv
<1>6. CacheThreads = 1 => RefInv'
  BY <1>1, RefStep DEF IInv
<1> QED BY <1>1, <1>2, <1>3, <1>4, <1>5, <1>6 DEF IInv

-----------------------------------------------------------------------------
\* The inductive invariant holds in every state the four kinds of threads of
\* DramSsdHashStorage reach, for any number of trainers, keys and steps.
THEOREM InductiveInvariant == Spec => []IInv
<1>1. Init => IInv
  BY InitInvariant
<1>2. IInv /\ [Next]_vars => IInv'
  BY InvariantStep
<1> QED BY <1>1, <1>2, PTL DEF Spec

\* Neither Get, GetOrCreate, the evicting thread nor a shrink loses an update: what
\* a lookup finds is what the trainers wrote, but for the keys torn from under one.
THEOREM UpdatesAreKept == Spec => []UpdatesSurvive
<1>1. IInv => UpdatesSurvive
  BY DEF IInv, ValueInv, UpdatesSurvive
<1> QED BY <1>1, InductiveInvariant, PTL

\* ReleaseValuePtrs and Shrink free no ValuePtr that a trainer or the saver uses,
\* unless an eviction begins after more than CAP_INVALID_VALUEPTR others, or a
\* second Shrink comes, since the pointer was taken.
THEOREM HeldPointersAlive == Spec => []HeldPointerAlive
<1>1. ASSUME IInv PROVE HeldPointerAlive
  <2>1. KeptInv /\ value_ptr_out_of_date_ \in Seq(Nat)
    BY <1>1 DEF IInv, Basics, TypeOK
  <2>2. ASSUME NEW t \in Trainers, Holds(t), InTime(t)
        PROVE  Alive(tr[t].ptr)
    BY <2>1, <2>2, KeptAlive DEF KeptInv
  <2>3. ASSUME NEW k \in Keys, sv.ptrs[k] # NoPtr, InTime(Saver)
        PROVE  Alive(sv.ptrs[k])
    BY <2>1, <2>3, KeptAlive DEF KeptInv
  <2> QED BY <2>2, <2>3 DEF HeldPointerAlive
<1> QED BY <1>1, InductiveInvariant, PTL

\* Every key in DRAM is known to the cache or about to be: none escapes eviction.
THEOREM DramKeysTracked == Spec => []DramTracked
<1>1. IInv => DramTracked
  BY DEF IInv, TrackInv, Tracked, DramTracked
<1> QED BY <1>1, InductiveInvariant, PTL

\* The two tiers are listed one after the other, and yet the checkpoint holds every
\* key the storage held when the snapshot began, with what it held or a later
\* update.  Excepted (Floor) are torn keys and, if evictions overtake the saver so
\* far that they free the ValuePtrs it reads, the keys it listed in DRAM.
THEOREM CheckpointsComplete == Spec => []CheckpointComplete
<1>1. IInv => CheckpointComplete
  BY DEF IInv, SaveInv
<1> QED BY <1>1, InductiveInvariant, PTL

\* With the one cache thread the code starts by default, add_to_cache never meets a
\* key that was not prefetched.
THEOREM PrefetchedFirst ==
  ASSUME CacheThreads = 1
  PROVE  Spec => []PrefetchedBeforeUsed
<1>1. ASSUME IInv PROVE PrefetchedBeforeUsed
  <2> SUFFICES ASSUME up, NEW i \in 1..Len(tasks), i <= CacheThreads, tasks[i][1] = "add"
               PROVE  IsPrefetched(tasks[i][2])
    BY DEF PrefetchedBeforeUsed
  <2>1. /\ RefInv /\ tasks \in Seq(Ops \X Keys) /\ Len(tasks) \in Nat
        /\ prefetch_id_table \in [Keys -> Nat]
    BY <1>1, LenProperties DEF IInv, Basics, TypeOK
  <2>2. i = 1 /\ 1 \in 0..Len(tasks) /\ 0 + 1 = 1 /\ 0 \in Nat
    BY <2>1
  <2>3. PICK k \in Keys : tasks[1] = <<"add", k>>
    <3>1. tasks[1] \in Ops \X Keys
      BY <2>1, <2>2, ElementOfSeq
    <3> QED BY <2>2, <3>1
  <2>4. \A x : Count(tasks, x, 1) = IF tasks[1] = x THEN 1 ELSE 0
    <3>1. ASSUME NEW x PROVE Count(tasks, x, 1) = IF tasks[1] = x THEN 1 ELSE 0
      <4>1. Count(tasks, x, 0 + 1) = Count(tasks, x, 0) + IF tasks[0 + 1] = x THEN 1 ELSE 0
        BY CountNext
      <4> QED BY <4>1, CountNone
    <3> QED BY <3>1
  <2>5. Count(tasks, <<"add", k>>, 1) = 1 /\ Count(tasks, <<"prefetch", k>>, 1) = 0
    BY <2>3, <2>4
  <2>6. prefetch_id_table[k] + 0 >= 1 /\ prefetch_id_table[k] \in Nat
    BY <2>1, <2>2, <2>5 DEF RefInv
  <2> QED BY <2>2, <2>3, <2>6 DEF IsPrefetched
<1> QED BY <1>1, InductiveInvariant, PTL
=============================================================================
