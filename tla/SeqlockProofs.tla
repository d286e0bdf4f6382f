--------------------------- MODULE SeqlockProofs ---------------------------
(***************************************************************************)
(* Proofs about Seqlock for any number of writers and readers, any data    *)
(* and any number of writes.                                               *)
(***************************************************************************)
EXTENDS Seqlock, FiniteSetTheorems, TLAPS

----------------------------------------------------------------------------
(* The inductive invariant.  seq_ counts two for every write that has       *)
(* completed and is odd exactly while a writer is inside.                   *)

\* The writers inside a call of write, and those that own the lock.
Writing == {t \in Writers : step[t] # "idle"}
Inside == {t \in Writers : step[t] \in {"fn", "release"}}

\* Every call of write that has begun is complete or in progress.
Accounted == IsFiniteSet(Writing) /\ begun = seq \div 2 + Cardinality(Writing)

\* With no writer inside, seq_ is even and the data is that of the last write.
Settled == Inside = {} => ~Odd(seq) /\ \A w \in Words : data[w] = seq \div 2

\* The writer inside holds seq_ at the odd number after its own s, and the words it
\* has not reached yet are those of the write before.
HoldsLock == \A t \in Inside :
    /\ seq = s[t] + 1 /\ ~Odd(s[t])
    /\ \A w \in Words : data[w] = IF w \in todo[t] THEN s[t] \div 2 ELSE s[t] \div 2 + 1
    /\ step[t] = "release" => todo[t] = {}

\* A writer only tries the CAS with an even number.
CasEven == \A t \in Writers : step[t] = "cas" => ~Odd(s[t])

\* A reader has seen an even seq_ and, unless it has moved on since, the words copied
\* so far are those of the write that left it at that number.
ReaderInv == \A r \in Readers :
    /\ step[r] = "load" => oldest[r] <= seq \div 2
    /\ step[r] \in {"fn", "check"} =>
          /\ ~Odd(s[r]) /\ s[r] <= seq /\ oldest[r] <= s[r] \div 2
          /\ seq = s[r] => \A w \in Words \ todo[r] : copy[r][w] = s[r] \div 2
    /\ step[r] = "check" => todo[r] = {}

LockInv == Accounted /\ WritersExclusive /\ Settled /\ HoldsLock /\ CasEven

IndInv == SeqlockTypeOK /\ LockInv /\ ReaderInv

----------------------------------------------------------------------------
(* A new seqlock satisfies the invariant. *)
LEMMA InitInv == SeqlockInit => IndInv
<1> SUFFICES ASSUME SeqlockInit PROVE IndInv
  OBVIOUS
<1>1. SeqlockTypeOK
  BY SeqlockAssumption DEF SeqlockInit, SeqlockTypeOK, SeqlockThreads
<1>2. Writing = {} /\ Inside = {}
  BY DEF SeqlockInit, Writing, Inside, SeqlockThreads
<1>3. Accounted
  BY <1>2, FS_EmptySet DEF SeqlockInit, Accounted
<1>4. WritersExclusive /\ Settled /\ HoldsLock /\ CasEven /\ ReaderInv
  BY <1>2 DEF SeqlockInit, WritersExclusive, Settled, HoldsLock, CasEven, ReaderInv, Inside, SeqlockThreads, Odd
<1> QED BY <1>1, <1>3, <1>4 DEF IndInv, LockInv

(* A writer inside leaves room for its own seq_ below the bound.            *)
LEMMA RoomToRelease ==
  ASSUME IndInv, NEW t \in Writers, step[t] # "idle"
  PROVE  seq \div 2 + 1 <= MaxWrites
<1>1. t \in Writing /\ Cardinality(Writing) \in Nat /\ Cardinality(Writing) # 0
  BY FS_CardinalityType, FS_EmptySet DEF IndInv, LockInv, Accounted, Writing
<1>2. seq \in Nat /\ seq \div 2 \in Nat
  BY SeqlockAssumption DEF IndInv, SeqlockTypeOK
<1>3. begun = seq \div 2 + Cardinality(Writing) /\ begun <= MaxWrites
  BY SeqlockAssumption DEF IndInv, LockInv, Accounted, SeqlockTypeOK
<1> QED BY <1>1, <1>2, <1>3, SeqlockAssumption

(* The steps of a reader touch neither seq_ nor the data.                   *)
LEMMA ReaderStep ==
  ASSUME IndInv, NEW r \in Readers, ReadBegin(r) \/ Reader(r)
  PROVE  IndInv'
<1> USE DEF IndInv, LockInv
<1>0. r \in SeqlockThreads /\ r \notin Writers
  BY SeqlockAssumption DEF SeqlockThreads
<1>1. /\ UNCHANGED <<seq, data, begun>>
      /\ \A t \in SeqlockThreads \ {r} : step'[t] = step[t] /\ s'[t] = s[t] /\ todo'[t] = todo[t]
      /\ \A q \in Readers \ {r} : copy'[q] = copy[q] /\ oldest'[q] = oldest[q]
  BY <1>0 DEF ReadBegin, Reader, ReadLoad, ReadWord, ReadReturns, ReadRetries, LoadSeq, StepTo, SeqlockTypeOK,
              SeqlockThreads
<1>2. /\ Writing' = Writing /\ Inside' = Inside
      /\ \A t \in Writers : step'[t] = step[t] /\ s'[t] = s[t] /\ todo'[t] = todo[t]
  BY <1>0, <1>1 DEF Writing, Inside, SeqlockThreads
<1>3. LockInv'
  BY <1>1, <1>2 DEF Accounted, WritersExclusive, Settled, HoldsLock, CasEven, Inside
<1>4. CASE ReadBegin(r)
  <2>1. SeqlockTypeOK'
    BY <1>0, <1>4, SeqlockAssumption DEF ReadBegin, StepTo, SeqlockTypeOK
  <2>2. ReaderInv'
    BY <1>0, <1>1, <1>4 DEF ReadBegin, StepTo, SeqlockTypeOK, ReaderInv, SeqlockThreads
  <2> QED BY <1>3, <2>1, <2>2
<1>5. CASE ReadLoad(r)
  <2>1. SeqlockTypeOK'
    BY <1>0, <1>5 DEF ReadLoad, LoadSeq, StepTo, SeqlockTypeOK
  <2>2. ReaderInv'
    BY <1>0, <1>1, <1>5 DEF ReadLoad, LoadSeq, StepTo, SeqlockTypeOK, ReaderInv, SeqlockThreads
  <2> QED BY <1>3, <2>1, <2>2
<1>6. CASE ReadWord(r)
  <2>1. PICK w \in todo[r] :
          /\ copy' = [copy EXCEPT ![r][w] = data[w]]
          /\ todo' = [todo EXCEPT ![r] = @ \ {w}]
          /\ StepTo(r, "fn", IF todo[r] = {w} THEN "check" ELSE "fn")
    BY <1>6 DEF ReadWord
  <2>2. w \in Words /\ UNCHANGED <<s, oldest>>
    BY <1>0, <1>6, <2>1 DEF ReadWord, SeqlockTypeOK
  <2>3. SeqlockTypeOK'
    BY <1>0, <1>1, <2>1, <2>2 DEF StepTo, SeqlockTypeOK
  <2>4. seq = s[r] => data[w] = s[r] \div 2
    <3>1. ~Odd(s[r])
      BY <2>1 DEF ReaderInv, StepTo
    <3>2. seq = s[r] => Inside = {}
      <4> SUFFICES ASSUME seq = s[r], NEW t \in Inside PROVE FALSE
        OBVIOUS
      <4>1. seq = s[t] + 1 /\ ~Odd(s[t]) /\ s[t] \in Nat
        BY DEF HoldsLock, SeqlockTypeOK, Inside, SeqlockThreads
      <4> QED BY <3>1, <4>1 DEF Odd
    <3> QED BY <2>2, <3>2 DEF Settled
  <2>5. ReaderInv'
    <3> SUFFICES ASSUME NEW q \in Readers PROVE ReaderInv!(q)'
      BY DEF ReaderInv
    <3>1. CASE q # r
      BY <1>1, <3>1 DEF ReaderInv, SeqlockThreads
    <3>2. CASE q = r
      <4>1. /\ step[r] = "fn" /\ todo'[r] = todo[r] \ {w} /\ copy'[r] = [copy[r] EXCEPT ![w] = data[w]]
            /\ step'[r] = IF todo[r] = {w} THEN "check" ELSE "fn"
        BY <1>0, <2>1 DEF StepTo, SeqlockTypeOK
      <4>2. seq = s[r] => \A v \in Words \ todo'[r] : copy'[r][v] = s[r] \div 2
        BY <2>2, <2>4, <4>1 DEF ReaderInv, SeqlockTypeOK
      <4>3. step'[r] = "check" => todo'[r] = {}
        BY <4>1
      <4> QED BY <1>1, <2>2, <3>2, <4>1, <4>2, <4>3 DEF ReaderInv
    <3> QED BY <3>1, <3>2
  <2> QED BY <1>3, <2>3, <2>5
<1>7. CASE ReadReturns(r) \/ ReadRetries(r)
  <2>1. SeqlockTypeOK'
    BY <1>0, <1>7 DEF ReadReturns, ReadRetries, StepTo, SeqlockTypeOK
  <2>2. ReaderInv'
    BY <1>0, <1>1, <1>7 DEF ReadReturns, ReadRetries, StepTo, SeqlockTypeOK, ReaderInv, SeqlockThreads
  <2> QED BY <1>3, <2>1, <2>2
<1> QED BY <1>4, <1>5, <1>6, <1>7 DEF Reader

(* The steps of a writer outside: nobody can see them but the writer.       *)
LEMMA WriterOutside ==
  ASSUME IndInv, NEW t \in Writers, WriteBegin(t) \/ WriteLoad(t) \/ WriteCasFails(t)
  PROVE  IndInv'
<1> USE DEF IndInv, LockInv
<1>0. t \in SeqlockThreads /\ t \notin Readers
  BY SeqlockAssumption DEF SeqlockThreads
<1>1. /\ UNCHANGED <<seq, data, todo, copy, oldest>>
      /\ step[t] \in {"idle", "load", "cas"} /\ step'[t] \in {"load", "cas"}
      /\ \A u \in SeqlockThreads \ {t} : step'[u] = step[u] /\ s'[u] = s[u]
      /\ step'[t] = "cas" => ~Odd(s'[t])
  BY <1>0 DEF WriteBegin, WriteLoad, WriteCasFails, LoadSeq, StepTo, SeqlockTypeOK
<1>2. SeqlockTypeOK'
  BY <1>0, SeqlockAssumption, SMTT(40) DEF WriteBegin, WriteLoad, WriteCasFails, LoadSeq, StepTo, SeqlockTypeOK
<1>3. Inside' = Inside /\ \A u \in Inside : u # t /\ u \in SeqlockThreads
  BY <1>1 DEF Inside, SeqlockThreads
<1>4. Accounted'
  <2>1. CASE WriteBegin(t)
    <3>1. Writing' = Writing \cup {t} /\ t \notin Writing /\ begun' = begun + 1
      BY <1>0, <1>1, <2>1 DEF WriteBegin, StepTo, Writing, SeqlockThreads
    <3>2. IsFiniteSet(Writing') /\ Cardinality(Writing') = Cardinality(Writing) + 1
      BY <3>1, FS_AddElement DEF Accounted
    <3>3. Cardinality(Writing) \in Nat /\ seq \div 2 \in Nat
      BY FS_CardinalityType, SeqlockAssumption DEF Accounted, SeqlockTypeOK
    <3> QED BY <1>1, <3>1, <3>2, <3>3 DEF Accounted
  <2>2. CASE WriteLoad(t) \/ WriteCasFails(t)
    <3>1. Writing' = Writing /\ begun' = begun
      BY <1>0, <1>1, <2>2 DEF WriteLoad, WriteCasFails, LoadSeq, StepTo, Writing, SeqlockThreads
    <3> QED BY <1>1, <3>1 DEF Accounted
  <2> QED BY <2>1, <2>2
<1>5. WritersExclusive' /\ Settled' /\ HoldsLock' /\ CasEven'
  BY <1>0, <1>1, <1>3 DEF WritersExclusive, Settled, HoldsLock, CasEven, Inside, SeqlockThreads
<1>6. ReaderInv'
  BY <1>0, <1>1 DEF ReaderInv, SeqlockThreads
<1> QED BY <1>2, <1>4, <1>5, <1>6

(* The CAS succeeds: nobody else can be inside, for seq_ was even.          *)
LEMMA WriterEnters ==
  ASSUME IndInv, NEW t \in Writers, WriteEnter(t)
  PROVE  IndInv'
<1> USE DEF IndInv, LockInv
<1>0. t \in SeqlockThreads /\ t \notin Readers
  BY SeqlockAssumption DEF SeqlockThreads
<1>1. /\ UNCHANGED <<data, s, copy, oldest, begun>>
      /\ step[t] = "cas" /\ step'[t] = "fn" /\ todo'[t] = Words
      /\ \A u \in SeqlockThreads \ {t} : step'[u] = step[u] /\ todo'[u] = todo[u]
      /\ seq = s[t] /\ seq' = seq + 1 /\ ~Odd(seq)
  BY <1>0 DEF WriteEnter, WriteCas, StepTo, SeqlockTypeOK, CasEven
<1>2. Inside = {}
  <2> SUFFICES ASSUME NEW u \in Inside PROVE FALSE
    OBVIOUS
  <2>1. seq = s[u] + 1 /\ ~Odd(s[u]) /\ s[u] \in Nat
    BY DEF HoldsLock, SeqlockTypeOK, Inside, SeqlockThreads
  <2> QED BY <1>1, <2>1 DEF Odd
<1>3. Inside' = {t} /\ Writing' = Writing
  BY <1>0, <1>1, <1>2 DEF Inside, Writing, SeqlockThreads
<1>4. seq \in Nat /\ seq' \div 2 = seq \div 2 /\ seq + 1 \in 0 .. 2 * MaxWrites
  <2>1. seq \div 2 + 1 <= MaxWrites
    BY <1>1, RoomToRelease
  <2>2. seq \in Nat
    BY SeqlockAssumption DEF SeqlockTypeOK
  <2>3. (seq + 1) \div 2 = seq \div 2 /\ seq = 2 * (seq \div 2)
    BY <1>1, <2>2 DEF Odd
  <2> QED BY <1>1, <2>1, <2>2, <2>3, SeqlockAssumption
<1>5. SeqlockTypeOK'
  BY <1>0, <1>1, <1>4 DEF WriteEnter, StepTo, SeqlockTypeOK
<1>6. Accounted' /\ WritersExclusive' /\ CasEven'
  BY <1>0, <1>1, <1>3, <1>4 DEF Accounted, WritersExclusive, CasEven, Inside, SeqlockThreads
<1>7. Settled' /\ HoldsLock'
  BY <1>1, <1>2, <1>3 DEF Settled, HoldsLock
<1>8. ReaderInv'
  BY <1>0, <1>1, <1>4 DEF ReaderInv, SeqlockThreads, SeqlockTypeOK
<1> QED BY <1>5, <1>6, <1>7, <1>8

(* One word more is that of the write in progress.                          *)
LEMMA WriterWrites ==
  ASSUME IndInv, NEW t \in Writers, WriteWord(t)
  PROVE  IndInv'
<1> USE DEF IndInv, LockInv
<1>0. t \in SeqlockThreads /\ t \notin Readers
  BY SeqlockAssumption DEF SeqlockThreads
<1>1. PICK w \in todo[t] :
          /\ data' = [data EXCEPT ![w] = Version(t)]
          /\ todo' = [todo EXCEPT ![t] = @ \ {w}]
          /\ StepTo(t, "fn", IF todo[t] = {w} THEN "release" ELSE "fn")
  BY DEF WriteWord
<1>2. /\ UNCHANGED <<seq, s, copy, oldest, begun>>
      /\ w \in Words /\ step[t] = "fn" /\ todo'[t] = todo[t] \ {w}
      /\ step'[t] = IF todo[t] = {w} THEN "release" ELSE "fn"
      /\ \A u \in SeqlockThreads \ {t} : step'[u] = step[u] /\ todo'[u] = todo[u]
      /\ \A v \in Words : data'[v] = IF v = w THEN s[t] \div 2 + 1 ELSE data[v]
  BY <1>0, <1>1 DEF WriteWord, StepTo, SeqlockTypeOK, Version
<1>3. t \in Inside /\ Inside' = Inside /\ Writing' = Writing
  BY <1>0, <1>2 DEF Inside, Writing, SeqlockThreads
<1>4. seq = s[t] + 1 /\ ~Odd(s[t]) /\ s[t] \in Nat
  BY <1>0, <1>3 DEF HoldsLock, SeqlockTypeOK
<1>5. SeqlockTypeOK'
  <2>1. s[t] \div 2 + 1 \in 0 .. MaxWrites
    BY <1>2, <1>4, RoomToRelease, SeqlockAssumption DEF Odd
  <2>2. data' \in [Words -> 0 .. MaxWrites]
    BY <1>1, <2>1 DEF SeqlockTypeOK, Version
  <2> QED BY <1>0, <1>1, <1>2, <2>2 DEF SeqlockTypeOK, StepTo
<1>6. Accounted' /\ WritersExclusive' /\ CasEven' /\ Settled'
  BY <1>0, <1>2, <1>3 DEF Accounted, WritersExclusive, CasEven, Settled, Inside, SeqlockThreads
<1>7. HoldsLock'
  <2> SUFFICES ASSUME NEW u \in Inside PROVE HoldsLock!(u)'
    BY <1>3 DEF HoldsLock
  <2>1. u = t
    BY <1>3 DEF WritersExclusive, Inside
  <2> QED BY <1>2, <1>3, <2>1 DEF HoldsLock
<1>8. ReaderInv'
  BY <1>0, <1>2 DEF ReaderInv, SeqlockThreads
<1> QED BY <1>5, <1>6, <1>7, <1>8

(* The writer leaves: every word is that of the write it completes.         *)
LEMMA WriterReleases ==
  ASSUME IndInv, NEW t \in Writers, WriteRelease(t)
  PROVE  IndInv'
<1> USE DEF IndInv, LockInv
<1>0. t \in SeqlockThreads /\ t \notin Readers
  BY SeqlockAssumption DEF SeqlockThreads
<1>1. /\ UNCHANGED <<data, s, todo, copy, oldest, begun>>
      /\ step[t] = "release" /\ step'[t] = "idle" /\ seq' = s[t] + 2
      /\ \A u \in SeqlockThreads \ {t} : step'[u] = step[u]
  BY <1>0 DEF WriteRelease, Released, StepTo, SeqlockTypeOK
<1>2. t \in Inside /\ \A u \in Inside : u = t
  BY <1>1 DEF WritersExclusive, Inside
<1>3. seq = s[t] + 1 /\ ~Odd(s[t]) /\ s[t] \in Nat /\ todo[t] = {}
  BY <1>0, <1>1, <1>2 DEF HoldsLock, SeqlockTypeOK
<1>4. Inside' = {} /\ Writing' = Writing \ {t} /\ t \in Writing
  BY <1>0, <1>1, <1>2 DEF Inside, Writing, SeqlockThreads
<1>5. seq' = seq + 1 /\ ~Odd(seq') /\ seq' \div 2 = seq \div 2 + 1 /\ seq' \div 2 = s[t] \div 2 + 1
  BY <1>1, <1>3 DEF Odd
<1>6. SeqlockTypeOK'
  <2>1. seq' \in 0 .. 2 * MaxWrites
    BY <1>1, <1>3, <1>5, RoomToRelease, SeqlockAssumption DEF Odd
  <2> QED BY <1>0, <1>1, <2>1 DEF SeqlockTypeOK, WriteRelease, StepTo
<1>7. Accounted'
  <2>1. IsFiniteSet(Writing') /\ Cardinality(Writing') = Cardinality(Writing) - 1
    BY <1>4, FS_RemoveElement DEF Accounted
  <2>2. Cardinality(Writing) \in Nat /\ seq \div 2 \in Nat
    BY FS_CardinalityType, SeqlockAssumption DEF Accounted, SeqlockTypeOK
  <2> QED BY <1>1, <1>5, <2>1, <2>2 DEF Accounted
<1>8. WritersExclusive' /\ CasEven' /\ HoldsLock'
  BY <1>0, <1>1, <1>4 DEF WritersExclusive, CasEven, HoldsLock, Inside, SeqlockThreads
<1>9. Settled'
  BY <1>1, <1>2, <1>3, <1>5 DEF Settled, HoldsLock
<1>10. ReaderInv'
  <2> SUFFICES ASSUME NEW r \in Readers PROVE ReaderInv!(r)'
    BY DEF ReaderInv
  <2>1. r \in SeqlockThreads \ {t} /\ s[r] \in Nat /\ oldest[r] \in Nat /\ seq \in Nat
    BY <1>0 DEF SeqlockThreads, SeqlockTypeOK
  <2> QED BY <1>1, <1>5, <2>1 DEF ReaderInv
<1> QED BY <1>6, <1>7, <1>8, <1>9, <1>10

(* Every step of writers and readers keeps the invariant. *)
LEMMA StepInv == IndInv /\ [SeqlockNext]_seqlockVars => IndInv'
<1> SUFFICES ASSUME IndInv, [SeqlockNext]_seqlockVars PROVE IndInv'
  OBVIOUS
<1>1. ASSUME NEW t \in Writers, WriteBegin(t) \/ Writer(t) PROVE IndInv'
  BY <1>1, WriterOutside, WriterEnters, WriterWrites, WriterReleases DEF Writer
<1>2. ASSUME NEW r \in Readers, ReadBegin(r) \/ Reader(r) PROVE IndInv'
  BY <1>2, ReaderStep
<1>3. CASE UNCHANGED seqlockVars
  BY <1>3 DEF seqlockVars, IndInv, LockInv, SeqlockTypeOK, Accounted, Writing, Inside, WritersExclusive, Settled,
              HoldsLock, CasEven, ReaderInv
<1> QED BY <1>1, <1>2, <1>3 DEF SeqlockNext

(* Every reachable state of the lock satisfies IndInv: seq_ counts the      *)
(* completed writes twice and is odd while one writer is inside, the words  *)
(* are those of the last write except the ones the writer inside has        *)
(* stored, and a reader whose counter has not changed has copied words of   *)
(* that write only (seqlock.hpp:51-117).                                    *)
THEOREM Inductive == SeqlockSpec => []IndInv
  BY InitInv, StepInv, PTL DEF SeqlockSpec

(* Only one writer at a time runs its fn(): seqlock.hpp needs no mutex       *)
(* between the writers, whatever their number.                              *)
THEOREM Exclusion == SeqlockSpec => []WritersExclusive
<1>1. IndInv => WritersExclusive
  BY DEF IndInv, LockInv
<1> QED BY <1>1, Inductive, PTL

(* What read returns is all the data of one write, no older than the last    *)
(* one complete when the read began.                                        *)
THEOREM ReadsAreWhole == SeqlockSpec => NoTornReads
<1> DEFINE Whole(r) == step[r] = "check" /\ step'[r] = "idle" =>
                         \E v \in oldest[r] .. MaxWrites : copy[r] = [w \in Words |-> v]
<1>1. ASSUME IndInv, SeqlockNext, NEW r \in Readers, step[r] = "check", step'[r] = "idle"
      PROVE  \E v \in oldest[r] .. MaxWrites : copy[r] = [w \in Words |-> v]
  <2>1. seq = s[r]
    <3>0. r \in SeqlockThreads /\ r \notin Writers /\ step' # step
      BY <1>1, SeqlockAssumption DEF SeqlockThreads
    <3>1. ASSUME NEW t \in Writers, WriteBegin(t) \/ Writer(t) PROVE FALSE
      BY <1>1, <3>0, <3>1 DEF WriteBegin, Writer, WriteLoad, WriteEnter, WriteCasFails, WriteWord,
                     WriteRelease, LoadSeq, StepTo, IndInv, SeqlockTypeOK
    <3>2. ASSUME NEW t \in Readers, ReadBegin(t) \/ Reader(t) PROVE seq = s[r]
      BY <1>1, <3>0, <3>2 DEF ReadBegin, Reader, ReadLoad, ReadWord, ReadReturns, ReadRetries, LoadSeq,
                     StepTo, IndInv, SeqlockTypeOK, SeqlockThreads
    <3> QED BY <1>1, <3>1, <3>2 DEF SeqlockNext
  <2>2. /\ oldest[r] <= s[r] \div 2
        /\ \A w \in Words : copy[r][w] = s[r] \div 2
    BY <1>1, <2>1 DEF IndInv, ReaderInv
  <2>3. s[r] \in 0 .. 2 * MaxWrites /\ oldest[r] \in Nat /\ copy[r] \in [Words -> 0 .. MaxWrites]
    BY <1>1 DEF IndInv, SeqlockTypeOK, SeqlockThreads
  <2>4. s[r] \div 2 \in oldest[r] .. MaxWrites
    BY <2>2, <2>3, SeqlockAssumption
  <2>5. copy[r] = [w \in Words |-> s[r] \div 2]
    BY <2>2, <2>3
  <2> QED BY <2>4, <2>5
<1>2. IndInv /\ [SeqlockNext]_seqlockVars => [\A r \in Readers : Whole(r)]_seqlockVars
  BY <1>1
<1> QED BY <1>2, Inductive, PTL DEF SeqlockSpec, NoTornReads
=============================================================================
