------------------------------ MODULE Seqlock ------------------------------
(***************************************************************************)
(* include/jellybean/concurrency/seqlock.hpp: writers exclude one another  *)
(* by making seq_ odd; readers copy the data without writing anything and  *)
(* retry when seq_ was odd or has changed.  The data is a record of words  *)
(* that fn() writes and reads one at a time; the k-th write stores k in    *)
(* every word, so a copy is torn when its words differ.                    *)
(***************************************************************************)
EXTENDS Naturals, FiniteSets

CONSTANTS Writers, Readers,
          Words,      \* the words of the protected data
          MaxWrites   \* bound: calls of write, after which seq_ stops

\* A thread that both writes and reads stands in the two sets under two names.
ASSUME SeqlockAssumption ==
    IsFiniteSet(Words) /\ MaxWrites \in Nat /\ Writers \cap Readers = {}

SeqlockThreads == Writers \cup Readers

VARIABLES seq,     \* seq_
          data,    \* data[w]: the write that stored word w last
          step,    \* where each thread is in write / read
          s,       \* its local s
          todo,    \* the words its fn() has not accessed yet
          copy,    \* a reader's local copy
          begun,   \* how many calls of write have begun
          oldest   \* history: the last write complete when the read began

seqlockVars == <<seq, data, step, s, todo, copy, begun, oldest>>

SeqlockTypeOK ==
    /\ seq \in 0 .. 2 * MaxWrites
    /\ data \in [Words -> 0 .. MaxWrites]
    /\ step \in [SeqlockThreads -> {"idle", "load", "cas", "fn", "release", "check"}]
    /\ s \in [SeqlockThreads -> 0 .. 2 * MaxWrites]
    /\ todo \in [SeqlockThreads -> SUBSET Words]
    /\ copy \in [Readers -> [Words -> 0 .. MaxWrites]]
    /\ begun \in 0 .. MaxWrites
    /\ oldest \in [Readers -> 0 .. MaxWrites]

SeqlockInit ==
    /\ seq = 0
    /\ data = [w \in Words |-> 0]
    /\ step = [t \in SeqlockThreads |-> "idle"]
    /\ s = [t \in SeqlockThreads |-> 0]
    /\ todo = [t \in SeqlockThreads |-> {}]
    /\ copy = [r \in Readers |-> data]
    /\ begun = 0
    /\ oldest = [r \in Readers |-> 0]

StepTo(t, from, to) == step[t] = from /\ step' = [step EXCEPT ![t] = to]

OddIgnored(n) == FALSE   \* mutant: s & 1 is not tested
Odd(n) == n % 2 = 1

\* seq_.load(): spin while it is odd.
LoadSeq(t, next) ==
    /\ ~Odd(seq)
    /\ StepTo(t, "load", next)
    /\ s' = [s EXCEPT ![t] = seq]

----------------------------------------------------------------------------
(* write *)

WriteBegin(t) ==
    /\ begun < MaxWrites
    /\ StepTo(t, "idle", "load")
    /\ begun' = begun + 1
    /\ UNCHANGED <<seq, data, s, todo, copy, oldest>>

WriteLoad(t) ==
    /\ LoadSeq(t, "cas")
    /\ UNCHANGED <<seq, data, todo, copy, begun, oldest>>

WriteCasBlind(t) == TRUE   \* mutant: a store for the CAS
WriteCas(t) == seq = s[t]

WriteEnter(t) ==
    /\ WriteCas(t)
    /\ StepTo(t, "cas", "fn")
    /\ seq' = s[t] + 1
    /\ todo' = [todo EXCEPT ![t] = Words]
    /\ UNCHANGED <<data, s, copy, begun, oldest>>

\* compare_exchange_weak may fail without a reason.
WriteCasFails(t) ==
    /\ StepTo(t, "cas", "load")
    /\ UNCHANGED <<seq, data, s, todo, copy, begun, oldest>>

\* The number of the write in progress.
Version(t) == s[t] \div 2 + 1

WriteWord(t) ==
    /\ \E w \in todo[t] :
          /\ data' = [data EXCEPT ![w] = Version(t)]
          /\ todo' = [todo EXCEPT ![t] = @ \ {w}]
          /\ StepTo(t, "fn", IF todo[t] = {w} THEN "release" ELSE "fn")
    /\ UNCHANGED <<seq, s, copy, begun, oldest>>

ReleasedOdd(t) == s[t] + 1   \* mutant: seq_ stays odd
Released(t) == s[t] + 2

WriteRelease(t) ==
    /\ StepTo(t, "release", "idle")
    /\ seq' = Released(t)
    /\ UNCHANGED <<data, s, todo, copy, begun, oldest>>

Writer(t) == \/ WriteLoad(t) \/ WriteEnter(t) \/ WriteCasFails(t)
            \/ WriteWord(t) \/ WriteRelease(t)

----------------------------------------------------------------------------
(* read *)

ReadBegin(t) ==
    /\ StepTo(t, "idle", "load")
    /\ oldest' = [oldest EXCEPT ![t] = seq \div 2]
    /\ UNCHANGED <<seq, data, s, todo, copy, begun>>

ReadLoad(t) ==
    /\ LoadSeq(t, "fn")
    /\ todo' = [todo EXCEPT ![t] = Words]
    /\ UNCHANGED <<seq, data, copy, begun, oldest>>

ReadWord(t) ==
    /\ \E w \in todo[t] :
          /\ copy' = [copy EXCEPT ![t][w] = data[w]]
          /\ todo' = [todo EXCEPT ![t] = @ \ {w}]
          /\ StepTo(t, "fn", IF todo[t] = {w} THEN "check" ELSE "fn")
    /\ UNCHANGED <<seq, data, s, begun, oldest>>

\* seq_.load() == s: return the copy.
ReadReturns(t) ==
    /\ seq = s[t]
    /\ StepTo(t, "check", "idle")
    /\ UNCHANGED <<seq, data, s, todo, copy, begun, oldest>>

ReadRetries(t) ==
    /\ seq # s[t]
    /\ StepTo(t, "check", "load")
    /\ UNCHANGED <<seq, data, s, todo, copy, begun, oldest>>

Reader(t) == ReadLoad(t) \/ ReadWord(t) \/ ReadReturns(t) \/ ReadRetries(t)

SeqlockNext ==
    \/ \E t \in Writers : WriteBegin(t) \/ Writer(t)
    \/ \E t \in Readers : ReadBegin(t) \/ Reader(t)

SeqlockSpec == SeqlockInit /\ [][SeqlockNext]_seqlockVars

(* A thread inside write or read keeps running; compare_exchange_weak does   *)
(* not fail for ever while nobody else takes the lock.                       *)
SeqlockFairness ==
    /\ \A t \in Writers : WF_seqlockVars(Writer(t)) /\ SF_seqlockVars(WriteEnter(t))
    /\ \A t \in Readers : WF_seqlockVars(Reader(t))
----------------------------------------------------------------------------
(* Properties *)

(* Only one writer at a time runs its fn().                                  *)
WritersExclusive == \A t, u \in Writers :
    step[t] \in {"fn", "release"} /\ step[u] \in {"fn", "release"} => t = u

(* What read returns is the data of one write, all of it, and not of one     *)
(* older than the last write that had completed when the read began.         *)
NoTornReads ==
    [][\A r \in Readers : step[r] = "check" /\ step'[r] = "idle" =>
          \E v \in oldest[r] .. MaxWrites : copy[r] = [w \in Words |-> v]]_seqlockVars

(* Once the writers pause, every call of write and of read has returned.     *)
AllReturn == \A t \in SeqlockThreads : []<>(step[t] = "idle")
=============================================================================
