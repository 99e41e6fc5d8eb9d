---------------------------- MODULE EfPoolProofs ----------------------------
(***************************************************************************)
(* The pool's invariant is inductive, the pool keeps the fiber contract    *)
(* and implements EfPoolSpec.  The argument: free_list holds exactly the   *)
(* exited coroutines and the two counters are exact (FreeListIsExited and  *)
(* CountsMatch), so what create takes is never held by anyone and what     *)
(* shrink deletes can no longer run.  First, for every client of the       *)
(* fibers: however deep resumes nest, exactly one fiber runs and it goes   *)
(* back into the call that resumed it; and for every stack: it grows for   *)
(* exactly the addresses above its guard.                                  *)
(***************************************************************************)
EXTENDS EfPool, EfStack, SequenceTheorems, FiniteSetTheorems, TLAPS

----------------------------------------------------------------------------
(***************************************************************************)
(* Fibers: FiberInv is inductive.                                          *)
(***************************************************************************)
LEMMA FiberInvInit == ASSUME FiberStart PROVE FiberInv
BY FiberAssumption
   DEF FiberStart, FiberInv, FiberTypeOK, StatusMatchesContext, OneRuns,
       ReturnToResumer, Active, Fiber, Context

LEMMA CreateKeepsFiberInv ==
  ASSUME FiberInv, NEW co \in Coroutine, FiberCreate(co)
  PROVE  FiberInv'
BY FiberAssumption
   DEF FiberCreate, FiberInv, FiberTypeOK, StatusMatchesContext, OneRuns,
       ReturnToResumer, Active, Fiber, Context

LEMMA InitKeepsFiberInv ==
  ASSUME FiberInv, NEW co \in Coroutine, MayInit(co), FiberInit(co)
  PROVE  FiberInv'
BY FiberAssumption
   DEF MayInit, FiberInit, FiberInv, FiberTypeOK, StatusMatchesContext, OneRuns,
       ReturnToResumer, Active, Fiber, Context

LEMMA DeleteKeepsFiberInv ==
  ASSUME FiberInv, NEW S \in SUBSET Coroutine, \A co \in S : MayDelete(co), FiberDelete(S)
  PROVE  FiberInv'
BY FiberAssumption
   DEF MayDelete, FiberDelete, FiberInv, FiberTypeOK, StatusMatchesContext, OneRuns,
       ReturnToResumer, Active, Fiber, Context

LEMMA ResumeKeepsFiberInv ==
  ASSUME FiberInv, NEW co \in Coroutine, FiberResume(co)
  PROVE  FiberInv'
BY FiberAssumption
   DEF FiberResume, FiberInv, FiberTypeOK, StatusMatchesContext, OneRuns,
       ReturnToResumer, Active, Fiber, Context

LEMMA YieldKeepsFiberInv == ASSUME FiberInv, FiberYield PROVE FiberInv'
BY FiberAssumption
   DEF FiberYield, FiberInv, FiberTypeOK, StatusMatchesContext, OneRuns,
       ReturnToResumer, Active, Fiber, Context

LEMMA ExitKeepsFiberInv == ASSUME FiberInv, FiberExit PROVE FiberInv'
BY FiberAssumption
   DEF FiberExit, FiberInv, FiberTypeOK, StatusMatchesContext, OneRuns,
       ReturnToResumer, Active, Fiber, Context

\* Every client that keeps to FiberNext keeps FiberInv.
LEMMA FiberInvStep == ASSUME FiberInv, [FiberNext]_FiberVars PROVE FiberInv'
<1>1. CASE \E co \in Coroutine : FiberCreate(co)
  BY <1>1, CreateKeepsFiberInv
<1>2. CASE \E co \in Coroutine : MayInit(co) /\ FiberInit(co)
  BY <1>2, InitKeepsFiberInv
<1>3. CASE \E co \in Coroutine : FiberResume(co)
  BY <1>3, ResumeKeepsFiberInv
<1>4. CASE \E S \in SUBSET Coroutine : (\A co \in S : MayDelete(co)) /\ FiberDelete(S)
  BY <1>4, DeleteKeepsFiberInv
<1>5. CASE FiberYield
  BY <1>5, YieldKeepsFiberInv
<1>6. CASE FiberExit
  BY <1>6, ExitKeepsFiberInv
<1>7. CASE UNCHANGED FiberVars
  BY <1>7 DEF FiberVars, FiberInv, FiberTypeOK, StatusMatchesContext, OneRuns,
              ReturnToResumer, Active
<1> QED
  BY <1>1, <1>2, <1>3, <1>4, <1>5, <1>6, <1>7 DEF FiberNext

\* Under every schedule of creates, resumes, yields, exits and deletes that
\* keeps the callers' contract, one fiber runs at a time and yield and exit
\* return into the resume call that started it (fiber.c:117-153).
THEOREM FiberSafe == FiberSpec => []FiberInv
BY FiberInvInit, FiberInvStep, PTL DEF FiberSpec

----------------------------------------------------------------------------
(***************************************************************************)
(* The pool.                                                               *)
(***************************************************************************)
IInv == TypeOK /\ FiberInv /\ PoolInv

NoRepeat(s) == \A i, j \in 1 .. Len(s) : s[i] = s[j] => i = j

----------------------------------------------------------------------------
(***************************************************************************)
(* What the three changes of free_list do to its elements.                 *)
(***************************************************************************)
LEMMA TailList ==
  ASSUME NEW C, NEW s \in Seq(C), Len(s) > 0, NoRepeat(s)
  PROVE  /\ Tail(s) \in Seq(C)
         /\ Len(Tail(s)) = Len(s) - 1
         /\ \A i \in 1 .. Len(Tail(s)) : Tail(s)[i] = s[i + 1]
         /\ Head(s) = s[1]
         /\ Head(s) \in Range(s)
         /\ Range(Tail(s)) = Range(s) \ {Head(s)}
         /\ NoRepeat(Tail(s))
<1>1. s # << >> /\ Len(s) \in Nat /\ DOMAIN s = 1 .. Len(s)
  BY LenProperties
<1>2. /\ Tail(s) \in Seq(C)
      /\ Len(Tail(s)) = Len(s) - 1
      /\ \A i \in 1 .. Len(Tail(s)) : Tail(s)[i] = s[i + 1]
  BY <1>1, HeadTailProperties
<1>3. Head(s) = s[1]
  BY <1>1
<1>4. Head(s) \in Range(s)
  BY <1>1, <1>3 DEF Range
<1>5. DOMAIN Tail(s) = 1 .. Len(s) - 1
  BY <1>2, LenProperties
<1>6. NoRepeat(Tail(s))
  BY <1>1, <1>2 DEF NoRepeat
<1>7. Range(Tail(s)) = Range(s) \ {Head(s)}
  <2>1. ASSUME NEW x \in Range(Tail(s)) PROVE x \in Range(s) \ {Head(s)}
    <3>1. PICK i \in 1 .. Len(s) - 1 : x = s[i + 1]
      BY <1>2, <1>5 DEF Range
    <3> QED
      BY <3>1, <1>1, <1>3 DEF Range, NoRepeat
  <2>2. ASSUME NEW x \in Range(s) \ {Head(s)} PROVE x \in Range(Tail(s))
    <3>1. PICK i \in 1 .. Len(s) : x = s[i] /\ i # 1
      BY <1>1, <1>3 DEF Range
    <3>2. i - 1 \in 1 .. Len(s) - 1 /\ Tail(s)[i - 1] = x
      BY <1>1, <1>2, <3>1
    <3> QED
      BY <3>2, <1>5 DEF Range
  <2> QED
    BY <2>1, <2>2
<1> QED
  BY <1>2, <1>3, <1>4, <1>6, <1>7

LEMMA ConsList ==
  ASSUME NEW C, NEW s \in Seq(C), NEW c \in C, c \notin Range(s), NoRepeat(s)
  PROVE  /\ <<c>> \o s \in Seq(C)
         /\ Len(<<c>> \o s) = Len(s) + 1
         /\ \A i \in 1 .. Len(s) + 1 :
              (<<c>> \o s)[i] = IF i = 1 THEN c ELSE s[i - 1]
         /\ Range(<<c>> \o s) = Range(s) \cup {c}
         /\ NoRepeat(<<c>> \o s)
<1> DEFINE t == <<c>> \o s
<1>1. Len(s) \in Nat /\ DOMAIN s = 1 .. Len(s)
  BY LenProperties
<1>2. <<c>> \in Seq(C) /\ Len(<<c>>) = 1 /\ <<c>>[1] = c
  OBVIOUS
<1>3. /\ t \in Seq(C)
      /\ Len(t) = Len(s) + 1
      /\ \A i \in 1 .. Len(s) + 1 : t[i] = IF i = 1 THEN c ELSE s[i - 1]
  <2>1. /\ t \in Seq(C)
        /\ Len(t) = 1 + Len(s)
        /\ \A i \in 1 .. 1 + Len(s) : t[i] = IF i <= 1 THEN <<c>>[i] ELSE s[i - 1]
    BY <1>2, ConcatProperties
  <2> QED
    BY <2>1, <1>1, <1>2
<1> HIDE DEF t
<1>4. DOMAIN t = 1 .. Len(s) + 1
  BY <1>3, LenProperties
<1>5. \A i \in 1 .. Len(s) : s[i] # c
  BY <1>1 DEF Range
<1>6. NoRepeat(t)
  BY <1>1, <1>3, <1>5 DEF NoRepeat
<1>7. Range(t) = Range(s) \cup {c}
  <2>1. ASSUME NEW x \in Range(t) PROVE x \in Range(s) \cup {c}
    <3>1. PICK i \in 1 .. Len(s) + 1 : x = t[i]
      BY <1>4 DEF Range
    <3>2. CASE i = 1
      BY <3>1, <3>2, <1>3
    <3>3. CASE i # 1
      <4>1. i - 1 \in 1 .. Len(s) /\ x = s[i - 1]
        BY <3>1, <3>3, <1>1, <1>3
      <4> QED
        BY <4>1, <1>1 DEF Range
    <3> QED
      BY <3>2, <3>3
  <2>2. ASSUME NEW x \in Range(s) PROVE x \in Range(t)
    <3>1. PICK i \in 1 .. Len(s) : x = s[i]
      BY <1>1 DEF Range
    <3>2. i + 1 \in 1 .. Len(s) + 1 /\ t[i + 1] = x
      BY <3>1, <1>1, <1>3
    <3> QED
      BY <3>2, <1>4 DEF Range
  <2>3. c \in Range(t)
    BY <1>1, <1>3, <1>4 DEF Range
  <2> QED
    BY <2>1, <2>2, <2>3
<1> QED
  BY <1>3, <1>6, <1>7 DEF t

LEMMA PrefixOfList ==
  ASSUME NEW C, NEW s \in Seq(C), NEW d \in 0 .. Len(s)
  PROVE  /\ SubSeq(s, 1, d) \in Seq(C)
         /\ Len(SubSeq(s, 1, d)) = d
         /\ \A i \in 1 .. d : SubSeq(s, 1, d)[i] = s[i]
BY LenProperties

LEMMA ButLastList ==
  ASSUME freeList \in Seq(Coroutine), NoRepeat(freeList), NEW n \in 0 .. Len(freeList)
  PROVE  /\ ButLastFree(n) \in Seq(Coroutine)
         /\ Len(ButLastFree(n)) = Len(freeList) - n
         /\ \A i \in 1 .. Len(freeList) - n : ButLastFree(n)[i] = freeList[i]
         /\ NoRepeat(ButLastFree(n))
         /\ LastFree(n) \subseteq Range(freeList)
         /\ Range(ButLastFree(n)) = Range(freeList) \ LastFree(n)
         /\ IsFiniteSet(LastFree(n))
         /\ Cardinality(LastFree(n)) = n
<1> DEFINE s == freeList
           kept == ButLastFree(n)
           gone == LastFree(n)
           I == Len(s) - n + 1 .. Len(s)
<1>1. /\ Len(s) \in Nat /\ DOMAIN s = 1 .. Len(s) /\ n \in Nat /\ n <= Len(s)
      /\ Len(s) - n \in 0 .. Len(s)
  BY LenProperties
<1>2. /\ kept \in Seq(Coroutine)
      /\ Len(kept) = Len(s) - n
      /\ \A i \in 1 .. Len(s) - n : kept[i] = s[i]
  BY <1>1, PrefixOfList DEF ButLastFree
<1>0. gone = {s[i] : i \in I}
  BY DEF LastFree
<1> HIDE DEF s, kept, gone
<1>a. NoRepeat(s)
  BY DEF s
<1>3. DOMAIN kept = 1 .. Len(s) - n
  BY <1>2, LenProperties
<1>4. NoRepeat(kept)
  BY <1>1, <1>2, <1>a DEF NoRepeat
<1>5. gone \subseteq Range(s)
  BY <1>0, <1>1 DEF Range
<1>6. Range(kept) = Range(s) \ gone
  <2>1. ASSUME NEW x \in Range(kept) PROVE x \in Range(s) \ gone
    <3>1. PICK i \in 1 .. Len(s) - n : x = s[i]
      BY <1>2, <1>3 DEF Range
    <3> QED
      BY <3>1, <1>0, <1>1, <1>a DEF Range, NoRepeat
  <2>2. ASSUME NEW x \in Range(s) \ gone PROVE x \in Range(kept)
    <3>1. PICK i \in 1 .. Len(s) : x = s[i]
      BY <1>1 DEF Range
    <3>2. i \in 1 .. Len(s) - n
      BY <3>1, <1>0, <1>1
    <3> QED
      BY <3>1, <3>2, <1>2, <1>3 DEF Range
  <2> QED
    BY <2>1, <2>2
<1>7. IsFiniteSet(gone) /\ Cardinality(gone) = n
  <2> DEFINE f == [i \in I |-> s[i]]
  <2>1. IsFiniteSet(I) /\ Cardinality(I) = n
    BY <1>1, FS_Interval
  <2>2. f \in Bijection(I, gone)
    BY <1>0, <1>1, <1>a DEF Bijection, Injection, Surjection, IsInjective, NoRepeat
  <2> QED
    BY <2>1, <2>2, FS_Bijection DEF ExistsBijection
<1> QED
  BY <1>2, <1>4, <1>5, <1>6, <1>7 DEF s, kept, gone

----------------------------------------------------------------------------
(***************************************************************************)
(* IInv is inductive.                                                      *)
(***************************************************************************)
LEMMA IInvInit == ASSUME Init PROVE IInv
<1>1. FiberInv
  BY FiberInvInit DEF Init
<1>2. TypeOK
  BY <1>1, PoolAssumption DEF Init, TypeOK, FiberInv
<1>3. Range(freeList) = {}
  BY DEF Init, Range
<1>4. PoolInv
  BY <1>3, PoolAssumption, FS_EmptySet
     DEF Init, FiberStart, PoolInv, CountsMatch, FreeListIsExited, WithinLimit, FreeListOrdered
<1> QED
  BY <1>1, <1>2, <1>4 DEF IInv

\* The head of free_list may be initialised again, its tail end deleted.
LEMMA HeadMayInit ==
  ASSUME IInv, freeCount > 0
  PROVE  /\ Len(freeList) > 0
         /\ Head(freeList) \in Coroutine
         /\ MayInit(Head(freeList))
<1>1. Len(freeList) > 0 /\ freeList \in Seq(Coroutine)
  BY DEF IInv, PoolInv, CountsMatch, TypeOK
<1>2. Head(freeList) \in Range(freeList)
  BY <1>1, TailList DEF IInv, PoolInv, FreeListIsExited, NoRepeat
<1> QED
  BY <1>1, <1>2 DEF IInv, PoolInv, FreeListIsExited, MayInit

LEMMA LastMayDelete ==
  ASSUME IInv, NEW n \in 0 .. Len(freeList)
  PROVE  /\ LastFree(n) \subseteq Coroutine
         /\ \A co \in LastFree(n) : MayDelete(co)
<1>1. LastFree(n) \subseteq Range(freeList)
  BY ButLastList DEF IInv, TypeOK, PoolInv, FreeListIsExited, NoRepeat
<1> QED
  BY <1>1, FiberAssumption
     DEF IInv, PoolInv, FreeListIsExited, MayDelete, FiberInv, StatusMatchesContext

\* Every step of the pool keeps the contract of the fibers.
LEMMA PoolStepIsFiberStep ==
  ASSUME IInv, [Next]_vars
  PROVE  [FiberNext]_FiberVars
<1>1. CASE CreateFromFree
  BY <1>1, HeadMayInit DEF CreateFromFree, FiberNext
<1>2. CASE \E co \in Coroutine : CreateNew(co)
  BY <1>2 DEF CreateNew, FiberNext
<1>3. CASE \E co \in Coroutine : Resume(co)
  BY <1>3 DEF Resume, FiberNext
<1>4. CASE Yield
  BY <1>4 DEF Yield, FiberNext
<1>5. CASE Exit
  BY <1>5 DEF Exit, FiberNext
<1>6. CASE \E args \in ShrinkArgs : Shrink(args[1], args[2])
  <2>1. PICK n \in 0 .. Len(freeList) : FiberDelete(LastFree(n))
    BY <1>6 DEF Shrink, ShrinkBy
  <2> QED
    BY <2>1, LastMayDelete DEF FiberNext
<1>7. CASE Tick \/ UNCHANGED vars
  BY <1>7 DEF Tick, vars
<1> QED
  BY <1>1, <1>2, <1>3, <1>4, <1>5, <1>6, <1>7 DEF Next

LEMMA FullIsFinite ==
  ASSUME IInv
  PROVE  IsFiniteSet(full) /\ Cardinality(full) \in Nat
BY PoolAssumption, FS_Subset, FS_CardinalityType DEF IInv, TypeOK

LEMMA CreateFromFreeKeepsPool ==
  ASSUME IInv, CreateFromFree
  PROVE  TypeOK' /\ PoolInv'
<1> DEFINE h == Head(freeList)
<1>1. Len(freeList) > 0 /\ h \in Coroutine /\ status[h] = "exited"
  BY HeadMayInit DEF CreateFromFree, MayInit
<1>2. /\ Tail(freeList) \in Seq(Coroutine)
      /\ Len(Tail(freeList)) = Len(freeList) - 1
      /\ \A i \in 1 .. Len(Tail(freeList)) : Tail(freeList)[i] = freeList[i + 1]
      /\ Range(Tail(freeList)) = Range(freeList) \ {h}
      /\ NoRepeat(Tail(freeList))
  BY <1>1, TailList DEF IInv, TypeOK, PoolInv, FreeListIsExited, NoRepeat
<1>3. FiberInv'
  BY <1>1, InitKeepsFiberInv DEF CreateFromFree, MayInit, IInv
<1>4. TypeOK'
  BY <1>2, <1>3 DEF CreateFromFree, IInv, TypeOK, FiberInv
<1>5. CountsMatch'
  BY <1>2 DEF CreateFromFree, IInv, TypeOK, PoolInv, CountsMatch
<1>6. FreeListIsExited'
  <2>1. status' = [status EXCEPT ![h] = "inited"]
    BY DEF CreateFromFree, FiberInit
  <2>2. full' = {co \in Coroutine : status'[co] # "unmapped"}
    BY <2>1, <1>1 DEF CreateFromFree, IInv, TypeOK, FiberTypeOK, PoolInv, FreeListIsExited
  <2>3. Range(freeList') = {co \in full' : status'[co] = "exited"}
    BY <2>1, <1>1, <1>2 DEF CreateFromFree, IInv, TypeOK, FiberTypeOK, PoolInv, FreeListIsExited
  <2> QED
    BY <2>2, <2>3, <1>2 DEF CreateFromFree, FreeListIsExited, NoRepeat
<1>7. WithinLimit'
  BY DEF CreateFromFree, IInv, PoolInv, WithinLimit
<1>8. FreeListOrdered'
  BY <1>1, <1>2 DEF CreateFromFree, IInv, TypeOK, PoolInv, FreeListOrdered
<1> QED
  BY <1>4, <1>5, <1>6, <1>7, <1>8 DEF PoolInv

LEMMA CreateNewKeepsPool ==
  ASSUME IInv, NEW co \in Coroutine, CreateNew(co)
  PROVE  TypeOK' /\ PoolInv'
<1>1. FiberInv'
  BY CreateKeepsFiberInv DEF CreateNew, IInv
<1>2. TypeOK'
  BY <1>1 DEF CreateNew, IInv, TypeOK, FiberInv
<1>3. status[co] = "unmapped" /\ status' = [status EXCEPT ![co] = "inited"] /\ co \notin full
  BY DEF CreateNew, FiberCreate, IInv, PoolInv, FreeListIsExited
<1>4. CountsMatch'
  BY <1>3, FullIsFinite, FS_AddElement DEF CreateNew, IInv, PoolInv, CountsMatch
<1>5. FreeListIsExited'
  BY <1>3 DEF CreateNew, IInv, TypeOK, FiberTypeOK, PoolInv, FreeListIsExited
<1>6. WithinLimit'
  BY PoolAssumption DEF CreateNew, BelowMax, IInv, TypeOK, PoolInv, WithinLimit
<1>7. FreeListOrdered'
  BY DEF CreateNew, IInv, PoolInv, FreeListOrdered
<1> QED
  BY <1>2, <1>4, <1>5, <1>6, <1>7 DEF PoolInv

LEMMA ExitKeepsPool == ASSUME IInv, Exit PROVE TypeOK' /\ PoolInv'
<1> DEFINE me == current
<1>1. FiberInv'
  BY ExitKeepsFiberInv DEF Exit, IInv
<1>2. me \in Coroutine /\ status[me] = "inited" /\ me \in full
  BY DEF Exit, FiberExit, IInv, FiberInv, FiberTypeOK, StatusMatchesContext, OneRuns,
         Fiber, PoolInv, FreeListIsExited
<1>3. me \notin Range(freeList)
  BY <1>2 DEF IInv, PoolInv, FreeListIsExited
<1>4. freeList' = <<me>> \o freeList
  BY DEF Exit, Recycled
<1>5. /\ freeList' \in Seq(Coroutine)
      /\ Len(freeList') = Len(freeList) + 1
      /\ \A i \in 1 .. Len(freeList) + 1 :
           freeList'[i] = IF i = 1 THEN me ELSE freeList[i - 1]
      /\ Range(freeList') = Range(freeList) \cup {me}
      /\ NoRepeat(freeList')
  BY <1>2, <1>3, <1>4, ConsList DEF IInv, TypeOK, PoolInv, FreeListIsExited, NoRepeat
<1>6. lastRun' = [lastRun EXCEPT ![me] = now] /\ now' = now
  BY DEF Exit
<1>7. TypeOK'
  <2>1. FiberTypeOK' /\ freeList' \in Seq(Coroutine)
    BY <1>1, <1>5 DEF FiberInv
  <2>2. lastRun' \in [Coroutine -> Nat] /\ now' \in Nat
    BY <1>6 DEF IInv, TypeOK
  <2>3. full' = full /\ fullCount' = fullCount /\ freeCount' = freeCount + 1
    BY DEF Exit
  <2> QED
    BY <2>1, <2>2, <2>3 DEF IInv, TypeOK
<1>8. CountsMatch'
  <2>1. Len(freeList') = Len(freeList) + 1
    BY <1>5
  <2> QED
    BY <2>1 DEF Exit, IInv, TypeOK, PoolInv, CountsMatch
<1>9. FreeListIsExited'
  <2>1. status' = [status EXCEPT ![me] = "exited"]
    BY DEF Exit, FiberExit
  <2> QED
    BY <2>1, <1>2, <1>5 DEF Exit, IInv, TypeOK, FiberTypeOK, PoolInv, FreeListIsExited, NoRepeat
<1>10. WithinLimit'
  BY DEF Exit, IInv, PoolInv, WithinLimit
<1>11. FreeListOrdered'
  <2>1. ASSUME NEW i \in 1 .. Len(freeList'), NEW j \in 1 .. Len(freeList'), i < j
        PROVE  lastRun'[freeList'[i]] >= lastRun'[freeList'[j]]
    <3>0. Len(freeList) \in Nat
      BY LenProperties DEF IInv, TypeOK
    <3>1. /\ j - 1 \in 1 .. Len(freeList)
          /\ freeList'[j] = freeList[j - 1]
          /\ freeList[j - 1] \in Range(freeList)
      BY <3>0, <2>1, <1>5, LenProperties DEF Range, IInv, TypeOK
    <3>2. lastRun'[freeList'[j]] = lastRun[freeList[j - 1]]
      BY <3>1, <1>3, <1>6 DEF IInv, TypeOK, PoolInv, FreeListIsExited
    <3>3. CASE i = 1
      BY <3>1, <3>2, <3>3, <1>2, <1>5, <1>6
         DEF IInv, TypeOK, PoolInv, FreeListIsExited, FreeListOrdered
    <3>4. CASE i # 1
      <4>0. i - 1 \in 1 .. Len(freeList) /\ i - 1 < j - 1 /\ i \in 1 .. Len(freeList) + 1
        BY <3>0, <3>1, <3>4, <2>1, <1>5
      <4>1. /\ i - 1 \in 1 .. Len(freeList)
            /\ freeList'[i] = freeList[i - 1]
            /\ freeList[i - 1] \in Range(freeList)
        BY <4>0, <3>4, <1>5, LenProperties DEF Range, IInv, TypeOK
      <4>2. lastRun'[freeList'[i]] = lastRun[freeList[i - 1]]
        BY <4>1, <1>3, <1>6 DEF IInv, TypeOK, PoolInv, FreeListIsExited
      <4> QED
        BY <4>0, <4>1, <4>2, <3>1, <3>2 DEF IInv, PoolInv, FreeListOrdered
    <3> QED
      BY <3>3, <3>4
  <2>2. \A co \in Coroutine : lastRun'[co] <= now'
    BY <1>6 DEF IInv, TypeOK, PoolInv, FreeListOrdered
  <2> QED
    BY <2>1, <2>2 DEF FreeListOrdered
<1> QED
  BY <1>7, <1>8, <1>9, <1>10, <1>11 DEF PoolInv

LEMMA ShrinkKeepsPool ==
  ASSUME IInv, NEW args \in ShrinkArgs, Shrink(args[1], args[2])
  PROVE  TypeOK' /\ PoolInv'
<1>1. PICK n \in 0 .. Len(freeList) : ShrinkBy(n, args[1], args[2])
  BY DEF Shrink
<1> DEFINE gone == LastFree(n)
<1>a. freeList \in Seq(Coroutine) /\ NoRepeat(freeList)
  BY DEF IInv, TypeOK, PoolInv, FreeListIsExited, NoRepeat
<1>2. /\ ButLastFree(n) \in Seq(Coroutine)
      /\ Len(ButLastFree(n)) = Len(freeList) - n
      /\ \A i \in 1 .. Len(freeList) - n : ButLastFree(n)[i] = freeList[i]
      /\ NoRepeat(ButLastFree(n))
      /\ gone \subseteq Range(freeList)
      /\ Range(ButLastFree(n)) = Range(freeList) \ gone
      /\ IsFiniteSet(gone)
      /\ Cardinality(gone) = n
  BY <1>a, ButLastList
<1>3. gone \subseteq Coroutine /\ \A co \in gone : MayDelete(co)
  BY LastMayDelete
<1>4. FiberInv'
  BY <1>1, <1>3, DeleteKeepsFiberInv DEF ShrinkBy, IInv
<1>5. /\ freeList' = ButLastFree(n) /\ freeCount' = freeCount - n
      /\ full' = full \ gone /\ fullCount' = fullCount - n
      /\ lastRun' = lastRun /\ now' = now
      /\ status' = [co \in Coroutine |-> IF co \in gone THEN "unmapped" ELSE status[co]]
  BY <1>1 DEF ShrinkBy, FiberDelete
<1>6. Len(freeList) \in Nat /\ n \in Nat
  BY LenProperties DEF IInv, TypeOK
<1>7. TypeOK'
  BY <1>2, <1>4, <1>5, <1>6 DEF IInv, TypeOK, FiberInv
<1>8. CountsMatch'
  <2>1. gone \subseteq full
    BY <1>2 DEF IInv, PoolInv, FreeListIsExited
  <2>2. full = (full \ gone) \cup gone /\ (full \ gone) \cap gone = {}
    BY <2>1
  <2>3. IsFiniteSet(full \ gone) /\ Cardinality(full \ gone) \in Nat
    BY FullIsFinite, FS_Subset, FS_CardinalityType
  <2>4. Cardinality(full) = Cardinality(full \ gone) + n
    <3>1. Cardinality((full \ gone) \cup gone)
            = Cardinality(full \ gone) + Cardinality(gone) - Cardinality((full \ gone) \cap gone)
      BY <2>3, <1>2, FS_Union
    <3>2. Cardinality((full \ gone) \cap gone) = 0
      BY <2>2, FS_EmptySet
    <3>3. Cardinality(full) = Cardinality((full \ gone) \cup gone)
      BY <2>2
    <3>4. Cardinality(gone) = n
      BY <1>2
    <3> HIDE DEF gone
    <3> QED
      BY <3>1, <3>2, <3>3, <3>4, <2>3, <1>6
  <2> QED
    <3>1. Cardinality(full') = fullCount - n
      BY <2>3, <2>4, <1>5, <1>6 DEF IInv, PoolInv, CountsMatch
    <3>2. Len(freeList') = freeCount - n
      BY <1>2, <1>5 DEF IInv, PoolInv, CountsMatch
    <3> QED
      BY <3>1, <3>2, <1>5 DEF CountsMatch
<1>9. FreeListIsExited'
  BY <1>2, <1>3, <1>5 DEF IInv, TypeOK, FiberTypeOK, PoolInv, FreeListIsExited, NoRepeat
<1>10. WithinLimit'
  BY <1>5, <1>6, PoolAssumption DEF IInv, TypeOK, PoolInv, WithinLimit
<1>11. FreeListOrdered'
  BY <1>2, <1>5, <1>6 DEF IInv, PoolInv, FreeListOrdered
<1> QED
  BY <1>7, <1>8, <1>9, <1>10, <1>11 DEF PoolInv

LEMMA IInvStep == ASSUME IInv, [Next]_vars PROVE IInv'
<1>1. FiberInv'
  BY PoolStepIsFiberStep, FiberInvStep DEF IInv
<1>2. TypeOK' /\ PoolInv'
  <2>1. CASE CreateFromFree
    BY <2>1, CreateFromFreeKeepsPool
  <2>2. CASE \E co \in Coroutine : CreateNew(co)
    BY <2>2, CreateNewKeepsPool
  <2>3. CASE (\E co \in Coroutine : Resume(co)) \/ Yield
    <3>1. UNCHANGED <<poolVars, lastRun, now>>
      BY <2>3 DEF Resume, Yield
    <3>2. \A co \in Coroutine : status'[co] = status[co]
      BY <2>3 DEF Resume, Yield, FiberResume, FiberYield
    <3>3. TypeOK'
      BY <3>1, <1>1 DEF poolVars, IInv, TypeOK, FiberInv
    <3> QED
      BY <3>1, <3>2, <3>3 DEF poolVars, IInv, TypeOK, PoolInv, CountsMatch,
                               FreeListIsExited, WithinLimit, FreeListOrdered
  <2>4. CASE Exit
    BY <2>4, ExitKeepsPool
  <2>5. CASE \E args \in ShrinkArgs : Shrink(args[1], args[2])
    BY <2>5, ShrinkKeepsPool
  <2>6. CASE Tick
    <3>1. /\ UNCHANGED <<status, full, freeList, fullCount, freeCount, lastRun>>
          /\ now' \in Nat /\ now' >= now
      BY <2>6 DEF Tick, FiberVars, poolVars, IInv, TypeOK
    <3>2. TypeOK'
      BY <3>1, <1>1 DEF IInv, TypeOK, FiberInv
    <3>3. FreeListOrdered'
      BY <3>1 DEF IInv, TypeOK, PoolInv, FreeListOrdered
    <3> QED
      BY <3>1, <3>2, <3>3 DEF IInv, PoolInv, CountsMatch, FreeListIsExited, WithinLimit
  <2>7. CASE UNCHANGED vars
    BY <2>7, <1>1 DEF vars, FiberVars, poolVars, IInv, TypeOK, FiberInv, PoolInv, CountsMatch,
                       FreeListIsExited, WithinLimit, FreeListOrdered
  <2> QED
    BY <2>1, <2>2, <2>3, <2>4, <2>5, <2>6, <2>7 DEF Next
<1> QED
  BY <1>1, <1>2 DEF IInv

\* However many coroutines, whatever the limits and the clock, the pool's state
\* keeps its types: no list entry and no context is ever anything but a fiber.
THEOREM PoolTypes == Spec => []TypeOK
<1>1. IInv => TypeOK
  BY DEF IInv
<1> QED
  BY <1>1, IInvInit, IInvStep, PTL DEF Spec

\* The counters the code tests instead of walking its lists are exact
\* (coroutine.c:51, 73, 96, 142, 143).
THEOREM PoolCountsMatch == Spec => []CountsMatch
<1>1. IInv => CountsMatch
  BY DEF IInv, PoolInv
<1> QED
  BY <1>1, IInvInit, IInvStep, PTL DEF Spec

\* free_list holds the exited coroutines once each and in order of their age,
\* and limit_max is never exceeded (coroutine.c:42-155).
THEOREM PoolSafe == Spec => [](FreeListIsExited /\ WithinLimit /\ FreeListOrdered)
<1>1. IInv => FreeListIsExited /\ WithinLimit /\ FreeListOrdered
  BY DEF IInv, PoolInv
<1> QED
  BY <1>1, IInvInit, IInvStep, PTL DEF Spec

\* Under the pool a fiber that can be entered or gone back to is initialised,
\* one that exited or was deleted cannot (coroutine.c:49-75, fiber.c:99-115).
THEOREM PoolStatusMatches == Spec => []StatusMatchesContext
<1>1. IInv => StatusMatchesContext
  BY DEF IInv, FiberInv
<1> QED
  BY <1>1, IInvInit, IInvStep, PTL DEF Spec

\* Under the pool, too, yield and exit return into the resume call that
\* started the coroutine (coroutine.c:78-101 with fiber.c:117-153).
THEOREM PoolSwitchesSafe == Spec => [](OneRuns /\ ReturnToResumer)
<1>1. IInv => OneRuns /\ ReturnToResumer
  BY DEF IInv, FiberInv
<1> QED
  BY <1>1, IInvInit, IInvStep, PTL DEF Spec

----------------------------------------------------------------------------
\* The pool initialises only exited fibers and deletes none that can run.
THEOREM PoolMeetsFiberContract == Spec => MeetsFiberContract
<1>1. Init => FiberStart
  BY DEF Init
<1>2. IInv /\ [Next]_vars => [FiberNext]_FiberVars
  BY PoolStepIsFiberStep
<1> QED
  BY <1>1, <1>2, IInvInit, IInvStep, PTL DEF Spec, MeetsFiberContract, FiberSpec

\* A shrink with a positive count leaves at least limit_min coroutines
\* ("the minimum number of coroutines kept when doing pool shrink").
THEOREM PoolKeepsMinimum == Spec => KeepsMinimum
<1> DEFINE Kept == \A args \in ShrinkArgs :
              args[2] > 0 /\ Shrink(args[1], args[2]) => fullCount' >= LimitMin
<1>1. ASSUME IInv, NEW args \in ShrinkArgs, args[2] > 0, Shrink(args[1], args[2])
      PROVE  fullCount' >= LimitMin
  <2>1. PICK n \in 0 .. Len(freeList) : ShrinkBy(n, args[1], args[2])
    BY <1>1 DEF Shrink
  <2>2. /\ fullCount > LimitMin
        /\ n <= Budget(args[2])
        /\ fullCount' = fullCount - n
    BY <2>1, <1>1 DEF ShrinkBy, ShrinkStops
  <2>3. args[2] \in Int /\ fullCount \in Int /\ LimitMin \in Int /\ n \in Int
    BY <1>1, PoolAssumption DEF IInv, TypeOK
  <2>4. Budget(args[2]) <= fullCount - LimitMin
    BY <2>2, <2>3, <1>1 DEF Budget
  <2> QED
    BY <2>2, <2>3, <2>4 DEF Budget
<1>2. IInv /\ [Next]_vars => [Kept]_vars
  BY <1>1
<1> QED
  BY <1>2, IInvInit, IInvStep, PTL DEF Spec, KeepsMinimum

----------------------------------------------------------------------------
(***************************************************************************)
(* What shrink frees and keeps.                                            *)
(***************************************************************************)
LEMMA WholeAndRest ==
  ASSUME NEW a \in Nat, NEW u \in Nat \ {0}
  PROVE  a \div u \in Nat /\ a % u \in 0 .. u - 1 /\ a = u * (a \div u) + (a % u)
BY SMT

LEMMA WholeIsMonotone ==
  ASSUME NEW a \in Nat, NEW b \in Nat, NEW u \in Nat \ {0}, a <= b
  PROVE  a \div u <= b \div u /\ (a \div u = b \div u => a % u <= b % u)
BY SMT

LEMMA NextMultiple ==
  ASSUME NEW x \in Int, NEW y \in Int, NEW u \in Nat \ {0}, x < y
  PROVE  x * u + u <= y * u
BY SMT

\* What shrink finds expired it also finds expired if it ran no later.
LEMMA ExpiredIsMonotone ==
  ASSUME IInv, NEW old \in Coroutine, NEW young \in Coroutine, NEW i \in Nat,
         lastRun[old] <= lastRun[young], Expired(young, i)
  PROVE  Expired(old, i)
<1> DEFINE nw == now \div Second
           nr == now % Second
           ow == lastRun[old] \div Second
           or == lastRun[old] % Second
           yw == lastRun[young] \div Second
           yr == lastRun[young] % Second
           rest == i % Second
<1>1. /\ lastRun[old] \in Nat /\ lastRun[young] \in Nat /\ now \in Nat
      /\ Second \in Nat \ {0}
  BY PoolAssumption DEF IInv, TypeOK
<1>2. /\ nw \in Nat /\ nr \in Int /\ ow \in Nat /\ or \in Int
      /\ yw \in Nat /\ yr \in Int /\ rest \in Int
  <2>1. ASSUME NEW a \in Nat
        PROVE  a \div Second \in Nat /\ a % Second \in Int
    <3>1. a \div Second \in Nat /\ a % Second \in 0 .. Second - 1
      BY <1>1, WholeAndRest
    <3> QED
      BY <3>1, <1>1
  <2> QED
    BY <1>1, <2>1
<1>3. ow <= yw /\ (ow = yw => or <= yr)
  BY <1>1, WholeIsMonotone
<1>4. (nw - yw) * Second > i \/ ((nw - yw) * Second = i /\ nr - yr >= rest)
  BY DEF Expired
<1>5. Expired(old, i) <=>
        \/ (nw - ow) * Second > i
        \/ ((nw - ow) * Second = i /\ nr - or >= rest)
  BY DEF Expired
<1> HIDE DEF nw, nr, ow, or, yw, yr, rest
<1>6. CASE ow = yw
  BY <1>2, <1>3, <1>4, <1>5, <1>6
<1>7. CASE ow < yw
  <2>1. nw - yw \in Int /\ nw - ow \in Int /\ nw - yw < nw - ow
    BY <1>2, <1>7
  <2>2. (nw - yw) * Second + Second <= (nw - ow) * Second
    BY <1>1, <2>1, NextMultiple
  <2>3. (nw - yw) * Second \in Int /\ (nw - ow) * Second \in Int
    BY <1>1, <2>1
  <2>4. (nw - ow) * Second > i
    BY <1>1, <1>4, <2>2, <2>3
  <2> QED
    BY <1>5, <2>4
<1> QED
  BY <1>2, <1>3, <1>6, <1>7

\* What one call frees is the tail end of the list it found.
LEMMA FreedByShrink ==
  ASSUME IInv, NEW n \in 0 .. Len(freeList), NEW i, NEW c, ShrinkBy(n, i, c)
  PROVE  /\ full \ full' = LastFree(n)
         /\ Cardinality(full \ full') = n
         /\ Range(freeList') = {freeList[k] : k \in 1 .. Len(freeList) - n}
<1>1. /\ LastFree(n) \subseteq Range(freeList)
      /\ Cardinality(LastFree(n)) = n
      /\ ButLastFree(n) \in Seq(Coroutine)
      /\ Len(ButLastFree(n)) = Len(freeList) - n
      /\ \A k \in 1 .. Len(freeList) - n : ButLastFree(n)[k] = freeList[k]
  BY ButLastList DEF IInv, TypeOK, PoolInv, FreeListIsExited, NoRepeat
<1>2. full' = full \ LastFree(n) /\ freeList' = ButLastFree(n)
  BY DEF ShrinkBy
<1>3. full \ full' = LastFree(n)
  BY <1>1, <1>2 DEF IInv, PoolInv, FreeListIsExited
<1>4. DOMAIN freeList' = 1 .. Len(freeList) - n
  BY <1>1, <1>2, LenProperties
<1> QED
  BY <1>1, <1>2, <1>3, <1>4 DEF Range

\* Shrink gives up the longest idle coroutines, and stopping early it leaves
\* none that its own test would free (coroutine.c:132-153).
THEOREM PoolIdlestFreedFirst == Spec => IdlestFreedFirst
<1> DEFINE Done(args) ==
       Shrink(args[1], args[2]) =>
         /\ \A co \in full \ full', kept \in Range(freeList') : lastRun[co] <= lastRun[kept]
         /\ \/ Cardinality(full \ full') = Budget(args[2])
            \/ \A kept \in Range(freeList') : ~Expired(kept, args[1])
<1>1. ASSUME IInv, NEW args \in ShrinkArgs, Shrink(args[1], args[2])
      PROVE  Done(args)
  <2>1. PICK n \in 0 .. Len(freeList) : ShrinkBy(n, args[1], args[2])
    BY <1>1 DEF Shrink
  <2>2. /\ full \ full' = LastFree(n)
        /\ Cardinality(full \ full') = n
        /\ Range(freeList') = {freeList[k] : k \in 1 .. Len(freeList) - n}
    BY <1>1, <2>1, FreedByShrink
  <2>3. /\ Len(freeList) \in Nat /\ n \in Nat /\ args[1] \in Nat
        /\ \A k \in 1 .. Len(freeList) : freeList[k] \in Coroutine
    BY <1>1, PoolAssumption, LenProperties DEF IInv, TypeOK
  <2>4. \A j, k \in 1 .. Len(freeList) : j <= k => lastRun[freeList[k]] <= lastRun[freeList[j]]
    BY <1>1, <2>3 DEF IInv, TypeOK, PoolInv, FreeListOrdered
  <2>5. ASSUME NEW co \in full \ full', NEW kept \in Range(freeList')
        PROVE  lastRun[co] <= lastRun[kept]
    <3>1. PICK k \in Len(freeList) - n + 1 .. Len(freeList) : co = freeList[k]
      BY <2>2 DEF LastFree
    <3>2. PICK j \in 1 .. Len(freeList) - n : kept = freeList[j]
      BY <2>2
    <3>3. j \in 1 .. Len(freeList) /\ k \in 1 .. Len(freeList) /\ j <= k
      BY <2>3
    <3> QED
      BY <2>4, <3>1, <3>2, <3>3
  <2>6. CASE n = Budget(args[2])
    BY <2>2, <2>5, <2>6
  <2>7. CASE n = Len(freeList)
    BY <2>2, <2>3, <2>5, <2>7
  <2>8. CASE n < Len(freeList) /\ ~Expired(freeList[Len(freeList) - n], args[1])
    <3>1. ASSUME NEW kept \in Range(freeList'), Expired(kept, args[1])
          PROVE  FALSE
      <4>1. PICK j \in 1 .. Len(freeList) - n : kept = freeList[j]
        BY <2>2
      <4>2. /\ Len(freeList) - n \in 1 .. Len(freeList)
            /\ j \in 1 .. Len(freeList) /\ j <= Len(freeList) - n
        BY <2>3, <2>8
      <4>3. lastRun[freeList[Len(freeList) - n]] <= lastRun[freeList[j]]
        BY <2>4, <4>2
      <4>4. freeList[Len(freeList) - n] \in Coroutine /\ freeList[j] \in Coroutine
        BY <2>3, <4>2
      <4> QED
        BY <1>1, <2>3, <2>8, <3>1, <4>1, <4>3, <4>4, ExpiredIsMonotone
    <3> QED
      BY <2>5, <3>1
  <2> QED
    BY <2>1, <2>6, <2>7, <2>8 DEF ShrinkBy, ShrinkStops
<1>2. IInv /\ [Next]_vars => [\A args \in ShrinkArgs : Done(args)]_vars
  BY <1>1
<1> QED
  BY <1>2, IInvInit, IInvStep, PTL DEF Spec, IdlestFreedFirst

\* "free(delete) at most max_count coroutines whose idle time exceed
\* idle_millisecs", for the idle times main.c uses: whole seconds.  The
\* hypothesis is needed: line 139 compares the fractions only when the seconds
\* are equal, so an idle time of half a second is met one clock unit after the
\* second changes.
THEOREM PoolOnlyIdleFreed ==
  ASSUME \A args \in ShrinkArgs : args[1] % Second = 0
  PROVE  Spec => OnlyIdleFreed
<1> DEFINE Done(args) ==
       Shrink(args[1], args[2]) =>
         \A co \in full \ full' : now - lastRun[co] >= args[1]
<1>1. ASSUME IInv, NEW args \in ShrinkArgs, Shrink(args[1], args[2]),
             NEW co \in full \ full'
      PROVE  now - lastRun[co] >= args[1]
  <2>1. PICK n \in 0 .. Len(freeList) : ShrinkBy(n, args[1], args[2])
    BY <1>1 DEF Shrink
  <2>2. co \in LastFree(n)
    BY <1>1, <2>1, FreedByShrink
  <2>3. Expired(co, args[1]) /\ co \in Coroutine
    BY <1>1, <2>1, <2>2 DEF ShrinkBy, ShrinkStops, IInv, TypeOK
  <2>4. now \in Nat /\ lastRun[co] \in Nat /\ args[1] \in Nat /\ Second \in Nat \ {0}
    BY <1>1, <2>3, PoolAssumption DEF IInv, TypeOK
  <2> DEFINE nw == now \div Second
             nr == now % Second
             lw == lastRun[co] \div Second
             lr == lastRun[co] % Second
             w == args[1] \div Second
  <2>5. /\ nw \in Nat /\ nr \in 0 .. Second - 1 /\ now = Second * nw + nr
        /\ lw \in Nat /\ lr \in 0 .. Second - 1 /\ lastRun[co] = Second * lw + lr
    BY <2>4, WholeAndRest
  <2>6. w \in Nat /\ args[1] = Second * w /\ args[1] % Second = 0
    <3>1. w \in Nat /\ args[1] = Second * w + (args[1] % Second)
      BY <2>4, WholeAndRest
    <3> QED
      BY <3>1, <2>4
  <2>7. \/ (nw - lw) * Second > args[1]
        \/ (nw - lw) * Second = args[1] /\ nr - lr >= args[1] % Second
    BY <2>3 DEF Expired
  <2> HIDE DEF nw, nr, lw, lr, w
  <2>8. (nw - lw) * Second = Second * nw - Second * lw
    BY <2>4, <2>5
  <2>9. CASE (nw - lw) * Second > args[1]
    <3>1. w < nw - lw
      <4>1. SUFFICES ASSUME nw - lw <= w PROVE FALSE
        BY <2>5, <2>6
      <4>2. (nw - lw) * Second <= w * Second
        BY <2>4, <2>5, <2>6, <4>1
      <4> QED
        BY <2>4, <2>5, <2>6, <2>9, <4>2
    <3>2. w * Second + Second <= (nw - lw) * Second
      BY <2>4, <2>5, <2>6, <3>1, NextMultiple
    <3>3. w * Second = args[1]
      BY <2>4, <2>6
    <3> QED
      BY <2>4, <2>5, <2>8, <3>2, <3>3
  <2>10. CASE (nw - lw) * Second = args[1] /\ nr - lr >= args[1] % Second
    BY <2>4, <2>5, <2>6, <2>8, <2>10
  <2> QED
    BY <2>7, <2>9, <2>10
<1>2. IInv /\ [Next]_vars => [\A args \in ShrinkArgs : Done(args)]_vars
  BY <1>1
<1> QED
  BY <1>2, IInvInit, IInvStep, PTL DEF Spec, OnlyIdleFreed

----------------------------------------------------------------------------
(***************************************************************************)
(* The pool implements EfPoolSpec: what is on full_list but not on         *)
(* free_list is live, what is on free_list is idle.                        *)
(***************************************************************************)
live == full \ Range(freeList)
idle == Range(freeList)

LEMMA PoolInitMaps == ASSUME Init PROVE Pool!Init
BY DEF Init, Pool!Init, Range

\* With nothing idle the pool's size is the number of live coroutines.
LEMMA LiveCount ==
  ASSUME IInv, freeCount <= 0
  PROVE  idle = {} /\ Cardinality(live) = fullCount
<1>1. freeList = << >>
  BY EmptySeq DEF IInv, TypeOK, PoolInv, CountsMatch
<1>2. idle = {}
  BY <1>1 DEF idle, Range
<1> QED
  BY <1>2 DEF live, idle, IInv, PoolInv, CountsMatch

LEMMA PoolStepMaps == ASSUME IInv, [Next]_vars PROVE [Pool!Next]_Pool!vars
<1>0. idle = {co \in full : status[co] = "exited"} /\ full \subseteq Coroutine
  BY DEF IInv, TypeOK, PoolInv, FreeListIsExited, idle
<1>1. CASE CreateFromFree
  <2> DEFINE h == Head(freeList)
  <2>1. Len(freeList) > 0 /\ h \in Coroutine
    BY <1>1, HeadMayInit DEF CreateFromFree
  <2>2. freeList' = Tail(freeList) /\ full' = full
    BY <1>1 DEF CreateFromFree
  <2>3. h \in Range(freeList) /\ Range(freeList') = Range(freeList) \ {h}
    BY <2>1, <2>2, TailList DEF IInv, TypeOK, PoolInv, FreeListIsExited, NoRepeat
  <2>4. Pool!TakeIdle(h)
    BY <2>2, <2>3, <1>0 DEF Pool!TakeIdle, idle
  <2> QED
    BY <2>1, <2>4 DEF Pool!Next
<1>2. CASE \E co \in Coroutine : CreateNew(co)
  <2>1. PICK co \in Coroutine : CreateNew(co)
    BY <1>2
  <2>2. /\ freeCount <= 0 /\ fullCount < LimitMax
        /\ status[co] = "unmapped"
        /\ full' = full \cup {co} /\ freeList' = freeList
    BY <2>1 DEF CreateNew, BelowMax, FiberCreate
  <2>3. co \notin full
    BY <2>2 DEF IInv, PoolInv, FreeListIsExited
  <2>4. Range(freeList) = {} /\ Cardinality(full \ Range(freeList)) < LimitMax
    BY <2>2, LiveCount DEF live, idle
  <2>5. full' \ Range(freeList') = (full \ Range(freeList)) \cup {co}
    BY <2>2, <2>4
  <2>6. Pool!Cardinality(full \ Range(freeList)) < LimitMax
    BY <2>4 DEF Cardinality, Pool!Cardinality
  <2>7. Pool!TakeNew(co)
    BY <2>2, <2>3, <2>4, <2>5, <2>6 DEF Pool!TakeNew
  <2> QED
    BY <2>7 DEF Pool!Next
<1>3. CASE (\E co \in Coroutine : Resume(co)) \/ Yield \/ Tick \/ UNCHANGED vars
  BY <1>3 DEF Resume, Yield, Tick, vars, poolVars, Pool!vars
<1>4. CASE Exit
  <2> DEFINE me == current
  <2>1. me \in Coroutine /\ status[me] = "inited" /\ me \in full
    BY <1>4 DEF Exit, FiberExit, IInv, FiberInv, FiberTypeOK, StatusMatchesContext,
                OneRuns, Fiber, PoolInv, FreeListIsExited
  <2>2. me \notin Range(freeList)
    BY <2>1 DEF IInv, PoolInv, FreeListIsExited
  <2>3. freeList' = <<me>> \o freeList /\ full' = full
    BY <1>4 DEF Exit, Recycled
  <2>4. Range(freeList') = Range(freeList) \cup {me}
    BY <2>1, <2>2, <2>3, ConsList DEF IInv, TypeOK, PoolInv, FreeListIsExited, NoRepeat
  <2>5. Pool!Finish(me)
    BY <2>1, <2>2, <2>3, <2>4 DEF Pool!Finish
  <2> QED
    BY <2>1, <2>5 DEF Pool!Next
<1>5. CASE \E args \in ShrinkArgs : Shrink(args[1], args[2])
  <2>1. PICK n \in 0 .. Len(freeList) :
          full' = full \ LastFree(n) /\ freeList' = ButLastFree(n)
    BY <1>5 DEF Shrink, ShrinkBy
  <2>2. /\ LastFree(n) \subseteq Range(freeList)
        /\ Range(freeList') = Range(freeList) \ LastFree(n)
    BY <2>1, ButLastList DEF IInv, TypeOK, PoolInv, FreeListIsExited, NoRepeat
  <2>3. Pool!Trim(LastFree(n))
    BY <2>1, <2>2 DEF Pool!Trim
  <2>4. LastFree(n) \in SUBSET Coroutine
    BY <2>2, <1>0 DEF idle
  <2> QED
    BY <2>3, <2>4 DEF Pool!Next
<1> QED
  BY <1>1, <1>2, <1>3, <1>4, <1>5 DEF Next

\* ef_coroutine_create, the exit path of resume and shrink together do what
\* EfPoolSpec promises: no coroutine has two holders, none is given up while
\* held, an idle one is reused before a new one is made.
THEOREM PoolImplementsSpec == Spec => ImplementsPoolSpec
<1>1. IInv /\ [Next]_vars => [Pool!Next]_Pool!vars
  BY PoolStepMaps
<1> QED
  BY <1>1, PoolInitMaps, IInvInit, IInvStep, PTL DEF Spec, ImplementsPoolSpec, Pool!Spec

----------------------------------------------------------------------------
(***************************************************************************)
(* Stacks: page boundaries are the multiples of the page size.             *)
(***************************************************************************)
LEMMA Division ==
  ASSUME NEW p \in Nat \ {0}, NEW x \in Int
  PROVE  /\ x \div p \in Int /\ x % p \in 0 .. p - 1
         /\ x = p * (x \div p) + (x % p)
OBVIOUS

LEMMA Multiples ==
  ASSUME NEW p \in Nat \ {0}, NEW j \in Int, NEW k \in Int
  PROVE  /\ j <= k => p * j <= p * k
         /\ p * j < p * k => j < k
         /\ j < k => p * j + p <= p * k
         /\ p * (j + 1) = p * j + p
         /\ p * j \in Int
OBVIOUS

LEMMA Boundaries ==
  ASSUME NEW addr \in Nat
  PROVE  /\ LowerBoundary(addr) \in Boundary
         /\ LowerBoundary(addr) <= addr /\ addr < LowerBoundary(addr) + PageSize
         /\ \A b \in Boundary : /\ b <= addr => b <= LowerBoundary(addr)
                                /\ b < LowerBoundary(addr) => b + PageSize <= LowerBoundary(addr)
<1> DEFINE p == PageSize
           q(x) == x \div p
<1>1. p \in Nat \ {0}
  BY PageAssumption
<1> HIDE DEF p, q
<1>2. \A x \in Nat : LowerBoundary(x) = p * q(x) /\ q(x) \in Nat /\ p * q(x) <= x /\ x < p * q(x) + p
  <2>1. ASSUME NEW x \in Nat
        PROVE  LowerBoundary(x) = p * q(x) /\ q(x) \in Nat /\ p * q(x) <= x /\ x < p * q(x) + p
    <3>1. /\ q(x) \in Int /\ x % p \in 0 .. p - 1 /\ x = p * q(x) + (x % p)
          /\ p * q(x) \in Int
      BY <1>1, Division, Multiples DEF q
    <3>2. LowerBoundary(x) = p * q(x) /\ p * q(x) <= x /\ x < p * q(x) + p
      BY <1>1, <3>1 DEF LowerBoundary, p
    <3>3. q(x) >= 0
      BY <1>1 DEF q
    <3> QED
      BY <3>1, <3>2, <3>3
  <2> QED
    BY <2>1
<1>3. \A b \in Boundary : b \in Nat /\ b = p * q(b)
  BY <1>2 DEF Boundary
<1>4. ASSUME NEW j \in Nat, NEW x \in Nat, x = p * j PROVE q(x) = j
  <2>1. /\ p * q(x) <= p * j /\ p * j < p * q(x) + p /\ q(x) \in Nat
    BY <1>2, <1>4
  <2>2. p * (q(x) + 1) = p * q(x) + p
    BY <1>1, <2>1, Multiples
  <2>3. ~(j < q(x)) /\ j < q(x) + 1
    BY <1>1, <2>1, <2>2, Multiples
  <2> QED
    BY <2>1, <2>3
<1>5. LowerBoundary(addr) \in Boundary
  <2> DEFINE b == LowerBoundary(addr)
  <2>1. b = p * q(addr) /\ q(addr) \in Nat /\ b \in Nat
    BY <1>1, <1>2
  <2>2. LowerBoundary(b) = p * q(b) /\ q(b) = q(addr)
    BY <1>2, <1>4, <2>1
  <2> QED
    BY <2>1, <2>2 DEF Boundary
<1>6. ASSUME NEW b \in Boundary
      PROVE  /\ b <= addr => b <= LowerBoundary(addr)
             /\ b < LowerBoundary(addr) => b + PageSize <= LowerBoundary(addr)
  <2>1. /\ b = p * q(b) /\ b \in Nat /\ q(b) \in Nat /\ q(addr) \in Nat
        /\ LowerBoundary(addr) = p * q(addr) /\ addr < p * q(addr) + p
    BY <1>2, <1>3
  <2>2. p * (q(addr) + 1) = p * q(addr) + p
    BY <1>1, <2>1, Multiples
  <2>3. b <= addr => q(b) < q(addr) + 1
    <3>1. b <= addr => p * q(b) < p * (q(addr) + 1)
      BY <1>1, <2>1, <2>2
    <3> QED
      BY <1>1, <2>1, <3>1, Multiples
  <2>4. b <= addr => p * q(b) <= p * q(addr)
    <3>1. b <= addr => q(b) <= q(addr)
      BY <2>1, <2>3
    <3> QED
      BY <1>1, <2>1, <3>1, Multiples
  <2>5. p * q(b) < p * q(addr) => p * q(b) + p <= p * q(addr)
    <3>1. p * q(b) < p * q(addr) => q(b) < q(addr)
      BY <1>1, <2>1, Multiples
    <3>2. q(b) < q(addr) => p * q(b) + p <= p * q(addr)
      BY <1>1, <2>1, Multiples
    <3> QED
      BY <3>1, <3>2
  <2> QED
    BY <2>1, <2>4, <2>5 DEF p
<1> QED
  BY <1>2, <1>5, <1>6 DEF p

LEMMA BoundarySums ==
  ASSUME NEW a \in Boundary, NEW b \in Boundary
  PROVE  a + b \in Boundary /\ PageSize \in Boundary /\ (b > 0 => b >= PageSize /\ b - PageSize \in Boundary)
<1> DEFINE p == PageSize
<1>1. p \in Nat \ {0}
  BY PageAssumption
<1>2. a \in Nat /\ b \in Nat /\ a % p = 0 /\ b % p = 0
  BY <1>1 DEF Boundary, LowerBoundary
<1>3. PICK j \in Nat : a = p * j
  <2>1. a \div p \in Int /\ a = p * (a \div p) + (a % p) /\ p * (a \div p) \in Int
    BY <1>1, <1>2, Division, Multiples
  <2>2. a \div p >= 0
    BY <1>1, <1>2
  <2> QED
    BY <1>2, <2>1, <2>2
<1>4. PICK k \in Nat : b = p * k
  <2>1. b \div p \in Int /\ b = p * (b \div p) + (b % p) /\ p * (b \div p) \in Int
    BY <1>1, <1>2, Division, Multiples
  <2>2. b \div p >= 0
    BY <1>1, <1>2
  <2> QED
    BY <1>2, <2>1, <2>2
<1> HIDE DEF p
<1>5. ASSUME NEW n \in Nat PROVE p * n \in Boundary
  <2>1. p * n \in Nat /\ (p * n) % p = 0
    BY <1>1
  <2> QED
    BY <2>1 DEF Boundary, LowerBoundary, p
<1>6. a + b \in Boundary
  <2>1. a + b = p * (j + k) /\ j + k \in Nat
    BY <1>1, <1>3, <1>4
  <2> QED
    BY <1>5, <2>1
<1>7. p \in Boundary
  <2>1. p = p * 1
    BY <1>1
  <2> QED
    BY <1>5, <2>1
<1>8. b > 0 => b >= p /\ b - p \in Boundary
  <2>1. b > 0 => k - 1 \in Nat
    <3>1. k = 0 => p * k = 0
      BY <1>1
    <3> QED
      BY <1>4, <3>1
  <2>2. k - 1 \in Nat => b - p = p * (k - 1) /\ p * (k - 1) >= 0
    <3>1. p * ((k - 1) + 1) = p * (k - 1) + p /\ (k - 1) + 1 = k
      BY <1>1, Multiples
    <3>2. k - 1 \in Nat => p * (k - 1) \in Nat
      BY <1>1
    <3> QED
      BY <1>1, <1>2, <1>4, <3>1, <3>2
  <2>3. k - 1 \in Nat => p * (k - 1) \in Boundary
    BY <1>5
  <2>4. b > 0 => b - p \in Boundary /\ b - p >= 0
    BY <2>1, <2>2, <2>3
  <2> QED
    BY <1>1, <1>2, <2>4
<1> QED
  BY <1>6, <1>7, <1>8 DEF p

\* Whatever is asked for, the area is of whole pages, at least one, and holds it.
LEMMA AreaSizes ==
  ASSUME NEW wanted \in Nat
  PROVE  AreaSize(wanted) \in Boundary /\ AreaSize(wanted) >= PageSize /\ AreaSize(wanted) >= wanted
<1> DEFINE n == IF wanted = 0 THEN PageSize ELSE wanted
<1>1. PageSize \in Nat \ {0} /\ n \in Nat \ {0} /\ n >= wanted /\ n + PageSize - 1 \in Nat
  BY PageAssumption
<1>2. AreaSize(wanted) = LowerBoundary(n + PageSize - 1)
  BY DEF AreaSize
<1> HIDE DEF n
<1>3. PageSize \in Boundary
  BY <1>1, BoundarySums, Boundaries
<1>4. /\ AreaSize(wanted) \in Boundary /\ AreaSize(wanted) \in Nat
      /\ n + PageSize - 1 < AreaSize(wanted) + PageSize
      /\ PageSize <= AreaSize(wanted)
  <2>1. PageSize <= n + PageSize - 1
    BY <1>1
  <2> QED
    BY <1>1, <1>2, <1>3, <2>1, Boundaries DEF Boundary
<1> QED
  BY <1>1, <1>4

\* Every stack that ef_fiber_create makes is a Stack, and whatever faults a fiber
\* has on a Stack, ef_fiber_expand_stack keeps it one: the lowest page of an area
\* of several pages is never mapped, what is mapped is the area down to stack_lower
\* without holes, and the program is aborted for no address between (fiber.c:49-94
\* and 155-177).  Nor does a fault on one stack ever grow another one: when the
\* current fiber is another already, the program is aborted.
THEOREM StackGrowsRightly ==
  /\ \A area \in Boundary, wanted \in Nat : CreatedStack(area, wanted) \in Stack
  /\ \A s \in Stack, addr \in Nat : GrowsRightly(s, addr)
  /\ \A s, other \in Stack, addr \in Nat :
       (other.end <= s.area \/ s.end <= other.area) /\ other.area <= addr /\ addr < other.end => ~Expands(s, addr)
<1>0. PageSize \in Nat \ {0}
  BY PageAssumption
<1>1. ASSUME NEW area \in Boundary, NEW wanted \in Nat PROVE CreatedStack(area, wanted) \in Stack
  <2> DEFINE size == AreaSize(wanted)
             s == CreatedStack(area, wanted)
  <2>1. size \in Boundary /\ size >= PageSize
    BY AreaSizes
  <2> HIDE DEF size
  <2>2. area \in Nat /\ size \in Nat /\ size > 0 /\ area + size > 0
    BY <1>0, <2>1 DEF Boundary
  <2>3. area + size \in Boundary
    BY <2>1, BoundarySums
  <2>4. size - PageSize \in Boundary
    BY <2>1, <2>2, BoundarySums
  <2>5. area + (size - PageSize) \in Boundary
    BY <2>4, BoundarySums
  <2>6. size = PageSize \/ size >= PageSize + PageSize
    <3>1. size - PageSize > 0 => size - PageSize >= PageSize
      BY <2>4, BoundarySums
    <3> QED
      BY <1>0, <2>1, <2>2, <3>1
  <2>7. s = [area |-> area, end |-> area + size, lower |-> area + (size - PageSize)]
    BY DEF CreatedStack, size
  <2> HIDE DEF s
  <2>8. s \in [area : Boundary, end : Boundary, lower : Boundary]
    BY <2>3, <2>5, <2>7
  <2>9. /\ s.lower + PageSize <= s.end
        /\ \/ s.area + PageSize <= s.lower
           \/ s.lower = s.area /\ s.end = s.area + PageSize
    BY <1>0, <2>2, <2>6, <2>7
  <2> QED
    BY <2>8, <2>9 DEF Stack, s
<1>2. ASSUME NEW s \in Stack, NEW addr \in Nat PROVE GrowsRightly(s, addr)
  <2> DEFINE b == LowerBoundary(addr)
  <2>1. /\ s \in [area : Boundary, end : Boundary, lower : Boundary]
        /\ s.area \in Boundary /\ s.end \in Boundary /\ s.lower \in Boundary
        /\ s.area \in Nat /\ s.end \in Nat /\ s.lower \in Nat
        /\ s.lower + PageSize <= s.end
        /\ s.area + PageSize <= s.lower \/ (s.lower = s.area /\ s.end = s.area + PageSize)
    BY DEF Stack, Boundary
  <2>2. s.area + PageSize \in Boundary /\ s.area + PageSize \in Nat
    <3>1. PageSize \in Boundary
      BY <2>1, BoundarySums
    <3> QED
      BY <2>1, <3>1, BoundarySums DEF Boundary
  <2>3. /\ b \in Boundary /\ b \in Nat /\ b <= addr
        /\ s.area + PageSize <= addr => s.area + PageSize <= b
        /\ s.lower <= addr => s.lower <= b
    BY <2>1, <2>2, Boundaries DEF Boundary
  <2>4. Expands(s, addr) <=> s.area + PageSize <= b /\ b < s.lower
    BY <1>0, <2>1, <2>3 DEF Expands
  <2>5. Expands(s, addr) <=> addr \in Reserve(s)
    BY <1>0, <2>1, <2>2, <2>3, <2>4 DEF Reserve
  <2> HIDE DEF b
  <2> DEFINE t == ExpandedStack(s, addr)
  <2>6. t \in [area : Boundary, end : Boundary, lower : Boundary] /\ t.area = s.area /\ t.end = s.end /\ t.lower = b
    BY <2>1, <2>3 DEF ExpandedStack, b
  <2> HIDE DEF t
  <2>7. Expands(s, addr) => t \in Stack /\ addr \notin Reserve(t) /\ t.lower <= addr
    BY <1>0, <2>1, <2>2, <2>3, <2>4, <2>6 DEF Stack, Reserve
  <2> QED
    BY <2>5, <2>7 DEF GrowsRightly, t
<1>3. ASSUME NEW s \in Stack, NEW other \in Stack, NEW addr \in Nat,
             other.end <= s.area \/ s.end <= other.area, other.area <= addr, addr < other.end
      PROVE  ~Expands(s, addr)
  <2>1. /\ s.area \in Nat /\ s.end \in Nat /\ s.lower \in Nat /\ other.area \in Nat /\ other.end \in Nat
        /\ s.lower + PageSize <= s.end
    BY DEF Stack, Boundary
  <2>2. addr \notin Reserve(s)
    BY <1>0, <1>3, <2>1 DEF Reserve
  <2> QED
    BY <1>2, <2>2 DEF GrowsRightly
<1> QED
  BY <1>1, <1>2, <1>3
=============================================================================
