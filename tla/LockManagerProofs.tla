-------------------------- MODULE LockManagerProofs --------------------------
(***************************************************************************)
(* Safety of the callbacks' mutex for any number of goroutines.            *)
(***************************************************************************)
EXTENDS LockManager, TLAPS

\* A mutex has one holder at a time; a goroutine on its way to lock has one.
OneHolder ==
    \A g, h \in Goroutines :
        pc[g] = "critical" /\ pc[h] = "critical" /\ mine[g] = mine[h] => g = h

\* Whoever found a mutex in the map still finds one there.
MapFilled == (\E g \in Goroutines : pc[g] \in {"get", "lock", "critical"}) => locks # NoMutex

IndInv == TypeOK /\ NoNilLock /\ OneHolder /\ MapFilled

LEMMA InitInv == Init => IndInv
BY NoMutexAssumption DEF Init, IndInv, TypeOK, NoNilLock, OneHolder, MapFilled, Mutexes

LEMMA StepInv ==
    ASSUME IndInv, [Next]_vars
    PROVE  IndInv'
<1> USE NoMutexAssumption DEF IndInv, Goto, Mutexes
<1>1. ASSUME NEW g \in Goroutines, HasLock(g)
      PROVE  IndInv'
  BY <1>1 DEF HasLock, TypeOK, NoNilLock, OneHolder, MapFilled
<1>2. ASSUME NEW g \in Goroutines, CreateLock(g)
      PROVE  IndInv'
  BY <1>2 DEF CreateLock, TypeOK, NoNilLock, OneHolder, MapFilled
<1>3. ASSUME NEW g \in Goroutines, ReadLock(g)
      PROVE  IndInv'
  BY <1>3 DEF ReadLock, TypeOK, NoNilLock, OneHolder, MapFilled
<1>4. ASSUME NEW g \in Goroutines, Lock(g)
      PROVE  IndInv'
  BY <1>4 DEF Lock, TypeOK, NoNilLock, OneHolder, MapFilled
<1>5. ASSUME NEW g \in Goroutines, Unlock(g)
      PROVE  IndInv'
  BY <1>5 DEF Unlock, TypeOK, NoNilLock, OneHolder, MapFilled
<1>6. CASE UNCHANGED vars
  BY <1>6 DEF vars, TypeOK, NoNilLock, OneHolder, MapFilled
<1> QED BY <1>1, <1>2, <1>3, <1>4, <1>5, <1>6 DEF Next, Step

\* GetLock never returns nil, and from the moment the race for the first mutex
\* is settled two callbacks never run syncConfigToLocal at once.
THEOREM LockSafety == Spec => [](NoNilLock /\ ExclusionWhenSettled)
<1>1. IndInv => NoNilLock /\ ExclusionWhenSettled
  BY DEF IndInv, ExclusionWhenSettled, Settled, Stale, MutualExclusion, OneHolder
<1>2. IndInv /\ [Next]_vars => IndInv'
  BY StepInv
<1> QED BY <1>1, <1>2, InitInv, PTL DEF Spec

\* Once settled it stays settled: GetLock creates no mutex any more.
THEOREM SettledForGood == Spec => SettledIsStable
<1>1. IndInv /\ [Next]_vars => [Settled => Settled']_vars
  <2> SUFFICES ASSUME IndInv, Next, Settled PROVE Settled'
    OBVIOUS
  <2> USE DEF IndInv, TypeOK, Settled, Stale, Goto
  <2>1. PICK g \in Goroutines : Step(g)
    BY DEF Next
  <2>2. CASE HasLock(g)
    BY <2>2 DEF HasLock
  <2>3. CASE CreateLock(g)
    BY <2>3 DEF CreateLock
  <2>4. CASE ReadLock(g)
    BY <2>4 DEF ReadLock
  <2>5. CASE Lock(g)
    BY <2>5 DEF Lock
  <2>6. CASE Unlock(g)
    BY <2>6 DEF Unlock
  <2> QED BY <2>1, <2>2, <2>3, <2>4, <2>5, <2>6 DEF Step
<1>2. IndInv /\ [Next]_vars => IndInv'
  BY StepInv
<1> QED BY <1>1, <1>2, InitInv, PTL DEF Spec, SettledIsStable
=============================================================================
