---------------------------- MODULE LockManager ----------------------------
(***************************************************************************)
(* The per-DC mutex of the change callbacks: LockManager in pkg/nacos/     *)
(* server2cluster.go, and CallbackWithContext's use of it.  GetLock first  *)
(* asks HasLock and only then, in a second critical section, creates the   *)
(* mutex, so that callbacks which arrive together before the first mutex   *)
(* exists each install one of their own.                                   *)
(*                                                                         *)
(* One key is modelled; the entries of the map are independent.  Every     *)
(* section under the manager's RWMutex is one step.  DelLock has no caller *)
(* and is left out.                                                        *)
(***************************************************************************)
EXTENDS Naturals

CONSTANTS
    Goroutines,   \* callbacks of one DC; one that is over may run again
    NoMutex       \* locks has no entry for the key

VARIABLES
    locks,        \* the mutex the map holds for the key
    pc,           \* where each goroutine is
    mine          \* the mutex GetLock returned to it

vars == <<locks, pc, mine>>

\* A mutex is named by the goroutine that created it: while the goroutine runs
\* and after, no other mutex has that name, as it never misses twice.
Mutexes == Goroutines

ASSUME NoMutexAssumption == NoMutex \notin Goroutines

Init ==
    /\ locks = NoMutex
    /\ pc = [g \in Goroutines |-> "idle"]
    /\ mine = [g \in Goroutines |-> NoMutex]

Goto(g, l) == pc' = [pc EXCEPT ![g] = l]

\* Mutations: the answer is always that there is a mutex, or that there is none.
HasLockAlways(g) == pc[g] = "idle" /\ Goto(g, "get") /\ UNCHANGED <<locks, mine>>
HasLockNever(g) == pc[g] = "idle" /\ Goto(g, "create") /\ UNCHANGED <<locks, mine>>

\* GetLock's call of HasLock.
HasLock(g) ==
    /\ pc[g] = "idle"
    /\ \/ locks = NoMutex /\ Goto(g, "create")
       \/ locks # NoMutex /\ Goto(g, "get")
    /\ UNCHANGED <<locks, mine>>

\* The branch of GetLock for a missing mutex: whatever the map holds by now is
\* replaced.
CreateLock(g) ==
    /\ pc[g] = "create"
    /\ locks' = g
    /\ mine' = [mine EXCEPT ![g] = g]
    /\ Goto(g, "lock")

\* The other branch.
ReadLock(g) ==
    /\ pc[g] = "get"
    /\ mine' = [mine EXCEPT ![g] = locks]
    /\ Goto(g, "lock")
    /\ UNCHANGED locks

\* Mutation: the callback goes on without the mutex.
LockNotTaken(g) == pc[g] = "lock" /\ Goto(g, "critical") /\ UNCHANGED <<locks, mine>>

\* sync.Mutex: Lock waits until no goroutine is inside with the same mutex.
Lock(g) ==
    /\ pc[g] = "lock"
    /\ \A h \in Goroutines : pc[h] = "critical" => mine[h] # mine[g]
    /\ Goto(g, "critical")
    /\ UNCHANGED <<locks, mine>>

\* Mutation: the mutex is not given back.
UnlockMissing(g) == pc[g] = "critical" /\ UNCHANGED vars

\* syncConfigToLocal is over and the deferred Unlock runs.
Unlock(g) ==
    /\ pc[g] = "critical"
    /\ mine' = [mine EXCEPT ![g] = NoMutex]
    /\ Goto(g, "idle")
    /\ UNCHANGED locks

Step(g) == HasLock(g) \/ CreateLock(g) \/ ReadLock(g) \/ Lock(g) \/ Unlock(g)

Next == \E g \in Goroutines : Step(g)

Spec == Init /\ [][Next]_vars

\* A goroutine that has entered GetLock keeps running; a mutex that is given
\* back over and over is not withheld from one waiter for ever.
FairSpec ==
    /\ Spec
    /\ \A g \in Goroutines :
          /\ WF_vars(CreateLock(g)) /\ WF_vars(ReadLock(g)) /\ WF_vars(Unlock(g))
          /\ SF_vars(Lock(g))

-----------------------------------------------------------------------------

\* Type correctness.
TypeOK ==
    /\ locks \in Mutexes \cup {NoMutex}
    /\ pc \in [Goroutines -> {"idle", "create", "get", "lock", "critical"}]
    /\ mine \in [Goroutines -> Mutexes \cup {NoMutex}]

\* GetLock never returns nil: no goroutine is about to call Lock on, or runs
\* with, a mutex that does not exist.
NoNilLock == \A g \in Goroutines : pc[g] \in {"lock", "critical"} => mine[g] # NoMutex

\* g waits for, or holds, a mutex that is not the one in the map.
Stale(g) == pc[g] \in {"lock", "critical"} /\ mine[g] # locks

\* The first callbacks are over with: nobody is about to create a mutex, and
\* nobody uses a replaced one.
Settled ==
    /\ locks # NoMutex
    /\ \A g \in Goroutines : pc[g] # "create" /\ ~Stale(g)

MutualExclusion ==
    \A g, h \in Goroutines : pc[g] = "critical" /\ pc[h] = "critical" => g = h

\* The callbacks of a DC exclude each other from the moment the race for the
\* first mutex is settled.
ExclusionWhenSettled == Settled => MutualExclusion

\* And it stays settled: GetLock never again hands out another mutex.
SettledIsStable == [][Settled => Settled']_vars

\* Once there is a mutex the race ends: goroutines that missed it in HasLock
\* get through GetLock and those with a replaced mutex give it back.
EventuallySettled == locks # NoMutex ~> Settled

\* Every callback that has entered GetLock gets to run syncConfigToLocal.
EveryCallbackRuns == \A g \in Goroutines : pc[g] \in {"create", "get", "lock"} ~> pc[g] = "critical"
=============================================================================
