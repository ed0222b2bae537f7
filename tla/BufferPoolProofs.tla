-------------------------- MODULE BufferPoolProofs --------------------------
(***************************************************************************)
(* Theorems about BufferPool for every number of threads, amount of        *)
(* memory, queue size and number of attempts.                              *)
(***************************************************************************)
EXTENDS BufferPool, FiniteSetTheorems, SequenceTheorems, TLAPS

CallState == [op : {"none", "malloc", "push"}, buffer : Blocks \cup {NoBlock},
          tries : 0 .. RetryAttempts]

-----------------------------------------------------------------------------
(* Types.                                                                  *)

LEMMA IdleType == Idle \in CallState /\ InMalloc \in CallState
  BY PoolAssumption DEF Idle, InMalloc, CallState

LEMMA TypeNext == TypeOK /\ [Next]_vars => TypeOK'
<1> SUFFICES ASSUME TypeOK, [Next]_vars PROVE TypeOK'
  OBVIOUS
<1> USE IdleType
<1>1. call \in [Threads -> CallState]
  BY DEF TypeOK, CallState
<1>q. ASSUME queue # <<>>
      PROVE  Head(queue) \in Blocks /\ Tail(queue) \in Seq(Blocks)
  BY <1>q DEF TypeOK
<1>peak. ASSUME Measure, inUse' \subseteq Blocks PROVE peak' \in Nat
  <2>1. IsFiniteSet(inUse') /\ IsFiniteSet(Callers')
    BY <1>peak, PoolAssumption, FS_Subset DEF Callers
  <2>2. Demand' \in Nat
    BY <2>1, FS_CardinalityType DEF Demand
  <2>3. QED
    BY <2>2, <1>peak DEF TypeOK, Measure
<1>2. ASSUME NEW t \in Threads, PopRecycled(t) PROVE TypeOK'
  BY <1>2, <1>q, <1>peak DEF TypeOK, PopRecycled, CallState
<1>3. ASSUME NEW t \in Threads, PopMiss(t) PROVE TypeOK'
  BY <1>3, <1>peak DEF TypeOK, PopMiss, CallState, InMalloc
<1>4. ASSUME NEW t \in Threads, Lock(t) PROVE TypeOK'
  BY <1>4 DEF TypeOK, Lock
<1>5. ASSUME NEW t \in Threads, NEW b \in Blocks, Malloc(t, b) PROVE TypeOK'
  BY <1>5, <1>peak DEF TypeOK, Malloc, CallState, Idle
<1>6. ASSUME NEW t \in Threads, MallocFails(t) PROVE TypeOK'
  BY <1>6 DEF TypeOK, MallocFails, CallState, Idle
<1>7. ASSUME NEW t \in Threads, NEW b \in Blocks, BeginPush(t, b) PROVE TypeOK'
  BY <1>7, PoolAssumption DEF TypeOK, BeginPush, CallState, Pushing
<1>8. ASSUME NEW t \in Threads, TryPush(t) PROVE TypeOK'
  BY <1>8 DEF TypeOK, TryPush, CallState, Idle
<1>9. ASSUME NEW t \in Threads, PushFull(t) PROVE TypeOK'
  BY <1>9, PoolAssumption DEF TypeOK, PushFull
<1>10. ASSUME NEW t \in Threads, Free(t) PROVE TypeOK'
  BY <1>10 DEF TypeOK, Free, CallState, Idle
<1>11. CASE Destroy
  BY <1>11, EmptySeq DEF TypeOK, Destroy
<1>12. CASE UNCHANGED vars
  BY <1>12 DEF TypeOK, vars
<1>13. QED
  BY <1>2, <1>3, <1>4, <1>5, <1>6, <1>7, <1>8, <1>9, <1>10, <1>11, <1>12
  DEF Next, Call, Finish, Push, Destroyed

\* Every reachable state of the pool has its type: in particular a thread in
\* push() holds a block and has made no more than RETRY_ATTEMPTS attempts.
THEOREM TypeCorrect == Spec => []TypeOK
<1>1. Init => TypeOK
  BY IdleType DEF Init, TypeOK, CallState, Idle
<1>2. QED
  BY <1>1, TypeNext, PTL DEF Spec

-----------------------------------------------------------------------------
(* Ownership.                                                              *)

LEMMA OwnerNext == TypeOK /\ OneOwner /\ [Next]_vars => OneOwner'
<1> SUFFICES ASSUME TypeOK, OneOwner, [Next]_vars PROVE OneOwner'
  OBVIOUS
<1>1. /\ call \in [Threads -> CallState] /\ queue \in Seq(Blocks)
      /\ allocated \subseteq Blocks /\ inUse \subseteq Blocks
  BY DEF TypeOK, CallState
<1>0. /\ Idle.op = "none" /\ InMalloc.op = "malloc"
      /\ \A b, n : Pushing(b, n).op = "push" /\ Pushing(b, n).buffer = b
  BY DEF Idle, InMalloc, Pushing
<1>2. ASSUME NEW t \in Threads, PopRecycled(t) PROVE OneOwner'
  <2>1. /\ queue # <<>> /\ queue' = Tail(queue) /\ call' = call
        /\ inUse' = inUse \cup {Head(queue)} /\ allocated' = allocated
    BY <1>2 DEF PopRecycled
  <2>2. /\ Len(queue) \in Nat \ {0} /\ Len(queue') = Len(queue) - 1
        /\ Head(queue) = queue[1]
        /\ \A i \in 1 .. Len(queue) - 1 : queue'[i] = queue[i + 1]
    BY <1>1, <2>1, HeadTailProperties
  <2>3. InQueue' = InQueue \ {Head(queue)} /\ Head(queue) \in InQueue
    <3>1. \A i \in 2 .. Len(queue) : i - 1 \in 1 .. Len(queue) - 1 /\ queue'[i - 1] = queue[i]
      BY <2>2
    <3>2. \A i \in 1 .. Len(queue) - 1 : i + 1 \in 2 .. Len(queue) /\ queue'[i] = queue[i + 1]
      BY <2>2
    <3>3. InQueue' = {queue[i] : i \in 2 .. Len(queue)}
      BY <2>2, <3>1, <3>2, SMTT(30) DEF InQueue
    <3>4. \A i \in 2 .. Len(queue) : queue[i] # queue[1]
      BY <2>2 DEF OneOwner
    <3>5. 1 .. Len(queue) = {1} \cup 2 .. Len(queue)
      BY <2>2
    <3>6. InQueue = {queue[1]} \cup InQueue'
      BY <3>3, <3>5 DEF InQueue
    <3>7. queue[1] \notin InQueue'
      BY <3>3, <3>4
    <3>8. QED
      BY <2>2, <3>6, <3>7
  <2>4. \A i, j \in 1 .. Len(queue') : i # j => queue'[i] # queue'[j]
    BY <2>2 DEF OneOwner
  <2>5. InPush' = InPush /\ Pushers' = Pushers
    BY <2>1 DEF InPush, Pushers
  <2>6. QED
    BY <2>1, <2>3, <2>4, <2>5 DEF OneOwner
<1>3. ASSUME NEW t \in Threads, PopMiss(t) PROVE OneOwner'
  <2>1. Pushers' = Pushers /\ \A u \in Pushers : call'[u] = call[u]
    BY <1>0, <1>1, <1>3 DEF PopMiss, CanCall, Pushers
  <2>2. InPush' = InPush
    BY <2>1 DEF InPush
  <2>3. QED
    BY <1>3, <2>1, <2>2 DEF OneOwner, PopMiss, InQueue
<1>4. ASSUME NEW t \in Threads, Lock(t) PROVE OneOwner'
  BY <1>4 DEF OneOwner, Lock, InQueue, InPush, Pushers
<1>5. ASSUME NEW t \in Threads, NEW b \in Blocks, Malloc(t, b) PROVE OneOwner'
  <2>1. Pushers' = Pushers /\ \A u \in Pushers : call'[u] = call[u]
    BY <1>0, <1>1, <1>5 DEF Malloc, Pushers
  <2>2. InPush' = InPush
    BY <2>1 DEF InPush
  <2>3. InQueue' = InQueue /\ queue' = queue
    BY <1>5 DEF Malloc, InQueue
  <2>4. b \notin allocated /\ allocated' = allocated \cup {b} /\ inUse' = inUse \cup {b}
    BY <1>5 DEF Malloc
  <2>5. QED
    BY <2>1, <2>2, <2>3, <2>4 DEF OneOwner
<1>6. ASSUME NEW t \in Threads, MallocFails(t) PROVE OneOwner'
  <2>1. Pushers' = Pushers /\ \A u \in Pushers : call'[u] = call[u]
    BY <1>0, <1>1, <1>6 DEF MallocFails, Pushers
  <2>2. InPush' = InPush
    BY <2>1 DEF InPush
  <2>3. QED
    BY <1>6, <2>1, <2>2 DEF OneOwner, MallocFails, InQueue
<1>7. ASSUME NEW t \in Threads, NEW b \in Blocks, BeginPush(t, b) PROVE OneOwner'
  <2>1. /\ call[t].op = "none" /\ b \in inUse /\ inUse' = inUse \ {b}
        /\ call' = [call EXCEPT ![t] = Pushing(b, 0)]
        /\ queue' = queue /\ allocated' = allocated
    BY <1>7 DEF BeginPush, CanCall
  <2>2. Pushers' = Pushers \cup {t} /\ t \notin Pushers
    BY <1>0, <1>1, <2>1 DEF Pushers
  <2>3. /\ \A u \in Pushers : call'[u] = call[u]
        /\ call'[t].buffer = b
    BY <1>0, <1>1, <2>1, <2>2 DEF Pushers
  <2>4. InPush' = InPush \cup {b}
    BY <2>2, <2>3 DEF InPush
  <2>5. InQueue' = InQueue
    BY <2>1 DEF InQueue
  <2>6. \A u \in Pushers : call[u].buffer # b
    BY <2>1 DEF OneOwner, InPush
  <2>7. \A u, v \in Pushers' : u # v => call'[u].buffer # call'[v].buffer
    BY <2>2, <2>3, <2>6 DEF OneOwner
  <2>8. QED
    BY <2>1, <2>4, <2>5, <2>7 DEF OneOwner
<1>leave. ASSUME NEW t \in Pushers, call' = [call EXCEPT ![t] = Idle]
          PROVE  /\ Pushers' = Pushers \ {t}
                 /\ InPush' = InPush \ {call[t].buffer}
                 /\ \A u, v \in Pushers' : u # v => call'[u].buffer # call'[v].buffer
  <2>1. Pushers' = Pushers \ {t} /\ \A u \in Pushers' : call'[u] = call[u]
    BY <1>0, <1>1, <1>leave DEF Pushers
  <2>2. QED
    BY <2>1 DEF OneOwner, InPush
<1>8. ASSUME NEW t \in Threads, TryPush(t) PROVE OneOwner'
  <2> DEFINE b == call[t].buffer
  <2>1. /\ t \in Pushers /\ call' = [call EXCEPT ![t] = Idle]
        /\ queue' = Append(queue, b)
        /\ inUse' = inUse /\ allocated' = allocated
    BY <1>8 DEF TryPush, Pushers
  <2>2. b \in Blocks /\ b \in InPush
    BY <2>1 DEF TypeOK, Pushers, InPush
  <2>3. /\ Len(queue) \in Nat /\ Len(queue') = Len(queue) + 1
        /\ \A i \in 1 .. Len(queue) : queue'[i] = queue[i]
        /\ queue'[Len(queue) + 1] = b
    BY <1>1, <2>1, <2>2, AppendProperties
  <2>4. InQueue' = InQueue \cup {b}
    <3>1. 1 .. Len(queue) + 1 = 1 .. Len(queue) \cup {Len(queue) + 1}
      BY <2>3
    <3>2. QED
      BY <2>3, <3>1 DEF InQueue
  <2>5. \A i \in 1 .. Len(queue) : queue[i] # b
    BY <2>2 DEF OneOwner, InQueue
  <2>6. \A i, j \in 1 .. Len(queue') : i # j => queue'[i] # queue'[j]
    BY <2>3, <2>5 DEF OneOwner
  <2>7. /\ InPush' = InPush \ {b}
        /\ \A u, v \in Pushers' : u # v => call'[u].buffer # call'[v].buffer
    BY <1>leave, <2>1
  <2>8. QED
    BY <2>1, <2>2, <2>4, <2>6, <2>7 DEF OneOwner
<1>9. ASSUME NEW t \in Threads, PushFull(t) PROVE OneOwner'
  <2>1. Pushers' = Pushers /\ \A u \in Pushers : call'[u].buffer = call[u].buffer
    BY <1>1, <1>9 DEF PushFull, Pushers, CallState
  <2>2. InPush' = InPush
    BY <2>1 DEF InPush
  <2>3. QED
    BY <1>9, <2>1, <2>2 DEF OneOwner, PushFull, InQueue
<1>10. ASSUME NEW t \in Threads, Free(t) PROVE OneOwner'
  <2>1. /\ t \in Pushers /\ call' = [call EXCEPT ![t] = Idle]
        /\ allocated' = allocated \ {call[t].buffer}
        /\ queue' = queue /\ inUse' = inUse
    BY <1>10 DEF Free, Pushers
  <2>2. call[t].buffer \in InPush
    BY <2>1 DEF InPush
  <2>3. InQueue' = InQueue
    BY <2>1 DEF InQueue
  <2>4. /\ InPush' = InPush \ {call[t].buffer}
        /\ \A u, v \in Pushers' : u # v => call'[u].buffer # call'[v].buffer
    BY <1>leave, <2>1
  <2>5. QED
    BY <2>1, <2>2, <2>3, <2>4 DEF OneOwner
<1>11. CASE Destroy
  <2>1. Pushers' = {}
    BY <1>11 DEF Destroy, Callers, Pushers
  <2>2. InPush' = {}
    BY <2>1 DEF InPush
  <2>3. queue' = <<>> /\ inUse' = {} /\ allocated' = {}
    BY <1>11 DEF Destroy
  <2>4. InQueue' = {}
    BY <2>3, EmptySeq DEF InQueue
  <2>5. QED
    BY <2>1, <2>2, <2>3, <2>4, EmptySeq DEF OneOwner
<1>12. CASE UNCHANGED vars
  <2>1. queue' = queue /\ call' = call /\ inUse' = inUse /\ allocated' = allocated
    BY <1>12 DEF vars
  <2>2. InQueue' = InQueue /\ Pushers' = Pushers /\ InPush' = InPush
    BY <2>1 DEF InQueue, InPush, Pushers
  <2>3. QED
    BY <2>1, <2>2 DEF OneOwner
<1>13. QED
  BY <1>2, <1>3, <1>4, <1>5, <1>6, <1>7, <1>8, <1>9, <1>10, <1>11, <1>12
  DEF Next, Call, Finish, Push, Destroyed

\* pop() never returns a buffer that a caller, the queue or a push() in
\* progress still holds, and no buffer of the pool is forgotten.
THEOREM OneOwnerOfABuffer == Spec => []OneOwner
<1>1. Init => OneOwner
  <2> SUFFICES ASSUME Init PROVE OneOwner
    OBVIOUS
  <2>1. Pushers = {} /\ queue = <<>> /\ inUse = {} /\ allocated = {}
    BY DEF Init, Pushers, Idle
  <2>2. InQueue = {} /\ InPush = {}
    BY <2>1, EmptySeq DEF InQueue, InPush
  <2>3. QED
    BY <2>1, <2>2, EmptySeq DEF OneOwner
<1>2. QED
  BY <1>1, OwnerNext, TypeCorrect, PTL DEF Spec

-----------------------------------------------------------------------------
(* The size of the pool.                                                   *)

FiniteState ==
  /\ IsFiniteSet(allocated) /\ Cardinality(allocated) \in Nat
  /\ IsFiniteSet(inUse)     /\ Cardinality(inUse) \in Nat
  /\ IsFiniteSet(Pushers)   /\ Cardinality(Pushers) \in Nat
  /\ IsFiniteSet(Poppers)   /\ Cardinality(Poppers) \in Nat
  /\ IsFiniteSet(Callers)   /\ Cardinality(Callers) \in Nat

LEMMA Finite == TypeOK => FiniteState
<1> SUFFICES ASSUME TypeOK PROVE FiniteState
  OBVIOUS
<1>1. /\ allocated \in SUBSET Blocks /\ inUse \in SUBSET Blocks
      /\ Pushers \in SUBSET Threads /\ Poppers \in SUBSET Threads
      /\ Callers \in SUBSET Threads
  BY DEF TypeOK, Pushers, Poppers, Callers
<1>2. /\ IsFiniteSet(allocated) /\ IsFiniteSet(inUse) /\ IsFiniteSet(Pushers)
      /\ IsFiniteSet(Poppers) /\ IsFiniteSet(Callers)
  BY <1>1, FS_Subset, PoolAssumption
<1>3. QED
  BY <1>2, FS_CardinalityType DEF FiniteState

\* A thread in the pool is either in pop() or in push().
LEMMA CallersCounted ==
  ASSUME TypeOK
  PROVE  Cardinality(Callers) = Cardinality(Pushers) + Cardinality(Poppers)
<1>1. Callers = Pushers \cup Poppers /\ Pushers \cap Poppers = {}
  BY DEF TypeOK, Callers, Pushers, Poppers
<1>2. Cardinality(Pushers \cap Poppers) = 0
  BY <1>1, FS_EmptySet
<1>3. FiniteState
  BY Finite
<1>4. Cardinality(Pushers \cup Poppers) =
        Cardinality(Pushers) + Cardinality(Poppers) - Cardinality(Pushers \cap Poppers)
  BY <1>3, FS_Union DEF FiniteState
<1>5. QED
  BY <1>1, <1>2, <1>3, <1>4 DEF FiniteState

\* When the queue is empty every block of the pool is in the hands of a caller.
LEMMA EmptyQueue ==
  ASSUME TypeOK, OneOwner, queue = <<>>
  PROVE  Cardinality(allocated) <= Cardinality(inUse) + Cardinality(Pushers)
<1> DEFINE f == [t \in Pushers |-> call[t].buffer]
<1>0. FiniteState
  BY Finite
<1>1. InQueue = {}
  BY EmptySeq DEF InQueue
<1>2. allocated = inUse \cup InPush /\ inUse \cap InPush = {}
  BY <1>1 DEF OneOwner
<1>3. f \in Surjection(Pushers, InPush)
  BY DEF Surjection, InPush
<1>4. IsFiniteSet(InPush) /\ Cardinality(InPush) <= Cardinality(Pushers)
  BY <1>0, <1>3, FS_Surjection DEF FiniteState
<1>5. Cardinality(InPush) \in Nat
  BY <1>4, FS_CardinalityType
<1>6. Cardinality(inUse \cap InPush) = 0
  BY <1>2, FS_EmptySet
<1>7. Cardinality(inUse \cup InPush) =
        Cardinality(inUse) + Cardinality(InPush) - Cardinality(inUse \cap InPush)
  BY <1>0, <1>4, FS_Union DEF FiniteState
<1>8. QED
  BY <1>0, <1>2, <1>4, <1>5, <1>6, <1>7 DEF FiniteState

LEMMA BoundNext ==
  TypeOK /\ TypeOK' /\ OneOwner /\ BoundedByDemand /\ [Next]_vars => BoundedByDemand'
<1> SUFFICES ASSUME TypeOK, TypeOK', OneOwner, BoundedByDemand, [Next]_vars
             PROVE  BoundedByDemand'
  OBVIOUS
<1>0. /\ Idle.op = "none" /\ InMalloc.op = "malloc"
      /\ \A b, n : Pushing(b, n).op = "push"
  BY DEF Idle, InMalloc, Pushing
<1>1. call \in [Threads -> CallState]
  BY DEF TypeOK, CallState
<1> DEFINE a == Cardinality(allocated)
           p == Cardinality(Poppers)
<1>f. FiniteState /\ FiniteState'
  BY Finite, PTL
<1>n. a \in Nat /\ a' \in Nat /\ p \in Nat /\ p' \in Nat /\ peak \in Nat /\ peak' \in Nat
  BY <1>f DEF FiniteState, TypeOK
<1>inv. a + p <= peak
  BY DEF BoundedByDemand
<1>goal. SUFFICES a' + p' <= peak'
  BY DEF BoundedByDemand
<1>peak. ASSUME Measure PROVE Demand' \in Nat /\ peak' >= peak /\ peak' >= Demand'
  <2>1. Demand' \in Nat
    BY <1>f DEF FiniteState, Demand
  <2>2. QED
    BY <2>1, <1>n, <1>peak DEF Measure
<1>enter. ASSUME NEW t \in Threads, call[t].op = "none", call' = [call EXCEPT ![t] = InMalloc]
          PROVE  p' = p + 1 /\ Cardinality(Callers') = Cardinality(Callers) + 1
  <2>1. Poppers' = Poppers \cup {t} /\ t \notin Poppers
    BY <1>0, <1>1, <1>enter DEF Poppers
  <2>2. Callers' = Callers \cup {t} /\ t \notin Callers
    BY <1>0, <1>1, <1>enter DEF Callers
  <2>3. QED
    BY <2>1, <2>2, <1>f, FS_AddElement DEF FiniteState
<1>leave. ASSUME NEW t \in Poppers, call' = [call EXCEPT ![t] = Idle]
          PROVE  p' = p - 1
  <2>1. Poppers' = Poppers \ {t}
    BY <1>0, <1>1, <1>leave DEF Poppers
  <2>2. QED
    BY <2>1, <1>f, FS_RemoveElement DEF FiniteState
<1>same. ASSUME Poppers' = Poppers PROVE p' = p
  BY <1>same
<1>2. ASSUME NEW t \in Threads, PopRecycled(t) PROVE a' + p' <= peak'
  <2>1. Poppers' = Poppers /\ a' = a
    BY <1>2 DEF PopRecycled, Poppers
  <2>2. peak' >= peak
    BY <1>2, <1>peak DEF PopRecycled
  <2>3. QED
    BY <2>1, <2>2, <1>same, <1>n, <1>inv
<1>3. ASSUME NEW t \in Threads, PopMiss(t) PROVE a' + p' <= peak'
  <2>1. /\ call[t].op = "none" /\ call' = [call EXCEPT ![t] = InMalloc]
        /\ queue = <<>> /\ inUse' = inUse /\ allocated' = allocated /\ Measure
    BY <1>3 DEF PopMiss, CanCall
  <2>2. a' = a /\ p' = p + 1 /\ Cardinality(Callers') = Cardinality(Callers) + 1
    BY <2>1, <1>enter
  <2>3. Demand' = Cardinality(inUse) + Cardinality(Callers) + 1
    BY <2>1, <2>2, <1>f DEF Demand, FiniteState
  <2>4. a <= Cardinality(inUse) + Cardinality(Pushers)
    BY <2>1, EmptyQueue
  <2>5. a + p + 1 <= Demand'
    BY <2>3, <2>4, <1>n, <1>f, CallersCounted DEF FiniteState
  <2>6. QED
    BY <2>1, <2>2, <2>5, <1>peak, <1>n
<1>4. ASSUME NEW t \in Threads, Lock(t) PROVE a' + p' <= peak'
  BY <1>4, <1>inv DEF Lock, Poppers
<1>5. ASSUME NEW t \in Threads, NEW b \in Blocks, Malloc(t, b) PROVE a' + p' <= peak'
  <2>1. /\ t \in Poppers /\ call' = [call EXCEPT ![t] = Idle]
        /\ b \notin allocated /\ allocated' = allocated \cup {b} /\ Measure
    BY <1>5 DEF Malloc, Poppers
  <2>2. a' = a + 1
    BY <2>1, <1>f, FS_AddElement DEF FiniteState
  <2>3. p' = p - 1
    BY <2>1, <1>leave
  <2>4. QED
    BY <2>1, <2>2, <2>3, <1>n, <1>inv, <1>peak
<1>6. ASSUME NEW t \in Threads, MallocFails(t) PROVE a' + p' <= peak'
  <2>1. /\ t \in Poppers /\ call' = [call EXCEPT ![t] = Idle]
        /\ allocated' = allocated /\ peak' = peak
    BY <1>6 DEF MallocFails, Poppers
  <2>2. a' = a /\ p' = p - 1
    BY <2>1, <1>leave
  <2>3. QED
    BY <2>1, <2>2, <1>n, <1>inv
<1>7. ASSUME NEW t \in Threads, NEW b \in Blocks, BeginPush(t, b) PROVE a' + p' <= peak'
  <2>1. Poppers' = Poppers
    BY <1>0, <1>1, <1>7 DEF BeginPush, CanCall, Poppers
  <2>2. QED
    BY <1>7, <2>1, <1>same, <1>inv DEF BeginPush
<1>8. ASSUME NEW t \in Threads, TryPush(t) PROVE a' + p' <= peak'
  <2>1. Poppers' = Poppers
    BY <1>0, <1>1, <1>8 DEF TryPush, Poppers
  <2>2. QED
    BY <1>8, <2>1, <1>same, <1>inv DEF TryPush
<1>9. ASSUME NEW t \in Threads, PushFull(t) PROVE a' + p' <= peak'
  <2>1. Poppers' = Poppers
    BY <1>1, <1>9 DEF PushFull, Poppers, CallState
  <2>2. QED
    BY <1>9, <2>1, <1>same, <1>inv DEF PushFull
<1>10. ASSUME NEW t \in Threads, Free(t) PROVE a' + p' <= peak'
  <2>1. Poppers' = Poppers
    BY <1>0, <1>1, <1>10 DEF Free, Poppers
  <2>2. a' <= a
    <3>1. allocated' \in SUBSET allocated
      BY <1>10 DEF Free
    <3>2. QED
      BY <3>1, <1>f, FS_Subset DEF FiniteState
  <2>3. QED
    BY <1>10, <2>1, <2>2, <1>same, <1>inv, <1>n DEF Free
<1>11. CASE Destroy
  <2>1. Poppers' = Poppers /\ allocated' = {} /\ peak' = peak
    BY <1>11 DEF Destroy, Poppers
  <2>2. a' = 0
    BY <2>1, FS_EmptySet
  <2>3. QED
    BY <2>1, <2>2, <1>same, <1>inv, <1>n
<1>12. CASE UNCHANGED vars
  BY <1>12, <1>inv DEF vars, Poppers
<1>13. QED
  BY <1>2, <1>3, <1>4, <1>5, <1>6, <1>7, <1>8, <1>9, <1>10, <1>11, <1>12
  DEF Next, Call, Finish, Push, Destroyed

\* The pool takes memory only when every block it has is in the hands of a
\* caller, so it never grows beyond the most buffers its callers held.
THEOREM PoolBoundedByDemand == Spec => []BoundedByDemand
<1>1. Init => BoundedByDemand
  <2> SUFFICES ASSUME Init PROVE BoundedByDemand
    OBVIOUS
  <2>1. Poppers = {} /\ allocated = {} /\ peak = 0
    BY DEF Init, Poppers, Idle
  <2>2. QED
    BY <2>1, FS_EmptySet DEF BoundedByDemand
<1>2. QED
  BY <1>1, BoundNext, TypeCorrect, OneOwnerOfABuffer, PTL DEF Spec

=============================================================================
