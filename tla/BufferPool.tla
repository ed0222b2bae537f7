------------------------------ MODULE BufferPool ------------------------------
(***************************************************************************)
(* The sender's pool of event buffers: e2sarwf/BufferPool.                 *)
(*                                                                         *)
(* pop() takes a recycled buffer from a lock-free queue of fixed size and  *)
(* falls back to the Boost pool; push() recycles a buffer, tries again     *)
(* while the queue is full, and gives the memory back after RETRY_ATTEMPTS *)
(* attempts.  m_pool is guarded by m_mutex.                                *)
(***************************************************************************)
EXTENDS Naturals, Sequences, SequencesExt, FiniteSets

CONSTANTS
  Threads,       \* the threads that call pop() and push()
  Blocks,        \* the memory m_pool can hand out
  NoBlock,       \* not a block
  QueueSize,     \* capacity of m_queue
  RetryAttempts  \* RETRY_ATTEMPTS

ASSUME PoolAssumption ==
  /\ IsFiniteSet(Threads) /\ IsFiniteSet(Blocks) /\ NoBlock \notin Blocks
  /\ QueueSize \in Nat /\ RetryAttempts \in Nat

VARIABLES
  queue,     \* m_queue: recycled buffers
  allocated, \* blocks m_pool has handed out and not got back
  inUse,     \* blocks returned by pop() and not yet given to push()
  call,      \* what each thread does in pop() or push()
  mutex,     \* the thread that holds m_mutex, if any
  open,      \* the pool exists
  peak       \* history: most buffers held by callers at one time

vars == <<queue, allocated, inUse, call, mutex, open, peak>>

Idle          == [op |-> "none", buffer |-> NoBlock, tries |-> 0]
InMalloc      == [op |-> "malloc", buffer |-> NoBlock, tries |-> 0]
Pushing(b, n) == [op |-> "push", buffer |-> b, tries |-> n]

Callers == {t \in Threads : call[t].op # "none"}
Pushers == {t \in Threads : call[t].op = "push"}
Poppers == {t \in Threads : call[t].op = "malloc"}

\* Buffers out of the queue: in the hands of a caller or about to be.
Demand  == Cardinality(inUse) + Cardinality(Callers)
Measure == peak' = IF Demand' > peak THEN Demand' ELSE peak

Init ==
  /\ queue = <<>>
  /\ allocated = {}
  /\ inUse = {}
  /\ call = [t \in Threads |-> Idle]
  /\ mutex = {}
  /\ open = TRUE
  /\ peak = 0

-----------------------------------------------------------------------------
(* pop()                                                                   *)

CanCall(t) == open /\ call[t].op = "none"

\* Mutant: the buffer is read at the front of the queue and stays there.
PopRecycledKeepsFront(t) ==
  /\ CanCall(t)
  /\ queue # <<>>
  /\ inUse' = inUse \cup {Head(queue)}
  /\ UNCHANGED <<queue, allocated, call, mutex, open>>
  /\ Measure

PopRecycled(t) ==
  /\ CanCall(t)
  /\ queue # <<>>
  /\ inUse' = inUse \cup {Head(queue)}
  /\ queue' = Tail(queue)
  /\ UNCHANGED <<allocated, call, mutex, open>>
  /\ Measure

\* Mutant: m_pool is asked although the queue is not empty.
PopMissAlways(t) ==
  /\ CanCall(t)
  /\ call' = [call EXCEPT ![t] = InMalloc]
  /\ UNCHANGED <<queue, allocated, inUse, mutex, open>>
  /\ Measure

PopMiss(t) ==
  /\ CanCall(t)
  /\ queue = <<>>
  /\ call' = [call EXCEPT ![t] = InMalloc]
  /\ UNCHANGED <<queue, allocated, inUse, mutex, open>>
  /\ Measure

\* std::lock_guard in pop() and in push().
WantsLock(t) ==
  \/ call[t].op = "malloc"
  \/ call[t].op = "push" /\ call[t].tries = RetryAttempts

Lock(t) ==
  /\ WantsLock(t)
  /\ mutex = {}
  /\ mutex' = {t}
  /\ UNCHANGED <<queue, allocated, inUse, call, open, peak>>

Malloc(t, b) ==
  /\ call[t].op = "malloc" /\ mutex = {t}
  /\ b \in Blocks \ allocated
  /\ allocated' = allocated \cup {b}
  /\ inUse' = inUse \cup {b}
  /\ mutex' = {}
  /\ call' = [call EXCEPT ![t] = Idle]
  /\ UNCHANGED <<queue, open>>
  /\ Measure

\* No memory left: pop() throws std::bad_alloc.
MallocFails(t) ==
  /\ call[t].op = "malloc" /\ mutex = {t}
  /\ Blocks \subseteq allocated
  /\ mutex' = {}
  /\ call' = [call EXCEPT ![t] = Idle]
  /\ UNCHANGED <<queue, allocated, inUse, open, peak>>

-----------------------------------------------------------------------------
(* push()                                                                  *)

BeginPush(t, b) ==
  /\ CanCall(t)
  /\ b \in inUse
  /\ inUse' = inUse \ {b}
  /\ call' = [call EXCEPT ![t] = Pushing(b, 0)]
  /\ UNCHANGED <<queue, allocated, mutex, open, peak>>

TryPush(t) ==
  /\ call[t].op = "push"
  /\ call[t].tries < RetryAttempts
  /\ Len(queue) < QueueSize
  /\ queue' = Append(queue, call[t].buffer)
  /\ call' = [call EXCEPT ![t] = Idle]
  /\ UNCHANGED <<allocated, inUse, mutex, open, peak>>

\* Mutant: a full queue is tried again for ever.
PushFullForever(t) ==
  /\ call[t].op = "push"
  /\ Len(queue) = QueueSize
  /\ UNCHANGED vars

\* Mutant: the attempt after a full queue is not limited.
PushFullUnlimited(t) ==
  /\ call[t].op = "push"
  /\ Len(queue) = QueueSize
  /\ call' = [call EXCEPT ![t].tries = @ + 1]
  /\ UNCHANGED <<queue, allocated, inUse, mutex, open, peak>>

PushFull(t) ==
  /\ call[t].op = "push"
  /\ call[t].tries < RetryAttempts
  /\ Len(queue) = QueueSize
  /\ call' = [call EXCEPT ![t].tries = @ + 1]
  /\ UNCHANGED <<queue, allocated, inUse, mutex, open, peak>>

\* Mutant: the buffer is freed after the last attempt although it was queued.
FreeAndQueue(t) ==
  /\ call[t].op = "push"
  /\ mutex = {t}
  /\ mutex' = {}
  /\ queue' = IF Len(queue) < QueueSize THEN Append(queue, call[t].buffer) ELSE queue
  /\ allocated' = allocated \ {call[t].buffer}
  /\ call' = [call EXCEPT ![t] = Idle]
  /\ UNCHANGED <<inUse, open, peak>>

Free(t) ==
  /\ call[t].op = "push"
  /\ mutex = {t}
  /\ mutex' = {}
  /\ allocated' = allocated \ {call[t].buffer}
  /\ call' = [call EXCEPT ![t] = Idle]
  /\ UNCHANGED <<queue, inUse, open, peak>>

-----------------------------------------------------------------------------
\* ~BufferPool(): purge_memory() takes the blocks still in use along.
Destroy ==
  /\ open
  /\ Callers = {}
  /\ open' = FALSE
  /\ queue' = <<>>
  /\ allocated' = {}
  /\ inUse' = {}
  /\ UNCHANGED <<call, mutex, peak>>

Push(t)   == (call[t].op = "push" /\ Lock(t)) \/ TryPush(t) \/ PushFull(t) \/ Free(t)
Finish(t) == Push(t) \/ Lock(t) \/ MallocFails(t) \/ \E b \in Blocks : Malloc(t, b)
Call(t)   == PopRecycled(t) \/ PopMiss(t) \/ \E b \in Blocks : BeginPush(t, b)

Destroyed == ~open /\ UNCHANGED vars

Next ==
  \/ \E t \in Threads : Call(t) \/ Finish(t)
  \/ Destroy
  \/ Destroyed

Spec == Init /\ [][Next]_vars

\* A thread inside pop() or push() is scheduled, and gets the mutex in the end.
FairSpec == Spec /\ \A t \in Threads : WF_vars(Finish(t)) /\ SF_vars(Lock(t))

-----------------------------------------------------------------------------
TypeOK ==
  /\ queue \in Seq(Blocks)
  /\ allocated \subseteq Blocks
  /\ inUse \subseteq Blocks
  /\ call \in [Threads -> [op : {"none", "malloc", "push"},
                           buffer : Blocks \cup {NoBlock},
                           tries : 0 .. RetryAttempts]]
  /\ \A t \in Threads : call[t].op = "push" => call[t].buffer \in Blocks
  /\ mutex \subseteq Threads
  /\ open \in BOOLEAN
  /\ peak \in Nat

\* A buffer has one owner: pop() never returns one that a caller, the queue or
\* a push() in progress still holds, and none is forgotten.
InQueue == {queue[i] : i \in 1 .. Len(queue)}
InPush  == {call[t].buffer : t \in Pushers}
OneOwner ==
  /\ \A i, j \in 1 .. Len(queue) : i # j => queue[i] # queue[j]
  /\ \A t, u \in Pushers : t # u => call[t].buffer # call[u].buffer
  /\ InQueue \cap inUse = {} /\ InQueue \cap InPush = {} /\ inUse \cap InPush = {}
  /\ allocated = InQueue \cup inUse \cup InPush

\* Buffers are recycled before new memory is taken: the pool never grows beyond
\* the most buffers its callers held at one time.
BoundedByDemand == Cardinality(allocated) + Cardinality(Poppers) <= peak

\* push() gives up on a full queue and returns.
PushReturns == \A t \in Threads : call[t].op = "push" ~> call[t].op = "none"
=============================================================================
