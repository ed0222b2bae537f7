----------------------------- MODULE SenderProofs -----------------------------
(***************************************************************************)
(* Theorems about Sender for every number of Segmenter threads, size of    *)
(* the buffers, of the pool and of the Segmenter's queue, and for every    *)
(* source.                                                                 *)
(***************************************************************************)
EXTENDS Sender, SequenceLemmas, FiniteSetTheorems

PoolTheorems == INSTANCE BufferPoolProofs WITH Threads <- SendThreads \cup {"loop"}

-----------------------------------------------------------------------------
(* Sums.                                                                   *)

\* Bytes() adds the sizes up from the left.
IsSum(f, items) ==
  f = [i \in 0 .. Len(items) |-> IF i = 0 THEN 0 ELSE f[i - 1] + items[i].kind.size]
Sum(items) == CHOOSE f : IsSum(f, items)

LEMMA BytesDef == ASSUME NEW items PROVE Bytes(items) = Sum(items)[Len(items)]
  BY Zenon DEF Bytes, Sum, IsSum

LEMMA SizeType == \A item \in Item : item.kind.size \in Nat \ {0} /\ item.kind.time \in Nat
  BY ItemAssumption DEF Item

LEMMA SumExists ==
  ASSUME NEW items \in Seq(Item)
  PROVE  \E f : IsSum(f, items)
<1> DEFINE Up(f, n) ==
      f = [i \in 0 .. n |-> IF i = 0 THEN 0 ELSE f[i - 1] + items[i].kind.size]
<1> DEFINE Bad == {n \in Nat : ~\E f : Up(f, n)}
<1>1. SUFFICES Bad = {}
  <2>1. Len(items) \in Nat
    OBVIOUS
  <2>2. QED
    BY <2>1 DEF IsSum
<1>2. SUFFICES ASSUME Bad # {} PROVE FALSE
  OBVIOUS
<1>3. Bad \subseteq Nat /\ \A m \in Nat : m \in Bad <=> ~\E f : Up(f, m)
  OBVIOUS
<1> HIDE DEF Up, Bad
<1>4. PICK n \in Bad : \A m \in Bad : n <= m
  BY <1>2, <1>3, Smallest
<1>5. n \in Nat /\ ~\E f : Up(f, n)
  BY <1>3, <1>4
<1>6. n # 0 => \E f : Up(f, n - 1)
  <2>1. n # 0 => n - 1 \in Nat /\ ~(n <= n - 1)
    BY <1>5
  <2>2. QED
    BY <1>3, <1>4, <2>1
<1> DEFINE g == CHOOSE f : Up(f, n - 1)
<1>7. n # 0 => Up(g, n - 1)
  BY <1>6, Zenon
<1> HIDE DEF g
<1> DEFINE f == [i \in 0 .. n |-> IF i < n THEN g[i]
                                   ELSE IF n = 0 THEN 0 ELSE g[n - 1] + items[n].kind.size]
<1>8. \A i \in 0 .. n - 1 : g[i] = IF i = 0 THEN 0 ELSE g[i - 1] + items[i].kind.size
  <2>1. CASE n # 0
    BY <1>7, <2>1 DEF Up
  <2>2. CASE n = 0
    BY <2>2
  <2>3. QED
    BY <2>1, <2>2
<1>9. ASSUME NEW i \in 0 .. n
      PROVE  f[i] = IF i = 0 THEN 0 ELSE f[i - 1] + items[i].kind.size
  <2>1. CASE i = n
    <3>1. i # 0 => f[i - 1] = g[i - 1]
      BY <1>5, <2>1
    <3>2. QED
      BY <1>5, <2>1, <3>1
  <2>2. CASE i # n
    <3>1. i \in 0 .. n - 1 /\ i < n
      BY <1>5, <2>2
    <3>2. i # 0 => i - 1 \in 0 .. n /\ i - 1 < n
      BY <1>5, <3>1
    <3>3. QED
      BY <1>8, <3>1, <3>2
  <2>3. QED
    BY <2>1, <2>2
<1>10. f = [i \in 0 .. n |-> f[i]]
  OBVIOUS
<1> HIDE DEF f
<1>11. Up(f, n)
  BY <1>9, <1>10 DEF Up
<1>12. QED
  BY <1>5, <1>11

LEMMA SumIs ==
  ASSUME NEW items \in Seq(Item)
  PROVE  /\ \A i \in 0 .. Len(items) :
              Sum(items)[i] = IF i = 0 THEN 0 ELSE Sum(items)[i - 1] + items[i].kind.size
         /\ \A i \in 0 .. Len(items) : Sum(items)[i] \in Nat
<1> DEFINE f == Sum(items)
<1>1. IsSum(f, items)
  BY SumExists, Zenon DEF Sum
<1> HIDE DEF f
<1>2. \A i \in 0 .. Len(items) :
        f[i] = IF i = 0 THEN 0 ELSE f[i - 1] + items[i].kind.size
  BY <1>1 DEF IsSum
<1> DEFINE Bad == {i \in 0 .. Len(items) : f[i] \notin Nat}
<1>3. Bad = {}
  <2>1. SUFFICES ASSUME Bad # {} PROVE FALSE
    OBVIOUS
  <2>2. Len(items) \in Nat /\ \A i \in 1 .. Len(items) : items[i].kind.size \in Nat
    BY ElementOfSeq, SizeType
  <2>3. Bad \subseteq Nat
    BY <2>2
  <2>4. PICK n \in Bad : \A m \in Bad : n <= m
    BY <2>1, <2>3, Smallest
  <2>5. n \in 0 .. Len(items) /\ f[n] \notin Nat
    BY <2>4
  <2>6. n # 0
    BY <1>2, <2>2, <2>5
  <2>7. n - 1 \in 0 .. Len(items) /\ ~(n <= n - 1)
    BY <2>2, <2>5, <2>6
  <2>8. f[n - 1] \in Nat /\ items[n].kind.size \in Nat
    BY <2>2, <2>4, <2>5, <2>6, <2>7
  <2>9. f[n] = f[n - 1] + items[n].kind.size
    BY <1>2, <2>5, <2>6
  <2>10. QED
    BY <2>5, <2>8, <2>9
<1>4. QED
  BY <1>2, <1>3 DEF f

LEMMA BytesEmpty == Bytes(<<>>) = 0
<1> DEFINE e == <<>>
<1>1. e \in Seq(Item) /\ Len(e) = 0
  BY EmptySeq
<1> HIDE DEF e
<1>2. Bytes(e) = Sum(e)[Len(e)] /\ 0 \in 0 .. Len(e)
  BY <1>1, BytesDef
<1>3. QED
  BY <1>1, <1>2, SumIs DEF e

LEMMA BytesAppend ==
  ASSUME NEW items \in Seq(Item), NEW item \in Item
  PROVE  Bytes(Append(items, item)) = Bytes(items) + item.kind.size
<1> DEFINE more == Append(items, item)
           n == Len(items)
           f == Sum(items)
           g == Sum(more)
<1>1. /\ more \in Seq(Item) /\ Len(more) = n + 1 /\ n \in Nat
      /\ more[n + 1] = item /\ \A i \in 1 .. n : more[i] = items[i]
  BY AppendProperties
<1>2. \A i \in 0 .. n : f[i] = IF i = 0 THEN 0 ELSE f[i - 1] + items[i].kind.size
  BY SumIs
<1>3. \A i \in 0 .. n + 1 : g[i] = IF i = 0 THEN 0 ELSE g[i - 1] + more[i].kind.size
  BY <1>1, SumIs
<1>4. Bytes(more) = g[Len(more)] /\ Bytes(items) = f[n]
  BY BytesDef, Zenon
<1> HIDE DEF more, f, g, n
<1>5. \A i \in 0 .. n : g[i] = f[i]
  <2> DEFINE Bad == {i \in 0 .. n : g[i] # f[i]}
  <2>1. SUFFICES ASSUME Bad # {} PROVE FALSE
    OBVIOUS
  <2>2. Bad \subseteq Nat
    BY <1>1
  <2>3. PICK i \in Bad : \A j \in Bad : i <= j
    BY <2>1, <2>2, Smallest
  <2>4. i \in 0 .. n /\ g[i] # f[i]
    BY <2>3
  <2>5. ASSUME i # 0 PROVE i - 1 \in 0 .. n /\ ~(i <= i - 1) /\ i \in 1 .. n
    BY <1>1, <2>4, <2>5
  <2>6. i # 0 => g[i - 1] = f[i - 1]
    BY <2>3, <2>5
  <2>7. i \in 0 .. n + 1 /\ (i # 0 => more[i] = items[i])
    BY <1>1, <2>4, <2>5
  <2>8. QED
    BY <1>2, <1>3, <2>4, <2>6, <2>7
<1>6. PICK m \in 0 .. n + 1 : m = n + 1
  BY <1>1
<1>7. m # 0 /\ m - 1 = n /\ n \in 0 .. n
  BY <1>1, <1>6
<1>8. g[m] = g[m - 1] + more[m].kind.size
  BY <1>3, <1>7
<1>9. QED
  BY <1>1, <1>4, <1>5, <1>6, <1>7, <1>8 DEF more

\* The event number is the time of an item of the buffer, or zero.
LEMMA FirstTimestampType ==
  ASSUME NEW items \in Seq(Item) PROVE FirstTimestamp(items) \in Nat
<1> DEFINE physics == {i \in 1 .. Len(items) : items[i].kind.physics}
<1>1. CASE physics = {}
  BY <1>1 DEF FirstTimestamp
<1>2. CASE physics # {}
  <2>1. physics \subseteq Nat
    OBVIOUS
  <2>2. \E m \in physics : \A n \in physics : m <= n
    BY <1>2, <2>1, Smallest
  <2>3. Min(physics) \in physics
    BY <2>2, Zenon DEF Min
  <2>4. FirstTimestamp(items) = items[Min(physics)].kind.time
    BY <1>2 DEF FirstTimestamp
  <2> DEFINE n == Min(physics)
  <2>5. n \in 1 .. Len(items)
    BY <2>3
  <2> HIDE DEF n
  <2>6. items[n] \in Item
    BY <2>5, ElementOfSeq
  <2>7. items[n].kind.time \in Nat
    BY <2>6, SizeType
  <2>8. FirstTimestamp(items) = items[n].kind.time
    BY <2>4 DEF n
  <2>9. QED
    BY <2>5, <2>7, <2>8
<1>3. QED
  BY <1>1, <1>2

-----------------------------------------------------------------------------
(* The loop and the Segmenter's threads are callers of the pool.           *)

LEMMA PoolInit == Init => Pool!Init
  BY DEF Init

LEMMA PoolNext == Pool!TypeOK /\ [Next]_vars => [Pool!Next]_Pool!vars
<1> SUFFICES ASSUME Pool!TypeOK, [Next]_vars PROVE Pool!Next \/ UNCHANGED Pool!vars
  OBVIOUS
<1> USE DEF pool
<1> DEFINE Threads == SendThreads \cup {"loop"}
<1>1. CASE Main
  BY <1>1 DEF Main, Parse, MapVersion, MakeDataSource, GetFlags, GetUri, MakeSegmenter,
     Construct, AddSenders, Pool!vars
<1>2. CASE Loop
  <2>1. "loop" \in Threads
    OBVIOUS
  <2>2. CASE PopRecycled \/ PopMiss
    BY <2>1, <2>2 DEF PopRecycled, PopMiss, Pool!Next, Pool!Call
  <2>3. CASE LockPool \/ Malloc \/ BadAlloc
    BY <2>1, <2>3 DEF LockPool, Malloc, BadAlloc, Pool!Next, Pool!Finish
  <2>4. CASE DestroyPool
    BY <2>4 DEF DestroyPool, Pool!Next
  <2>5. CASE \/ OpenAndStart \/ PackPending \/ PackNext \/ NoItem \/ BufferFull
             \/ SendNothing \/ SendBuffer \/ SendRefused \/ CheckLimit \/ Shutdown
    BY <2>5 DEF OpenAndStart, PackPending, PackNext, NoItem, BufferFull, SendNothing,
       SendBuffer, SendRefused, CheckLimit, Shutdown, Pool!vars
  <2>6. QED
    BY <1>2, <2>2, <2>3, <2>4, <2>5 DEF Loop
<1>3. CASE Interrupt \/ Handler
  BY <1>3 DEF Interrupt, Handler, StopThreads, NothingToStop, Exit, Pool!vars
<1>4. ASSUME NEW t \in SendThreads, Send(t) PROVE Pool!Next \/ UNCHANGED Pool!vars
  <2>1. t \in Threads
    OBVIOUS
  <2>2. CASE Dequeue(t)
    BY <2>2 DEF Dequeue, Pool!vars
  <2>3. CASE Transmit(t)
    <3>1. Pool!BeginPush(t, sending[t][1].block) /\ sending[t][1].block \in Blocks
      BY <2>3 DEF Transmit, Pool!BeginPush, Pool!TypeOK
    <3>2. QED
      BY <2>1, <3>1 DEF Pool!Next, Pool!Call
  <2>4. CASE Callback(t)
    BY <2>1, <2>4 DEF Callback, Pool!Next, Pool!Finish
  <2>5. QED
    BY <1>4, <2>2, <2>3, <2>4 DEF Send
<1>5. CASE UNCHANGED vars
  BY <1>5 DEF vars, Pool!vars
<1>6. QED
  BY <1>1, <1>2, <1>3, <1>4, <1>5 DEF Next, Terminated

\* What BufferPoolProofs proves about any callers is so for these.
LEMMA PoolConstants ==
  /\ IsFiniteSet(SendThreads \cup {"loop"}) /\ IsFiniteSet(Blocks) /\ NoBlock \notin Blocks
  /\ QueueSize \in Nat /\ RetryAttempts \in Nat
  BY ThreadAssumption, PoolAssumption, FS_AddElement

LEMMA SamePool ==
  /\ Pool!Init <=> PoolTheorems!Init
  /\ Pool!Next <=> PoolTheorems!Next
  /\ [Pool!Next]_Pool!vars <=> [PoolTheorems!Next]_PoolTheorems!vars
  /\ Pool!TypeOK <=> PoolTheorems!TypeOK
  /\ Pool!OneOwner <=> PoolTheorems!OneOwner
  /\ Pool!BoundedByDemand <=> PoolTheorems!BoundedByDemand
<1> USE DEF Pool!Idle, PoolTheorems!Idle
<1>1. Pool!Init <=> PoolTheorems!Init
  BY DEF Pool!Init, PoolTheorems!Init
<1>2. UNCHANGED Pool!vars <=> UNCHANGED PoolTheorems!vars
  BY DEF Pool!vars, PoolTheorems!vars
<1>3. Pool!TypeOK <=> PoolTheorems!TypeOK
  BY DEF Pool!TypeOK, PoolTheorems!TypeOK
<1>4. Pool!OneOwner <=> PoolTheorems!OneOwner
  BY DEF Pool!OneOwner, PoolTheorems!OneOwner, Pool!InQueue, PoolTheorems!InQueue,
     Pool!InPush, PoolTheorems!InPush, Pool!Pushers, PoolTheorems!Pushers
<1>5. Pool!BoundedByDemand <=> PoolTheorems!BoundedByDemand
  BY DEF Pool!BoundedByDemand, PoolTheorems!BoundedByDemand, Pool!Poppers,
     PoolTheorems!Poppers, Pool!Cardinality, PoolTheorems!Cardinality, Cardinality
<1>6. Pool!Next <=> PoolTheorems!Next
  BY DEF Pool!Next, PoolTheorems!Next, Pool!Call, PoolTheorems!Call, Cardinality,
     Pool!PopRecycled, PoolTheorems!PopRecycled,
     Pool!PopMiss, PoolTheorems!PopMiss, Pool!CanCall, PoolTheorems!CanCall,
     Pool!Measure, PoolTheorems!Measure, Pool!Demand, PoolTheorems!Demand,
     Pool!Callers, PoolTheorems!Callers, Pool!InMalloc, PoolTheorems!InMalloc,
     Pool!BeginPush, PoolTheorems!BeginPush, Pool!Pushing, PoolTheorems!Pushing,
     Pool!Push, PoolTheorems!Push, Pool!Lock, PoolTheorems!Lock,
     Pool!WantsLock, PoolTheorems!WantsLock, Pool!TryPush, PoolTheorems!TryPush,
     Pool!PushFull, PoolTheorems!PushFull, Pool!Free, PoolTheorems!Free,
     Pool!MallocFails, PoolTheorems!MallocFails,
     Pool!Malloc, PoolTheorems!Malloc, Pool!Finish, PoolTheorems!Finish,
     Pool!Destroy, PoolTheorems!Destroy, Pool!Destroyed, PoolTheorems!Destroyed,
     Pool!vars, PoolTheorems!vars, Pool!Cardinality, PoolTheorems!Cardinality
<1>7. QED
  BY <1>1, <1>2, <1>3, <1>4, <1>5, <1>6

LEMMA PoolTyped == Spec => []Pool!TypeOK
<1>1. Init => Pool!TypeOK
  <2>1. PoolTheorems!Init => PoolTheorems!TypeOK
    BY PoolConstants DEF PoolTheorems!Init, PoolTheorems!TypeOK, PoolTheorems!Idle
  <2>2. QED
    BY <2>1, PoolInit, SamePool
<1>2. Pool!TypeOK /\ [Next]_vars => Pool!TypeOK'
  <2>1. PoolTheorems!TypeOK /\ [PoolTheorems!Next]_PoolTheorems!vars => PoolTheorems!TypeOK'
    BY PoolConstants, PoolTheorems!TypeNext DEF PoolTheorems!IsFiniteSet, IsFiniteSet
  <2>2. Pool!TypeOK' <=> PoolTheorems!TypeOK'
    BY SamePool, PTL
  <2>3. QED
    BY <2>1, <2>2, PoolNext, SamePool
<1>3. QED
  BY <1>1, <1>2, PTL DEF Spec

\* The sending program uses the pool as BufferPool allows: the loop and the
\* Segmenter's threads call pop() and push() in turn, each push() returns what
\* a pop() gave, and ~Sender() destroys the pool when nobody is in it.
THEOREM SenderUsesPool == Spec => Pool!Spec
  BY PoolInit, PoolNext, PoolTyped, PTL DEF Spec, Pool!Spec

\* So what BufferPoolProofs proves of the pool is true in the sending program.
THEOREM PoolSafe == Spec => [](Pool!TypeOK /\ Pool!OneOwner /\ Pool!BoundedByDemand)
<1>1. Pool!Spec => PoolTheorems!Spec
  BY SamePool, PTL DEF Pool!Spec, PoolTheorems!Spec
<1>2. PoolTheorems!Spec => []PoolTheorems!OneOwner
  BY PoolConstants, PoolTheorems!OneOwnerOfABuffer, PTL
  DEF PoolTheorems!IsFiniteSet, IsFiniteSet
<1>3. PoolTheorems!Spec => []PoolTheorems!BoundedByDemand
  BY PoolConstants, PoolTheorems!PoolBoundedByDemand, PTL
  DEF PoolTheorems!IsFiniteSet, IsFiniteSet
<1>4. QED
  BY <1>1, <1>2, <1>3, SamePool, PoolTyped, SenderUsesPool, PTL
-----------------------------------------------------------------------------
(* The inductive invariant.                                                *)

\* The loop holds a buffer exactly when it packs or sends.
HoldsBuffer ==
  /\ buffer = NoBlock <=> pc \notin {"pack", "send"}
  /\ buffer = NoBlock => currentBytes = 0
  /\ buffer # NoBlock => buffer \in inUse

\* The pool is gone only when all is over, and nothing was left to be sent.
PoolOutlives == ~open => pc = "end" /\ stopping /\ Active = {}

\* The places where the program may be listed at the load balancer.
Listed ==
  /\ senders = "added" => pc \in {"segmenter", "failed"} \cup (Sending \ {"join"})
  /\ handler = "join" => pc \in Sending /\ senders # "added"
  /\ handler = "exited" => senders # "added" \/ pc = "segmenter"

\* The limit has been reached only where the loop is about to see it or has
\* ended; done is only set where nothing is pending.
Exhausted == pendingItem = <<>> /\ (config.ring \/ Len(read) = length)
Ends ==
  /\ config.nEvents # 0 => sendCount <= config.nEvents
  /\ AtLimit => pc \in {"limit", "return", "join", "end"}
  /\ done => pc \in {"send", "limit", "return", "join", "end"}
  /\ done => Exhausted \/ (AtLimit /\ pc \in {"return", "join", "end"})

\* An event is numbered once, for the buffer that it was made of.
Numbered ==
  /\ sendCount = Len(accepted)
  /\ \A i \in 1 .. Len(accepted) :
       /\ accepted[i].packed \in 1 .. Len(packed)
       /\ accepted[i].number =
            IF config.useCt THEN i - 1 ELSE FirstTimestamp(packed[accepted[i].packed])
       /\ \A j \in 1 .. i - 1 : accepted[j].packed < accepted[i].packed

\* An event is in the queue, with a thread or on the wire, and until it is on
\* the wire its block holds what was packed.
Carries(event, items, numbers, buffers) ==
  event \in 1 .. Len(numbers) /\ items = buffers[numbers[event].packed]
Waiting == {sendQueue[i].event : i \in 1 .. Len(sendQueue)}
Leaving == {sending[t][1].event : t \in Active}
Sent    == {wire[i].event : i \in 1 .. Len(wire)}
OnePlace ==
  /\ \A i \in 1 .. Len(sendQueue) :
       Carries(sendQueue[i].event, memory[sendQueue[i].block], accepted, packed)
  /\ \A t \in Active :
       Carries(sending[t][1].event, memory[sending[t][1].block], accepted, packed)
  /\ \A i \in 1 .. Len(wire) : Carries(wire[i].event, wire[i].items, accepted, packed)
  /\ Waiting \cap Leaving = {} /\ Waiting \cap Sent = {} /\ Leaving \cap Sent = {}
  /\ \A i, j \in 1 .. Len(sendQueue) : i # j => sendQueue[i].event # sendQueue[j].event
  /\ \A t, u \in Active : t # u => sending[t][1].event # sending[u][1].event
  /\ \A i, j \in 1 .. Len(wire) : i # j => wire[i].event # wire[j].event
PoolInv == Pool!TypeOK /\ Pool!OneOwner

-----------------------------------------------------------------------------
(* The steps: those that touch items, buffers or events, and the rest.     *)

ControlStep ==
  \/ Main \/ OpenAndStart \/ PopMiss \/ LockPool \/ BadAlloc \/ NoItem \/ BufferFull
  \/ CheckLimit \/ Shutdown \/ DestroyPool \/ Interrupt \/ Handler
  \/ \E t \in SendThreads : Callback(t)
  \/ UNCHANGED vars

LEMMA Steps ==
  ASSUME [Next]_vars
  PROVE  \/ ControlStep \/ PopRecycled \/ Malloc \/ PackPending \/ PackNext
         \/ SendNothing \/ SendBuffer \/ SendRefused
         \/ \E t \in SendThreads : Dequeue(t) \/ Transmit(t)
  BY DEF Next, Loop, Send, Terminated, ControlStep

LEMMA DataKept ==
  ASSUME ControlStep
  PROVE  /\ UNCHANGED <<config, length, read, pendingItem, buffer, memory, currentBytes>>
         /\ UNCHANGED <<totalBytes, sendCount, sendQueue, sending, packed, accepted, wire>>
<1> USE DEF source, packing, counts, segmenter, history
<1>1. CASE Main
  BY <1>1 DEF Main, Parse, MapVersion, MakeDataSource, GetFlags, GetUri, MakeSegmenter,
     Construct, AddSenders
<1>2. CASE OpenAndStart \/ PopMiss \/ LockPool \/ BadAlloc \/ NoItem \/ BufferFull
  BY <1>2 DEF OpenAndStart, PopMiss, LockPool, BadAlloc, NoItem, BufferFull
<1>3. CASE CheckLimit \/ Shutdown \/ DestroyPool \/ Interrupt \/ Handler
  BY <1>3 DEF CheckLimit, Shutdown, DestroyPool, Interrupt, Handler, StopThreads,
     NothingToStop, Exit
<1>4. CASE \/ \E t \in SendThreads : Callback(t)
           \/ UNCHANGED vars
  BY <1>4 DEF Callback, vars
<1>5. QED
  BY <1>1, <1>2, <1>3, <1>4 DEF ControlStep

\* What the other steps leave of the pool.
LEMMA PoolKept ==
  ASSUME ControlStep, ~DestroyPool
  PROVE  UNCHANGED <<inUse, open>>
<1> USE DEF pool
<1>1. CASE Main
  BY <1>1 DEF Main, Parse, MapVersion, MakeDataSource, GetFlags, GetUri, MakeSegmenter,
     Construct, AddSenders
<1>2. CASE OpenAndStart \/ PopMiss \/ LockPool \/ BadAlloc \/ NoItem \/ BufferFull
  BY <1>2 DEF OpenAndStart, PopMiss, LockPool, BadAlloc, NoItem, BufferFull,
     Pool!PopMiss, Pool!Lock, Pool!MallocFails
<1>3. CASE CheckLimit \/ Shutdown \/ Interrupt \/ Handler
  BY <1>3 DEF CheckLimit, Shutdown, Interrupt, Handler, StopThreads, NothingToStop, Exit
<1>4. CASE \/ \E t \in SendThreads : Callback(t)
           \/ UNCHANGED vars
  BY <1>4 DEF Callback, vars, Pool!Push, Pool!Lock, Pool!TryPush, Pool!PushFull, Pool!Free
<1>5. QED
  BY <1>1, <1>2, <1>3, <1>4 DEF ControlStep

\* pop() returns a block that nobody has.
LEMMA BufferTaken ==
  ASSUME PopRecycled \/ Malloc, PoolInv
  PROVE  \E b \in Blocks :
           /\ b \notin inUse /\ inUse' = inUse \cup {b}
           /\ buffer' = b /\ currentBytes' = 0
           /\ pc \in {"top", "malloc"} /\ pc' = "pack" /\ handler = "none"
           /\ UNCHANGED <<open, given, config, length, read, pendingItem, memory>>
           /\ UNCHANGED <<totalBytes, sendCount, done, sendQueue, sending, stopping>>
           /\ UNCHANGED <<senders, handler, packed, accepted, wire>>
<1> USE DEF source, counts, segmenter, history, UseBuffer, At
<1>1. CASE PopRecycled
  <2>1. queue # <<>> /\ queue \in Seq(Blocks)
    BY <1>1 DEF PopRecycled, Pool!PopRecycled, PoolInv, Pool!TypeOK
  <2>2. Len(queue) \in Nat \ {0} /\ Head(queue) = queue[1]
    BY <2>1, HeadTailProperties
  <2>3. queue[1] \in Blocks /\ 1 \in 1 .. Len(queue)
    BY <2>1, <2>2, ElementOfSeq
  <2>4. queue[1] \notin inUse
    BY <2>3 DEF PoolInv, Pool!OneOwner, Pool!InQueue
  <2>5. QED
    BY <1>1, <2>2, <2>3, <2>4 DEF PopRecycled, Pool!PopRecycled
<1>2. CASE Malloc
  <2>1. PICK b \in Blocks : Pool!Malloc("loop", b) /\ UseBuffer(b)
    BY <1>2 DEF Malloc
  <2>2. b \notin inUse
    BY <2>1 DEF Pool!Malloc, PoolInv, Pool!OneOwner
  <2>3. QED
    BY <1>2, <2>1, <2>2 DEF Malloc, Pool!Malloc
<1>3. QED
  BY <1>1, <1>2

\* The item that is placed is the pending one or the next of the source.
LEMMA ItemPlaced ==
  ASSUME PackPending \/ PackNext, TypeOK
  PROVE  \E item \in Item :
           /\ Place(item)
           /\ pc = "pack" /\ handler = "none" /\ currentBytes < BufSize
           /\ \/ pendingItem = <<item>> /\ read' = read
              \/ /\ pendingItem = <<>> /\ Len(read) < length
                 /\ item.id = Len(read) + 1 /\ read' = Append(read, item)
           /\ UNCHANGED <<inUse, open, given, config, length, buffer, totalBytes, sendCount>>
           /\ UNCHANGED <<done, sendQueue, sending, stopping, senders, handler>>
           /\ UNCHANGED <<packed, accepted, wire>>
<1> USE DEF pool, source, counts, segmenter, history, Packing, At
<1>1. CASE PackPending
  <2>1. pendingItem # <<>> /\ pendingItem \in Seq(Item) /\ Len(pendingItem) <= 1
    BY <1>1 DEF PackPending, TypeOK
  <2>2. Len(pendingItem) = 1 /\ pendingItem[1] \in Item
    <3>1. Len(pendingItem) \in Nat /\ Len(pendingItem) # 0
      BY <2>1, EmptySeq
    <3> DEFINE n == Len(pendingItem)
    <3> HIDE DEF n
    <3>2. n \in Nat /\ n # 0 /\ n <= 1
      BY <2>1, <3>1 DEF n
    <3>3. n = 1
      BY <3>2
    <3>4. Len(pendingItem) = 1
      BY <3>3 DEF n
    <3>5. QED
      BY <2>1, <3>4, ElementOfSeq
  <2>3. pendingItem = <<pendingItem[1]>>
    BY <2>1, <2>2
  <2>4. QED
    BY <1>1, <2>2, <2>3 DEF PackPending
<1>2. CASE PackNext
  <2>1. PICK item \in [id : {Len(read) + 1}, kind : ItemKinds] :
          read' = Append(read, item) /\ Place(item)
    BY <1>2 DEF PackNext
  <2>2. Len(read) \in Nat
    BY DEF TypeOK
  <2>3. item \in Item /\ item.id = Len(read) + 1
    BY <2>1, <2>2 DEF Item
  <2>4. QED
    BY <1>2, <2>1, <2>3 DEF PackNext
<1>3. QED
  BY <1>1, <1>2

LEMMA ContentsType ==
  ASSUME TypeOK, HoldsBuffer
  PROVE  /\ Contents \in Seq(Item)
         /\ pc \in {"pack", "send"} => buffer \in Blocks
         /\ pc \notin {"pack", "send"} => Contents = <<>>
<1>1. buffer \in Blocks \/ buffer = NoBlock
  BY DEF TypeOK
<1>2. CASE currentBytes = 0
  BY <1>1, <1>2, EmptySeq DEF Contents, HoldsBuffer
<1>3. CASE currentBytes # 0
  BY <1>1, <1>3 DEF Contents, HoldsBuffer, TypeOK
<1>4. QED
  BY <1>2, <1>3

-----------------------------------------------------------------------------
(* Types.                                                                  *)

Entry == [block : Blocks, event : Nat \ {0}]

LEMMA ControlTypes ==
  ASSUME ControlStep, TypeOK
  PROVE  TypeOK'
<1> USE DEF source, counts, segmenter, At
<1>1. given' \in CommandLines \cup {{}} /\ pc' \in Places
  <2> USE DEF Places, Constructing, Sending
  <2>1. CASE Main
    BY <2>1 DEF TypeOK, Main, Parse, Program, MapVersion, MakeDataSource, GetFlags, GetUri,
       MakeSegmenter, Construct, AddSenders
  <2>2. CASE OpenAndStart \/ PopMiss \/ LockPool \/ BadAlloc \/ NoItem \/ BufferFull
    BY <2>2 DEF TypeOK, OpenAndStart, PopMiss, LockPool, BadAlloc, NoItem, BufferFull
  <2>3. CASE CheckLimit \/ Shutdown \/ DestroyPool \/ Interrupt \/ Handler
    BY <2>3 DEF TypeOK, CheckLimit, Shutdown, DestroyPool, Interrupt, Handler,
       StopThreads, NothingToStop, Exit
  <2>4. CASE \/ \E t \in SendThreads : Callback(t)
             \/ UNCHANGED vars
    BY <2>4 DEF TypeOK, Callback, vars
  <2>5. QED
    BY <2>1, <2>2, <2>3, <2>4 DEF ControlStep
<1>2. /\ senders' \in {"none", "added", "removed", "kept"}
      /\ handler' \in {"none", "shutdown", "join", "exited"}
      /\ done' \in BOOLEAN /\ stopping' \in BOOLEAN
  <2>1. CASE Main
    BY <2>1 DEF TypeOK, Main, Parse, Program, MapVersion, MakeDataSource, GetFlags, GetUri,
       MakeSegmenter, Construct, AddSenders
  <2>2. CASE OpenAndStart \/ PopMiss \/ LockPool \/ BadAlloc \/ NoItem \/ BufferFull
    BY <2>2 DEF TypeOK, OpenAndStart, PopMiss, LockPool, BadAlloc, NoItem, BufferFull
  <2>3. CASE CheckLimit \/ Shutdown \/ DestroyPool \/ Interrupt \/ Handler
    BY <2>3 DEF TypeOK, CheckLimit, Shutdown, DestroyPool, Interrupt, Handler,
       StopThreads, NothingToStop, Exit, RemoveSenders, AtLimit
  <2>4. CASE \/ \E t \in SendThreads : Callback(t)
             \/ UNCHANGED vars
    BY <2>4 DEF TypeOK, Callback, vars
  <2>5. QED
    BY <2>1, <2>2, <2>3, <2>4 DEF ControlStep
<1>3. QED
  BY <1>1, <1>2, DataKept DEF TypeOK

LEMMA EventNumberType == ASSUME TypeOK, HoldsBuffer PROVE EventNumber \in Nat
<1>1. FirstTimestamp(Contents) \in Nat
  BY ContentsType, FirstTimestampType
<1>2. QED
  BY <1>1 DEF EventNumber, TypeOK

\* A thread of the Segmenter sends nothing or one entry.
LEMMA EntryTypes ==
  ASSUME TypeOK
  PROVE  /\ sendQueue \in Seq(Entry) /\ sending \in [SendThreads -> Seq(Entry)]
         /\ Active \subseteq SendThreads
         /\ \A i \in 1 .. Len(sendQueue) : sendQueue[i] \in Entry
         /\ \A t \in Active : sending[t][1] \in Entry /\ sending[t] = <<sending[t][1]>>
<1>1. sendQueue \in Seq(Entry) /\ sending \in [SendThreads -> Seq(Entry)]
  BY DEF TypeOK, Entry
<1>2. ASSUME NEW t \in Active
      PROVE  sending[t][1] \in Entry /\ sending[t] = <<sending[t][1]>>
  <2>1. t \in SendThreads /\ sending[t] # <<>>
    BY DEF Active
  <2>2. sending[t] \in Seq(Entry) /\ Len(sending[t]) <= 1
    BY <1>1, <2>1 DEF TypeOK
  <2> DEFINE n == Len(sending[t])
  <2>3. n \in Nat /\ n # 0 /\ n <= 1
    BY <2>1, <2>2, EmptySeq
  <2> HIDE DEF n
  <2>4. n = 1
    BY <2>3
  <2>5. Len(sending[t]) = 1
    BY <2>4 DEF n
  <2>6. QED
    BY <2>2, <2>5, ElementOfSeq
<1>3. QED
  BY <1>1, <1>2, ElementOfSeq DEF Active

LEMMA Dequeued ==
  ASSUME NEW t \in SendThreads, Dequeue(t), TypeOK
  PROVE  \E e \in Entry :
           /\ Len(sendQueue) \in Nat \ {0} /\ e = sendQueue[1]
           /\ sendQueue' \in Seq(Entry) /\ Len(sendQueue') = Len(sendQueue) - 1
           /\ \A i \in 1 .. Len(sendQueue') : sendQueue'[i] = sendQueue[i + 1]
           /\ t \notin Active /\ Active' = Active \cup {t}
           /\ sending' = [sending EXCEPT ![t] = <<e>>] /\ sending'[t] = <<e>>
           /\ ~stopping
           /\ UNCHANGED <<inUse, open, given, config, length, read, pendingItem, buffer>>
           /\ UNCHANGED <<memory, currentBytes, totalBytes, sendCount, done, pc>>
           /\ UNCHANGED <<stopping, senders, handler, packed, accepted, wire>>
<1>1. sendQueue \in Seq(Entry) /\ sendQueue # <<>> /\ sending \in [SendThreads -> Seq(Entry)]
  BY EntryTypes DEF Dequeue
<1>2. /\ Head(sendQueue) \in Entry /\ sendQueue' \in Seq(Entry)
      /\ Len(sendQueue') = Len(sendQueue) - 1
      /\ \A i \in 1 .. Len(sendQueue') : sendQueue'[i] = sendQueue[i + 1]
  BY <1>1, HeadTailProperties DEF Dequeue
<1>3. Head(sendQueue) = sendQueue[1] /\ Len(sendQueue) \in Nat \ {0}
  BY <1>1, EmptySeq
<1> DEFINE e == Head(sendQueue)
<1>4. sending' = [sending EXCEPT ![t] = <<e>>] /\ sending[t] = <<>>
  BY DEF Dequeue
<1> HIDE DEF e
<1>5. sending'[t] = <<e>> /\ \A u \in SendThreads \ {t} : sending'[u] = sending[u]
  BY <1>1, <1>4
<1>6. t \notin Active /\ Active' = Active \cup {t}
  BY <1>4, <1>5 DEF Active
<1>7. e \in Entry /\ e = sendQueue[1]
  BY <1>2, <1>3 DEF e
<1>8. QED
  BY <1>2, <1>3, <1>4, <1>5, <1>6, <1>7 DEF Dequeue, pool, source, packing, counts, history

LEMMA Transmitted ==
  ASSUME NEW t \in SendThreads, Transmit(t), TypeOK
  PROVE  \E e \in Entry :
           /\ t \in Active /\ e = sending[t][1] /\ Active' = Active \ {t}
           /\ sending' = [sending EXCEPT ![t] = <<>>]
           /\ wire' = Append(wire, [event |-> e.event, items |-> memory[e.block]])
           /\ open /\ e.block \in inUse /\ inUse' = inUse \ {e.block}
           /\ UNCHANGED <<open, given, config, length, read, pendingItem, buffer>>
           /\ UNCHANGED <<memory, currentBytes, totalBytes, sendCount, done, pc>>
           /\ UNCHANGED <<sendQueue, stopping, senders, handler, packed, accepted>>
<1>1. t \in Active /\ sending \in [SendThreads -> Seq(Entry)]
  BY EntryTypes DEF Transmit, Active
<1> DEFINE e == sending[t][1]
<1>2. e \in Entry
  BY <1>1, EntryTypes
<1>3. /\ sending' = [sending EXCEPT ![t] = <<>>]
      /\ wire' = Append(wire, [event |-> e.event, items |-> memory[e.block]])
      /\ open /\ e.block \in inUse /\ inUse' = inUse \ {e.block}
      /\ UNCHANGED open
  BY DEF Transmit, Pool!BeginPush, Pool!CanCall
<1>4. sending'[t] = <<>> /\ \A u \in SendThreads \ {t} : sending'[u] = sending[u]
  BY <1>1, <1>3
<1>5. Active' = Active \ {t}
  BY <1>4 DEF Active
<1>6. QED
  BY <1>1, <1>2, <1>3, <1>5 DEF Transmit, source, packing, counts

LEMMA DataTypes ==
  ASSUME TypeOK, HoldsBuffer, PoolInv, [Next]_vars, ~ControlStep
  PROVE  TypeOK'
<1> USE DEF pool, source, packing, counts, segmenter, history, At
<1>1. CASE PopRecycled \/ Malloc
  <2>1. PICK b \in Blocks :
          /\ buffer' = b /\ currentBytes' = 0 /\ pc' = "pack"
          /\ UNCHANGED <<given, config, length, read, pendingItem, memory>>
          /\ UNCHANGED <<totalBytes, sendCount, done, sendQueue, sending, stopping>>
          /\ UNCHANGED <<senders, handler, packed, accepted, wire>>
    BY <1>1, BufferTaken
  <2>2. currentBytes' \in 0 .. BufSize /\ pc' \in Places
    BY <2>1, SizeAssumption DEF Places, Sending
  <2>3. QED
    BY <2>1, <2>2 DEF TypeOK
<1>2. CASE PackPending \/ PackNext
  <2>1. PICK item \in Item :
          /\ Place(item) /\ pc = "pack"
          /\ \/ read' = read
             \/ read' = Append(read, item)
          /\ UNCHANGED <<given, config, length, buffer, totalBytes, sendCount>>
          /\ UNCHANGED <<done, sendQueue, sending, stopping, senders, handler>>
          /\ UNCHANGED <<packed, accepted, wire>>
    BY <1>2, ItemPlaced
  <2>2. read' \in Seq(Item)
    <3>1. read \in Seq(Item)
      BY DEF TypeOK
    <3>2. Append(read, item) \in Seq(Item)
      BY <3>1, AppendProperties
    <3>3. QED
      BY <2>1, <3>1, <3>2
  <2>3. pendingItem' \in Seq(Item) /\ Len(pendingItem') <= 1
    <3>1. /\ <<>> \in Seq(Item) /\ Len(<<>>) <= 1
          /\ <<item>> \in Seq(Item) /\ Len(<<item>>) <= 1
      OBVIOUS
    <3>2. pendingItem' = <<>> \/ pendingItem' = <<item>>
      BY <2>1 DEF Place
    <3>3. CASE pendingItem' = <<>>
      BY <3>1, <3>3
    <3>4. CASE pendingItem' = <<item>>
      BY <3>1, <3>4
    <3>5. QED
      BY <3>2, <3>3, <3>4
  <2>4. memory' \in [Blocks -> Seq(Item)]
    <3>1. Append(Contents, item) \in Seq(Item)
      BY ContentsType, AppendProperties
    <3>2. QED
      BY <2>1, <3>1 DEF Place, TypeOK
  <2>5. currentBytes' \in 0 .. BufSize
    BY <2>1, SizeType, SizeAssumption DEF Place, TypeOK
  <2>6. pc' \in Places
    BY <2>1 DEF Place, Places, Sending
  <2>7. QED
    BY <2>1, <2>2, <2>3, <2>4, <2>5, <2>6 DEF TypeOK
<1>3. ASSUME ForgetBuffer
      PROVE  buffer' \in Blocks \cup {NoBlock} /\ currentBytes' \in 0 .. BufSize /\ pc' \in Places
  BY <1>3, SizeAssumption DEF ForgetBuffer, Places, Sending
<1>4. CASE SendNothing
  BY <1>3, <1>4 DEF SendNothing, TypeOK
<1>5. packed \in Seq(Seq(Item)) /\ Append(packed, Contents) \in Seq(Seq(Item))
  BY ContentsType, AppendProperties DEF TypeOK
<1>6. CASE SendBuffer
  <2>1. accepted' \in Seq([packed : Nat \ {0}, number : Nat])
    <3>1. [packed |-> Len(packed) + 1, number |-> EventNumber]
            \in [packed : Nat \ {0}, number : Nat]
      BY <1>5, EventNumberType
    <3>2. accepted' = Append(accepted, [packed |-> Len(packed) + 1, number |-> EventNumber])
      BY <1>6 DEF SendBuffer
    <3>3. QED
      BY <3>1, <3>2, AppendProperties DEF TypeOK
  <2>2. sendQueue' \in Seq(Entry)
    <3>1. buffer \in Blocks /\ Len(accepted) + 1 \in Nat \ {0}
      <4>1. pc = "send"
        BY <1>6 DEF SendBuffer
      <4>2. Len(accepted) \in Nat
        BY DEF TypeOK
      <4>3. buffer \in Blocks
        BY <4>1, ContentsType
      <4>4. QED
        BY <4>2, <4>3
    <3>2. [block |-> buffer, event |-> Len(accepted) + 1] \in Entry
      BY <3>1 DEF Entry
    <3>3. sendQueue' = Append(sendQueue, [block |-> buffer, event |-> Len(accepted) + 1])
      BY <1>6 DEF SendBuffer
    <3>4. QED
      BY <3>2, <3>3, EntryTypes, AppendProperties
  <2>3. totalBytes' \in Nat /\ sendCount' \in Nat
    BY <1>6, SizeAssumption DEF SendBuffer, TypeOK
  <2>4. QED
    BY <1>3, <1>5, <1>6, <2>1, <2>2, <2>3 DEF SendBuffer, TypeOK, Entry
<1>7. CASE SendRefused
  BY <1>3, <1>5, <1>7 DEF SendRefused, TypeOK
<1>8. ASSUME NEW t \in SendThreads, Dequeue(t) PROVE TypeOK'
  <2>1. PICK e \in Entry :
           /\ sendQueue' \in Seq(Entry)
           /\ sending' = [sending EXCEPT ![t] = <<e>>]
           /\ UNCHANGED <<inUse, open, given, config, length, read, pendingItem, buffer>>
           /\ UNCHANGED <<memory, currentBytes, totalBytes, sendCount, done, pc>>
           /\ UNCHANGED <<stopping, senders, handler, packed, accepted, wire>>
    BY <1>8, Dequeued
  <2>2. <<e>> \in Seq(Entry) /\ Len(<<e>>) <= 1
    OBVIOUS
  <2>3. \A u \in SendThreads : sending'[u] = IF u = t THEN <<e>> ELSE sending[u]
    BY <2>1, EntryTypes
  <2>4. /\ sending' \in [SendThreads -> Seq(Entry)]
        /\ \A u \in SendThreads : Len(sending'[u]) <= 1
    <3>1. sending' \in [SendThreads -> Seq(Entry)]
      BY <2>1, <2>2, EntryTypes
    <3>2. \A u \in SendThreads : Len(sending[u]) <= 1
      BY DEF TypeOK
    <3>3. QED
      BY <2>2, <2>3, <3>1, <3>2
  <2>5. QED
    BY <2>1, <2>4 DEF TypeOK, Entry
<1>9. ASSUME NEW t \in SendThreads, Transmit(t) PROVE TypeOK'
  <2>1. PICK e \in Entry :
           /\ sending' = [sending EXCEPT ![t] = <<>>]
           /\ wire' = Append(wire, [event |-> e.event, items |-> memory[e.block]])
           /\ UNCHANGED <<open, given, config, length, read, pendingItem, buffer>>
           /\ UNCHANGED <<memory, currentBytes, totalBytes, sendCount, done, pc>>
           /\ UNCHANGED <<sendQueue, stopping, senders, handler, packed, accepted>>
    BY <1>9, Transmitted
  <2>2. [event |-> e.event, items |-> memory[e.block]]
          \in [event : Nat \ {0}, items : Seq(Item)]
    BY DEF TypeOK, Entry
  <2>3. wire' \in Seq([event : Nat \ {0}, items : Seq(Item)])
    BY <2>1, <2>2, AppendProperties DEF TypeOK
  <2>4. <<>> \in Seq(Entry) /\ Len(<<>>) <= 1
    OBVIOUS
  <2>5. \A u \in SendThreads : sending'[u] = IF u = t THEN <<>> ELSE sending[u]
    BY <2>1, EntryTypes
  <2>6. /\ sending' \in [SendThreads -> Seq(Entry)]
        /\ \A u \in SendThreads : Len(sending'[u]) <= 1
    <3>1. sending' \in [SendThreads -> Seq(Entry)]
      BY <2>1, <2>4, EntryTypes
    <3>2. \A u \in SendThreads : Len(sending[u]) <= 1
      BY DEF TypeOK
    <3>3. QED
      BY <2>4, <2>5, <3>1, <3>2
  <2>7. QED
    BY <2>1, <2>3, <2>6 DEF TypeOK, Entry
<1>10. QED
  BY <1>1, <1>2, <1>4, <1>6, <1>7, <1>8, <1>9, Steps

LEMMA TypeNext == TypeOK /\ HoldsBuffer /\ PoolInv /\ [Next]_vars => TypeOK'
  BY ControlTypes, DataTypes

-----------------------------------------------------------------------------
(* The buffer of the loop, the pool, and the load balancer.                *)

LEMMA HoldsNext ==
  HoldsBuffer /\ TypeOK /\ CallbackFindsBuffer /\ PoolInv /\ [Next]_vars => HoldsBuffer'
<1> SUFFICES ASSUME HoldsBuffer, TypeOK, CallbackFindsBuffer, PoolInv, [Next]_vars
             PROVE  HoldsBuffer'
  OBVIOUS
<1> USE DEF At
<1>1. CASE ControlStep
  <2>1. UNCHANGED <<buffer, currentBytes>>
    BY <1>1, DataKept
  <2>2. pc' \in {"pack", "send"} <=> pc \in {"pack", "send"}
    <3>1. CASE Main
      BY <3>1 DEF Main, Parse, Program, MapVersion, MakeDataSource, GetFlags, GetUri,
         MakeSegmenter, Construct, AddSenders
    <3>2. CASE OpenAndStart \/ PopMiss \/ LockPool \/ BadAlloc \/ NoItem \/ BufferFull
      BY <3>2 DEF OpenAndStart, PopMiss, LockPool, BadAlloc, NoItem, BufferFull, Packing
    <3>3. CASE CheckLimit \/ Shutdown \/ DestroyPool \/ Interrupt \/ Handler
      BY <3>3 DEF CheckLimit, Shutdown, DestroyPool, Interrupt, Handler, StopThreads,
         NothingToStop, Exit
    <3>4. CASE \/ \E t \in SendThreads : Callback(t)
               \/ UNCHANGED vars
      BY <3>4 DEF Callback, vars
    <3>5. QED
      BY <1>1, <3>1, <3>2, <3>3, <3>4 DEF ControlStep
  <2>3. CASE DestroyPool
    <3>1. pc = "join"
      BY <2>3 DEF DestroyPool
    <3>2. QED
      BY <2>1, <2>2, <3>1 DEF HoldsBuffer
  <2>4. CASE ~DestroyPool
    BY <1>1, <2>1, <2>2, <2>4, PoolKept DEF HoldsBuffer
  <2>5. QED
    BY <2>3, <2>4
<1>2. CASE PopRecycled \/ Malloc
  <2>1. PICK b \in Blocks :
          inUse' = inUse \cup {b} /\ buffer' = b /\ currentBytes' = 0 /\ pc' = "pack"
    BY <1>2, BufferTaken
  <2>2. QED
    BY <2>1, PoolAssumption DEF HoldsBuffer
<1>3. CASE PackPending \/ PackNext
  <2>1. PICK item \in Item : Place(item) /\ pc = "pack" /\ UNCHANGED <<inUse, buffer>>
    BY <1>3, ItemPlaced
  <2>2. QED
    BY <2>1 DEF HoldsBuffer, Place
<1>4. CASE SendNothing \/ SendBuffer \/ SendRefused
  BY <1>4 DEF SendNothing, SendBuffer, SendRefused, ForgetBuffer, HoldsBuffer
<1>5. ASSUME NEW t \in SendThreads, Dequeue(t) PROVE HoldsBuffer'
  BY <1>5, Dequeued DEF HoldsBuffer
<1>6. ASSUME NEW t \in SendThreads, Transmit(t) PROVE HoldsBuffer'
  <2>1. PICK e \in Entry :
          /\ open /\ t \in Active /\ e = sending[t][1] /\ inUse' = inUse \ {e.block}
          /\ UNCHANGED <<buffer, currentBytes, pc>>
    BY <1>6, Transmitted
  <2>2. e.block # buffer
    BY <2>1 DEF CallbackFindsBuffer, OnTheWay
  <2>3. QED
    BY <2>1, <2>2 DEF HoldsBuffer
<1>7. QED
  BY <1>1, <1>2, <1>3, <1>4, <1>5, <1>6, Steps

LEMMA OutlivesNext ==
  PoolOutlives /\ TypeOK /\ PoolInv /\ [Next]_vars => PoolOutlives'
<1> SUFFICES ASSUME PoolOutlives, TypeOK, PoolInv, [Next]_vars PROVE PoolOutlives'
  OBVIOUS
<1> USE DEF At
<1>1. CASE ControlStep
  <2>1. Active' = Active
    BY <1>1, DataKept DEF Active
  <2>2. CASE DestroyPool
    BY <2>1, <2>2 DEF DestroyPool, Joined, Active, segmenter, PoolOutlives
  <2>3. CASE ~DestroyPool
    <3>1. open' = open
      BY <1>1, <2>3, PoolKept
    <3>2. pc = "end" /\ stopping => pc' = "end" /\ stopping'
      <4> USE DEF segmenter
      <4>1. CASE Main
        BY <4>1 DEF Main, Parse, MapVersion, MakeDataSource, GetFlags, GetUri,
           MakeSegmenter, Construct, AddSenders
      <4>2. CASE OpenAndStart \/ PopMiss \/ LockPool \/ BadAlloc \/ NoItem \/ BufferFull
        BY <4>2 DEF OpenAndStart, PopMiss, LockPool, BadAlloc, NoItem, BufferFull, Packing
      <4>3. CASE CheckLimit \/ Shutdown \/ DestroyPool \/ Interrupt \/ Handler
        BY <4>3 DEF CheckLimit, Shutdown, DestroyPool, Interrupt, Handler, StopThreads,
           NothingToStop, Exit
      <4>4. CASE \/ \E t \in SendThreads : Callback(t)
                 \/ UNCHANGED vars
        BY <4>4 DEF Callback, vars
      <4>5. QED
        BY <1>1, <4>1, <4>2, <4>3, <4>4 DEF ControlStep
    <3>3. QED
      BY <2>1, <3>1, <3>2 DEF PoolOutlives
  <2>4. QED
    BY <2>2, <2>3
<1>2. CASE PopRecycled \/ Malloc
  <2>1. pc \in {"top", "malloc"} /\ UNCHANGED open
    BY <1>2, BufferTaken
  <2>2. QED
    BY <2>1 DEF PoolOutlives
<1>3. CASE PackPending \/ PackNext
  <2>1. pc = "pack" /\ UNCHANGED open
    BY <1>3, ItemPlaced
  <2>2. QED
    BY <2>1 DEF PoolOutlives
<1>4. CASE SendNothing \/ SendBuffer \/ SendRefused
  BY <1>4 DEF SendNothing, SendBuffer, SendRefused, PoolOutlives, pool
<1>5. ASSUME NEW t \in SendThreads, Dequeue(t) PROVE PoolOutlives'
  BY <1>5, Dequeued DEF PoolOutlives
<1>6. ASSUME NEW t \in SendThreads, Transmit(t) PROVE PoolOutlives'
  BY <1>6, Transmitted DEF PoolOutlives
<1>7. QED
  BY <1>1, <1>2, <1>3, <1>4, <1>5, <1>6, Steps

LEMMA ListedNext == Listed /\ TypeOK /\ PoolInv /\ [Next]_vars => Listed'
<1> SUFFICES ASSUME Listed, TypeOK, PoolInv, [Next]_vars PROVE Listed'
  OBVIOUS
<1> USE DEF At, Sending, segmenter
<1>1. CASE ControlStep
  <2>1. CASE Main
    BY <2>1 DEF Main, Parse, MapVersion, MakeDataSource, GetFlags, GetUri,
       MakeSegmenter, Construct, AddSenders, Listed, TypeOK
  <2>2. CASE OpenAndStart \/ PopMiss \/ LockPool \/ BadAlloc \/ NoItem \/ BufferFull
    BY <2>2 DEF OpenAndStart, PopMiss, LockPool, BadAlloc, NoItem, BufferFull, Packing,
       Listed
  <2>3. CASE CheckLimit \/ Shutdown \/ DestroyPool
    BY <2>3 DEF CheckLimit, Shutdown, DestroyPool, RemoveSenders, Listed, TypeOK
  <2>4. CASE Interrupt \/ Handler
    BY <2>4 DEF Interrupt, Handler, StopThreads, NothingToStop, Exit, Constructing,
       RemoveSenders, Listed, TypeOK
  <2>5. CASE \/ \E t \in SendThreads : Callback(t)
             \/ UNCHANGED vars
    BY <2>5 DEF Callback, vars, Listed
  <2>6. QED
    BY <1>1, <2>1, <2>2, <2>3, <2>4, <2>5 DEF ControlStep
<1>2. CASE PopRecycled \/ Malloc
  BY <1>2, BufferTaken DEF Listed
<1>3. CASE PackPending \/ PackNext
  <2>1. PICK item \in Item :
          Place(item) /\ pc = "pack" /\ handler = "none" /\ UNCHANGED <<senders, handler>>
    BY <1>3, ItemPlaced
  <2>2. QED
    BY <2>1 DEF Listed, Place
<1>4. CASE SendNothing \/ SendBuffer \/ SendRefused
  BY <1>4 DEF SendNothing, SendBuffer, SendRefused, ForgetBuffer, Listed
<1>5. ASSUME NEW t \in SendThreads, Dequeue(t) PROVE Listed'
  BY <1>5, Dequeued DEF Listed
<1>6. ASSUME NEW t \in SendThreads, Transmit(t) PROVE Listed'
  BY <1>6, Transmitted DEF Listed
<1>7. QED
  BY <1>1, <1>2, <1>3, <1>4, <1>5, <1>6, Steps
-----------------------------------------------------------------------------
(* What the steps do to the contents of the buffer.                        *)

LEMMA ContentsKept ==
  ASSUME ControlStep \/ PopRecycled \/ Malloc, TypeOK, HoldsBuffer, PoolInv
  PROVE  /\ Contents' = Contents /\ currentBytes' = currentBytes
         /\ UNCHANGED <<config, length, read, pendingItem, memory>>
         /\ UNCHANGED <<totalBytes, sendCount, sendQueue, sending, packed, accepted, wire>>
<1>1. CASE ControlStep
  BY <1>1, DataKept DEF Contents
<1>2. CASE PopRecycled \/ Malloc
  <2>1. /\ pc \in {"top", "malloc"} /\ currentBytes' = 0
        /\ UNCHANGED <<config, length, read, pendingItem, memory>>
        /\ UNCHANGED <<totalBytes, sendCount, sendQueue, sending, packed, accepted, wire>>
    BY <1>2, BufferTaken
  <2>2. currentBytes = 0
    BY <2>1 DEF HoldsBuffer
  <2>3. QED
    BY <2>1, <2>2 DEF Contents
<1>3. QED
  BY <1>1, <1>2

\* The item is in the buffer or pending, not both.
LEMMA Placed ==
  ASSUME PackPending \/ PackNext, TypeOK, HoldsBuffer
  PROVE  \E item \in Item :
           /\ \/ /\ pendingItem' = <<item>> /\ Contents' = Contents
                 /\ currentBytes' = currentBytes /\ memory' = memory
              \/ /\ pendingItem' = <<>> /\ Contents' = Append(Contents, item)
                 /\ currentBytes' = currentBytes + item.kind.size
                 /\ currentBytes' <= BufSize
                 /\ memory' = [memory EXCEPT ![buffer] = Append(Contents, item)]
           /\ \/ pendingItem = <<item>> /\ read' = read
              \/ pendingItem = <<>> /\ item.id = Len(read) + 1 /\ read' = Append(read, item)
           /\ pc = "pack" /\ buffer \in Blocks
           /\ UNCHANGED <<inUse, open, config, length, buffer, totalBytes, sendCount>>
           /\ UNCHANGED <<done, sendQueue, sending, packed, accepted, wire>>
<1>1. PICK item \in Item :
        /\ Place(item) /\ pc = "pack"
        /\ \/ pendingItem = <<item>> /\ read' = read
           \/ pendingItem = <<>> /\ item.id = Len(read) + 1 /\ read' = Append(read, item)
        /\ UNCHANGED <<inUse, open, config, length, buffer, totalBytes, sendCount>>
        /\ UNCHANGED <<done, sendQueue, sending, packed, accepted, wire>>
  BY ItemPlaced
<1>2. buffer \in Blocks
  BY <1>1, ContentsType
<1>3. CASE currentBytes + item.kind.size > BufSize
  BY <1>1, <1>2, <1>3 DEF Place, Contents
<1>4. CASE ~(currentBytes + item.kind.size > BufSize)
  <2>1. /\ pendingItem' = <<>> /\ currentBytes' = currentBytes + item.kind.size
        /\ memory' = [memory EXCEPT ![buffer] = Append(Contents, item)]
    BY <1>1, <1>4 DEF Place
  <2>2. currentBytes' # 0 /\ currentBytes' <= BufSize
    <3>1. item.kind.size \in Nat \ {0}
      BY SizeType
    <3>2. currentBytes \in 0 .. BufSize /\ BufSize \in Nat
      BY SizeAssumption DEF TypeOK
    <3>3. QED
      BY <1>4, <2>1, <3>1, <3>2
  <2>3. memory'[buffer] = Append(Contents, item)
    BY <1>2, <2>1 DEF TypeOK
  <2>4. Contents' = Append(Contents, item)
    BY <1>1, <2>2, <2>3 DEF Contents
  <2>5. QED
    BY <1>1, <1>2, <2>1, <2>2, <2>4
<1>5. QED
  BY <1>3, <1>4

LEMMA BufferSent ==
  ASSUME SendNothing \/ SendBuffer \/ SendRefused, TypeOK, HoldsBuffer
  PROVE  /\ Contents' = <<>> /\ currentBytes' = 0 /\ buffer' = NoBlock
         /\ \/ packed' = packed /\ Contents = <<>>
            \/ packed' = Append(packed, Contents) /\ Contents = memory[buffer]
         /\ pc = "send" /\ buffer \in Blocks
         /\ UNCHANGED <<inUse, open, config, length, read, pendingItem, memory>>
         /\ UNCHANGED <<done, sending, wire>>
<1>1. pc = "send"
  BY DEF SendNothing, SendBuffer, SendRefused, At
<1>2. buffer \in Blocks
  BY <1>1, ContentsType
<1>3. QED
  BY <1>1, <1>2
  DEF SendNothing, SendBuffer, SendRefused, ForgetBuffer, Contents, pool, source, counts,
      segmenter, history

-----------------------------------------------------------------------------
(* Items.                                                                  *)

\* The item read last comes last, in whatever part it is.
LEMMA JoinedLast ==
  ASSUME NEW S, NEW a \in Seq(S), NEW b \in Seq(S), NEW x \in S
  PROVE  /\ a \o b \o <<x>> = Append(a \o b \o <<>>, x)
         /\ a \o Append(b, x) \o <<>> = Append(a \o b \o <<>>, x)
<1>1. a \o b \in Seq(S) /\ Append(b, x) \in Seq(S) /\ a \o Append(b, x) \in Seq(S)
  BY ConcatProperties, AppendProperties
<1>2. a \o b \o <<>> = a \o b /\ a \o Append(b, x) \o <<>> = a \o Append(b, x)
  BY <1>1, ConcatEmptySeq
<1>3. a \o b \o <<x>> = Append(a \o b, x)
  BY <1>1, AppendIsConcat
<1>4. a \o Append(b, x) = Append(a \o b, x)
  <2>1. Append(b, x) = b \o <<x>>
    BY AppendIsConcat
  <2>2. a \o (b \o <<x>>) = a \o b \o <<x>>
    BY ConcatAssociative
  <2>3. QED
    BY <1>3, <2>1, <2>2
<1>5. QED
  BY <1>2, <1>3, <1>4

LEMMA ItemsNext ==
  ItemsKept /\ TypeOK /\ HoldsBuffer /\ PoolInv /\ [Next]_vars => ItemsKept'
<1> SUFFICES ASSUME ItemsKept, TypeOK, HoldsBuffer, PoolInv, [Next]_vars
             PROVE  ItemsKept'
  OBVIOUS
<1>1. /\ packed \in Seq(Seq(Item)) /\ FlattenSeq(packed) \in Seq(Item)
      /\ Contents \in Seq(Item)
  BY ContentsType, FlattenType DEF TypeOK
<1>2. CASE ControlStep \/ PopRecycled \/ Malloc
  BY <1>2, ContentsKept DEF ItemsKept
<1>3. CASE PackPending \/ PackNext
  <2>1. PICK item \in Item :
           /\ \/ /\ pendingItem' = <<item>> /\ Contents' = Contents
                 /\ currentBytes' = currentBytes
              \/ /\ pendingItem' = <<>> /\ Contents' = Append(Contents, item)
                 /\ currentBytes' = currentBytes + item.kind.size
                 /\ currentBytes' <= BufSize
           /\ \/ pendingItem = <<item>> /\ read' = read
              \/ pendingItem = <<>> /\ read' = Append(read, item)
           /\ packed' = packed
    BY <1>3, Placed
  <2> DEFINE flat == FlattenSeq(packed)
  <2>2. flat' = flat /\ flat \in Seq(Item) /\ flat \o Contents \o pendingItem = read
    BY <1>1, <2>1 DEF ItemsKept
  <2> HIDE DEF flat
  <2>a. /\ flat \o Contents \o <<item>> = Append(flat \o Contents \o <<>>, item)
        /\ flat \o Append(Contents, item) \o <<>> = Append(flat \o Contents \o <<>>, item)
    BY <1>1, <2>2, JoinedLast, SMTT(30)
  <2>b. flat' \o Contents' \o pendingItem' = read'
    <3>1. CASE pendingItem' = <<item>> /\ Contents' = Contents /\ read' = read
      <4>1. pendingItem = <<item>>
        BY <2>1, <3>1, <2>2
      <4>2. QED
        BY <2>2, <3>1, <4>1
    <3>2. CASE pendingItem' = <<>> /\ Contents' = Append(Contents, item) /\ read' = read
      BY <2>1, <2>2, <2>a, <3>2
    <3>3. CASE read' = Append(read, item) /\ pendingItem = <<>>
      <4>1. read' = Append(flat \o Contents \o <<>>, item)
        BY <2>2, <3>3
      <4>2. QED
        BY <2>1, <2>2, <2>a, <4>1
    <3>4. QED
      BY <2>1, <3>1, <3>2, <3>3
  <2>3. FlattenSeq(packed') \o Contents' \o pendingItem' = read'
    BY <2>b DEF flat
  <2>4. currentBytes' = Bytes(Contents') /\ Bytes(Contents') <= BufSize
    BY <1>1, <2>1, BytesAppend DEF ItemsKept
  <2>5. QED
    BY <2>3, <2>4 DEF ItemsKept
<1>4. CASE SendNothing \/ SendBuffer \/ SendRefused
  <2>1. /\ Contents' = <<>> /\ currentBytes' = 0
        /\ UNCHANGED <<read, pendingItem>>
        /\ \/ packed' = packed /\ Contents = <<>>
           \/ packed' = Append(packed, Contents)
    BY <1>4, BufferSent
  <2>2. currentBytes' = Bytes(Contents') /\ Bytes(Contents') <= BufSize
    BY <2>1, BytesEmpty, SizeAssumption
  <2>3. FlattenSeq(packed') \o Contents' = FlattenSeq(packed) \o Contents
    <3>1. CASE packed' = packed /\ Contents = <<>>
      BY <2>1, <3>1
    <3>2. CASE packed' = Append(packed, Contents)
      <4>1. FlattenSeq(packed') = FlattenSeq(packed) \o Contents
        BY <1>1, <3>2, FlattenAppend
      <4>2. FlattenSeq(packed) \o Contents \in Seq(Item)
        BY <1>1, ConcatProperties
      <4>3. QED
        BY <2>1, <4>1, <4>2, ConcatEmptySeq
    <3>3. QED
      BY <2>1, <3>1, <3>2
  <2>4. QED
    BY <2>1, <2>2, <2>3 DEF ItemsKept
<1>5. ASSUME NEW t \in SendThreads, Dequeue(t) PROVE ItemsKept'
  BY <1>5, Dequeued DEF ItemsKept, Contents
<1>6. ASSUME NEW t \in SendThreads, Transmit(t) PROVE ItemsKept'
  BY <1>6, Transmitted DEF ItemsKept, Contents
<1>7. QED
  BY <1>2, <1>3, <1>4, <1>5, <1>6, Steps
-----------------------------------------------------------------------------
(* The numbers of the events.                                              *)

\* The steps that give no event to the Segmenter.
LEMMA NothingAccepted ==
  ASSUME [Next]_vars, TypeOK, HoldsBuffer, PoolInv, ~SendBuffer
  PROVE  UNCHANGED <<accepted, sendCount, config>>
<1>1. CASE ControlStep \/ PopRecycled \/ Malloc
  BY <1>1, ContentsKept
<1>2. CASE PackPending \/ PackNext
  BY <1>2, Placed
<1>3. CASE SendNothing \/ SendRefused
  BY <1>3 DEF SendNothing, SendRefused, source, counts, history
<1>4. ASSUME NEW t \in SendThreads, Dequeue(t) \/ Transmit(t)
      PROVE  UNCHANGED <<accepted, sendCount, config>>
  BY <1>4, Dequeued, Transmitted
<1>5. QED
  BY <1>1, <1>2, <1>3, <1>4, Steps

\* What has been packed stays so.
LEMMA PackedGrows ==
  ASSUME [Next]_vars, TypeOK, HoldsBuffer, PoolInv
  PROVE  /\ Len(packed) \in Nat /\ Len(packed') \in Nat /\ Len(packed) <= Len(packed')
         /\ \A n \in 1 .. Len(packed) : packed'[n] = packed[n]
         /\ SendBuffer => Len(packed') = Len(packed) + 1 /\ packed'[Len(packed) + 1] = Contents
<1>1. packed \in Seq(Seq(Item)) /\ Contents \in Seq(Item)
  BY ContentsType DEF TypeOK
<1>2. packed' = packed \/ packed' = Append(packed, Contents)
  <2>1. CASE ControlStep \/ PopRecycled \/ Malloc
    BY <2>1, ContentsKept
  <2>2. CASE PackPending \/ PackNext
    BY <2>2, Placed
  <2>3. CASE SendNothing \/ SendBuffer \/ SendRefused
    BY <2>3, BufferSent
  <2>4. ASSUME NEW t \in SendThreads, Dequeue(t) \/ Transmit(t) PROVE packed' = packed
    BY <2>4, Dequeued, Transmitted
  <2>5. QED
    BY <2>1, <2>2, <2>3, <2>4, Steps
<1>3. SendBuffer => packed' = Append(packed, Contents)
  BY DEF SendBuffer
<1> DEFINE n == Len(packed)
<1>4. n \in Nat
  BY <1>1
<1>5. /\ Len(Append(packed, Contents)) = n + 1 /\ Append(packed, Contents)[n + 1] = Contents
      /\ \A i \in 1 .. n : Append(packed, Contents)[i] = packed[i]
  BY <1>1, AppendProperties
<1> HIDE DEF n
<1>6. Len(packed) = n
  BY DEF n
<1>7. QED
  BY <1>2, <1>3, <1>4, <1>5, <1>6

LEMMA NumberedNext ==
  Numbered /\ TypeOK /\ HoldsBuffer /\ PoolInv /\ [Next]_vars => Numbered'
<1> SUFFICES ASSUME Numbered, TypeOK, HoldsBuffer, PoolInv, [Next]_vars
             PROVE  Numbered'
  OBVIOUS
<1> DEFINE n == Len(accepted)
           k == Len(packed)
           Right(a, i, p) ==
             /\ a[i].packed \in 1 .. Len(p)
             /\ a[i].number = IF config.useCt THEN i - 1 ELSE FirstTimestamp(p[a[i].packed])
             /\ \A j \in 1 .. i - 1 : a[j].packed < a[i].packed
<1>1. n \in Nat /\ sendCount = n /\ \A i \in 1 .. n : Right(accepted, i, packed)
  BY DEF Numbered, TypeOK
<1>2. /\ k \in Nat /\ Len(packed') \in Nat /\ k <= Len(packed')
      /\ \A i \in 1 .. k : packed'[i] = packed[i]
  BY PackedGrows
<1>3. \A i \in 1 .. n : Right(accepted, i, packed')
  <2> HIDE DEF n
  <2>1. SUFFICES ASSUME NEW i \in 1 .. n PROVE Right(accepted, i, packed')
    OBVIOUS
  <2>2. /\ accepted[i].packed \in 1 .. k
        /\ accepted[i].number =
             IF config.useCt THEN i - 1 ELSE FirstTimestamp(packed[accepted[i].packed])
        /\ \A j \in 1 .. i - 1 : accepted[j].packed < accepted[i].packed
    BY <1>1
  <2>3. packed'[accepted[i].packed] = packed[accepted[i].packed]
    BY <1>2, <2>2
  <2>4. accepted[i].packed \in 1 .. Len(packed')
    BY <1>2, <2>2
  <2>5. QED
    BY <2>2, <2>3, <2>4
<1>4. CASE ~SendBuffer
  <2>1. UNCHANGED <<accepted, sendCount, config>>
    BY <1>4, NothingAccepted
  <2>2. QED
    BY <1>1, <1>3, <2>1 DEF Numbered
<1>5. CASE SendBuffer
  <2> DEFINE a == [packed |-> k + 1, number |-> EventNumber]
  <2>1. accepted' = Append(accepted, a) /\ sendCount' = sendCount + 1 /\ config' = config
    BY <1>5 DEF SendBuffer, source
  <2>2. accepted \in Seq([packed : Nat \ {0}, number : Nat])
    BY DEF TypeOK
  <2>3. a \in [packed : Nat \ {0}, number : Nat]
    BY <1>2, EventNumberType
  <2>4. Len(packed') = k + 1 /\ packed'[k + 1] = Contents
    BY <1>5, PackedGrows
  <2>5. a.packed = k + 1 /\ a.number = IF config.useCt THEN n ELSE FirstTimestamp(Contents)
    BY <1>1 DEF EventNumber
  <2> HIDE DEF a
  <2>6. /\ Len(accepted') = n + 1 /\ accepted'[n + 1] = a
        /\ \A i \in 1 .. n : accepted'[i] = accepted[i]
    BY <2>1, <2>2, <2>3, AppendProperties
  <2>7. \A i \in 1 .. n : accepted[i].packed \in 1 .. k
    BY <1>1
  <2> HIDE DEF n, k
  <2>8. ASSUME NEW i \in 1 .. n + 1 PROVE Right(accepted', i, packed')
    <3>1. CASE i = n + 1
      <4>1. accepted'[i].packed = k + 1 /\ accepted'[i].packed \in 1 .. Len(packed')
        BY <1>2, <2>4, <2>5, <2>6, <3>1
      <4>2. accepted'[i].number =
              IF config.useCt THEN i - 1 ELSE FirstTimestamp(packed'[accepted'[i].packed])
        BY <1>1, <2>4, <2>5, <2>6, <3>1
      <4>3. \A j \in 1 .. i - 1 : accepted'[j].packed < accepted'[i].packed
        <5>1. \A j \in 1 .. n : accepted'[j].packed < k + 1
          <6>1. \A x \in 1 .. k : x < k + 1
            BY <1>2
          <6>2. QED
            BY <2>6, <2>7, <6>1
        <5>2. i - 1 = n
          BY <1>1, <3>1
        <5>3. QED
          BY <4>1, <5>1, <5>2
      <4>4. QED
        BY <4>1, <4>2, <4>3
    <3>2. CASE i # n + 1
      <4>1. i \in 1 .. n /\ \A j \in 1 .. i - 1 : j \in 1 .. n
        BY <1>1, <3>2
      <4>2. accepted'[i] = accepted[i] /\ \A j \in 1 .. i - 1 : accepted'[j] = accepted[j]
        BY <2>6, <4>1
      <4>3. Right(accepted, i, packed')
        BY <1>3, <4>1
      <4>4. QED
        BY <4>2, <4>3
    <3>3. QED
      BY <3>1, <3>2
  <2>9. sendCount' = Len(accepted') /\ config' = config
    BY <1>1, <2>1, <2>6
  <2>10. Len(accepted') = n + 1
    BY <2>6
  <2>11. QED
    BY <2>8, <2>9, <2>10 DEF Numbered
<1>6. QED
  BY <1>4, <1>5
-----------------------------------------------------------------------------
(* The blocks of the events.                                               *)

LEMMA CallbackNext ==
  /\ CallbackFindsBuffer /\ TypeOK /\ HoldsBuffer /\ PoolOutlives /\ PoolInv
  /\ [Next]_vars
  => CallbackFindsBuffer'
<1> SUFFICES ASSUME CallbackFindsBuffer, TypeOK, HoldsBuffer, PoolOutlives, PoolInv,
                    [Next]_vars
             PROVE  CallbackFindsBuffer'
  OBVIOUS
<1> DEFINE n == Len(sendQueue)
<1>1. n \in Nat /\ inUse \subseteq Blocks /\ NoBlock \notin Blocks
  BY PoolAssumption DEF TypeOK, PoolInv, Pool!TypeOK
<1>2. CASE ControlStep
  <2>1. UNCHANGED <<buffer, sendQueue, sending>>
    BY <1>2, DataKept
  <2>2. Active' = Active /\ Queued' = Queued /\ OnTheWay' = OnTheWay
    BY <2>1 DEF Active, Queued, OnTheWay
  <2>3. CASE DestroyPool
    <3>1. Active = {} /\ ~open'
      BY <2>3 DEF DestroyPool, Joined, Active, Pool!Destroy
    <3>2. QED
      BY <2>2, <3>1 DEF CallbackFindsBuffer
  <2>4. CASE ~DestroyPool
    <3>1. UNCHANGED <<inUse, open>>
      BY <1>2, <2>4, PoolKept
    <3>2. QED
      BY <2>1, <2>2, <3>1 DEF CallbackFindsBuffer
  <2>5. QED
    BY <2>3, <2>4
<1>3. CASE PopRecycled \/ Malloc
  <2>1. PICK b \in Blocks :
          /\ b \notin inUse /\ inUse' = inUse \cup {b} /\ buffer' = b
          /\ UNCHANGED <<open, sendQueue, sending>>
    BY <1>3, BufferTaken
  <2>2. Active' = Active /\ Queued' = Queued /\ OnTheWay' = OnTheWay
    BY <2>1 DEF Active, Queued, OnTheWay
  <2>3. open => OnTheWay \subseteq inUse
    BY DEF CallbackFindsBuffer
  <2>4. open' => OnTheWay' \subseteq inUse' \ {buffer'}
    BY <2>1, <2>2, <2>3
  <2>5. QED
    BY <2>1, <2>2, <2>4 DEF CallbackFindsBuffer
<1>4. CASE PackPending \/ PackNext
  <2>1. UNCHANGED <<inUse, open, buffer, sendQueue, sending>>
    BY <1>4, Placed
  <2>2. Active' = Active /\ Queued' = Queued /\ OnTheWay' = OnTheWay
    BY <2>1 DEF Active, Queued, OnTheWay
  <2>3. QED
    BY <2>1, <2>2 DEF CallbackFindsBuffer
<1>5. CASE SendNothing \/ SendRefused
  <2>1. UNCHANGED <<inUse, open, sendQueue, sending>> /\ buffer' = NoBlock
    BY <1>5 DEF SendNothing, SendRefused, ForgetBuffer, pool, segmenter
  <2>2. Active' = Active /\ Queued' = Queued /\ OnTheWay' = OnTheWay
    BY <2>1 DEF Active, Queued, OnTheWay
  <2>3. open' => OnTheWay' \subseteq inUse' \ {buffer'}
    BY <1>1, <2>1, <2>2 DEF CallbackFindsBuffer
  <2>4. QED
    BY <2>1, <2>2, <2>3 DEF CallbackFindsBuffer
<1>6. CASE SendBuffer
  <2> DEFINE e == [block |-> buffer, event |-> Len(accepted) + 1]
  <2>1. /\ UNCHANGED <<inUse, open, sending>> /\ buffer' = NoBlock
        /\ sendQueue' = Append(sendQueue, e) /\ pc = "send"
    BY <1>6 DEF SendBuffer, ForgetBuffer, pool, At
  <2>2. sendQueue \in Seq(Entry) /\ buffer \in Blocks /\ buffer \in inUse
    BY <2>1, EntryTypes, ContentsType, PoolAssumption DEF HoldsBuffer
  <2>3. Len(accepted) \in Nat
    BY DEF TypeOK
  <2>4. e \in Entry
    BY <2>2, <2>3 DEF Entry
  <2>5. e.block = buffer
    OBVIOUS
  <2> HIDE DEF e
  <2>6. /\ Len(sendQueue') = n + 1 /\ sendQueue'[n + 1] = e
        /\ \A i \in 1 .. n : sendQueue'[i] = sendQueue[i]
    BY <2>1, <2>2, <2>4, AppendProperties
  <2>7. open /\ OnTheWay \subseteq inUse \ {buffer}
    BY <2>1 DEF PoolOutlives, CallbackFindsBuffer
  <2> DEFINE Distinct(q, m) == \A i, j \in 1 .. m : i # j => q[i].block # q[j].block
  <2>8. Distinct(sendQueue, n) /\ \A i \in 1 .. n : sendQueue[i].block \in Queued
    BY <2>7 DEF CallbackFindsBuffer, Queued
  <2>9. buffer \notin Queued
    BY <2>7 DEF OnTheWay
  <2> HIDE DEF n
  <2>10. \A i \in 1 .. n + 1 : i \in 1 .. n \/ i = n + 1
    BY <1>1
  <2>11. Distinct(sendQueue', n + 1)
    BY <2>5, <2>6, <2>8, <2>9, <2>10
  <2>12. Queued' = Queued \cup {buffer}
    <3>1. Queued = {sendQueue[i].block : i \in 1 .. n}
      BY DEF Queued, n
    <3>2. Queued' = {sendQueue'[i].block : i \in 1 .. n + 1}
      BY <2>6 DEF Queued
    <3>3. n + 1 \in 1 .. n + 1 /\ \A i \in 1 .. n : i \in 1 .. n + 1
      BY <1>1
    <3>4. QED
      BY <2>5, <2>6, <2>10, <3>1, <3>2, <3>3
  <2>13. Active' = Active /\ OnTheWay' = OnTheWay \cup {buffer}
    BY <2>1, <2>12 DEF Active, OnTheWay
  <2>14. OnTheWay' \subseteq inUse' \ {buffer'}
    BY <1>1, <2>1, <2>2, <2>7, <2>13
  <2>15. \A t \in Active : /\ sending[t][1].block \notin Queued'
                           /\ \A u \in Active \ {t} :
                                sending[t][1].block # sending[u][1].block
    BY <2>7, <2>12 DEF CallbackFindsBuffer, OnTheWay
  <2>16. QED
    BY <2>1, <2>6, <2>7, <2>11, <2>13, <2>14, <2>15 DEF CallbackFindsBuffer
<1>7. ASSUME NEW t \in SendThreads, Dequeue(t) PROVE CallbackFindsBuffer'
  <2>1. PICK e \in Entry :
           /\ n \in Nat \ {0} /\ e = sendQueue[1] /\ Len(sendQueue') = n - 1
           /\ \A i \in 1 .. Len(sendQueue') : sendQueue'[i] = sendQueue[i + 1]
           /\ t \notin Active /\ Active' = Active \cup {t} /\ sending'[t] = <<e>>
           /\ sending' = [sending EXCEPT ![t] = <<e>>]
           /\ ~stopping /\ UNCHANGED <<inUse, open, buffer>>
    BY <1>7, Dequeued
  <2>2. open /\ open'
    BY <2>1 DEF PoolOutlives
  <2>3. sending'[t][1] = e /\ \A u \in Active : sending'[u][1] = sending[u][1]
    BY <2>1, EntryTypes DEF Active
  <2>4. Queued = {sendQueue[i].block : i \in 1 .. n}
    BY DEF Queued
  <2>5. Queued' = {sendQueue'[i].block : i \in 1 .. n - 1}
    BY <2>1 DEF Queued
  <2>6. \A i, j \in 1 .. n : i # j => sendQueue[i].block # sendQueue[j].block
    BY <2>2 DEF CallbackFindsBuffer
  <2>7. \A i \in 1 .. n - 1 : sendQueue'[i] = sendQueue[i + 1]
    BY <2>1
  <2> HIDE DEF n
  <2>8. 1 \in 1 .. n /\ \A i \in 1 .. n - 1 : i + 1 \in 1 .. n /\ i + 1 # 1
    BY <2>1
  <2>9. Queued' \subseteq Queued /\ e.block \in Queued /\ e.block \notin Queued'
    <3>1. \A i \in 1 .. n - 1 : /\ sendQueue'[i].block \in Queued
                                /\ sendQueue'[i].block # sendQueue[1].block
      BY <2>4, <2>6, <2>7, <2>8
    <3>2. QED
      BY <2>1, <2>4, <2>5, <2>8, <3>1
  <2>10. \A i, j \in 1 .. n - 1 : i # j => sendQueue'[i].block # sendQueue'[j].block
    <3>1. SUFFICES ASSUME NEW i \in 1 .. n - 1, NEW j \in 1 .. n - 1, i # j
                   PROVE  sendQueue'[i].block # sendQueue'[j].block
      OBVIOUS
    <3>2. i + 1 # j + 1
      BY <3>1, <2>1
    <3>3. QED
      BY <2>6, <2>7, <2>8, <3>2
  <2>11. OnTheWay' \subseteq OnTheWay
    BY <2>1, <2>3, <2>9 DEF OnTheWay
  <2>12. ASSUME NEW x \in Active'
         PROVE  /\ sending'[x][1].block \notin Queued'
                /\ \A u \in Active' \ {x} : sending'[x][1].block # sending'[u][1].block
    <3>1. \A y \in Active : /\ sending[y][1].block \notin Queued
                            /\ \A u \in Active \ {y} :
                                 sending[y][1].block # sending[u][1].block
      BY <2>2 DEF CallbackFindsBuffer
    <3>2. \A y \in Active : sending[y][1].block # e.block
      BY <2>9, <3>1
    <3>3. QED
      BY <2>1, <2>3, <2>9, <3>1, <3>2
  <2>13. QED
    BY <2>1, <2>2, <2>10, <2>11, <2>12 DEF CallbackFindsBuffer
<1>8. ASSUME NEW t \in SendThreads, Transmit(t) PROVE CallbackFindsBuffer'
  <2>1. PICK e \in Entry :
           /\ t \in Active /\ e = sending[t][1] /\ Active' = Active \ {t}
           /\ sending' = [sending EXCEPT ![t] = <<>>]
           /\ open /\ inUse' = inUse \ {e.block}
           /\ UNCHANGED <<open, buffer, sendQueue>>
    BY <1>8, Transmitted
  <2>2. \A u \in Active' : sending'[u][1] = sending[u][1]
    BY <2>1, EntryTypes DEF Active
  <2>3. Queued' = Queued
    BY <2>1 DEF Queued
  <2>4. /\ OnTheWay \subseteq inUse \ {buffer}
        /\ \A y \in Active : /\ sending[y][1].block \notin Queued
                             /\ \A u \in Active \ {y} :
                                  sending[y][1].block # sending[u][1].block
    BY <2>1 DEF CallbackFindsBuffer
  <2>5. OnTheWay' \subseteq OnTheWay \ {e.block}
    BY <2>1, <2>2, <2>3, <2>4 DEF OnTheWay
  <2>6. QED
    BY <2>1, <2>2, <2>3, <2>4, <2>5 DEF CallbackFindsBuffer
<1>9. QED
  BY <1>2, <1>3, <1>4, <1>5, <1>6, <1>7, <1>8, Steps
-----------------------------------------------------------------------------
(* The events.                                                             *)

LEMMA AcceptedGrows ==
  ASSUME [Next]_vars, TypeOK, HoldsBuffer, PoolInv
  PROVE  /\ Len(accepted) \in Nat /\ Len(accepted') \in Nat /\ Len(accepted) <= Len(accepted')
         /\ \A n \in 1 .. Len(accepted) : accepted'[n] = accepted[n]
         /\ SendBuffer => /\ Len(accepted') = Len(accepted) + 1
                          /\ accepted'[Len(accepted) + 1].packed = Len(packed) + 1
<1> DEFINE n == Len(accepted)
<1>1. accepted \in Seq([packed : Nat \ {0}, number : Nat]) /\ n \in Nat
  BY DEF TypeOK
<1>2. CASE ~SendBuffer
  BY <1>1, <1>2, NothingAccepted
<1>3. CASE SendBuffer
  <2> DEFINE a == [packed |-> Len(packed) + 1, number |-> EventNumber]
  <2>1. accepted' = Append(accepted, a)
    BY <1>3 DEF SendBuffer
  <2>2. Len(packed) + 1 \in Nat \ {0}
    BY DEF TypeOK
  <2>3. a \in [packed : Nat \ {0}, number : Nat] /\ a.packed = Len(packed) + 1
    BY <2>2, EventNumberType
  <2> HIDE DEF a
  <2>4. /\ Len(accepted') = n + 1 /\ accepted'[n + 1] = a
        /\ \A i \in 1 .. n : accepted'[i] = accepted[i]
    BY <1>1, <2>1, <2>3, AppendProperties
  <2>5. Len(accepted) = n
    OBVIOUS
  <2> HIDE DEF n
  <2>6. n <= n + 1 /\ n + 1 \in Nat
    BY <1>1
  <2>7. QED
    BY <1>1, <2>3, <2>4, <2>5, <2>6
<1>4. QED
  BY <1>2, <1>3

LEMMA CarriesNext ==
  ASSUME [Next]_vars, TypeOK, HoldsBuffer, PoolInv, Numbered
  PROVE  \A event, items : Carries(event, items, accepted, packed)
                           => Carries(event, items, accepted', packed')
<1>1. SUFFICES ASSUME NEW event, NEW items, Carries(event, items, accepted, packed)
               PROVE  Carries(event, items, accepted', packed')
  OBVIOUS
<1>2. event \in 1 .. Len(accepted) /\ items = packed[accepted[event].packed]
  BY <1>1 DEF Carries
<1>3. accepted[event].packed \in 1 .. Len(packed)
  BY <1>2 DEF Numbered
<1>4. event \in 1 .. Len(accepted') /\ accepted'[event] = accepted[event]
  BY <1>2, AcceptedGrows
<1>5. packed'[accepted[event].packed] = packed[accepted[event].packed]
  BY <1>3, PackedGrows
<1>6. QED
  BY <1>2, <1>4, <1>5 DEF Carries

\* The loop writes to its own buffer.
LEMMA MemoryKept ==
  ASSUME [Next]_vars, TypeOK, HoldsBuffer, PoolOutlives, PoolInv, CallbackFindsBuffer
  PROVE  \A b \in OnTheWay : memory'[b] = memory[b]
<1>1. CASE ControlStep \/ PopRecycled \/ Malloc
  BY <1>1, ContentsKept
<1>2. CASE PackPending \/ PackNext
  <2>1. /\ pc = "pack"
        /\ \/ memory' = memory
           \/ \E x : memory' = [memory EXCEPT ![buffer] = x]
    BY <1>2, Placed
  <2>2. \A b \in OnTheWay : b \in Blocks /\ b # buffer
    BY <2>1 DEF PoolOutlives, CallbackFindsBuffer, PoolInv, Pool!TypeOK
  <2>3. QED
    BY <2>1, <2>2 DEF TypeOK
<1>3. CASE SendNothing \/ SendBuffer \/ SendRefused
  BY <1>3, BufferSent
<1>4. ASSUME NEW t \in SendThreads, Dequeue(t) \/ Transmit(t) PROVE memory' = memory
  BY <1>4, Dequeued, Transmitted
<1>5. QED
  BY <1>1, <1>2, <1>3, <1>4, Steps

LEMMA EventsKept ==
  ASSUME [Next]_vars, TypeOK, HoldsBuffer, PoolInv,
         ~SendBuffer, \A t \in SendThreads : ~Dequeue(t) /\ ~Transmit(t)
  PROVE  UNCHANGED <<sendQueue, sending, wire>>
<1>1. CASE ControlStep \/ PopRecycled \/ Malloc
  BY <1>1, ContentsKept
<1>2. CASE PackPending \/ PackNext
  BY <1>2, Placed
<1>3. CASE SendNothing \/ SendRefused
  BY <1>3 DEF SendNothing, SendRefused, segmenter, history
<1>4. QED
  BY <1>1, <1>2, <1>3, Steps

LEMMA OnePlaceNext ==
  /\ OnePlace /\ TypeOK /\ HoldsBuffer /\ PoolOutlives /\ Numbered /\ CallbackFindsBuffer
  /\ PoolInv /\ [Next]_vars
  => OnePlace'
<1> SUFFICES ASSUME OnePlace, TypeOK, HoldsBuffer, PoolOutlives, Numbered,
                    CallbackFindsBuffer, PoolInv, [Next]_vars
             PROVE  OnePlace'
  OBVIOUS
<1> DEFINE Right(event, items) == Carries(event, items, accepted', packed')
<1>1. /\ \A i \in 1 .. Len(sendQueue) : Right(sendQueue[i].event, memory'[sendQueue[i].block])
      /\ \A t \in Active : Right(sending[t][1].event, memory'[sending[t][1].block])
      /\ \A i \in 1 .. Len(wire) : Right(wire[i].event, wire[i].items)
  <2>1. \A i \in 1 .. Len(sendQueue) : sendQueue[i].block \in OnTheWay
    BY DEF OnTheWay, Queued
  <2>2. \A t \in Active : sending[t][1].block \in OnTheWay
    BY DEF OnTheWay
  <2>3. QED
    BY <2>1, <2>2, CarriesNext, MemoryKept DEF OnePlace
<1> HIDE DEF Right
<1>2. CASE ~SendBuffer /\ \A t \in SendThreads : ~Dequeue(t) /\ ~Transmit(t)
  <2>1. UNCHANGED <<sendQueue, sending, wire>>
    BY <1>2, EventsKept
  <2>2. Active' = Active /\ Waiting' = Waiting /\ Leaving' = Leaving /\ Sent' = Sent
    BY <2>1 DEF Active, Waiting, Leaving, Sent
  <2>3. QED
    BY <1>1, <2>1, <2>2 DEF OnePlace, Right
<1> DEFINE n == Len(sendQueue)
<1>3. CASE SendBuffer
  <2> DEFINE e == [block |-> buffer, event |-> Len(accepted) + 1]
  <2>1. /\ UNCHANGED <<sending, memory, wire>>
        /\ sendQueue' = Append(sendQueue, e) /\ pc = "send" /\ currentBytes > 0
    BY <1>3 DEF SendBuffer, At
  <2>2. sendQueue \in Seq(Entry) /\ buffer \in Blocks /\ n \in Nat
    BY <2>1, EntryTypes, ContentsType
  <2>3. Len(accepted) \in Nat
    BY DEF TypeOK
  <2>4. e \in Entry /\ e.block = buffer /\ e.event = Len(accepted) + 1
    BY <2>2, <2>3 DEF Entry
  <2> HIDE DEF e
  <2>5. /\ Len(sendQueue') = n + 1 /\ sendQueue'[n + 1] = e
        /\ \A i \in 1 .. n : sendQueue'[i] = sendQueue[i]
    BY <2>1, <2>2, <2>4, AppendProperties
  <2>6. Right(e.event, memory'[e.block])
    <3>1. Contents = memory[buffer]
      BY <2>1 DEF Contents
    <3>2. packed'[accepted'[e.event].packed] = Contents /\ e.event \in 1 .. Len(accepted')
      BY <1>3, <2>3, <2>4, AcceptedGrows, PackedGrows
    <3>3. QED
      BY <2>1, <2>4, <3>1, <3>2 DEF Right, Carries
  <2>7. e.event \notin Waiting /\ e.event \notin Leaving /\ e.event \notin Sent
    <3>1. \A x \in Waiting \cup Leaving \cup Sent : x \in 1 .. Len(accepted)
      BY DEF OnePlace, Carries, Waiting, Leaving, Sent
    <3>2. e.event \notin 1 .. Len(accepted)
      BY <2>3, <2>4
    <3>3. QED
      BY <3>1, <3>2
  <2>8. Waiting = {sendQueue[i].event : i \in 1 .. n}
    BY DEF Waiting
  <2>9. Waiting' = {sendQueue'[i].event : i \in 1 .. n + 1}
    BY <2>5 DEF Waiting
  <2>10. /\ \A i \in 1 .. n : Right(sendQueue[i].event, memory'[sendQueue[i].block])
         /\ \A i, j \in 1 .. n : i # j => sendQueue[i].event # sendQueue[j].event
    BY <1>1 DEF OnePlace
  <2> HIDE DEF n
  <2>11. /\ \A i \in 1 .. n + 1 : i \in 1 .. n \/ i = n + 1
         /\ \A i \in 1 .. n : i \in 1 .. n + 1
         /\ n + 1 \in 1 .. n + 1
    BY <2>2
  <2>12. Waiting' = Waiting \cup {e.event}
    BY <2>5, <2>8, <2>9, <2>11
  <2>13. \A i \in 1 .. n + 1 : Right(sendQueue'[i].event, memory'[sendQueue'[i].block])
    BY <2>5, <2>6, <2>10, <2>11
  <2>14. \A i, j \in 1 .. n + 1 : i # j => sendQueue'[i].event # sendQueue'[j].event
    BY <2>5, <2>7, <2>8, <2>10, <2>11
  <2>15. Active' = Active /\ Leaving' = Leaving /\ Sent' = Sent
    BY <2>1 DEF Active, Leaving, Sent
  <2>16. /\ Waiting' \cap Leaving' = {} /\ Waiting' \cap Sent' = {}
         /\ Leaving' \cap Sent' = {}
    BY <2>7, <2>12, <2>15 DEF OnePlace
  <2>17. /\ \A t \in Active : Right(sending[t][1].event, memory'[sending[t][1].block])
         /\ \A i \in 1 .. Len(wire) : Right(wire[i].event, wire[i].items)
         /\ \A t, u \in Active : t # u => sending[t][1].event # sending[u][1].event
         /\ \A i, j \in 1 .. Len(wire) : i # j => wire[i].event # wire[j].event
    BY <1>1 DEF OnePlace
  <2>18. QED
    BY <2>1, <2>5, <2>13, <2>14, <2>15, <2>16, <2>17 DEF OnePlace, Right
<1>4. ASSUME NEW t \in SendThreads, Dequeue(t) PROVE OnePlace'
  <2>1. PICK e \in Entry :
           /\ n \in Nat \ {0} /\ e = sendQueue[1] /\ Len(sendQueue') = n - 1
           /\ \A i \in 1 .. Len(sendQueue') : sendQueue'[i] = sendQueue[i + 1]
           /\ t \notin Active /\ Active' = Active \cup {t} /\ sending'[t] = <<e>>
           /\ sending' = [sending EXCEPT ![t] = <<e>>]
           /\ UNCHANGED <<memory, wire>>
    BY <1>4, Dequeued
  <2>2. sending'[t][1] = e /\ \A u \in Active : sending'[u][1] = sending[u][1]
    BY <2>1, EntryTypes DEF Active
  <2>3. Waiting = {sendQueue[i].event : i \in 1 .. n}
    BY DEF Waiting
  <2>4. Waiting' = {sendQueue'[i].event : i \in 1 .. n - 1}
    BY <2>1 DEF Waiting
  <2>5. /\ \A i \in 1 .. n : Right(sendQueue[i].event, memory'[sendQueue[i].block])
        /\ \A i, j \in 1 .. n : i # j => sendQueue[i].event # sendQueue[j].event
    BY <1>1 DEF OnePlace
  <2>6. \A i \in 1 .. n - 1 : sendQueue'[i] = sendQueue[i + 1]
    BY <2>1
  <2> HIDE DEF n
  <2>7. 1 \in 1 .. n /\ \A i \in 1 .. n - 1 : i + 1 \in 1 .. n /\ i + 1 # 1
    BY <2>1
  <2>8. Waiting' \subseteq Waiting /\ e.event \in Waiting /\ e.event \notin Waiting'
    <3>1. \A i \in 1 .. n - 1 : /\ sendQueue'[i].event \in Waiting
                                /\ sendQueue'[i].event # sendQueue[1].event
      BY <2>3, <2>5, <2>6, <2>7
    <3>2. QED
      BY <2>1, <2>3, <2>4, <2>7, <3>1
  <2>9. \A i, j \in 1 .. n - 1 : i # j => sendQueue'[i].event # sendQueue'[j].event
    <3>1. SUFFICES ASSUME NEW i \in 1 .. n - 1, NEW j \in 1 .. n - 1, i # j
                   PROVE  sendQueue'[i].event # sendQueue'[j].event
      OBVIOUS
    <3>2. i + 1 # j + 1
      BY <3>1, <2>1
    <3>3. QED
      BY <2>5, <2>6, <2>7, <3>2
  <2>10. \A i \in 1 .. n - 1 : Right(sendQueue'[i].event, memory'[sendQueue'[i].block])
    BY <2>5, <2>6, <2>7
  <2>11. Right(e.event, memory'[e.block])
    BY <2>1, <2>5, <2>7
  <2>12. Leaving' = Leaving \cup {e.event} /\ Sent' = Sent
    BY <2>1, <2>2 DEF Leaving, Sent
  <2>13. /\ Waiting' \cap Leaving' = {} /\ Waiting' \cap Sent' = {}
         /\ Leaving' \cap Sent' = {} /\ e.event \notin Leaving
    BY <2>8, <2>12 DEF OnePlace
  <2>14. \A x, u \in Active' : x # u => sending'[x][1].event # sending'[u][1].event
    <3>1. \A x \in Active : sending[x][1].event # e.event
      BY <2>13 DEF Leaving
    <3>2. \A x, u \in Active : x # u => sending[x][1].event # sending[u][1].event
      BY DEF OnePlace
    <3>3. QED
      BY <2>1, <2>2, <3>1, <3>2
  <2>15. \A x \in Active' : Right(sending'[x][1].event, memory'[sending'[x][1].block])
    BY <1>1, <2>1, <2>2, <2>11
  <2>16. /\ \A i \in 1 .. Len(wire) : Right(wire[i].event, wire[i].items)
         /\ \A i, j \in 1 .. Len(wire) : i # j => wire[i].event # wire[j].event
    BY <1>1 DEF OnePlace
  <2>17. QED
    BY <2>1, <2>9, <2>10, <2>13, <2>14, <2>15, <2>16 DEF OnePlace, Right
<1>5. ASSUME NEW t \in SendThreads, Transmit(t) PROVE OnePlace'
  <2> DEFINE k == Len(wire)
  <2>1. PICK e \in Entry :
           /\ t \in Active /\ e = sending[t][1] /\ Active' = Active \ {t}
           /\ sending' = [sending EXCEPT ![t] = <<>>]
           /\ wire' = Append(wire, [event |-> e.event, items |-> memory[e.block]])
           /\ UNCHANGED <<memory, sendQueue>>
    BY <1>5, Transmitted
  <2>2. \A u \in Active' : sending'[u][1] = sending[u][1]
    BY <2>1, EntryTypes DEF Active
  <2>3. Waiting' = Waiting /\ Leaving' = Leaving \ {e.event} /\ e.event \in Leaving
    <3>1. \A u \in Active' : sending[u][1].event # e.event
      BY <2>1 DEF OnePlace
    <3>2. QED
      BY <2>1, <2>2, <3>1 DEF Waiting, Leaving
  <2> DEFINE w == [event |-> e.event, items |-> memory[e.block]]
  <2>4. w \in [event : Nat \ {0}, items : Seq(Item)]
    BY DEF TypeOK, Entry
  <2>5. wire \in Seq([event : Nat \ {0}, items : Seq(Item)]) /\ k \in Nat
    BY DEF TypeOK
  <2>6. w.event = e.event /\ w.items = memory[e.block]
    OBVIOUS
  <2> HIDE DEF w
  <2>7. wire' = Append(wire, w)
    BY <2>1 DEF w
  <2>8. /\ Len(wire') = k + 1 /\ wire'[k + 1] = w /\ \A i \in 1 .. k : wire'[i] = wire[i]
    BY <2>4, <2>5, <2>7, AppendProperties
  <2>9. Right(w.event, w.items)
    BY <1>1, <2>1, <2>6
  <2>10. Sent = {wire[i].event : i \in 1 .. k}
    BY DEF Sent
  <2>11. Sent' = {wire'[i].event : i \in 1 .. k + 1}
    BY <2>8 DEF Sent
  <2>12. /\ \A i \in 1 .. k : Right(wire[i].event, wire[i].items)
         /\ \A i, j \in 1 .. k : i # j => wire[i].event # wire[j].event
    BY <1>1 DEF OnePlace
  <2> HIDE DEF k
  <2>13. /\ \A i \in 1 .. k + 1 : i \in 1 .. k \/ i = k + 1
         /\ \A i \in 1 .. k : i \in 1 .. k + 1
         /\ k + 1 \in 1 .. k + 1
    BY <2>5
  <2>14. Sent' = Sent \cup {e.event}
    BY <2>6, <2>8, <2>10, <2>11, <2>13
  <2>15. e.event \notin Sent
    BY <2>3 DEF OnePlace
  <2>16. \A i \in 1 .. k + 1 : Right(wire'[i].event, wire'[i].items)
    BY <2>8, <2>9, <2>12, <2>13
  <2>17. \A i, j \in 1 .. k + 1 : i # j => wire'[i].event # wire'[j].event
    BY <2>6, <2>8, <2>10, <2>12, <2>13, <2>15
  <2>18. /\ Waiting' \cap Leaving' = {} /\ Waiting' \cap Sent' = {}
         /\ Leaving' \cap Sent' = {}
    BY <2>3, <2>14 DEF OnePlace
  <2>19. /\ \A x, u \in Active' : x # u => sending'[x][1].event # sending'[u][1].event
         /\ \A x \in Active' : Right(sending'[x][1].event, memory'[sending'[x][1].block])
    BY <1>1, <2>1, <2>2 DEF OnePlace
  <2>20. /\ \A i \in 1 .. n : Right(sendQueue[i].event, memory'[sendQueue[i].block])
         /\ \A i, j \in 1 .. n : i # j => sendQueue[i].event # sendQueue[j].event
    BY <1>1 DEF OnePlace
  <2>21. QED
    BY <2>1, <2>8, <2>16, <2>17, <2>18, <2>19, <2>20 DEF OnePlace, Right
<1>6. QED
  BY <1>2, <1>3, <1>4, <1>5
-----------------------------------------------------------------------------
(* The end of the loop.                                                    *)

LEMMA EndsNext == Ends /\ TypeOK /\ HoldsBuffer /\ PoolInv /\ [Next]_vars => Ends'
<1> SUFFICES ASSUME Ends, TypeOK, HoldsBuffer, PoolInv, [Next]_vars PROVE Ends'
  OBVIOUS
<1> USE DEF At
<1>1. CASE ControlStep
  <2>1. UNCHANGED <<config, length, read, pendingItem, sendCount>>
    BY <1>1, DataKept
  <2>2. Exhausted' = Exhausted /\ AtLimit' = AtLimit
    BY <2>1 DEF Exhausted, AtLimit
  <2> USE <2>1, <2>2 DEF Ends, counts
  <2>3. CASE Main
    BY <2>3 DEF Main, Parse, MapVersion, MakeDataSource, GetFlags, GetUri, MakeSegmenter,
       Construct, AddSenders
  <2>4. CASE OpenAndStart \/ PopMiss \/ LockPool \/ BadAlloc \/ BufferFull
    BY <2>4 DEF OpenAndStart, PopMiss, LockPool, BadAlloc, BufferFull
  <2>5. CASE NoItem
    BY <2>5 DEF NoItem, Packing, Exhausted
  <2>6. CASE CheckLimit
    BY <2>6 DEF CheckLimit, TypeOK
  <2>7. CASE Shutdown \/ DestroyPool \/ Interrupt \/ Handler
    BY <2>7 DEF Shutdown, DestroyPool, Interrupt, Handler, StopThreads, NothingToStop, Exit
  <2>8. CASE \/ \E t \in SendThreads : Callback(t)
             \/ UNCHANGED vars
    BY <2>8 DEF Callback, vars
  <2>9. QED
    BY <1>1, <2>3, <2>4, <2>5, <2>6, <2>7, <2>8 DEF ControlStep
<1>2. CASE PopRecycled \/ Malloc
  <2>1. /\ pc \in {"top", "malloc"}
        /\ UNCHANGED <<config, length, read, pendingItem, sendCount, done>>
    BY <1>2, BufferTaken
  <2>2. AtLimit' = AtLimit /\ ~AtLimit /\ ~done
    BY <2>1 DEF AtLimit, Ends
  <2>3. QED
    BY <2>1, <2>2 DEF Ends
<1>3. CASE PackPending \/ PackNext
  <2>1. pc = "pack" /\ UNCHANGED <<config, sendCount, done>>
    BY <1>3, Placed
  <2>2. AtLimit' = AtLimit /\ ~AtLimit /\ ~done
    BY <2>1 DEF AtLimit, Ends
  <2>3. QED
    BY <2>1, <2>2 DEF Ends
<1>4. CASE SendNothing \/ SendBuffer \/ SendRefused
  <2>1. /\ pc = "send" /\ pc' = "limit"
        /\ UNCHANGED <<config, length, read, pendingItem, done>>
        /\ sendCount' = sendCount \/ sendCount' = sendCount + 1
    BY <1>4 DEF SendNothing, SendBuffer, SendRefused, ForgetBuffer, source, counts
  <2>2. Exhausted' = Exhausted
    BY <2>1 DEF Exhausted
  <2>3. ~AtLimit /\ (done => Exhausted) /\ (config.nEvents # 0 => sendCount <= config.nEvents)
    BY <2>1 DEF Ends
  <2>4. sendCount \in Nat /\ config.nEvents \in Nat
    BY ConfigAssumption DEF TypeOK
  <2>5. config.nEvents # 0 => sendCount' <= config.nEvents
    BY <2>1, <2>3, <2>4 DEF AtLimit
  <2>6. QED
    BY <2>1, <2>2, <2>3, <2>5 DEF Ends
<1>5. ASSUME NEW t \in SendThreads, Dequeue(t) \/ Transmit(t) PROVE Ends'
  <2>1. UNCHANGED <<config, length, read, pendingItem, sendCount, done, pc>>
    BY <1>5, Dequeued, Transmitted
  <2>2. QED
    BY <2>1 DEF Ends, Exhausted, AtLimit
<1>6. QED
  BY <1>1, <1>2, <1>3, <1>4, <1>5, Steps

-----------------------------------------------------------------------------
(* The invariant of the program.                                           *)

SenderInv ==
  /\ TypeOK /\ HoldsBuffer /\ PoolOutlives /\ CallbackFindsBuffer
  /\ Listed /\ Ends /\ ItemsKept /\ Numbered /\ OnePlace

LEMMA InvInit == Init => SenderInv
<1> SUFFICES ASSUME Init PROVE SenderInv
  OBVIOUS
<1>1. TypeOK
  <2>1. <<>> \in Seq(Item) /\ Len(<<>>) = 0
    OBVIOUS
  <2>2. <<>> \in Seq(Entry) /\ <<>> \in Seq(Seq(Item))
    OBVIOUS
  <2>3. 0 \in 0 .. BufSize /\ "parse" \in Places
    BY SizeAssumption DEF Places
  <2>4. \A t \in SendThreads : sending[t] = <<>>
    BY DEF Init
  <2>5. sending \in [SendThreads -> Seq(Entry)] /\ \A t \in SendThreads : Len(sending[t]) <= 1
    BY <2>1, <2>2, <2>4 DEF Init
  <2>6. memory \in [Blocks -> Seq(Item)]
    BY <2>1 DEF Init
  <2>7. /\ sendQueue \in Seq(Entry) /\ packed \in Seq(Seq(Item))
        /\ accepted \in Seq([packed : Nat \ {0}, number : Nat])
        /\ wire \in Seq([event : Nat \ {0}, items : Seq(Item)])
    BY DEF Init
  <2>8. read \in Seq(Item) /\ pendingItem \in Seq(Item) /\ Len(pendingItem) <= 1
    BY <2>1 DEF Init
  <2>9. /\ given \in CommandLines \cup {{}} /\ config \in Configs /\ length \in Lengths
        /\ buffer \in Blocks \cup {NoBlock} /\ currentBytes \in 0 .. BufSize
        /\ totalBytes \in Nat /\ sendCount \in Nat
    BY <2>3 DEF Init
  <2>10. /\ senders \in {"none", "added", "removed", "kept"} /\ pc \in Places
         /\ handler \in {"none", "shutdown", "join", "exited"}
         /\ done \in BOOLEAN /\ stopping \in BOOLEAN
    BY <2>3 DEF Init
  <2>11. QED
    BY <2>5, <2>6, <2>7, <2>8, <2>9, <2>10 DEF TypeOK, Entry
<1>2. /\ Contents = <<>> /\ Active = {} /\ Queued = {} /\ OnTheWay = {}
      /\ Waiting = {} /\ Leaving = {} /\ Sent = {}
  BY DEF Init, Contents, Active, Queued, OnTheWay, Waiting, Leaving, Sent
<1>3. HoldsBuffer /\ PoolOutlives /\ Listed
  BY DEF Init, Pool!Init, HoldsBuffer, PoolOutlives, Listed
<1>4. CallbackFindsBuffer
  BY <1>2 DEF Init, CallbackFindsBuffer
<1>5. Ends
  <2>1. config.nEvents \in Nat
    BY <1>1, ConfigAssumption DEF TypeOK
  <2>2. QED
    BY <2>1 DEF Init, Ends, AtLimit
<1>6. ItemsKept
  <2>1. packed = <<>> /\ read = <<>> /\ pendingItem = <<>> /\ currentBytes = 0
    BY DEF Init
  <2>2. <<>> \in Seq(Item) /\ <<>> \o <<>> = <<>>
    BY ConcatEmptySeq
  <2>3. QED
    BY <1>2, <2>1, <2>2, FlattenEmpty, BytesEmpty, SizeAssumption DEF ItemsKept
<1>7. Numbered
  BY DEF Init, Numbered
<1>8. OnePlace
  BY <1>2 DEF Init, OnePlace
<1>9. QED
  BY <1>1, <1>3, <1>4, <1>5, <1>6, <1>7, <1>8 DEF SenderInv

LEMMA InvNext == SenderInv /\ PoolInv /\ [Next]_vars => SenderInv'
  BY TypeNext, HoldsNext, OutlivesNext, CallbackNext, ListedNext, EndsNext, ItemsNext,
     NumberedNext, OnePlaceNext
  DEF SenderInv

LEMMA Invariant == Spec => []SenderInv
<1>1. Spec => []PoolInv
  BY PoolSafe, PTL DEF PoolInv
<1>2. QED
  BY InvInit, InvNext, <1>1, PTL DEF Spec

\* The variables have their types in every reachable state.
THEOREM TypeCorrect == Spec => []TypeOK
  BY Invariant, PTL DEF SenderInv

\* Every item read is packed into one buffer, in the order of the source, and
\* no buffer holds more than the program allocates for it.
THEOREM AllItemsKept == Spec => []ItemsKept
  BY Invariant, PTL DEF SenderInv

\* A buffer queued for sending has one place, and the pool is there when its
\* callback comes.
THEOREM CallbackSafe == Spec => []CallbackFindsBuffer
  BY Invariant, PTL DEF SenderInv

\* What is sent is what was packed under the same event, and nothing twice; an
\* event number that is a time is that of the items sent.
THEOREM SentAsPacked == Spec => []WireIntact
<1>1. OnePlace /\ Numbered => WireIntact
  BY DEF OnePlace, Carries, Numbered, WireIntact
<1>2. QED
  BY <1>1, Invariant, PTL DEF SenderInv

\* The program leaves no sender at the load balancer that it did not ask to
\* remove, but where it ends before it has a Segmenter.
THEOREM SendersGone == Spec => []SendersRemoved
<1>1. Listed => SendersRemoved
  BY DEF Listed, SendersRemoved, Ended, Sending
<1>2. QED
  BY <1>1, Invariant, PTL DEF SenderInv

\* The loop never sends more than it is told to, and ends by itself only at the
\* limit or when everything that was read has been packed.
THEOREM EndedComplete == Spec => []EndsComplete
<1>1. ASSUME SenderInv PROVE EndsComplete
  <2> USE <1>1 DEF SenderInv
  <2>1. config.nEvents # 0 => sendCount <= config.nEvents
    BY DEF Ends
  <2>2. ASSUME done, pc \in {"return", "join", "end"}
        PROVE  AtLimit \/ (FlattenSeq(packed) = read /\ (config.ring \/ Len(read) = length))
    <3>1. CASE AtLimit
      BY <3>1
    <3>2. CASE ~AtLimit
      <4>1. Exhausted /\ pendingItem = <<>> /\ (config.ring \/ Len(read) = length)
        BY <2>2, <3>2 DEF Ends, Exhausted
      <4>2. Contents = <<>>
        BY <2>2, ContentsType
      <4>3. FlattenSeq(packed) \in Seq(Item)
        BY FlattenType DEF TypeOK
      <4>4. FlattenSeq(packed) \o <<>> \o <<>> = FlattenSeq(packed)
        BY <4>3, ConcatEmptySeq
      <4>5. FlattenSeq(packed) \o <<>> \o <<>> = read
        BY <4>1, <4>2 DEF ItemsKept
      <4>6. QED
        BY <4>1, <4>4, <4>5
    <3>3. QED
      BY <3>1, <3>2
  <2>3. QED
    BY <2>1, <2>2 DEF EndsComplete
<1>2. QED
  BY <1>1, Invariant, PTL

\* With --useCt event numbers count the buffers that were accepted, in the order
\* they were packed in, whatever is refused.
THEOREM NumbersOrdered == Spec => []NumbersInOrder
<1>1. Numbered => NumbersInOrder
  BY DEF Numbered, NumbersInOrder
<1>2. QED
  BY <1>1, Invariant, PTL DEF SenderInv

\* What is refused together covers the options of the other program, but one.
LEMMA ParsedFor ==
  ASSUME Parse
  PROVE  /\ pc' = "version" => given \cap ReceiverOptions = {}
         /\ pc' = "receiver" => given \cap SenderOptions \subseteq {"srcid"}
<1>1. /\ pc' = "version" => "send" \in given /\ ~OptionsRefused(given)
      /\ pc' = "receiver" => "recv" \in given /\ ~OptionsRefused(given)
  BY DEF Parse, Program
<1>2. \A o : /\ o \in ConflictsWithSend => {"send", o} \in Conflicts
             /\ o \in ConflictsWithRecv => {"recv", o} \in Conflicts
  BY DEF Conflicts
<1>3. ASSUME ~OptionsRefused(given)
      PROVE  \A o : /\ "send" \in given /\ o \in ConflictsWithSend => o \notin given
                    /\ "recv" \in given /\ o \in ConflictsWithRecv => o \notin given
  BY <1>2, <1>3 DEF OptionsRefused
<1>4. ReceiverOptions \subseteq ConflictsWithSend
  BY DEF ReceiverOptions, ConflictsWithSend
<1>5. SenderOptions \subseteq ConflictsWithRecv \cup {"srcid"}
  BY DEF SenderOptions, ConflictsWithRecv
<1>6. QED
  BY <1>1, <1>3, <1>4, <1>5

\* An option that is only for the other program is refused; --srcid is not.
THEOREM OptionsFit == Spec => OptionsMatchProgram
<1>1. [Next]_vars => [ /\ pc' = "version"  => given \cap ReceiverOptions = {}
                       /\ pc' = "receiver" => given \cap SenderOptions \subseteq {"srcid"} ]_pc
  <2> SUFFICES ASSUME [Next]_vars, pc' # pc, ~Parse
               PROVE  pc' # "version" /\ pc' # "receiver"
    BY ParsedFor
  <2> USE DEF At
  <2>1. CASE Main
    BY <2>1 DEF Main, MapVersion, MakeDataSource, GetFlags, GetUri, MakeSegmenter,
       Construct, AddSenders
  <2>2. CASE OpenAndStart \/ PopMiss \/ LockPool \/ BadAlloc \/ NoItem \/ BufferFull
    BY <2>2 DEF OpenAndStart, PopMiss, LockPool, BadAlloc, NoItem, BufferFull
  <2>3. CASE CheckLimit \/ Shutdown \/ DestroyPool \/ Interrupt \/ Handler
    BY <2>3 DEF CheckLimit, Shutdown, DestroyPool, Interrupt, Handler, StopThreads,
       NothingToStop, Exit
  <2>4. CASE PopRecycled \/ Malloc \/ PackPending \/ PackNext
    BY <2>4 DEF PopRecycled, Malloc, UseBuffer, PackPending, PackNext, Place
  <2>5. CASE SendNothing \/ SendBuffer \/ SendRefused
    BY <2>5 DEF SendNothing, SendBuffer, SendRefused, ForgetBuffer
  <2>6. CASE \/ \E t \in SendThreads : Dequeue(t) \/ Transmit(t) \/ Callback(t)
             \/ UNCHANGED vars
    BY <2>6 DEF Dequeue, Transmit, Callback, vars
  <2>7. QED
    BY <2>1, <2>2, <2>3, <2>4, <2>5, <2>6, Steps DEF ControlStep
<1>2. QED
  BY <1>1, PTL DEF Spec, OptionsMatchProgram

===============================================================================
